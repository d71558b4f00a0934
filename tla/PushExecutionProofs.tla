-------------------------- MODULE PushExecutionProofs --------------------------
(***************************************************************************)
(* Theorems of PushExecution, for every number of executors, Push Plans,   *)
(* actions and objects, every history of commits, and every bound on what  *)
(* moves and what goes wrong.                                              *)
(***************************************************************************)
EXTENDS PushKeepsPromise, FiniteSetTheorems, TLAPS

(***************************************************************************)
(* How many lines say succeeded                                            *)
(***************************************************************************)
Successes(lines) == {n \in 1 .. Len(lines) : lines[n] = "succeeded"}

LEMMA SucceededCounts ==
  ASSUME NEW lines \in Seq(Lines)
  PROVE  /\ IsFiniteSet(Successes(lines))
         /\ Succeeded(lines) = Cardinality(Successes(lines))
         /\ Succeeded(lines) \in Nat
<1>1. IsFiniteSet(1 .. Len(lines))
  BY FS_Interval
<1>2. IsFiniteSet(Successes(lines))
  BY <1>1, FS_Subset DEF Successes
<1> QED
  BY <1>2, FS_CardinalityType DEF Succeeded, Successes

LEMMA SucceededAppend ==
  ASSUME NEW lines \in Seq(Lines), NEW line \in Lines
  PROVE  Succeeded(Append(lines, line)) =
           IF line = "succeeded" THEN Succeeded(lines) + 1 ELSE Succeeded(lines)
<1> DEFINE more == Append(lines, line)
<1>1. /\ more \in Seq(Lines) /\ Len(more) = Len(lines) + 1 /\ Len(lines) \in Nat
      /\ more[Len(lines) + 1] = line
      /\ \A n \in 1 .. Len(lines) : more[n] = lines[n]
  OBVIOUS
<1> HIDE DEF more
<1>2. CASE line = "succeeded"
  <2>1. Successes(more) = Successes(lines) \cup {Len(lines) + 1}
    BY <1>1, <1>2 DEF Successes
  <2>2. Len(lines) + 1 \notin Successes(lines)
    BY <1>1 DEF Successes
  <2>3. Cardinality(Successes(more)) = Cardinality(Successes(lines)) + 1
    BY <2>1, <2>2, SucceededCounts, FS_AddElement
  <2>4. Succeeded(more) = Succeeded(lines) + 1
    BY <1>1, <2>3, SucceededCounts
  <2> QED
    BY <1>2, <2>4 DEF more
<1>3. CASE line # "succeeded"
  <2>1. Successes(more) = Successes(lines)
    BY <1>1, <1>3 DEF Successes
  <2> QED
    BY <1>1, <1>3, <2>1, SucceededCounts DEF more
<1> QED
  BY <1>2, <1>3

LEMMA SucceededPrefix ==
  ASSUME NEW lines \in Seq(Lines), NEW m \in 0 .. Len(lines), NEW n \in 0 .. m
  PROVE  /\ Succeeded(SubSeq(lines, 1, n)) <= Succeeded(SubSeq(lines, 1, m))
         /\ Succeeded(SubSeq(lines, 1, m)) <= Succeeded(lines)
         /\ SubSeq(lines, 1, m) \in Seq(Lines) /\ Len(SubSeq(lines, 1, m)) = m
<1>1. ASSUME NEW k \in 0 .. Len(lines)
      PROVE  /\ SubSeq(lines, 1, k) \in Seq(Lines) /\ Len(SubSeq(lines, 1, k)) = k
             /\ Successes(SubSeq(lines, 1, k)) = {i \in 1 .. k : lines[i] = "succeeded"}
  <2>1. /\ SubSeq(lines, 1, k) \in Seq(Lines) /\ Len(SubSeq(lines, 1, k)) = k
        /\ \A i \in 1 .. k : SubSeq(lines, 1, k)[i] = lines[i]
    OBVIOUS
  <2> QED
    BY <2>1 DEF Successes
<1>2. Successes(SubSeq(lines, 1, n)) \subseteq Successes(SubSeq(lines, 1, m))
  BY <1>1
<1>3. Successes(SubSeq(lines, 1, m)) \subseteq Successes(lines)
  BY <1>1 DEF Successes
<1>4. /\ SubSeq(lines, 1, m) \in Seq(Lines) /\ Len(SubSeq(lines, 1, m)) = m
      /\ SubSeq(lines, 1, n) \in Seq(Lines)
  BY <1>1
<1>5. Cardinality(Successes(SubSeq(lines, 1, n))) <= Cardinality(Successes(SubSeq(lines, 1, m)))
  BY <1>2, <1>4, SucceededCounts, FS_Subset
<1>6. Cardinality(Successes(SubSeq(lines, 1, m))) <= Cardinality(Successes(lines))
  BY <1>3, SucceededCounts, FS_Subset
<1> QED
  BY <1>4, <1>5, <1>6, SucceededCounts

LEMMA NothingSucceeded == Succeeded(<<>>) = 0 /\ Succeeded(<<"header">>) = 0
<1>1. Successes(<<>>) = {} /\ Successes(<<"header">>) = {}
  BY DEF Successes
<1>2. <<>> \in Seq(Lines) /\ <<"header">> \in Seq(Lines)
  BY DEF Lines
<1> QED
  BY <1>1, <1>2, SucceededCounts, FS_EmptySet

(***************************************************************************)
(* One execution                                                           *)
(***************************************************************************)
\* The step that a call takes, or takes once its log line is synchronized.
Aim(j) == IF j.phase = "sync" THEN j.after ELSE j.phase

AtAction == {"local", "remote", "push", "prove"}

Says(l, line) == \E n \in 1 .. Len(l.lines) : l.lines[n] = line

\* What is true of a result log, the call that writes it and what that call has
\* published: the call is at the action after those that its log calls succeeded,
\* goes on only when all of it is synchronized, and publishes only when the log
\* is kept; a log that says complete says so last, and of every action.
ExecOK(l, j, done) ==
  /\ l \in Log /\ l.synced <= Len(l.lines) /\ j \in Job /\ done \subseteq Actions
  /\ j.phase = "sync" => j.after \in {"keep", "local", "summary", "idle"}
  /\ Aim(j) \in AtAction => j.a \in Actions
  /\ Aim(j) \in {"keep", "check"} => j.a = 1
  /\ Aim(j) \in AtAction \cup {"check", "summary"} => l.kept
  /\ j.phase # "idle" => l.plan \in Plans /\ Succeeded(l.lines) = j.a - 1
  /\ j.phase \notin {"idle", "sync"} => l.synced = Len(l.lines)
  /\ l.plan = NoPlan => l.lines = <<>>
  /\ Succeeded(l.lines) <= ActionCount
  /\ ~ l.kept => done = {}
  /\ done \subseteq 1 .. Succeeded(Durable(l)) + 1
  /\ Aim(j) # "idle" => ~ Says(l, "complete")
  /\ \A n \in 1 .. Len(l.lines) :
       l.lines[n] = "complete" => n = Len(l.lines) /\ Succeeded(l.lines) = ActionCount

LEMMA JobAt ==
  ASSUME NEW j \in Job, NEW phase \in Phases, NEW k, k = [j EXCEPT !.phase = phase]
  PROVE  k \in Job /\ k.phase = phase /\ k.after = j.after /\ k.a = j.a
  BY DEF Job

LEMMA JobSyncs ==
  ASSUME NEW j \in Job, NEW after \in Phases,
         NEW k, k = [j EXCEPT !.phase = "sync", !.after = after]
  PROVE  k \in Job /\ k.phase = "sync" /\ k.after = after /\ k.a = j.a
<1> DEFINE m == [j EXCEPT !.phase = "sync"]
<1>1. m \in Job /\ m.phase = "sync" /\ m.a = j.a
  BY JobAt DEF Phases
<1>2. k = [m EXCEPT !.after = after]
  OBVIOUS
<1> HIDE DEF m
<1> QED
  BY <1>1, <1>2 DEF Job

LEMMA RestingFields ==
  Resting \in Job /\ Resting.phase = "idle" /\ Resting.after = "idle" /\ Resting.a = 1
<1>1. 1 \in 1 .. ActionCount + 1
  BY LimitsAssumption
<1>2. [a \in Actions |-> Absent] \in [Actions -> MaybeObject]
  BY DEF MaybeObject
<1> QED
  BY <1>1, <1>2 DEF Resting, Job, Phases

\* The call ends without a report.
LEMMA RestOK ==
  ASSUME NEW l, NEW j, NEW done, ExecOK(l, j, done)
  PROVE  ExecOK(l, Resting, done)
  BY RestingFields DEF ExecOK, Aim, AtAction

\* The call goes on, its log being synchronized.
LEMMA GotoOK ==
  ASSUME NEW l, NEW j, NEW done, ExecOK(l, j, done), j.phase \notin {"idle", "sync"},
         NEW phase \in AtAction \cup {"summary"}, l.kept, phase \in AtAction => j.a \in Actions
  PROVE  ExecOK(l, [j EXCEPT !.phase = phase], done)
<1> DEFINE k == [j EXCEPT !.phase = phase]
<1>1. j \in Job /\ phase \in Phases
  BY DEF ExecOK, AtAction, Phases
<1>2. k \in Job /\ k.phase = phase /\ k.a = j.a
  BY <1>1, JobAt
<1>3. Aim(j) # "idle" /\ Aim(k) = phase /\ phase \notin {"sync", "idle", "keep", "check"}
  BY <1>2 DEF Aim, AtAction
<1> HIDE DEF k
<1>4. ExecOK(l, k, done)
  BY <1>2, <1>3 DEF ExecOK
<1> QED
  BY <1>4 DEF k

\* The prefix of a log that is on the disk is that of the log without what was
\* appended since.
LEMMA AppendedLog ==
  ASSUME NEW l \in Log, l.synced <= Len(l.lines), NEW line \in Lines
  PROVE  LET more == [l EXCEPT !.lines = Append(@, line)] IN
         /\ more \in Log /\ more.synced = l.synced /\ more.synced <= Len(more.lines)
         /\ more.lines = Append(l.lines, line) /\ more.plan = l.plan /\ more.kept = l.kept
         /\ Durable(more) = Durable(l)
<1> DEFINE more == [l EXCEPT !.lines = Append(@, line)]
<1>1. l.lines \in Seq(Lines) /\ l.synced \in 0 .. Len(l.lines) /\ Append(l.lines, line) \in Seq(Lines)
  BY DEF Log
<1>2. /\ more \in Log /\ more.synced = l.synced
      /\ more.lines = Append(l.lines, line) /\ more.plan = l.plan /\ more.kept = l.kept
  BY <1>1 DEF Log
<1>3. l.synced <= Len(Append(l.lines, line))
  BY <1>1
<1>4. SubSeq(Append(l.lines, line), 1, l.synced) = SubSeq(l.lines, 1, l.synced)
  BY <1>1
<1> HIDE DEF more
<1>5. Durable(more) = Durable(l) /\ more.synced <= Len(more.lines)
  BY <1>2, <1>3, <1>4 DEF Durable
<1> QED
  BY <1>2, <1>5 DEF more

\* The call appends a line and goes to synchronize it.
LEMMA WriteOK ==
  ASSUME NEW l, NEW j, NEW done, ExecOK(l, j, done), j.phase \notin {"idle", "sync", "keep"}, l.kept,
         NEW line \in Lines, NEW m \in Job, NEW after \in {"local", "summary", "idle"},
         m.a = IF line = "succeeded" THEN j.a + 1 ELSE j.a,
         after = "local" => m.a \in Actions,
         line = "complete" => after = "idle" /\ j.a = ActionCount + 1
  PROVE  ExecOK([l EXCEPT !.lines = Append(@, line)], [m EXCEPT !.phase = "sync", !.after = after],
                done)
<1> DEFINE more == [l EXCEPT !.lines = Append(@, line)]
           k == [m EXCEPT !.phase = "sync", !.after = after]
<1>1. /\ l \in Log /\ l.lines \in Seq(Lines) /\ l.synced <= Len(l.lines) /\ j \in Job
      /\ Succeeded(l.lines) = j.a - 1 /\ l.plan \in Plans /\ ~ Says(l, "complete")
      /\ done \subseteq Actions /\ done \subseteq 1 .. Succeeded(Durable(l)) + 1
  BY DEF ExecOK, Log, Aim
<1>2. /\ more \in Log /\ more.synced <= Len(more.lines) /\ more.lines = Append(l.lines, line)
      /\ more.plan = l.plan /\ more.kept = l.kept /\ Durable(more) = Durable(l)
  BY <1>1, AppendedLog
<1>3. k \in Job /\ k.phase = "sync" /\ k.after = after /\ k.a = m.a
  <2>1. after \in Phases
    BY DEF Phases
  <2> QED
    BY <2>1, JobSyncs
<1> HIDE DEF more, k
<1>4. Aim(k) = after
  BY <1>3 DEF Aim
<1>5. Succeeded(more.lines) = k.a - 1
  BY <1>1, <1>2, <1>3, SucceededAppend, SucceededCounts DEF Job
<1>6. /\ Len(more.lines) = Len(l.lines) + 1 /\ more.lines[Len(l.lines) + 1] = line
      /\ \A n \in 1 .. Len(l.lines) : more.lines[n] = l.lines[n] /\ l.lines[n] # "complete"
      /\ Len(l.lines) \in Nat
  BY <1>1, <1>2 DEF Says
<1>7. \A n \in 1 .. Len(more.lines) : more.lines[n] = "complete" =>
        n = Len(more.lines) /\ line = "complete"
  BY <1>6
<1>8. /\ line = "complete" => Succeeded(more.lines) = ActionCount
      /\ Succeeded(more.lines) <= ActionCount
  BY <1>1, <1>3, <1>5, LimitsAssumption DEF Job
<1>9. Aim(k) # "idle" => ~ Says(more, "complete")
  BY <1>4, <1>7 DEF Says
<1>10. ExecOK(more, k, done)
  BY <1>1, <1>2, <1>3, <1>4, <1>5, <1>7, <1>8, <1>9, PlansAssumption DEF ExecOK, AtAction
<1> QED
  BY <1>10 DEF more, k

LEMMA LogFields ==
  ASSUME NEW l, NEW j, NEW done, ExecOK(l, j, done)
  PROVE  /\ l.lines \in Seq(Lines) /\ Len(l.lines) \in Nat /\ l.synced \in 0 .. Len(l.lines)
         /\ Durable(l) \in Seq(Lines) /\ Succeeded(Durable(l)) \in Nat
         /\ Succeeded(l.lines) \in Nat /\ Succeeded(Durable(l)) <= Succeeded(l.lines)
<1>1. l.lines \in Seq(Lines) /\ Len(l.lines) \in Nat /\ l.synced \in 0 .. Len(l.lines)
  BY DEF ExecOK, Log
<1>2. /\ Durable(l) \in Seq(Lines) /\ Succeeded(Durable(l)) <= Succeeded(l.lines)
  BY <1>1, SucceededPrefix DEF Durable
<1> QED
  BY <1>1, <1>2, SucceededCounts

LEMMA SuccessesAreActions ==
  ASSUME NEW l, NEW j, NEW done, ExecOK(l, j, done)
  PROVE  1 .. Succeeded(l.lines) \subseteq Actions
<1>1. Succeeded(l.lines) \in Nat
  BY LogFields
<1>2. Succeeded(l.lines) <= ActionCount
  BY DEF ExecOK
<1> QED
  BY <1>1, <1>2, LimitsAssumption DEF Actions

\* The line that was written is synchronized.
LEMMA SyncOK ==
  ASSUME NEW l, NEW j, NEW done, ExecOK(l, j, done), j.phase = "sync",
         NEW m, m = IF j.after = "idle" THEN Resting ELSE [j EXCEPT !.phase = j.after]
  PROVE  ExecOK([l EXCEPT !.synced = Len(l.lines)], m, done)
<1> DEFINE s == [l EXCEPT !.synced = Len(l.lines)]
<1>1. /\ l.lines \in Seq(Lines) /\ Len(l.lines) \in Nat
      /\ Succeeded(Durable(l)) <= Succeeded(l.lines)
      /\ Succeeded(Durable(l)) \in Nat /\ Succeeded(l.lines) \in Nat
  BY LogFields
<1>2. /\ s \in Log /\ s.lines = l.lines /\ s.synced = Len(l.lines)
      /\ s.plan = l.plan /\ s.kept = l.kept
  BY <1>1 DEF ExecOK, Log
<1> HIDE DEF s
<1>3. Durable(s) = l.lines
  BY <1>1, <1>2 DEF Durable
<1>4. /\ m \in Job /\ m.phase = j.after /\ (m.phase # "idle" => m.a = j.a)
      /\ m.phase \in {"keep", "local", "summary", "idle"}
  <2>1. j.after \in {"keep", "local", "summary", "idle"} /\ j \in Job
    BY DEF ExecOK
  <2>2. CASE j.after = "idle"
    BY <2>1, <2>2, RestingFields
  <2>3. CASE j.after # "idle"
    BY <2>1, <2>3, JobAt DEF Phases
  <2> QED
    BY <2>2, <2>3
<1>5. Aim(m) = j.after /\ Aim(j) = j.after
  BY <1>4 DEF Aim
<1>6. done \subseteq 1 .. Succeeded(Durable(s)) + 1
  BY <1>1, <1>3 DEF ExecOK
<1>7. Aim(m) # "idle" => ~ Says(s, "complete")
  BY <1>2, <1>5 DEF ExecOK, Says
<1>8. ExecOK(s, m, done)
  BY <1>1, <1>2, <1>4, <1>5, <1>6, <1>7 DEF ExecOK, AtAction
<1> QED
  BY <1>8 DEF s

\* The directory of the log is synchronized.
LEMMA KeepOK ==
  ASSUME NEW l, NEW j, NEW done, ExecOK(l, j, done), j.phase = "keep"
  PROVE  ExecOK([l EXCEPT !.kept = TRUE], [j EXCEPT !.phase = "check"], done)
<1> DEFINE s == [l EXCEPT !.kept = TRUE]
           m == [j EXCEPT !.phase = "check"]
<1>1. /\ s \in Log /\ s.lines = l.lines /\ s.synced = l.synced
      /\ s.plan = l.plan /\ s.kept
  BY DEF ExecOK, Log
<1>2. m \in Job /\ m.phase = "check" /\ m.a = j.a
  BY JobAt DEF ExecOK, Phases
<1> HIDE DEF s, m
<1>3. Aim(m) = "check" /\ Aim(j) = "keep"
  BY <1>2 DEF Aim
<1>4. Durable(s) = Durable(l) /\ (Says(s, "complete") <=> Says(l, "complete"))
  BY <1>1 DEF Durable, Says
<1>5. ExecOK(s, m, done)
  BY <1>1, <1>2, <1>3, <1>4 DEF ExecOK, AtAction
<1> QED
  BY <1>5 DEF s, m

\* git moves the remote: every action before this one is on the disk.
LEMMA PushedOK ==
  ASSUME NEW l, NEW j, NEW done, ExecOK(l, j, done), j.phase = "push"
  PROVE  ExecOK(l, j, done \cup {j.a}) /\ l.kept /\ j.a \in Actions
<1>1. Aim(j) = "push" /\ j.a \in Actions /\ l.kept
  BY DEF Aim, ExecOK, AtAction
<1>2. l.synced = Len(l.lines) /\ Succeeded(l.lines) = j.a - 1 /\ l.lines \in Seq(Lines)
  BY LogFields DEF ExecOK
<1>3. Durable(l) = l.lines
  BY <1>2 DEF Durable
<1>4. j.a \in 1 .. Succeeded(Durable(l)) + 1
  BY <1>1, <1>2, <1>3 DEF Actions
<1> QED
  BY <1>1, <1>4 DEF ExecOK

\* A power loss leaves a prefix of the log with all of what was synchronized, or no
\* log when its directory was not.
LEMMA SurvivorOK ==
  ASSUME NEW l, NEW j, NEW done, ExecOK(l, j, done), NEW s \in Survivors(l)
  PROVE  /\ ExecOK(s, Resting, done)
         /\ \/ s = NoLog
            \/ s.plan = l.plan /\ Succeeded(s.lines) <= Succeeded(l.lines)
<1>1. Resting \in Job /\ Resting.phase = "idle" /\ Aim(Resting) = "idle"
  BY RestingFields DEF Aim
<1>2. /\ l.lines \in Seq(Lines) /\ Len(l.lines) \in Nat /\ l.synced \in 0 .. Len(l.lines)
      /\ Succeeded(Durable(l)) \in Nat
  BY LogFields
<1>3. CASE s = NoLog /\ ~ l.kept
  <2>1. /\ NoLog \in Log /\ NoLog.lines = <<>> /\ NoLog.synced = 0 /\ NoLog.plan = NoPlan
        /\ Len(NoLog.lines) = 0 /\ Succeeded(NoLog.lines) <= ActionCount
    BY NothingSucceeded, LimitsAssumption DEF NoLog, Log
  <2>2. done = {}
    BY <1>3 DEF ExecOK
  <2> QED
    BY <1>1, <1>3, <2>1, <2>2 DEF ExecOK, AtAction
<1>4. ASSUME NEW n \in l.synced .. Len(l.lines),
             s = [l EXCEPT !.lines = SubSeq(l.lines, 1, n), !.synced = n, !.kept = TRUE]
      PROVE  /\ ExecOK(s, Resting, done)
             /\ s.plan = l.plan /\ Succeeded(s.lines) <= Succeeded(l.lines)
  <2> DEFINE short == SubSeq(l.lines, 1, n)
  <2>1. /\ n \in 0 .. Len(l.lines) /\ short \in Seq(Lines) /\ Len(short) = n
        /\ \A i \in 1 .. n : short[i] = l.lines[i]
        /\ n = Len(l.lines) => short = l.lines
        /\ SubSeq(short, 1, n) = short
    BY <1>2, <1>4
  <2>2. /\ Succeeded(SubSeq(l.lines, 1, l.synced)) <= Succeeded(short)
        /\ Succeeded(short) <= Succeeded(l.lines)
    BY <1>2, <1>4, <2>1, SucceededPrefix
  <2> HIDE DEF short
  <2>3. /\ s \in Log /\ s.lines = short /\ s.synced = n /\ s.kept /\ s.plan = l.plan
    <3> DEFINE a == [l EXCEPT !.lines = short]
    <3>1. a \in Log /\ a.lines = short /\ a.plan = l.plan
      BY <2>1 DEF ExecOK, Log
    <3> DEFINE b == [a EXCEPT !.synced = n]
    <3>2. s = [b EXCEPT !.kept = TRUE]
      BY <1>4 DEF short
    <3> HIDE DEF a
    <3>3. b \in Log /\ b.lines = short /\ b.plan = l.plan /\ b.synced = n
      BY <2>1, <3>1 DEF Log
    <3> HIDE DEF b
    <3> QED
      BY <3>2, <3>3 DEF Log
  <2>4. Durable(s) = short
    BY <2>1, <2>3 DEF Durable
  <2>5. Succeeded(short) \in Nat /\ done \subseteq 1 .. Succeeded(short) + 1
    BY <1>2, <2>1, <2>2, SucceededCounts DEF ExecOK, Durable
  <2>6. \A i \in 1 .. Len(s.lines) :
          s.lines[i] = "complete" => i = Len(s.lines) /\ Succeeded(s.lines) = ActionCount
    <3> SUFFICES ASSUME NEW i \in 1 .. n, short[i] = "complete"
                 PROVE  i = n /\ Succeeded(short) = ActionCount
      BY <2>1, <2>3
    <3>1. i \in 1 .. Len(l.lines) /\ l.lines[i] = "complete"
      BY <1>2, <2>1
    <3>2. i = Len(l.lines) /\ Succeeded(l.lines) = ActionCount
      BY <3>1 DEF ExecOK
    <3>3. n = Len(l.lines)
      BY <1>2, <2>1, <3>2
    <3> QED
      BY <2>1, <3>2, <3>3
  <2>7. /\ s.plan = NoPlan => s.lines = <<>>
        /\ Succeeded(short) <= ActionCount
    BY <1>2, <2>1, <2>2, <2>3, SucceededCounts, LimitsAssumption DEF ExecOK
  <2> QED
    BY <1>1, <2>1, <2>2, <2>3, <2>4, <2>5, <2>6, <2>7 DEF ExecOK, AtAction
<1> QED
  BY <1>3, <1>4 DEF Survivors

\* A new log with its header.
LEMMA StartOK ==
  ASSUME NEW k \in Plans, local \in [Actions -> Objects],
         NEW l, l = [NoLog EXCEPT !.plan = k, !.lines = <<"header">>],
         NEW j, j = [Resting EXCEPT !.phase = "sync", !.after = "keep", !.audit = local]
  PROVE  ExecOK(l, j, {}) /\ l.plan = k /\ Succeeded(l.lines) = 0
<1>1. /\ l \in Log /\ l.lines = <<"header">> /\ l.synced = 0 /\ l.plan = k /\ ~ l.kept
  <2> DEFINE a == [NoLog EXCEPT !.plan = k]
  <2>1. NoLog \in Log /\ NoLog.synced = 0 /\ ~ NoLog.kept
    BY DEF NoLog, Log
  <2>2. a \in Log /\ a.synced = 0 /\ a.plan = k /\ ~ a.kept
    BY <2>1 DEF Log
  <2>3. l = [a EXCEPT !.lines = <<"header">>]
    OBVIOUS
  <2>4. <<"header">> \in Seq(Lines)
    BY DEF Lines
  <2> HIDE DEF a
  <2> QED
    BY <2>2, <2>3, <2>4 DEF Log
<1>2. /\ j \in Job /\ j.phase = "sync" /\ j.after = "keep" /\ j.a = 1
  <2> DEFINE a == [Resting EXCEPT !.phase = "sync"]
             b == [a EXCEPT !.after = "keep"]
  <2>1. a \in Job /\ a.phase = "sync" /\ a.a = 1
    BY RestingFields DEF Job, Phases
  <2>2. j = [b EXCEPT !.audit = local]
    OBVIOUS
  <2> HIDE DEF a
  <2>3. b \in Job /\ b.phase = "sync" /\ b.after = "keep" /\ b.a = 1
    BY <2>1 DEF Job, Phases
  <2>4. local \in [Actions -> MaybeObject]
    BY DEF MaybeObject
  <2> HIDE DEF b
  <2> QED
    BY <2>2, <2>3, <2>4 DEF Job
<1>3. Aim(j) = "keep" /\ Len(l.lines) = 1 /\ l.lines[1] = "header"
  BY <1>1, <1>2 DEF Aim
<1>4. Succeeded(l.lines) = 0 /\ 0 <= ActionCount
  BY <1>1, NothingSucceeded, LimitsAssumption
<1>5. ~ Says(l, "complete")
  BY <1>3 DEF Says
<1> QED
  BY <1>1, <1>2, <1>3, <1>4, <1>5, PlansAssumption DEF ExecOK, AtAction

(***************************************************************************)
(* All executions, the references and the documents                        *)
(***************************************************************************)
\* What every reference has been, and what the documents propose.
WorldOK ==
  /\ local \in [Actions -> Objects]
  /\ remote \in [Actions -> MaybeObject]
  /\ was \in [Actions -> SUBSET MaybeObject]
  /\ \A a \in Actions : remote[a] \in was[a]
  /\ plan \in [Plans -> Document]
  /\ approved \subseteq Plans /\ \A k \in approved : plan[k].drafted
  /\ expired \subseteq Plans

\* A log is that of a drafted document, and every success in it was seen.
ProvenOK(l, documented, seen) ==
  /\ l.plan \in Plans => documented[l.plan].drafted
  /\ \A a \in 1 .. Succeeded(l.lines) : documented[l.plan].new[a] \in seen[a]

PushInv ==
  /\ WorldOK
  /\ log \in [Executors -> Log] /\ job \in [Executors -> Job]
  /\ pushed \in [Executors -> SUBSET Actions]
  /\ \A e \in Executors : ExecOK(log[e], job[e], pushed[e]) /\ ProvenOK(log[e], plan, was)

LEMMA PushInvSays ==
  ASSUME PushInv
  PROVE  TypeOK /\ PublishedIsLogged /\ SuccessIsProven /\ CompleteIsTrue
<1>1. TypeOK
  BY DEF PushInv, WorldOK, TypeOK, ExecOK
<1>2. PublishedIsLogged
  BY DEF PushInv, PublishedIsLogged, ExecOK
<1>3. SuccessIsProven
  BY DEF PushInv, SuccessIsProven, ProvenOK, Plan
<1>4. CompleteIsTrue
  <2> SUFFICES ASSUME NEW e \in Executors, log[e].lines # <<>>, Reported(e) = "complete"
               PROVE  Succeeded(log[e].lines) = ActionCount
    BY DEF CompleteIsTrue
  <2>1. ExecOK(log[e], job[e], pushed[e])
    BY DEF PushInv
  <2>2. log[e].lines \in Seq(Lines) /\ Len(log[e].lines) \in Nat
    BY <2>1, LogFields
  <2>3. Len(log[e].lines) \in 1 .. Len(log[e].lines)
    BY <2>2
  <2> QED
    BY <2>1, <2>3 DEF ExecOK, Reported
<1> QED
  BY <1>1, <1>2, <1>3, <1>4

\* A step of one execution: the others keep theirs, and what their logs call
\* succeeded stays so because a document is immutable once it is drafted.
LEMMA StepOf ==
  ASSUME PushInv, WorldOK', NEW e \in Executors,
         NEW l, NEW j, NEW done,
         log' = [log EXCEPT ![e] = l], job' = [job EXCEPT ![e] = j],
         pushed' = [pushed EXCEPT ![e] = done],
         plan' = plan, \A a \in Actions : was[a] \subseteq was'[a],
         ExecOK(l, j, done), ProvenOK(l, plan', was')
  PROVE  PushInv'
<1>1. /\ log' \in [Executors -> Log] /\ job' \in [Executors -> Job]
      /\ pushed' \in [Executors -> SUBSET Actions]
  BY DEF PushInv, ExecOK
<1>2. ASSUME NEW f \in Executors
      PROVE  ExecOK(log'[f], job'[f], pushed'[f]) /\ ProvenOK(log'[f], plan', was')
  <2>1. CASE f = e
    <3>1. log'[f] = l /\ job'[f] = j /\ pushed'[f] = done
      BY <2>1 DEF PushInv
    <3> QED
      BY <3>1
  <2>2. CASE f # e
    <3>1. log'[f] = log[f] /\ job'[f] = job[f] /\ pushed'[f] = pushed[f]
      BY <2>2 DEF PushInv
    <3>2. ExecOK(log[f], job[f], pushed[f]) /\ ProvenOK(log[f], plan, was)
      BY DEF PushInv
    <3>3. ExecOK(log'[f], job'[f], pushed'[f])
      BY <3>1, <3>2
    <3>4. ProvenOK(log'[f], plan', was')
      BY <3>1, <3>2, SuccessesAreActions DEF ProvenOK
    <3> QED
      BY <3>3, <3>4
  <2> QED
    BY <2>1, <2>2
<1> QED
  BY <1>1, <1>2 DEF PushInv

LEMMA SameWorld ==
  ASSUME PushInv, UNCHANGED <<references, documents>>
  PROVE  WorldOK' /\ plan' = plan /\ \A a \in Actions : was[a] \subseteq was'[a]
  BY DEF PushInv, WorldOK, references, documents

LEMMA OfExecutor ==
  ASSUME PushInv, NEW e \in Executors
  PROVE  /\ ExecOK(log[e], job[e], pushed[e]) /\ ProvenOK(log[e], plan, was)
         /\ log[e] \in Log /\ job[e] \in Job /\ pushed[e] \in SUBSET Actions
         /\ log = [log EXCEPT ![e] = log[e]] /\ pushed = [pushed EXCEPT ![e] = pushed[e]]
  BY DEF PushInv

LEMMA ProvenLonger ==
  ASSUME NEW l, NEW j, NEW done, ExecOK(l, j, done), ProvenOK(l, plan, was), plan' = plan,
         \A a \in Actions : was[a] \subseteq was'[a]
  PROVE  ProvenOK(l, plan', was')
  BY SuccessesAreActions DEF ProvenOK

\* An execution goes on to its next step.
LEMMA GotoStep ==
  ASSUME PushInv, NEW e \in Executors, NEW phase \in AtAction \cup {"summary"}, NEW done,
         Goto(e, phase), UNCHANGED <<plan, log>>, WorldOK',
         \A a \in Actions : was[a] \subseteq was'[a],
         pushed' = [pushed EXCEPT ![e] = done], ExecOK(log[e], job[e], done),
         job[e].phase \notin {"idle", "sync"}, log[e].kept,
         phase \in AtAction => job[e].a \in Actions
  PROVE  PushInv'
<1> DEFINE j == [job[e] EXCEPT !.phase = phase]
<1>1. ExecOK(log[e], j, done)
  BY GotoOK
<1>2. job' = [job EXCEPT ![e] = j] /\ log' = [log EXCEPT ![e] = log[e]]
  BY OfExecutor DEF Goto, Become
<1>3. ProvenOK(log[e], plan', was')
  BY OfExecutor, ProvenLonger
<1> HIDE DEF j
<1> QED
  BY <1>1, <1>2, <1>3, StepOf

\* An execution appends a line to its log; a success was observed.
LEMMA WriteStep ==
  ASSUME PushInv, NEW e \in Executors, NEW line \in Lines, NEW m \in Job,
         NEW after \in {"local", "summary", "idle"}, NEW done,
         Write(e, line, m, after), UNCHANGED plan, WorldOK',
         \A a \in Actions : was[a] \subseteq was'[a],
         pushed' = [pushed EXCEPT ![e] = done], ExecOK(log[e], job[e], done),
         job[e].phase \notin {"idle", "sync", "keep"}, log[e].kept,
         m.a = IF line = "succeeded" THEN job[e].a + 1 ELSE job[e].a,
         after = "local" => m.a \in Actions,
         line = "complete" => after = "idle" /\ job[e].a = ActionCount + 1,
         line = "succeeded" => Plan(e).new[job[e].a] \in was[job[e].a] /\ job[e].a \in Actions
  PROVE  PushInv'
<1> DEFINE l == [log[e] EXCEPT !.lines = Append(@, line)]
           j == [m EXCEPT !.phase = "sync", !.after = after]
<1>1. ExecOK(l, j, done)
  BY WriteOK
<1>2. job' = [job EXCEPT ![e] = j] /\ log' = [log EXCEPT ![e] = l]
  BY DEF Write, Become
<1>3. log[e] \in Log /\ log[e].synced <= Len(log[e].lines) /\ log[e].lines \in Seq(Lines)
  BY LogFields DEF ExecOK
<1>4. l.plan = log[e].plan /\ l.lines = Append(log[e].lines, line)
  BY <1>3, AppendedLog
<1>5. /\ Succeeded(l.lines) =
           IF line = "succeeded" THEN Succeeded(log[e].lines) + 1 ELSE Succeeded(log[e].lines)
      /\ Succeeded(log[e].lines) \in Nat
  BY <1>3, <1>4, SucceededAppend, SucceededCounts
<1>6. Succeeded(log[e].lines) = job[e].a - 1 /\ job[e] \in Job
  BY DEF ExecOK
<1>7. ProvenOK(log[e], plan', was')
  BY OfExecutor, ProvenLonger
<1> HIDE DEF l, j
<1>8. ProvenOK(l, plan', was')
  <2>1. l.plan \in Plans => plan'[l.plan].drafted
    BY <1>4, <1>7 DEF ProvenOK
  <2>2. ASSUME NEW a \in 1 .. Succeeded(l.lines)
        PROVE  plan'[l.plan].new[a] \in was'[a]
    <3>1. CASE a \in 1 .. Succeeded(log[e].lines)
      BY <1>4, <1>7, <3>1 DEF ProvenOK
    <3>2. CASE a \notin 1 .. Succeeded(log[e].lines)
      <4>1. line = "succeeded" /\ a = job[e].a
        BY <1>5, <1>6, <3>2 DEF Job
      <4>2. plan[log[e].plan].new[a] \in was[a] /\ a \in Actions
        BY <4>1 DEF Plan
      <4> QED
        BY <1>4, <4>2
    <3> QED
      BY <3>1, <3>2
  <2> QED
    BY <2>1, <2>2 DEF ProvenOK
<1> QED
  BY <1>1, <1>2, <1>8, StepOf

\* An execution ends without a report.
LEMMA RestStep ==
  ASSUME PushInv, NEW e \in Executors, Become(e, Resting),
         UNCHANGED <<references, documents, log, pushed>>
  PROVE  PushInv'
<1>1. ExecOK(log[e], Resting, pushed[e])
  BY OfExecutor, RestOK
<1>2. WorldOK' /\ plan' = plan /\ \A a \in Actions : was[a] \subseteq was'[a]
  BY SameWorld
<1>3. ProvenOK(log[e], plan', was')
  BY <1>2, OfExecutor, ProvenLonger
<1>4. job' = [job EXCEPT ![e] = Resting]
  BY DEF Become
<1>5. log' = [log EXCEPT ![e] = log[e]] /\ pushed' = [pushed EXCEPT ![e] = pushed[e]]
  BY OfExecutor
<1> QED
  BY <1>1, <1>2, <1>3, <1>4, <1>5, StepOf

(***************************************************************************)
(* Each action keeps the invariant                                         *)
(***************************************************************************)
\* Every stop of an execution at work writes the failed action.
LEMMA StopStep ==
  ASSUME PushInv, NEW e \in Executors, NEW done, Write(e, "failed", job[e], "summary"),
         UNCHANGED plan, WorldOK', \A a \in Actions : was[a] \subseteq was'[a],
         pushed' = [pushed EXCEPT ![e] = done], ExecOK(log[e], job[e], done),
         job[e].phase \in AtAction
  PROVE  PushInv'
<1>1. log[e].kept /\ job[e] \in Job
  BY DEF ExecOK, Aim, AtAction
<1>2. "failed" \in Lines /\ "failed" # "succeeded" /\ "failed" # "complete"
  BY DEF Lines
<1>3. job[e].phase \notin {"idle", "sync", "keep"}
  BY DEF AtAction
<1> QED
  BY <1>1, <1>2, <1>3, WriteStep

LEMMA StopKeeps ==
  ASSUME PushInv, NEW e \in Executors, Stop(e), job[e].phase \in AtAction
  PROVE  PushInv'
<1>1. /\ Write(e, "failed", job[e], "summary")
      /\ UNCHANGED <<references, documents>> /\ pushed' = pushed
  BY DEF Stop
<1>2. WorldOK' /\ plan' = plan /\ \A a \in Actions : was[a] \subseteq was'[a]
  BY <1>1, SameWorld
<1>3. pushed' = [pushed EXCEPT ![e] = pushed[e]] /\ ExecOK(log[e], job[e], pushed[e])
  BY <1>1, OfExecutor
<1> QED
  BY <1>1, <1>2, <1>3, StopStep

LEMMA WorkingJob ==
  ASSUME PushInv, NEW e \in Executors
  PROVE  /\ job[e].phase \in AtAction => job[e].a \in Actions /\ log[e].kept
         /\ job[e].phase = "check" => job[e].a \in Actions /\ log[e].kept
         /\ job[e].phase = "summary" => log[e].kept
<1>1. ExecOK(log[e], job[e], pushed[e])
  BY OfExecutor
<1>2. 1 \in Actions
  BY LimitsAssumption DEF Actions
<1> QED
  BY <1>1, <1>2 DEF ExecOK, Aim, AtAction

\* A step that reads and goes on.
LEMMA ReadStep ==
  ASSUME PushInv, NEW e \in Executors, NEW phase \in AtAction \cup {"summary"},
         Goto(e, phase), UNCHANGED <<references, documents, log, pushed>>,
         job[e].phase \in AtAction \cup {"check"}
  PROVE  PushInv'
<1>1. WorldOK' /\ plan' = plan /\ \A a \in Actions : was[a] \subseteq was'[a]
  BY SameWorld
<1>2. pushed' = [pushed EXCEPT ![e] = pushed[e]] /\ ExecOK(log[e], job[e], pushed[e])
  BY OfExecutor
<1>3. log[e].kept /\ job[e].a \in Actions
  BY WorkingJob
<1>4. job[e].phase \notin {"idle", "sync"} /\ log' = log
  BY DEF AtAction
<1> QED
  BY <1>1, <1>2, <1>3, <1>4, GotoStep

LEMMA StartKeeps ==
  ASSUME PushInv, NEW e \in Executors, NEW k \in Plans, Start(e, k)
  PROVE  PushInv'
<1> DEFINE l == [NoLog EXCEPT !.plan = k, !.lines = <<"header">>]
           j == [Resting EXCEPT !.phase = "sync", !.after = "keep", !.audit = local]
<1>1. /\ k \in approved /\ UNCHANGED <<references, documents>>
      /\ log' = [log EXCEPT ![e] = l] /\ job' = [job EXCEPT ![e] = j]
      /\ pushed' = [pushed EXCEPT ![e] = {}]
  BY DEF Start, Become
<1>2. WorldOK' /\ plan' = plan /\ \A a \in Actions : was[a] \subseteq was'[a]
  BY <1>1, SameWorld
<1>3. ExecOK(l, j, {}) /\ l.plan = k /\ Succeeded(l.lines) = 0
  <2>1. local \in [Actions -> Objects]
    BY DEF PushInv, WorldOK
  <2> QED
    BY <2>1, StartOK
<1> HIDE DEF l, j
<1>4. ProvenOK(l, plan', was')
  <2>1. plan'[k].drafted
    BY <1>1, <1>2 DEF PushInv, WorldOK
  <2> QED
    BY <1>3, <2>1 DEF ProvenOK
<1> QED
  BY <1>1, <1>2, <1>3, <1>4, StepOf

LEMMA SyncLineKeeps ==
  ASSUME PushInv, NEW e \in Executors, SyncLine(e)
  PROVE  PushInv'
<1> DEFINE l == [log[e] EXCEPT !.synced = Len(log[e].lines)]
           j == IF job[e].after = "idle" THEN Resting
                ELSE [job[e] EXCEPT !.phase = job[e].after]
<1>1. /\ UNCHANGED <<references, documents>> /\ job[e].phase = "sync"
      /\ log' = [log EXCEPT ![e] = l] /\ job' = [job EXCEPT ![e] = j]
      /\ pushed' = [pushed EXCEPT ![e] = pushed[e]]
  BY OfExecutor DEF SyncLine, Goto, Become, At
<1>2. WorldOK' /\ plan' = plan /\ \A a \in Actions : was[a] \subseteq was'[a]
  BY <1>1, SameWorld
<1>3. ExecOK(l, j, pushed[e])
  <2>1. ExecOK(log[e], job[e], pushed[e])
    BY OfExecutor
  <2> QED
    BY <1>1, <2>1, SyncOK
<1>4. l.plan = log[e].plan /\ l.lines = log[e].lines
  BY OfExecutor DEF Log
<1>5. ProvenOK(log[e], plan', was')
  BY <1>2, OfExecutor, ProvenLonger
<1> HIDE DEF l, j
<1>6. ProvenOK(l, plan', was')
  BY <1>4, <1>5 DEF ProvenOK
<1> QED
  BY <1>1, <1>2, <1>3, <1>6, StepOf

LEMMA KeepLogKeeps ==
  ASSUME PushInv, NEW e \in Executors, KeepLog(e)
  PROVE  PushInv'
<1> DEFINE l == [log[e] EXCEPT !.kept = TRUE]
           j == [job[e] EXCEPT !.phase = "check"]
<1>1. /\ UNCHANGED <<references, documents>> /\ job[e].phase = "keep"
      /\ log' = [log EXCEPT ![e] = l] /\ job' = [job EXCEPT ![e] = j]
      /\ pushed' = [pushed EXCEPT ![e] = pushed[e]]
  BY OfExecutor DEF KeepLog, Goto, Become, At
<1>2. WorldOK' /\ plan' = plan /\ \A a \in Actions : was[a] \subseteq was'[a]
  BY <1>1, SameWorld
<1>3. ExecOK(l, j, pushed[e])
  <2>1. ExecOK(log[e], job[e], pushed[e])
    BY OfExecutor
  <2> QED
    BY <1>1, <2>1, KeepOK
<1>4. l.plan = log[e].plan /\ l.lines = log[e].lines
  BY OfExecutor DEF Log
<1>5. ProvenOK(log[e], plan', was')
  BY <1>2, OfExecutor, ProvenLonger
<1> HIDE DEF l, j
<1>6. ProvenOK(l, plan', was')
  BY <1>4, <1>5 DEF ProvenOK
<1> QED
  BY <1>1, <1>2, <1>3, <1>6, StepOf

LEMMA CheckKeeps ==
  ASSUME PushInv, NEW e \in Executors, Check(e) \/ ReadLocal(e) \/ ReadRemote(e)
  PROVE  PushInv'
<1>1. CASE Check(e)
  <2>1. PICK phase \in {"local", "summary"} :
          Goto(e, phase) /\ UNCHANGED <<references, documents, log, pushed>>
    BY <1>1 DEF Check
  <2>2. job[e].phase = "check"
    BY <1>1 DEF Check, At
  <2> QED
    BY <2>1, <2>2, ReadStep DEF AtAction
<1>2. CASE ReadLocal(e)
  <2>1. job[e].phase = "local"
    BY <1>2 DEF ReadLocal, At
  <2>2. \/ Goto(e, "remote") /\ UNCHANGED <<references, documents, log, pushed>>
        \/ Stop(e)
    BY <1>2 DEF ReadLocal
  <2> QED
    BY <2>1, <2>2, ReadStep, StopKeeps DEF AtAction
<1>3. CASE ReadRemote(e)
  <2>1. job[e].phase = "remote"
    BY <1>3 DEF ReadRemote, At
  <2>2. \/ Goto(e, "push") /\ UNCHANGED <<references, documents, log, pushed>>
        \/ Stop(e)
    BY <1>3 DEF ReadRemote
  <2> QED
    BY <2>1, <2>2, ReadStep, StopKeeps DEF AtAction
<1> QED
  BY <1>1, <1>2, <1>3

\* A push that lands moves the reference of the action at work.
LEMMA LandsOK ==
  ASSUME PushInv, NEW e \in Executors, Lands(e), UNCHANGED documents, job[e].phase = "push"
  PROVE  /\ WorldOK' /\ plan' = plan /\ \A a \in Actions : was[a] \subseteq was'[a]
         /\ \E done : /\ pushed' = [pushed EXCEPT ![e] = done]
                      /\ ExecOK(log[e], job[e], done)
<1>1. ExecOK(log[e], job[e], pushed[e])
  BY OfExecutor
<1>2. ExecOK(log[e], job[e], pushed[e] \cup {job[e].a}) /\ job[e].a \in Actions
  BY <1>1, PushedOK
<1> DEFINE a == job[e].a
<1>3. /\ remote' = [remote EXCEPT ![a] = local[a]]
      /\ was' = [was EXCEPT ![a] = was[a] \cup {local[a]}]
      /\ local' = local /\ UNCHANGED documents
  BY DEF Lands
<1> HIDE DEF a
<1>4. a \in Actions
  BY <1>2 DEF a
<1>5. local[a] \in Objects /\ local[a] \in MaybeObject
  BY <1>4 DEF PushInv, WorldOK, MaybeObject
<1>6. WorldOK'
  <2>1. remote' \in [Actions -> MaybeObject]
    BY <1>3, <1>5 DEF PushInv, WorldOK
  <2>2. was' \in [Actions -> SUBSET MaybeObject]
    BY <1>3, <1>5 DEF PushInv, WorldOK
  <2>3. \A b \in Actions : remote'[b] \in was'[b]
    BY <1>3, <1>5 DEF PushInv, WorldOK
  <2> QED
    BY <1>3, <2>1, <2>2, <2>3 DEF PushInv, WorldOK, documents
<1>7. \A b \in Actions : was[b] \subseteq was'[b]
  BY <1>3 DEF PushInv, WorldOK
<1>8. \E done : pushed' = [pushed EXCEPT ![e] = done] /\ ExecOK(log[e], job[e], done)
  <2>1. CASE pushed' = pushed
    <3>1. pushed' = [pushed EXCEPT ![e] = pushed[e]]
      BY <2>1, OfExecutor
    <3> QED
      BY <1>1, <3>1
  <2>2. CASE pushed' = [pushed EXCEPT ![e] = pushed[e] \cup {job[e].a}]
    BY <1>2, <2>2
  <2> QED
    BY <2>1, <2>2 DEF Lands
<1> QED
  BY <1>3, <1>6, <1>7, <1>8 DEF documents

LEMMA PushKeeps ==
  ASSUME PushInv, NEW e \in Executors, Push(e) \/ PushRejected(e) \/ PushUnanswered(e)
  PROVE  PushInv'
<1>1. job[e].phase = "push"
  BY DEF Push, PushRejected, PushUnanswered, At
<1>2. job[e].a \in Actions /\ log[e].kept
  BY <1>1, WorkingJob DEF AtAction
<1>3. CASE Push(e)
  <2>1. Lands(e) /\ UNCHANGED documents /\ Goto(e, "prove") /\ log' = log
    BY <1>3 DEF Push
  <2>2. PICK done : pushed' = [pushed EXCEPT ![e] = done] /\ ExecOK(log[e], job[e], done)
    BY <1>1, <2>1, LandsOK
  <2>3. WorldOK' /\ plan' = plan /\ \A a \in Actions : was[a] \subseteq was'[a]
    BY <1>1, <2>1, LandsOK
  <2>4. "prove" \in AtAction \cup {"summary"} /\ job[e].phase \notin {"idle", "sync"}
    BY <1>1 DEF AtAction
  <2> QED
    BY <1>2, <2>1, <2>2, <2>3, <2>4, GotoStep
<1>4. CASE PushRejected(e)
  BY <1>1, <1>4, StopKeeps DEF PushRejected, AtAction
<1>5. CASE PushUnanswered(e)
  <2>1. /\ Write(e, "failed", job[e], "summary") /\ UNCHANGED documents
        /\ Lands(e) \/ UNCHANGED <<references, pushed>>
    BY <1>5 DEF PushUnanswered
  <2>2. CASE Lands(e)
    <3>1. PICK done : pushed' = [pushed EXCEPT ![e] = done] /\ ExecOK(log[e], job[e], done)
      BY <1>1, <2>1, <2>2, LandsOK
    <3>2. WorldOK' /\ plan' = plan /\ \A a \in Actions : was[a] \subseteq was'[a]
      BY <1>1, <2>1, <2>2, LandsOK
    <3> QED
      BY <1>1, <2>1, <3>1, <3>2, StopStep DEF AtAction
  <2>3. CASE UNCHANGED <<references, pushed>>
    <3>1. Stop(e)
      BY <2>1, <2>3 DEF Stop
    <3> QED
      BY <1>1, <3>1, StopKeeps DEF AtAction
  <2> QED
    BY <2>1, <2>2, <2>3
<1> QED
  BY <1>3, <1>4, <1>5

\* The observation after a push is what makes the recorded success true.
LEMMA ProveKeeps ==
  ASSUME PushInv, NEW e \in Executors, Prove(e)
  PROVE  PushInv'
<1>1. job[e].phase = "prove"
  BY DEF Prove, At
<1>2. job[e].a \in Actions /\ log[e].kept /\ job[e] \in Job
  BY <1>1, WorkingJob, OfExecutor DEF AtAction
<1>3. CASE Stop(e)
  BY <1>1, <1>3, StopKeeps DEF AtAction
<1>4. CASE Proven(e) /\ RecordSuccess(e) /\ UNCHANGED <<references, documents, pushed>>
  <2> DEFINE m == [job[e] EXCEPT !.a = @ + 1]
             after == AfterAction(e)
  <2>1. m \in Job /\ m.a = job[e].a + 1
    BY <1>2, LimitsAssumption DEF Job, Actions
  <2>2. Write(e, "succeeded", m, after)
    BY <1>4 DEF RecordSuccess
  <2> HIDE DEF m
  <2>3. after \in {"local", "summary", "idle"} /\ (after = "local" => m.a \in Actions)
    BY <1>2, <2>1, LimitsAssumption DEF AfterAction, Actions
  <2> HIDE DEF after
  <2>4. Plan(e).new[job[e].a] \in was[job[e].a]
    BY <1>2, <1>4 DEF Proven, PushInv, WorldOK
  <2>5. WorldOK' /\ plan' = plan /\ \A a \in Actions : was[a] \subseteq was'[a]
    BY <1>4, SameWorld
  <2>6. pushed' = [pushed EXCEPT ![e] = pushed[e]] /\ ExecOK(log[e], job[e], pushed[e])
    BY <1>4, OfExecutor
  <2>7. "succeeded" \in Lines /\ "succeeded" # "complete"
    BY DEF Lines
  <2>8. job[e].phase \notin {"idle", "sync", "keep"}
    BY <1>1
  <2> QED
    BY <1>2, <2>1, <2>2, <2>3, <2>4, <2>5, <2>6, <2>7, <2>8, WriteStep
<1> QED
  BY <1>3, <1>4 DEF Prove

LEMMA SummarizeKeeps ==
  ASSUME PushInv, NEW e \in Executors, Summarize(e)
  PROVE  PushInv'
<1>1. /\ job[e].phase = "summary" /\ Write(e, Outcome(e), job[e], "idle")
      /\ UNCHANGED <<references, documents, pushed>>
  BY DEF Summarize, At
<1>2. log[e].kept /\ job[e] \in Job
  BY <1>1, WorkingJob, OfExecutor
<1> DEFINE line == Outcome(e)
<1>3. /\ line \in Lines /\ line # "succeeded"
      /\ line = "complete" => job[e].a = ActionCount + 1
  BY <1>2, LimitsAssumption DEF Outcome, Lines, Job
<1>4. WorldOK' /\ plan' = plan /\ \A a \in Actions : was[a] \subseteq was'[a]
  BY <1>1, SameWorld
<1>5. pushed' = [pushed EXCEPT ![e] = pushed[e]] /\ ExecOK(log[e], job[e], pushed[e])
  BY <1>1, OfExecutor
<1> HIDE DEF line
<1>6. Write(e, line, job[e], "idle")
  BY <1>1 DEF line
<1> QED
  BY <1>1, <1>2, <1>3, <1>4, <1>5, <1>6, WriteStep

LEMMA ExecuteKeeps ==
  ASSUME PushInv, NEW e \in Executors, Execute(e) \/ Fault(e) \/ Kill(e)
  PROVE  PushInv'
<1>1. CASE Execute(e)
  <2>1. CASE Unobserved(e)
    <3>1. Stop(e) /\ job[e].phase \in AtAction
      BY <2>1 DEF Unobserved, AtAction
    <3> QED
      BY <3>1, StopKeeps
  <2> QED
    BY <1>1, <2>1, SyncLineKeeps, KeepLogKeeps, CheckKeeps, PushKeeps, ProveKeeps, SummarizeKeeps
    DEF Execute
<1>2. CASE Fault(e)
  BY <1>2, RestStep DEF Fault
<1>3. CASE Kill(e)
  BY <1>3, RestStep DEF Kill
<1> QED
  BY <1>1, <1>2, <1>3

\* No execution takes part.
LEMMA WorldStep ==
  ASSUME PushInv, WorldOK', UNCHANGED <<log, pushed, job>>,
         \A a \in Actions : was[a] \subseteq was'[a],
         \A k \in Plans : plan[k].drafted => plan'[k] = plan[k]
  PROVE  PushInv'
<1>1. ASSUME NEW e \in Executors
      PROVE  ExecOK(log'[e], job'[e], pushed'[e]) /\ ProvenOK(log'[e], plan', was')
  <2>1. ExecOK(log[e], job[e], pushed[e]) /\ ProvenOK(log[e], plan, was)
    BY OfExecutor
  <2>2. CASE log[e].plan \in Plans
    <3>1. plan'[log[e].plan] = plan[log[e].plan]
      BY <2>1, <2>2 DEF ProvenOK
    <3>2. ProvenOK(log[e], plan', was')
      BY <2>1, <3>1, SuccessesAreActions DEF ProvenOK
    <3> QED
      BY <2>1, <3>2
  <2>3. CASE log[e].plan \notin Plans
    <3>1. log[e].plan = NoPlan
      BY <2>3, OfExecutor DEF Log
    <3>2. log[e].lines = <<>>
      BY <2>1, <3>1 DEF ExecOK
    <3>3. 1 .. Succeeded(log[e].lines) = {}
      BY <3>2, NothingSucceeded
    <3> QED
      BY <2>1, <2>3, <3>3 DEF ProvenOK
  <2> QED
    BY <2>2, <2>3
<1> QED
  BY <1>1 DEF PushInv

LEMMA DraftKeeps ==
  ASSUME PushInv, NEW k \in Plans, Draft(k) \/ Approve(k) \/ Expire(k)
  PROVE  PushInv'
<1>1. CASE Draft(k)
  <2> DEFINE d == [drafted |-> TRUE, old |-> remote, new |-> local]
  <2>1. /\ ~ plan[k].drafted /\ plan' = [plan EXCEPT ![k] = d]
        /\ UNCHANGED <<references, approved, expired, log, pushed, job>>
    BY <1>1 DEF Draft
  <2>2. d \in Document /\ d.drafted
    BY DEF Document, PushInv, WorldOK
  <2> HIDE DEF d
  <2>3. WorldOK'
    BY <2>1, <2>2 DEF PushInv, WorldOK, references
  <2>4. \A a \in Actions : was[a] \subseteq was'[a]
    BY <2>1 DEF references
  <2>5. \A p \in Plans : plan[p].drafted => plan'[p] = plan[p]
    BY <2>1 DEF PushInv, WorldOK
  <2>6. UNCHANGED <<log, pushed, job>>
    BY <2>1
  <2> QED
    BY <2>3, <2>4, <2>5, <2>6, WorldStep
<1>2. CASE Approve(k) \/ Expire(k)
  <2>1. UNCHANGED <<references, plan, log, pushed, job>>
    BY <1>2 DEF Approve, Expire
  <2>2. WorldOK'
    BY <1>2, <2>1 DEF PushInv, WorldOK, references, Approve, Expire
  <2>3. \A a \in Actions : was[a] \subseteq was'[a]
    BY <2>1 DEF references
  <2> QED
    BY <2>1, <2>2, <2>3, WorldStep
<1> QED
  BY <1>1, <1>2

LEMMA MoveKeeps ==
  ASSUME PushInv, MoveLocal \/ MoveRemote
  PROVE  PushInv'
<1>1. CASE MoveLocal
  <2>1. PICK a \in Actions, o \in Objects : local' = [local EXCEPT ![a] = o]
    BY <1>1 DEF MoveLocal
  <2>2. UNCHANGED <<remote, was, plan, approved, expired, log, pushed, job>>
    BY <1>1 DEF MoveLocal, documents
  <2>3. WorldOK'
    BY <2>1, <2>2 DEF PushInv, WorldOK
  <2> QED
    BY <2>2, <2>3, WorldStep
<1>2. CASE MoveRemote
  <2>1. PICK a \in Actions, o \in MaybeObject :
          /\ remote' = [remote EXCEPT ![a] = o]
          /\ was' = [was EXCEPT ![a] = was[a] \cup {o}]
    BY <1>2 DEF MoveRemote
  <2>2. UNCHANGED <<local, plan, approved, expired, log, pushed, job>>
    BY <1>2 DEF MoveRemote, documents
  <2>3. /\ remote' \in [Actions -> MaybeObject]
        /\ was' \in [Actions -> SUBSET MaybeObject]
        /\ \A b \in Actions : remote'[b] \in was'[b] /\ was[b] \subseteq was'[b]
    BY <2>1 DEF PushInv, WorldOK
  <2>4. WorldOK'
    BY <2>2, <2>3 DEF PushInv, WorldOK
  <2> QED
    BY <2>2, <2>3, <2>4, WorldStep
<1> QED
  BY <1>1, <1>2

LEMMA PowerLossKeeps ==
  ASSUME PushInv, PowerLoss
  PROVE  PushInv'
<1>1. /\ \A e \in Executors : log'[e] \in Survivors(log[e])
      /\ log' \in [Executors -> UNION {Survivors(log[e]) : e \in Executors}]
      /\ job' = [e \in Executors |-> Resting] /\ UNCHANGED <<references, documents, pushed>>
  BY DEF PowerLoss
<1>2. WorldOK' /\ plan' = plan /\ \A a \in Actions : was[a] \subseteq was'[a]
  BY <1>1, SameWorld
<1>3. ASSUME NEW e \in Executors
      PROVE  /\ ExecOK(log'[e], job'[e], pushed'[e]) /\ ProvenOK(log'[e], plan', was')
             /\ log'[e] \in Log /\ job'[e] \in Job
  <2>1. ExecOK(log[e], job[e], pushed[e]) /\ ProvenOK(log[e], plan, was)
    BY OfExecutor
  <2>2. /\ ExecOK(log'[e], Resting, pushed[e])
        /\ \/ log'[e] = NoLog
           \/ log'[e].plan = log[e].plan /\ Succeeded(log'[e].lines) <= Succeeded(log[e].lines)
    BY <1>1, <2>1, SurvivorOK
  <2>3. job'[e] = Resting /\ pushed'[e] = pushed[e]
    BY <1>1
  <2>4. ProvenOK(log[e], plan', was')
    BY <1>2, <2>1, ProvenLonger
  <2>5. ProvenOK(log'[e], plan', was')
    <3>1. CASE log'[e] = NoLog
      <4>1. NoLog.plan \notin Plans /\ 1 .. Succeeded(NoLog.lines) = {}
        BY NothingSucceeded, PlansAssumption DEF NoLog
      <4> QED
        BY <3>1, <4>1 DEF ProvenOK
    <3>2. CASE log'[e].plan = log[e].plan /\ Succeeded(log'[e].lines) <= Succeeded(log[e].lines)
      <4>1. Succeeded(log'[e].lines) \in Nat /\ Succeeded(log[e].lines) \in Nat
        BY <2>1, <2>2, LogFields
      <4> QED
        BY <2>4, <3>2, <4>1 DEF ProvenOK
    <3> QED
      BY <2>2, <3>1, <3>2
  <2>6. log'[e] \in Log /\ Resting \in Job
    BY <2>2 DEF ExecOK
  <2> QED
    BY <2>2, <2>3, <2>5, <2>6
<1>4. log' \in [Executors -> Log] /\ job' \in [Executors -> Job]
  BY <1>1, <1>3
<1>5. pushed' \in [Executors -> SUBSET Actions]
  BY <1>1 DEF PushInv
<1> QED
  BY <1>2, <1>3, <1>4, <1>5 DEF PushInv

LEMMA PushInvInitially ==
  ASSUME Init PROVE PushInv
<1>1. WorldOK
  <2>1. plan \in [Plans -> Document]
    BY DEF Init, Document
  <2>2. \A a \in Actions : was[a] = {remote[a]} /\ remote[a] \in MaybeObject
    BY DEF Init
  <2>3. was \in [Actions -> SUBSET MaybeObject]
    BY <2>2 DEF Init
  <2> QED
    BY <2>1, <2>2, <2>3 DEF Init, WorldOK
<1>2. /\ NoLog \in Log /\ NoLog.lines = <<>> /\ NoLog.synced = 0 /\ NoLog.plan = NoPlan
      /\ Len(NoLog.lines) = 0 /\ ~ NoLog.kept
  BY DEF NoLog, Log
<1>3. Resting \in Job /\ Resting.phase = "idle" /\ Aim(Resting) = "idle"
  BY RestingFields DEF Aim
<1>4. Succeeded(NoLog.lines) = 0 /\ 0 <= ActionCount
  BY <1>2, NothingSucceeded, LimitsAssumption
<1>5. ExecOK(NoLog, Resting, {})
  BY <1>2, <1>3, <1>4 DEF ExecOK, AtAction
<1>6. ProvenOK(NoLog, plan, was)
  BY <1>2, <1>4, PlansAssumption DEF ProvenOK
<1>7. \A e \in Executors : log[e] = NoLog /\ job[e] = Resting /\ pushed[e] = {}
  BY DEF Init
<1>8. /\ log \in [Executors -> Log] /\ job \in [Executors -> Job]
      /\ pushed \in [Executors -> SUBSET Actions]
  BY <1>2, <1>3 DEF Init
<1> QED
  BY <1>1, <1>5, <1>6, <1>7, <1>8 DEF PushInv

LEMMA PushInvKept ==
  ASSUME PushInv, [Next]_vars PROVE PushInv'
<1>1. CASE UNCHANGED vars
  <2>1. WorldOK' /\ plan' = plan /\ \A a \in Actions : was[a] \subseteq was'[a]
    BY <1>1, SameWorld DEF vars
  <2>2. UNCHANGED <<log, pushed, job>>
    BY <1>1 DEF vars
  <2> QED
    BY <2>1, <2>2, WorldStep
<1>2. CASE Next
  <2>1. CASE \E k \in Plans : Draft(k) \/ Approve(k) \/ Expire(k)
    BY <2>1, DraftKeeps
  <2>2. CASE \E e \in Executors : \/ \E k \in Plans : Start(e, k)
                                  \/ Execute(e) \/ Fault(e) \/ Kill(e)
    BY <2>2, StartKeeps, ExecuteKeeps
  <2>3. CASE MoveLocal \/ MoveRemote \/ PowerLoss
    BY <2>3, MoveKeeps, PowerLossKeeps
  <2> QED
    BY <1>2, <2>1, <2>2, <2>3 DEF Next
<1> QED
  BY <1>1, <1>2

LEMMA PushInvAlways == Spec => []PushInv
  BY PushInvInitially, PushInvKept, PTL DEF Spec

(***************************************************************************)
(* The durable lines are a ledger                                          *)
(***************************************************************************)
\* One line at most is not synchronized, and only the header before the directory
\* is.
LedgerOK(l) ==
  /\ Len(l.lines) <= l.synced + 1
  /\ ~ l.kept => l.lines \in {<<>>, <<"header">>}

LedgersOK == \A e \in Executors : LedgerOK(log[e])

\* What one line does to a ledger of count actions.
Entered(count, closed, more, shut) ==
  \/ more = count /\ shut = closed
  \/ count < ActionCount /\ more = count + 1 /\ ~ closed /\ ~ shut
  \/ count = ActionCount /\ more = count /\ shut

\* What a step does to a log, a new execution excepted.
Advances(l, m) ==
  \/ m = l
  \/ /\ l.synced = Len(l.lines) /\ l.kept
     /\ \E line \in Lines : m = [l EXCEPT !.lines = Append(@, line)]
  \/ m = [l EXCEPT !.synced = Len(l.lines)]
  \/ m = [l EXCEPT !.kept = TRUE]
  \/ m \in Survivors(l)

LEMMA NothingClosed == ~ Closed(<<>>) /\ ~ Closed(<<"header">>)
  BY DEF Closed

\* The line that is not synchronized is at most one entry.
LEMMA NextLine ==
  ASSUME NEW l, NEW j, NEW done, ExecOK(l, j, done), LedgerOK(l),
         NEW d, d \in {Durable(l), l.lines}
  PROVE  Entered(Succeeded(Durable(l)), Closed(Durable(l)), Succeeded(d), Closed(d))
<1>1. /\ l.lines \in Seq(Lines) /\ Len(l.lines) \in Nat /\ l.synced \in 0 .. Len(l.lines)
      /\ Durable(l) \in Seq(Lines) /\ Succeeded(Durable(l)) \in Nat
  BY LogFields
<1>2. CASE d = Durable(l)
  BY <1>2 DEF Entered
<1>3. CASE d = l.lines /\ l.synced = Len(l.lines)
  <2>1. d = Durable(l)
    BY <1>1, <1>3 DEF Durable
  <2> QED
    BY <2>1 DEF Entered
<1>4. CASE d = l.lines /\ l.synced # Len(l.lines)
  <2> DEFINE kept == Durable(l)
             line == l.lines[Len(l.lines)]
  <2>1. Len(l.lines) = l.synced + 1
    BY <1>1, <1>4 DEF LedgerOK
  <2>2. /\ Len(kept) = l.synced /\ line \in Lines /\ d = Append(kept, line)
        /\ \A n \in 1 .. l.synced : kept[n] = l.lines[n]
    BY <1>1, <1>4, <2>1 DEF Durable
  <2>3. Succeeded(d) = IF line = "succeeded" THEN Succeeded(kept) + 1 ELSE Succeeded(kept)
    BY <1>1, <2>2, SucceededAppend
  <2>4. ~ Closed(kept)
    <3> SUFFICES ASSUME NEW n \in 1 .. l.synced, l.lines[n] = "complete" PROVE FALSE
      BY <2>2 DEF Closed
    <3>1. n \in 1 .. Len(l.lines)
      BY <1>1
    <3>2. n = Len(l.lines)
      BY <3>1 DEF ExecOK
    <3> QED
      BY <1>1, <2>1, <3>2
  <2>5. Closed(d) <=> line = "complete"
    <3>1. Len(l.lines) \in 1 .. Len(l.lines)
      BY <1>1, <2>1
    <3>2. \A n \in 1 .. Len(l.lines) : l.lines[n] = "complete" => n = Len(l.lines)
      BY DEF ExecOK
    <3> QED
      BY <1>4, <3>1, <3>2 DEF Closed
  <2>6. line = "complete" => Succeeded(d) = ActionCount
    <3>1. Len(l.lines) \in 1 .. Len(l.lines)
      BY <1>1, <2>1
    <3> QED
      BY <1>4, <3>1 DEF ExecOK
  <2>7. Succeeded(d) <= ActionCount
    BY <1>4 DEF ExecOK
  <2> HIDE DEF kept, line
  <2>8. Succeeded(kept) \in Nat
    BY <1>1 DEF kept
  <2>9. CASE line = "succeeded"
    <3>1. Succeeded(d) = Succeeded(kept) + 1 /\ ~ Closed(d) /\ Succeeded(kept) < ActionCount
      BY <2>3, <2>5, <2>7, <2>8, <2>9, LimitsAssumption
    <3> QED
      BY <2>4, <3>1 DEF Entered, kept
  <2>10. CASE line = "complete"
    <3>1. Succeeded(d) = Succeeded(kept) /\ Closed(d) /\ Succeeded(kept) = ActionCount
      BY <2>3, <2>5, <2>6, <2>10
    <3> QED
      BY <3>1 DEF Entered, kept
  <2>11. CASE line \notin {"succeeded", "complete"}
    <3>1. Succeeded(d) = Succeeded(kept) /\ ~ Closed(d)
      BY <2>3, <2>5, <2>11
    <3>2. Closed(d) \in BOOLEAN /\ Closed(kept) \in BOOLEAN
      BY DEF Closed
    <3>3. Closed(d) = Closed(kept)
      BY <2>4, <3>1, <3>2
    <3> QED
      BY <3>1, <3>3 DEF Entered, kept
  <2> QED
    BY <2>9, <2>10, <2>11
<1> QED
  BY <1>2, <1>3, <1>4

\* Every step of a log is an entry of its ledger or none.
LEMMA AdvanceEnters ==
  ASSUME NEW l, NEW j, NEW done, ExecOK(l, j, done), LedgerOK(l), NEW m, Advances(l, m)
  PROVE  /\ LedgerOK(m)
         /\ Entered(Succeeded(Durable(l)), Closed(Durable(l)),
                    Succeeded(Durable(m)), Closed(Durable(m)))
<1>1. /\ l.lines \in Seq(Lines) /\ Len(l.lines) \in Nat /\ l.synced \in 0 .. Len(l.lines)
      /\ l \in Log
  BY LogFields DEF ExecOK
<1>2. ASSUME Durable(m) \in {Durable(l), l.lines}
      PROVE  Entered(Succeeded(Durable(l)), Closed(Durable(l)),
                     Succeeded(Durable(m)), Closed(Durable(m)))
  BY <1>2, NextLine
<1>3. CASE m = l
  BY <1>2, <1>3
<1>4. CASE /\ l.synced = Len(l.lines) /\ l.kept
           /\ \E line \in Lines : m = [l EXCEPT !.lines = Append(@, line)]
  <2>1. PICK line \in Lines : m = [l EXCEPT !.lines = Append(@, line)]
    BY <1>4
  <2>2. /\ m.lines = Append(l.lines, line) /\ m.synced = l.synced /\ m.kept = l.kept
        /\ Durable(m) = Durable(l)
    BY <1>1, <2>1, AppendedLog
  <2>3. Len(m.lines) = Len(l.lines) + 1
    BY <1>1, <2>2
  <2> QED
    BY <1>2, <1>4, <2>2, <2>3 DEF LedgerOK
<1>5. CASE m = [l EXCEPT !.synced = Len(l.lines)]
  <2>1. m.lines = l.lines /\ m.synced = Len(l.lines) /\ m.kept = l.kept
    BY <1>1, <1>5 DEF Log
  <2>2. Durable(m) = l.lines
    BY <1>1, <2>1 DEF Durable
  <2>3. LedgerOK(m)
    BY <1>1, <2>1 DEF LedgerOK
  <2> QED
    BY <1>2, <2>2, <2>3
<1>6. CASE m = [l EXCEPT !.kept = TRUE]
  <2>1. m.lines = l.lines /\ m.synced = l.synced /\ m.kept
    BY <1>1, <1>6 DEF Log
  <2>2. Durable(m) = Durable(l) /\ LedgerOK(m)
    BY <2>1 DEF LedgerOK, Durable
  <2> QED
    BY <1>2, <2>2
<1>7. CASE m = NoLog /\ ~ l.kept
  <2>1. m.lines = <<>> /\ m.synced = 0 /\ ~ m.kept
    BY <1>7 DEF NoLog
  <2>2. LedgerOK(m)
    BY <2>1 DEF LedgerOK
  <2>3. Durable(m) = <<>>
    BY <2>1 DEF Durable
  <2>4. Durable(l) \in {<<>>, <<"header">>}
    <3>1. CASE l.lines = <<>>
      <4>1. l.synced = 0
        BY <1>1, <3>1
      <4> QED
        BY <3>1, <4>1 DEF Durable
    <3>2. CASE l.lines = <<"header">>
      <4>1. l.synced = 0 \/ l.synced = 1
        BY <1>1, <3>2
      <4>2. CASE l.synced = 0
        <5>1. Durable(l) = SubSeq(l.lines, 1, 0)
          BY <4>2 DEF Durable
        <5> QED
          BY <1>1, <5>1
      <4>3. CASE l.synced = 1
        <5>1. l.synced = Len(l.lines)
          BY <3>2, <4>3
        <5>2. Durable(l) = l.lines
          BY <1>1, <5>1 DEF Durable
        <5> QED
          BY <3>2, <5>2
      <4> QED
        BY <4>1, <4>2, <4>3
    <3> QED
      BY <1>7, <3>1, <3>2 DEF LedgerOK
  <2>5. /\ Succeeded(Durable(l)) = 0 /\ ~ Closed(Durable(l))
        /\ Succeeded(Durable(m)) = 0 /\ ~ Closed(Durable(m))
    BY <2>3, <2>4, NothingSucceeded, NothingClosed
  <2>6. Closed(Durable(l)) \in BOOLEAN /\ Closed(Durable(m)) \in BOOLEAN
    BY DEF Closed
  <2>7. Closed(Durable(m)) = Closed(Durable(l))
    BY <2>5, <2>6
  <2> QED
    BY <2>2, <2>5, <2>7 DEF Entered
<1>8. ASSUME NEW n \in l.synced .. Len(l.lines),
             m = [l EXCEPT !.lines = SubSeq(l.lines, 1, n), !.synced = n, !.kept = TRUE]
      PROVE  Durable(m) \in {Durable(l), l.lines} /\ LedgerOK(m)
  <2> DEFINE short == SubSeq(l.lines, 1, n)
             a == [l EXCEPT !.lines = short]
             b == [a EXCEPT !.synced = n]
  <2>1. /\ n \in 0 .. Len(l.lines) /\ short \in Seq(Lines) /\ Len(short) = n
        /\ n = Len(l.lines) => short = l.lines
        /\ SubSeq(short, 1, n) = short
    BY <1>1
  <2>2. n = l.synced => short = Durable(l)
    BY DEF Durable
  <2>3. n = l.synced \/ n = Len(l.lines)
    BY <1>1, <2>1 DEF LedgerOK
  <2>4. m = [b EXCEPT !.kept = TRUE]
    BY <1>8
  <2> HIDE DEF short
  <2>5. a \in Log /\ a.lines = short
    BY <1>1, <2>1 DEF Log
  <2> HIDE DEF a
  <2>6. b \in Log /\ b.lines = short /\ b.synced = n
    BY <2>1, <2>5 DEF Log
  <2> HIDE DEF b
  <2>7. m.lines = short /\ m.synced = n /\ m.kept
    BY <2>4, <2>6 DEF Log
  <2>8. Durable(m) = short
    BY <2>1, <2>7 DEF Durable
  <2> QED
    BY <2>1, <2>2, <2>3, <2>7, <2>8 DEF LedgerOK
<1> QED
  BY <1>2, <1>3, <1>4, <1>5, <1>6, <1>7, <1>8 DEF Advances, Survivors

\* A log goes on, or the execution has written a line to it.
LEMMA WrittenAdvances ==
  ASSUME PushInv, NEW e \in Executors, NEW line \in Lines, NEW m, NEW after,
         Write(e, line, m, after), job[e].phase \in AtAction \cup {"summary"}
  PROVE  /\ \A f \in Executors : Advances(log[f], log'[f])
         /\ Durable(log'[e]) = Durable(log[e])
<1>1. ExecOK(log[e], job[e], pushed[e]) /\ log[e] \in Log
  BY OfExecutor
<1>2. log[e].kept /\ log[e].synced = Len(log[e].lines)
  BY <1>1, WorkingJob DEF ExecOK, AtAction
<1>3. log' = [log EXCEPT ![e] = [log[e] EXCEPT !.lines = Append(@, line)]]
  BY DEF Write, PushInv
<1>4. log'[e] = [log[e] EXCEPT !.lines = Append(@, line)]
  BY <1>3 DEF PushInv
<1>5. \A f \in Executors \ {e} : log'[f] = log[f]
  BY <1>3 DEF PushInv
<1>6. Durable(log'[e]) = Durable(log[e])
  BY <1>1, <1>2, <1>4, AppendedLog DEF ExecOK
<1> QED
  BY <1>2, <1>4, <1>5, <1>6 DEF Advances

\* A step starts an execution, or every log goes on; only a push that lands adds
\* to what its execution has published, and it leaves every durable log alone.
LEMMA StepAdvances ==
  ASSUME PushInv, [Next]_vars
  PROVE  \/ \E e \in Executors, k \in Plans : Start(e, k)
         \/ /\ \A f \in Executors : Advances(log[f], log'[f])
            /\ \/ pushed' = pushed
               \/ \E e \in Executors :
                    /\ job[e].phase = "push"
                    /\ pushed' = [pushed EXCEPT ![e] = @ \cup {job[e].a}]
                    /\ \A f \in Executors : Durable(log'[f]) = Durable(log[f])
<1>1. CASE UNCHANGED <<log, pushed>>
  BY <1>1 DEF Advances
<1>2. ASSUME NEW e \in Executors, Stop(e), job[e].phase \in AtAction
      PROVE  pushed' = pushed /\ \A f \in Executors : Advances(log[f], log'[f])
  <2>1. Write(e, "failed", job[e], "summary") /\ pushed' = pushed
    BY <1>2 DEF Stop
  <2>2. "failed" \in Lines
    BY DEF Lines
  <2> QED
    BY <1>2, <2>1, <2>2, WrittenAdvances
<1>3. ASSUME NEW e \in Executors, SyncLine(e) \/ KeepLog(e)
      PROVE  pushed' = pushed /\ \A f \in Executors : Advances(log[f], log'[f])
  <2>1. /\ pushed' = pushed
        /\ \A f \in Executors \ {e} : log'[f] = log[f]
        /\ \/ log'[e] = [log[e] EXCEPT !.synced = Len(log[e].lines)]
           \/ log'[e] = [log[e] EXCEPT !.kept = TRUE]
    BY <1>3 DEF SyncLine, KeepLog, PushInv
  <2> QED
    BY <2>1 DEF Advances
<1>4. ASSUME NEW e \in Executors, Lands(e), job[e].phase = "push",
             \A f \in Executors : Advances(log[f], log'[f]) /\ Durable(log'[f]) = Durable(log[f])
      PROVE  \/ pushed' = pushed
             \/ /\ pushed' = [pushed EXCEPT ![e] = @ \cup {job[e].a}]
                /\ \A f \in Executors : Durable(log'[f]) = Durable(log[f])
  BY <1>4 DEF Lands
<1>5. ASSUME NEW e \in Executors, Push(e)
      PROVE  /\ job[e].phase = "push" /\ Lands(e)
             /\ \A f \in Executors : Advances(log[f], log'[f]) /\ Durable(log'[f]) = Durable(log[f])
  BY <1>5 DEF Push, At, Advances
<1>6. ASSUME NEW e \in Executors, PushUnanswered(e)
      PROVE  /\ job[e].phase = "push" /\ (Lands(e) \/ pushed' = pushed)
             /\ \A f \in Executors : Advances(log[f], log'[f]) /\ Durable(log'[f]) = Durable(log[f])
  <2>1. /\ job[e].phase = "push" /\ Write(e, "failed", job[e], "summary")
        /\ Lands(e) \/ pushed' = pushed
    BY <1>6 DEF PushUnanswered, At
  <2>2. "failed" \in Lines
    BY DEF Lines
  <2>3. \A f \in Executors \ {e} : log'[f] = log[f]
    BY <2>1 DEF Write, PushInv
  <2> QED
    BY <2>1, <2>2, <2>3, WrittenAdvances DEF AtAction
<1>7. ASSUME NEW e \in Executors, Prove(e) \/ Summarize(e)
      PROVE  pushed' = pushed /\ \A f \in Executors : Advances(log[f], log'[f])
  <2>1. CASE Prove(e) /\ Stop(e)
    BY <1>2, <2>1 DEF Prove, At, AtAction
  <2>2. CASE Prove(e) /\ RecordSuccess(e) /\ pushed' = pushed
    BY <2>2, WrittenAdvances DEF Prove, At, AtAction, RecordSuccess, Lines
  <2>3. CASE Summarize(e)
    BY <2>3, WrittenAdvances DEF Summarize, At, Outcome, Lines
  <2> QED
    BY <1>7, <2>1, <2>2, <2>3 DEF Prove
<1>8. ASSUME NEW e \in Executors,
             Check(e) \/ ReadLocal(e) \/ ReadRemote(e) \/ PushRejected(e) \/ Unobserved(e)
      PROVE  \/ UNCHANGED <<log, pushed>>
             \/ Stop(e) /\ job[e].phase \in AtAction
  BY <1>8 DEF Check, ReadLocal, ReadRemote, PushRejected, Unobserved, At, AtAction
<1>9. ASSUME PowerLoss
      PROVE  pushed' = pushed /\ \A f \in Executors : Advances(log[f], log'[f])
  BY <1>9 DEF PowerLoss, Advances
<1>10. ASSUME NEW e \in Executors, Fault(e) \/ Kill(e)
       PROVE  UNCHANGED <<log, pushed>>
  BY <1>10 DEF Fault, Kill
<1>11. ASSUME NEW k \in Plans, Draft(k) \/ Approve(k) \/ Expire(k)
       PROVE  UNCHANGED <<log, pushed>>
  BY <1>11 DEF Draft, Approve, Expire
<1>12. ASSUME MoveLocal \/ MoveRemote
       PROVE  UNCHANGED <<log, pushed>>
  BY <1>12 DEF MoveLocal, MoveRemote
<1>13. ASSUME NEW e \in Executors, Execute(e)
       PROVE  /\ \A f \in Executors : Advances(log[f], log'[f])
              /\ \/ pushed' = pushed
                 \/ \E x \in Executors :
                      /\ job[x].phase = "push"
                      /\ pushed' = [pushed EXCEPT ![x] = @ \cup {job[x].a}]
                      /\ \A f \in Executors : Durable(log'[f]) = Durable(log[f])
  <2>1. CASE SyncLine(e) \/ KeepLog(e)
    BY <1>3, <2>1
  <2>2. CASE Check(e) \/ ReadLocal(e) \/ ReadRemote(e) \/ PushRejected(e) \/ Unobserved(e)
    BY <1>2, <1>8, <2>2 DEF Advances
  <2>3. CASE Push(e)
    BY <1>4, <1>5, <2>3
  <2>4. CASE PushUnanswered(e)
    BY <1>4, <1>6, <2>4
  <2>5. CASE Prove(e) \/ Summarize(e)
    BY <1>7, <2>5
  <2> QED
    BY <1>13, <2>1, <2>2, <2>3, <2>4, <2>5 DEF Execute
<1>14. CASE Next
  <2>1. CASE \E k \in Plans : Draft(k) \/ Approve(k) \/ Expire(k)
    BY <1>1, <1>11, <2>1
  <2>2. CASE \E e \in Executors : Fault(e) \/ Kill(e)
    BY <1>1, <1>10, <2>2
  <2>3. CASE \E e \in Executors : Execute(e)
    BY <1>13, <2>3
  <2>4. CASE MoveLocal \/ MoveRemote
    BY <1>1, <1>12, <2>4
  <2>5. CASE PowerLoss
    BY <1>9, <2>5
  <2> QED
    BY <1>14, <2>1, <2>2, <2>3, <2>4, <2>5 DEF Next
<1>15. CASE UNCHANGED vars
  BY <1>1, <1>15 DEF vars
<1> QED
  BY <1>14, <1>15

LEMMA StartedLog ==
  ASSUME PushInv, NEW e \in Executors, NEW k \in Plans, Start(e, k)
  PROVE  /\ \A f \in Executors \ {e} : log'[f] = log[f]
         /\ pushed' = [pushed EXCEPT ![e] = {}]
         /\ LedgerOK(log'[e])
         /\ Succeeded(Durable(log'[e])) = 0 /\ ~ Closed(Durable(log'[e]))
<1> DEFINE l == [NoLog EXCEPT !.plan = k, !.lines = <<"header">>]
<1>1. log' = [log EXCEPT ![e] = l] /\ pushed' = [pushed EXCEPT ![e] = {}]
  BY DEF Start
<1>2. l.lines = <<"header">> /\ l.synced = 0 /\ ~ l.kept
  BY DEF NoLog
<1> HIDE DEF l
<1>3. log'[e] = l /\ \A f \in Executors \ {e} : log'[f] = log[f]
  BY <1>1 DEF PushInv
<1>4. Durable(l) = <<>> /\ LedgerOK(l)
  BY <1>2 DEF Durable, LedgerOK
<1> QED
  BY <1>1, <1>3, <1>4, NothingSucceeded, NothingClosed

LEMMA LedgersKept ==
  ASSUME PushInv, LedgersOK, [Next]_vars
  PROVE  LedgersOK'
<1> SUFFICES ASSUME NEW f \in Executors PROVE LedgerOK(log'[f])
  BY DEF LedgersOK
<1>1. ExecOK(log[f], job[f], pushed[f]) /\ LedgerOK(log[f])
  BY OfExecutor DEF LedgersOK
<1>2. CASE \E e \in Executors, k \in Plans : Start(e, k)
  <2>1. PICK e \in Executors, k \in Plans : Start(e, k)
    BY <1>2
  <2>2. LedgerOK(log'[e]) /\ \A g \in Executors \ {e} : log'[g] = log[g]
    BY <2>1, StartedLog
  <2> QED
    BY <1>1, <2>2
<1>3. CASE Advances(log[f], log'[f])
  BY <1>1, <1>3, AdvanceEnters
<1> QED
  BY <1>2, <1>3, StepAdvances

LEMMA LedgersAlways == Spec => []LedgersOK
<1>1. Init => LedgersOK
  BY DEF Init, LedgersOK, LedgerOK, NoLog
<1>2. PushInv /\ LedgersOK /\ [Next]_vars => LedgersOK'
  BY LedgersKept
<1> QED
  BY <1>1, <1>2, PushInvAlways, PTL DEF Spec

\* Every step of an execution is one of the promise, or none.
LEMMA StepKeepsPromise ==
  ASSUME PushInv, LedgersOK, [Next]_vars
  PROVE  [Promise!Next]_(Promise!vars)
<1>1. ASSUME NEW f \in Executors
      PROVE  /\ Recorded[f] = Succeeded(Durable(log[f]))
             /\ Recorded'[f] = Succeeded(Durable(log'[f]))
             /\ Completed[f] = Closed(Durable(log[f]))
             /\ Completed'[f] = Closed(Durable(log'[f]))
  BY DEF Recorded, Completed
<1>2. CASE \E e \in Executors, k \in Plans : Start(e, k)
  <2>1. PICK e \in Executors, k \in Plans : Start(e, k)
    BY <1>2
  <2>2. /\ \A f \in Executors \ {e} : log'[f] = log[f]
        /\ pushed' = [pushed EXCEPT ![e] = {}]
        /\ Succeeded(Durable(log'[e])) = 0 /\ ~ Closed(Durable(log'[e]))
    BY <2>1, StartedLog
  <2>3. Recorded' = [Recorded EXCEPT ![e] = 0]
    BY <2>2 DEF Recorded
  <2>4. Completed' = [Completed EXCEPT ![e] = FALSE]
    BY <2>2 DEF Completed, Closed
  <2>5. Promise!Begin(e)
    BY <2>2, <2>3, <2>4 DEF Promise!Begin
  <2> QED
    BY <2>5 DEF Promise!Next
<1>3. CASE \E e \in Executors :
             /\ job[e].phase = "push"
             /\ pushed' = [pushed EXCEPT ![e] = @ \cup {job[e].a}]
             /\ \A f \in Executors : Durable(log'[f]) = Durable(log[f])
  <2>1. PICK e \in Executors :
             /\ job[e].phase = "push"
             /\ pushed' = [pushed EXCEPT ![e] = @ \cup {job[e].a}]
             /\ \A f \in Executors : Durable(log'[f]) = Durable(log[f])
    BY <1>3
  <2>2. Recorded' = Recorded /\ Completed' = Completed
    BY <2>1 DEF Recorded, Completed
  <2>3. ExecOK(log[e], job[e], pushed[e])
    BY OfExecutor
  <2>4. /\ log[e].synced = Len(log[e].lines) /\ Succeeded(log[e].lines) = job[e].a - 1
        /\ job[e].a \in Actions /\ ~ Says(log[e], "complete") /\ log[e].lines \in Seq(Lines)
    BY <2>1, <2>3, LogFields DEF ExecOK, Aim, AtAction
  <2>5. Durable(log[e]) = log[e].lines
    BY <2>4 DEF Durable
  <2>6. ~ Closed(Durable(log[e]))
    BY <2>4, <2>5 DEF Says, Closed
  <2>7. Recorded[e] + 1 = job[e].a /\ Recorded[e] < ActionCount /\ ~ Completed[e]
    BY <1>1, <2>4, <2>5, <2>6, LimitsAssumption DEF Actions
  <2>8. Promise!Publish(e)
    BY <2>1, <2>2, <2>7 DEF Promise!Publish
  <2> QED
    BY <2>8 DEF Promise!Next
<1>4. CASE pushed' = pushed /\ \A f \in Executors : Advances(log[f], log'[f])
  <2>1. ASSUME NEW f \in Executors
        PROVE  Promise!Keep(f) \/ Promise!Record(f) \/ Promise!Close(f)
    <3>1. ExecOK(log[f], job[f], pushed[f]) /\ LedgerOK(log[f])
      BY OfExecutor DEF LedgersOK
    <3>2. Entered(Succeeded(Durable(log[f])), Closed(Durable(log[f])),
                  Succeeded(Durable(log'[f])), Closed(Durable(log'[f])))
      BY <1>4, <3>1, AdvanceEnters
    <3>3. Entered(Recorded[f], Completed[f], Recorded'[f], Completed'[f])
      BY <1>1, <3>2
    <3> QED
      BY <3>3 DEF Entered, Promise!Keep, Promise!Record, Promise!Close
  <2>2. Promise!Settle
    BY <1>4, <2>1 DEF Promise!Settle
  <2> QED
    BY <2>2 DEF Promise!Next
<1> QED
  BY <1>2, <1>3, <1>4, StepAdvances

LEMMA PromiseInitially ==
  ASSUME Init PROVE Promise!Init
<1>1. Durable(NoLog) = <<>>
  BY DEF Durable, NoLog
<1>2. \A e \in Executors : log[e] = NoLog
  BY DEF Init
<1>3. Recorded = [e \in Executors |-> 0]
  BY <1>1, <1>2, NothingSucceeded DEF Recorded
<1>4. Completed = [e \in Executors |-> FALSE]
  BY <1>1, <1>2 DEF Completed, Closed
<1> QED
  BY <1>3, <1>4 DEF Init, Promise!Init

(***************************************************************************)
(* The theorems                                                            *)
(***************************************************************************)
\* The references, the documents, the result logs and the local state of every
\* execution have their types, and no log is synchronized past its end
\* (PushResultLog::append_json).
THEOREM TypeCorrect == Spec => []TypeOK
  BY PushInvAlways, PushInvSays, PTL

\* However many executions run and however each ends, the log on the disk names
\* every action published before the last one: the log is kept before the remote
\* is contacted, and every outcome is synchronized before the next push
\* (PushPlanEngine::execute, PushResultLog::append_action).
THEOREM PublishedAreLogged == Spec => []PublishedIsLogged
  BY PushInvAlways, PushInvSays, PTL

\* Whoever moves the references, an action is recorded as succeeded only after
\* its reference was seen at the object the Push Plan proposes (the observation
\* that follows every push in PushPlanEngine::execute).
THEOREM SuccessesAreProven == Spec => []SuccessIsProven
  BY PushInvAlways, PushInvSays, PTL

\* A log says complete only of an execution whose every action succeeded, also
\* after a power loss that cut the log (PushResultLog::finish).
THEOREM CompletesAreTrue == Spec => []CompleteIsTrue
  BY PushInvAlways, PushInvSays, PTL

\* Any number of executions together implement the ledgers they promise: what is
\* durable in a result log is never lost, names every action its execution has
\* published save at most the next, and says complete only of all of them
\* (PushPlanEngine::execute, PushResultLog).
THEOREM ExecutionsKeepLedgers == Spec => KeepsLedger
<1>1. Init => Promise!Init
  BY PromiseInitially
<1>2. PushInv /\ LedgersOK /\ [Next]_vars => [Promise!Next]_(Promise!vars)
  BY StepKeepsPromise
<1> QED
  BY <1>1, <1>2, PushInvAlways, LedgersAlways, PTL DEF Spec, KeepsLedger, Promise!Spec
================================================================================
