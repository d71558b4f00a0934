---------------------------- MODULE PushExecution ----------------------------
(***************************************************************************)
(* PushPlanEngine: a Push Plan is drafted from the local and the remote    *)
(* references, approved, and executed action by action.  An execution      *)
(* observes each reference, asks git to push it by its name, observes the  *)
(* remote again and appends the outcome to its own result log.             *)
(*                                                                         *)
(* The owner goes on working in the Project and other clients push to the  *)
(* remote between any two steps.  Action a publishes reference a.          *)
(***************************************************************************)
EXTENDS Integers, Sequences, FiniteSets

CONSTANTS
  Executors,       \* processes that execute Push Plans
  Plans,           \* Push Plan documents
  ActionCount,     \* actions of a Push Plan
  Objects,         \* git objects
  History,         \* <<o, p>> when o is p or an ancestor of it
  Absent,          \* the remote has no such reference
  NoPlan,          \* no document
  MaxMoves,        \* references moved by the owner and by other clients
  MaxMishaps       \* refusals of the result log, lost answers, kills, power losses

ASSUME ObjectsAssumption ==
  /\ Absent \notin Objects
  /\ History \subseteq Objects \X Objects
  /\ \A o \in Objects : <<o, o>> \in History
ASSUME PlansAssumption == NoPlan \notin Plans
ASSUME LimitsAssumption ==
  /\ ActionCount \in Nat \ {0}
  /\ MaxMoves \in Nat
  /\ MaxMishaps \in Nat

VARIABLES
  local,     \* the object of each local reference
  remote,    \* the object of each remote reference
  was,       \* the objects that each remote reference has ever had
  plan,      \* the Push Plan documents
  approved,  \* the Push Plans with an approval receipt
  expired,   \* the Push Plans whose fifteen minutes are over
  log,       \* the result log of the last execution of each executor
  pushed,    \* the actions for which that execution has moved the remote
  job,       \* the local state of the execution of each executor
  harm       \* how many moves and mishaps there were

references == <<local, remote, was>>
documents == <<plan, approved, expired>>
vars == <<references, documents, log, pushed, job, harm>>

(***************************************************************************)
(* Types                                                                   *)
(***************************************************************************)
Actions == 1 .. ActionCount

MaybeObject == Objects \cup {Absent}

\* expected_old_remote_object and proposed_new_remote_object of each action.
Document == [drafted : BOOLEAN, old : [Actions -> MaybeObject], new : [Actions -> Objects]]

Lines == {"header", "succeeded", "failed", "complete", "partial"}

\* The lines written, how many are synchronized, and whether the directory is;
\* the header names the Push Plan.
Log == [plan : Plans \cup {NoPlan}, lines : Seq(Lines), synced : Nat, kept : BOOLEAN]

NoLog == [plan |-> NoPlan, lines |-> <<>>, synced |-> 0, kept |-> FALSE]

\* Steps of an execution, in the order of the code.
Phases == {"idle", "sync", "keep", "check", "local", "remote", "push", "prove", "summary"}

Job == [phase : Phases,
        after : Phases,                    \* where it goes on after a log line
        audit : [Actions -> MaybeObject],  \* the local observation of the audit
        a     : 1 .. ActionCount + 1]      \* the action at work

Resting == [phase |-> "idle", after |-> "idle", a |-> 1,
            audit |-> [a \in Actions |-> Absent]]

TypeOK ==
  /\ local \in [Actions -> Objects]
  /\ remote \in [Actions -> MaybeObject]
  /\ was \in [Actions -> SUBSET MaybeObject]
  /\ plan \in [Plans -> Document]
  /\ approved \subseteq Plans /\ expired \subseteq Plans
  /\ log \in [Executors -> Log]
  /\ \A e \in Executors : log[e].synced <= Len(log[e].lines)
  /\ pushed \in [Executors -> SUBSET Actions]
  /\ job \in [Executors -> Job]

(***************************************************************************)
(* Operators                                                               *)
(***************************************************************************)
Reaches(o, p) == o = Absent \/ <<o, p>> \in History

At(e, phase) == job[e].phase = phase

Become(e, j) == job' = [job EXCEPT ![e] = j]

Goto(e, phase) == Become(e, [job[e] EXCEPT !.phase = phase])

Plan(e) == plan[log[e].plan]

\* Every line of the log is written and synchronized before the next step.
Write(e, line, j, after) ==
  /\ log' = [log EXCEPT ![e].lines = Append(@, line)]
  /\ Become(e, [j EXCEPT !.phase = "sync", !.after = after])

\* PushResultLog::finish: the failed action, then the summary.
Stop(e) ==
  /\ Write(e, "failed", job[e], "summary")
  /\ UNCHANGED <<references, documents, pushed>>

Mishap == harm.mishaps < MaxMishaps /\ harm' = [harm EXCEPT !.mishaps = @ + 1]

Outside == harm.moves < MaxMoves /\ harm' = [harm EXCEPT !.moves = @ + 1]

Succeeded(lines) == Cardinality({n \in 1 .. Len(lines) : lines[n] = "succeeded"})

(***************************************************************************)
(* Draft and approval                                                      *)
(***************************************************************************)
\* Every remote reference is behind the local one, or there is none.
Publishable == \A a \in Actions : Reaches(remote[a], local[a]) /\ remote[a] # local[a]

\* The draft observes both sides and writes the immutable document.
Draft(k) ==
  /\ ~ plan[k].drafted
  /\ Publishable
  /\ plan' = [plan EXCEPT ![k] = [drafted |-> TRUE, old |-> remote, new |-> local]]
  /\ UNCHANGED <<references, approved, expired, log, pushed, job, harm>>

Approve(k) ==
  /\ plan[k].drafted
  /\ k \notin approved \cup expired
  /\ approved' = approved \cup {k}
  /\ UNCHANGED <<references, plan, expired, log, pushed, job, harm>>

Expire(k) ==
  /\ plan[k].drafted
  /\ k \notin expired
  /\ expired' = expired \cup {k}
  /\ UNCHANGED <<references, plan, approved, log, pushed, job, harm>>

(***************************************************************************)
(* Execution                                                               *)
(***************************************************************************)
\* Mutant: the result log of the execution before is opened and truncated.
StartOverOld(e, k) ==
  /\ At(e, "idle")
  /\ k \in approved
  /\ log' = [log EXCEPT ![e].plan = k, ![e].lines = <<"header">>]
  /\ pushed' = [pushed EXCEPT ![e] = {}]
  /\ Become(e, [Resting EXCEPT !.phase = "sync", !.after = "keep", !.audit = local])
  /\ UNCHANGED <<references, documents, harm>>

\* A new result log is created with its header, before the remote is contacted.
Start(e, k) ==
  /\ At(e, "idle")
  /\ k \in approved
  /\ log' = [log EXCEPT ![e] = [NoLog EXCEPT !.plan = k, !.lines = <<"header">>]]
  /\ pushed' = [pushed EXCEPT ![e] = {}]
  /\ Become(e, [Resting EXCEPT !.phase = "sync", !.after = "keep", !.audit = local])
  /\ UNCHANGED <<references, documents, harm>>

Reported(e) == LET l == log[e].lines IN l[Len(l)]

\* The execution is over once its summary is synchronized.
SyncLine(e) ==
  /\ At(e, "sync")
  /\ log' = [log EXCEPT ![e].synced = Len(log[e].lines)]
  /\ IF job[e].after = "idle" THEN Become(e, Resting) ELSE Goto(e, job[e].after)
  /\ UNCHANGED <<references, documents, pushed, harm>>

\* Mutant: the directory of the log is not synchronized before the first push.
KeepLogForgotten(e) ==
  /\ At(e, "keep")
  /\ Goto(e, "check")
  /\ UNCHANGED <<references, documents, log, pushed, harm>>

KeepLog(e) ==
  /\ At(e, "keep")
  /\ log' = [log EXCEPT ![e].kept = TRUE]
  /\ Goto(e, "check")
  /\ UNCHANGED <<references, documents, pushed, harm>>

\* An expired plan or a Project that changed since its audit ends it here.
Check(e) ==
  /\ At(e, "check")
  /\ IF log[e].plan \in expired \/ local # job[e].audit
       THEN Goto(e, "summary") ELSE Goto(e, "local")
  /\ UNCHANGED <<references, documents, log, pushed, harm>>

ReadLocal(e) ==
  /\ At(e, "local")
  /\ IF local[job[e].a] = Plan(e).new[job[e].a]
       THEN Goto(e, "remote") /\ UNCHANGED <<references, documents, log, pushed>>
       ELSE Stop(e)
  /\ UNCHANGED harm

ReadRemote(e) ==
  /\ At(e, "remote")
  /\ LET a == job[e].a IN
       IF remote[a] = Plan(e).old[a] /\ Reaches(remote[a], Plan(e).new[a])
         THEN Goto(e, "push") /\ UNCHANGED <<references, documents, log, pushed>>
         ELSE Stop(e)
  /\ UNCHANGED harm

\* git pushes what the local reference has now, unless that would rewind.
Lands(e) ==
  LET a == job[e].a IN
  /\ Reaches(remote[a], local[a])
  /\ remote' = [remote EXCEPT ![a] = local[a]]
  /\ was' = [was EXCEPT ![a] = @ \cup {local[a]}]
  /\ pushed' = IF remote[a] = local[a] THEN pushed
               ELSE [pushed EXCEPT ![e] = @ \cup {a}]
  /\ UNCHANGED local

Push(e) ==
  /\ At(e, "push")
  /\ Lands(e)
  /\ Goto(e, "prove")
  /\ UNCHANGED <<documents, log, harm>>

\* git rejects the push.
PushRejected(e) ==
  /\ At(e, "push")
  /\ ~ Reaches(remote[job[e].a], local[job[e].a])
  /\ Stop(e)
  /\ UNCHANGED harm

\* The answer of git is lost; the push may have landed.
PushUnanswered(e) ==
  /\ At(e, "push")
  /\ Mishap
  /\ Lands(e) \/ UNCHANGED <<references, pushed>>
  /\ Write(e, "failed", job[e], "summary")
  /\ UNCHANGED documents

\* git could not observe a reference.
Unobserved(e) ==
  /\ job[e].phase \in {"local", "remote", "prove"}
  /\ Mishap
  /\ Stop(e)

\* Mutant: git's status is proof enough.
ProvenByStatus(e) == TRUE

Proven(e) == remote[job[e].a] = Plan(e).new[job[e].a]

AfterAction(e) == IF job[e].a = ActionCount THEN "summary" ELSE "local"

\* Mutant: the outcome of an action is synchronized with that of the last.
RecordSuccessLate(e) ==
  LET j == [job[e] EXCEPT !.a = @ + 1] IN
  IF job[e].a = ActionCount
    THEN Write(e, "succeeded", j, "summary")
    ELSE /\ log' = [log EXCEPT ![e].lines = Append(@, "succeeded")]
         /\ Become(e, [j EXCEPT !.phase = "local"])

RecordSuccess(e) ==
  Write(e, "succeeded", [job[e] EXCEPT !.a = @ + 1], AfterAction(e))

Prove(e) ==
  /\ At(e, "prove")
  /\ IF Proven(e)
       THEN RecordSuccess(e) /\ UNCHANGED <<references, documents, pushed>>
       ELSE Stop(e)
  /\ UNCHANGED harm

\* Mutant: the summary is complete if no action failed.
OutcomeUnlessFailed(e) == IF Reported(e) = "failed" THEN "partial" ELSE "complete"

Outcome(e) == IF job[e].a > ActionCount THEN "complete" ELSE "partial"

Summarize(e) ==
  /\ At(e, "summary")
  /\ Write(e, Outcome(e), job[e], "idle")
  /\ UNCHANGED <<references, documents, pushed, harm>>

\* The result log refuses a write or a synchronization: there is no report.
Fault(e) ==
  /\ job[e].phase \in {"sync", "keep"}
  /\ Mishap
  /\ Become(e, Resting)
  /\ UNCHANGED <<references, documents, log, pushed>>

(***************************************************************************)
(* The environment                                                         *)
(***************************************************************************)
MoveLocal ==
  /\ Outside
  /\ \E a \in Actions, o \in Objects : o # local[a] /\ local' = [local EXCEPT ![a] = o]
  /\ UNCHANGED <<remote, was, documents, log, pushed, job>>

MoveRemote ==
  /\ Outside
  /\ \E a \in Actions, o \in MaybeObject :
       /\ o # remote[a]
       /\ remote' = [remote EXCEPT ![a] = o]
       /\ was' = [was EXCEPT ![a] = @ \cup {o}]
  /\ UNCHANGED <<local, documents, log, pushed, job>>

Kill(e) ==
  /\ ~ At(e, "idle")
  /\ Mishap
  /\ Become(e, Resting)
  /\ UNCHANGED <<references, documents, log, pushed>>

\* What was not synchronized may be lost, and a log not kept may be gone.
Survivors(l) ==
  {[l EXCEPT !.lines = SubSeq(l.lines, 1, n), !.synced = n, !.kept = TRUE] :
     n \in l.synced .. Len(l.lines)} \cup (IF l.kept THEN {} ELSE {NoLog})

PowerLoss ==
  /\ Mishap
  /\ \E left \in [Executors -> UNION {Survivors(log[e]) : e \in Executors}] :
       /\ \A e \in Executors : left[e] \in Survivors(log[e])
       /\ log' = left
  /\ job' = [e \in Executors |-> Resting]
  /\ UNCHANGED <<references, documents, pushed>>

(***************************************************************************)
(* The specification                                                       *)
(***************************************************************************)
Init ==
  /\ local \in [Actions -> Objects]
  /\ remote \in [Actions -> MaybeObject]
  /\ Publishable
  /\ was = [a \in Actions |-> {remote[a]}]
  /\ plan = [k \in Plans |-> [drafted |-> FALSE, old |-> remote, new |-> local]]
  /\ approved = {} /\ expired = {}
  /\ log = [e \in Executors |-> NoLog]
  /\ pushed = [e \in Executors |-> {}]
  /\ job = [e \in Executors |-> Resting]
  /\ harm = [moves |-> 0, mishaps |-> 0]

Execute(e) == \/ SyncLine(e) \/ KeepLog(e) \/ Check(e) \/ ReadLocal(e) \/ ReadRemote(e)
              \/ Push(e) \/ PushRejected(e) \/ PushUnanswered(e) \/ Unobserved(e)
              \/ Prove(e) \/ Summarize(e)

Next == \/ \E k \in Plans : Draft(k) \/ Approve(k) \/ Expire(k)
        \/ \E e \in Executors : \/ \E k \in Plans : Start(e, k)
                                \/ Execute(e) \/ Fault(e) \/ Kill(e)
        \/ MoveLocal \/ MoveRemote \/ PowerLoss

Spec == Init /\ [][Next]_vars

(***************************************************************************)
(* Safety                                                                  *)
(***************************************************************************)
Durable(l) == SubSeq(l.lines, 1, l.synced)

\* However an execution ends, the log on the disk names every action it has
\* published as succeeded, save at most the next one after them: nothing is
\* pushed before the action before it is proven, appended and synchronized.
PublishedIsLogged ==
  \A e \in Executors : pushed[e] \subseteq 1 .. Succeeded(Durable(log[e])) + 1

\* An action is recorded as succeeded only if the remote reference has had the
\* object that the Push Plan proposes, whatever moved it before or after
\* (the observation that follows every push).
SuccessIsProven ==
  \A e \in Executors : \A a \in 1 .. Succeeded(log[e].lines) : Plan(e).new[a] \in was[a]

\* A summary that says complete follows the success of every action, also when
\* the execution ended early (PushResultLog::finish).
CompleteIsTrue ==
  \A e \in Executors :
    log[e].lines # <<>> /\ Reported(e) = "complete" => Succeeded(log[e].lines) = ActionCount

(***************************************************************************)
(* What the documentation says                                             *)
(***************************************************************************)
\* Behind, diverged, absent, created, moved, or otherwise stale references are
\* never reconciled: an execution moves a remote reference only from what the
\* Push Plan expects to what it proposes.
StaleIsNotPublished ==
  [][\A e \in Executors :
       LET a == job[e].a IN
       At(e, "push") /\ pushed'[e] # pushed[e] =>
         remote[a] = Plan(e).old[a] /\ remote'[a] = Plan(e).new[a]]_vars
=============================================================================
