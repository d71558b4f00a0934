------------------------- MODULE ProjectCapsuleProofs -------------------------
(***************************************************************************)
(* Theorems of ProjectCapsule, for every Project, every number of its      *)
(* paths, every retry policy and every bound on what changes and fails.    *)
(***************************************************************************)
EXTENDS ProjectCapsule, TLAPS

(***************************************************************************)
(* The local state of a call                                               *)
(***************************************************************************)
LEMMA Constants ==
  /\ Absent \in Value /\ Empty \in State /\ 1 \in 1 .. PathCount + 1
  /\ PathCount \in Nat /\ TotalAttempts \in Nat /\ CaptureAttempts \in Nat
  /\ MaxChanges \in Nat /\ MaxBundles \in Nat
<1>1. Absent \in Value
  BY CapsuleBounds DEF Absent, Value
<1>2. Empty \in State
  BY <1>1 DEF Empty, State
<1> QED
  BY <1>1, <1>2, PathsAssumption, AttemptsAssumption, CapsuleBounds

LEMMA IdleFields ==
  /\ Idle \in Job /\ Idle.phase = "idle" /\ Idle.use = "capture" /\ Idle.plan = {}
  /\ Idle.attempt = 0
<1>1. /\ 0 \in 0 .. TotalAttempts /\ 0 \in 0 .. CaptureAttempts /\ 0 \in 0 .. MaxBundles
  BY Constants
<1> QED
  BY <1>1, Constants DEF Idle, Job, Phases, NoBundle

\* Everything of a call but its phase and its walk.
SameWork(k, j) ==
  /\ k.use = j.use /\ k.reviewed = j.reviewed /\ k.excluded = j.excluded
  /\ k.plan = j.plan /\ k.attempt = j.attempt /\ k.seen = j.seen /\ k.held = j.held
  /\ k.body = j.body /\ k.post = j.post /\ k.bundle = j.bundle

LEMMA PhaseOf ==
  ASSUME NEW j \in Job, NEW phase \in Phases, NEW k, k = [j EXCEPT !.phase = phase]
  PROVE  k \in Job /\ SameWork(k, j) /\ k.phase = phase /\ k.at = j.at /\ k.before = j.before
         /\ k.tries = j.tries
  BY DEF Job, SameWork

LEMMA WalkOf ==
  ASSUME NEW j \in Job, NEW phase \in Phases, NEW k, k = Walk(j, phase)
  PROVE  k \in Job /\ SameWork(k, j) /\ k.phase = phase /\ k.at = 1 /\ k.tries = 0
<1> DEFINE a == [j EXCEPT !.phase = phase]
           b == [a EXCEPT !.at = 1]
<1>1. a \in Job /\ SameWork(a, j) /\ a.phase = phase
  BY PhaseOf
<1>2. k = [b EXCEPT !.tries = 0]
  BY DEF Walk
<1> HIDE DEF a
<1>3. b \in Job /\ SameWork(b, a) /\ b.phase = phase /\ b.at = 1
  BY <1>1, Constants DEF Job, SameWork
<1> HIDE DEF b
<1>4. 0 \in 0 .. CaptureAttempts
  BY Constants
<1>5. k \in Job /\ SameWork(k, b) /\ k.phase = phase /\ k.at = 1 /\ k.tries = 0
  BY <1>2, <1>3, <1>4 DEF Job, SameWork
<1> QED
  BY <1>1, <1>3, <1>5 DEF SameWork

LEMMA OnwardOf ==
  ASSUME NEW j \in Job, j.at # PathCount + 1, NEW k, k = Onward(j)
  PROVE  /\ k \in Job /\ SameWork(k, j) /\ k.phase = j.phase /\ k.at = j.at + 1
         /\ j.at \in Paths /\ k.tries = j.tries
  BY Constants DEF Job, SameWork, Onward, Paths

(***************************************************************************)
(* What each step does to the local state                                  *)
(***************************************************************************)
LEMMA SourceObserved ==
  ASSUME source \in State, NEW reviewed
  PROVE  /\ Observation(source, reviewed) \in State
         /\ \A p \in Observed(reviewed) : Observation(source, reviewed)[p] = source[p]
         /\ \A p \in Paths \ Observed(reviewed) : Observation(source, reviewed)[p] = Absent
         /\ Observed(reviewed) \subseteq Paths
  BY Constants DEF Observation, State, Observed

LEMMA CaptureStarts ==
  ASSUME Capture, review \in Review
  PROVE  /\ job' \in Job /\ job'.phase = "exclude" /\ job'.use = "capture" /\ job'.plan = {}
         /\ job.phase = "idle"
<1> DEFINE a == [Idle EXCEPT !.phase = "exclude"]
<1>1. a \in Job /\ a.phase = "exclude" /\ a.use = "capture" /\ a.plan = {}
  BY IdleFields, PhaseOf DEF SameWork, Phases
<1>2. job' = [a EXCEPT !.reviewed = review.included] /\ job.phase = "idle"
  BY DEF Capture, Become, At
<1>3. review.included \in SUBSET Ignored
  BY DEF Review
<1> HIDE DEF a
<1> QED
  BY <1>1, <1>2, <1>3 DEF Job

LEMMA CompareStarts ==
  ASSUME Compare
  PROVE  /\ job' \in Job /\ job'.phase = "observe" /\ job'.use = "git" /\ job'.plan = {}
         /\ job'.at = 1 /\ job.phase = "idle"
<1> DEFINE a == [Idle EXCEPT !.phase = "observe"]
           b == [a EXCEPT !.use = "git"]
<1>1. a \in Job /\ a.phase = "observe" /\ a.plan = {} /\ a.at = 1
  BY IdleFields, PhaseOf DEF SameWork, Phases, Idle
<1>2. PICK reviewed \in SUBSET Ignored : job' = [b EXCEPT !.reviewed = reviewed]
  BY DEF Compare, Become
<1>3. job.phase = "idle"
  BY DEF Compare, At
<1> HIDE DEF a
<1>4. b \in Job /\ b.phase = "observe" /\ b.plan = {} /\ b.at = 1 /\ b.use = "git"
  BY <1>1 DEF Job
<1> HIDE DEF b
<1> QED
  BY <1>2, <1>3, <1>4 DEF Job

LEMMA ExcludeGoesOn ==
  ASSUME Exclude, job \in Job
  PROVE  /\ job' \in Job /\ job.phase = "exclude"
         /\ job'.phase = IF job.use = "git" THEN "copy" ELSE "scan"
         /\ job'.use = job.use /\ job'.reviewed = job.reviewed /\ job'.plan = job.plan
         /\ job'.seen = job.seen /\ job'.held = job.held
<1> DEFINE j == [job EXCEPT !.excluded = Candidates(source) \ job.reviewed]
<1>1. Candidates(source) \ job.reviewed \in SUBSET Paths
  BY DEF Candidates, Present
<1>2. /\ j \in Job /\ j.use = job.use /\ j.reviewed = job.reviewed /\ j.plan = job.plan
      /\ j.seen = job.seen /\ j.held = job.held
  BY <1>1 DEF Job
<1>3. /\ job.phase = "exclude"
      /\ job' = IF job.use = "git" THEN Walk(j, "copy") ELSE [j EXCEPT !.phase = "scan"]
  BY DEF Exclude, Become, At
<1>4. "copy" \in Phases /\ "scan" \in Phases
  BY DEF Phases
<1> HIDE DEF j
<1>5. CASE job.use = "git"
  BY <1>2, <1>3, <1>4, <1>5, WalkOf DEF SameWork
<1>6. CASE job.use # "git"
  BY <1>2, <1>3, <1>4, <1>6, PhaseOf DEF SameWork
<1> QED
  BY <1>5, <1>6

LEMMA ScanGoesOn ==
  ASSUME Scan, job \in Job
  PROVE  /\ job' \in Job /\ job.phase = "scan"
         /\ job'.phase = IF job.use = "snapshot" THEN "pack" ELSE "names"
         /\ job'.use = job.use /\ job'.reviewed = job.reviewed
         /\ job'.seen = job.seen /\ job'.held = job.held
         /\ job.use = "snapshot" => job'.at = 1
         /\ job.use # "snapshot" => job'.attempt = 1
<1> DEFINE j == [job EXCEPT !.plan = Present(source) \ job.excluded]
           n == [j EXCEPT !.phase = "names"]
<1>1. Present(source) \ job.excluded \in SUBSET Paths
  BY DEF Present
<1>2. /\ j \in Job /\ j.use = job.use /\ j.reviewed = job.reviewed
      /\ j.seen = job.seen /\ j.held = job.held
  BY <1>1 DEF Job
<1>3. /\ job.phase = "scan"
      /\ job' = IF job.use = "snapshot" THEN Walk(j, "pack") ELSE [n EXCEPT !.attempt = 1]
  BY DEF Scan, Become, At
<1>4. "pack" \in Phases /\ "names" \in Phases /\ 1 \in 0 .. TotalAttempts
  BY AttemptsAssumption DEF Phases
<1> HIDE DEF j
<1>5. CASE job.use = "snapshot"
  BY <1>2, <1>3, <1>4, <1>5, WalkOf DEF SameWork
<1>6. CASE job.use # "snapshot"
  <2>1. n \in Job /\ SameWork(n, j) /\ n.phase = "names"
    BY <1>2, <1>4, PhaseOf
  <2>2. job' = [n EXCEPT !.attempt = 1]
    BY <1>3, <1>6
  <2> HIDE DEF n
  <2> QED
    BY <1>2, <1>3, <1>4, <1>6, <2>1, <2>2 DEF Job, SameWork
<1> QED
  BY <1>5, <1>6

LEMMA BeginGoesOn ==
  ASSUME BeginAttempt, job \in Job
  PROVE  /\ job' \in Job /\ job.phase = "names" /\ job'.phase = "observe" /\ job'.at = 1
         /\ SameWork(job', job)
<1>1. job.phase = "names" /\ job' = Walk(job, "observe") /\ "observe" \in Phases
  BY DEF BeginAttempt, Become, At, Phases
<1> QED
  BY <1>1, WalkOf

LEMMA ObserveGoesOn ==
  ASSUME Observe, job \in Job, source \in State
  PROVE  /\ job' \in Job /\ job.phase = "observe" /\ job'.phase = "observe"
         /\ job.at \in Paths /\ job'.at = job.at + 1
         /\ job'.use = job.use /\ job'.reviewed = job.reviewed /\ job'.plan = job.plan
         /\ job'.attempt = job.attempt
         /\ job'.seen = [job.seen EXCEPT ![job.at] = Read] /\ Read \in Value
<1> DEFINE j == [job EXCEPT !.seen[job.at] = Read]
<1>1. /\ job.phase = "observe" /\ job.at # PathCount + 1 /\ job' = Onward(j)
  BY DEF Observe, Become, At, Walked
<1>2. job.at \in Paths
  BY <1>1, Constants DEF Job, Paths
<1>3. Read \in Value
  BY <1>2, SourceObserved DEF Read, State
<1>4. /\ j \in Job /\ j.use = job.use /\ j.reviewed = job.reviewed /\ j.plan = job.plan
      /\ j.seen = [job.seen EXCEPT ![job.at] = Read] /\ j.at = job.at /\ j.phase = job.phase
      /\ j.attempt = job.attempt
  BY <1>2, <1>3 DEF Job, State
<1> HIDE DEF j
<1> QED
  BY <1>1, <1>2, <1>3, <1>4, OnwardOf DEF SameWork

LEMMA EndObservationGoesOn ==
  ASSUME EndObservation, job \in Job, source \in State
  PROVE  /\ job' \in Job /\ job.phase = "observe" /\ job.at = PathCount + 1
         /\ job'.phase = IF job.use = "capture" THEN "pack" ELSE "exclude"
         /\ job.use = "capture" => job'.at = 1
         /\ job'.use = job.use /\ job'.reviewed = job.reviewed /\ job'.plan = job.plan
         /\ job'.attempt = job.attempt
         /\ job'.seen = job.seen /\ job'.held = Observation(source, job.reviewed)
<1> DEFINE j == [job EXCEPT !.held = Observation(source, job.reviewed)]
<1>1. /\ job.phase = "observe" /\ job.at = PathCount + 1
      /\ job' = IF job.use = "capture" THEN Walk(j, "pack") ELSE [j EXCEPT !.phase = "exclude"]
  BY DEF EndObservation, Become, At, Walked
<1>2. /\ j \in Job /\ j.use = job.use /\ j.reviewed = job.reviewed /\ j.plan = job.plan
      /\ j.seen = job.seen /\ j.held = Observation(source, job.reviewed)
      /\ j.attempt = job.attempt
  BY SourceObserved DEF Job
<1>3. "pack" \in Phases /\ "exclude" \in Phases
  BY DEF Phases
<1> HIDE DEF j
<1>4. CASE job.use = "capture"
  BY <1>1, <1>2, <1>3, <1>4, WalkOf DEF SameWork
<1>5. CASE job.use # "capture"
  BY <1>1, <1>2, <1>3, <1>5, PhaseOf DEF SameWork
<1> QED
  BY <1>4, <1>5

LEMMA SkipGoesOn ==
  ASSUME SkipItem, job \in Job
  PROVE  /\ job' \in Job /\ job.phase = "pack" /\ job'.phase = "pack" /\ job.at \notin job.plan
         /\ job.at \in Paths /\ job'.at = job.at + 1 /\ SameWork(job', job)
<1>1. /\ job.phase = "pack" /\ job.at # PathCount + 1 /\ job' = Onward(job)
      /\ job.at \notin job.plan
  BY DEF SkipItem, Become, At, Walked
<1> QED
  BY <1>1, OnwardOf

LEMMA OpenGoesOn ==
  ASSUME OpenItem, job \in Job, source \in State, job.tries < CaptureAttempts
  PROVE  /\ job' \in Job /\ job.phase = "pack" /\ job'.phase = "read" /\ job.at \in Paths
         /\ job'.at = job.at /\ job'.before = source[job.at] /\ SameWork(job', job)
         /\ job.at \in job.plan
<1> DEFINE a == [job EXCEPT !.phase = "read"]
           b == [a EXCEPT !.before = source[job.at]]
<1>1. /\ job.phase = "pack" /\ job.at # PathCount + 1 /\ job.at \in Paths
      /\ job.at \in job.plan
      /\ job' = [b EXCEPT !.tries = @ + 1]
  BY Constants DEF OpenItem, Become, At, Walked, Job, Paths
<1>2. a \in Job /\ SameWork(a, job) /\ a.phase = "read" /\ a.at = job.at /\ a.tries = job.tries
  BY PhaseOf DEF Phases
<1>3. source[job.at] \in Value
  BY <1>1 DEF State
<1> HIDE DEF a
<1>4. /\ b \in Job /\ SameWork(b, a) /\ b.phase = "read" /\ b.at = job.at
      /\ b.tries = job.tries /\ b.before = source[job.at]
  BY <1>2, <1>3 DEF Job, SameWork
<1> HIDE DEF b
<1> QED
  <2>1. job.tries + 1 \in 0 .. CaptureAttempts
    BY Constants DEF Job
  <2> QED
    BY <1>1, <1>2, <1>4, <2>1 DEF Job, SameWork

LEMMA ReadGoesOn ==
  ASSUME ReadItem, job \in Job, source \in State, job.at \in Paths
  PROVE  /\ job' \in Job /\ job.phase = "read" /\ job'.phase = "pack"
         /\ job'.use = job.use /\ job'.reviewed = job.reviewed /\ job'.plan = job.plan
         /\ job'.attempt = job.attempt /\ job'.seen = job.seen /\ job'.held = job.held
         /\ job'.tries < CaptureAttempts
         /\ \/ job'.at = job.at /\ job'.body = job.body
            \/ job'.at = job.at + 1 /\ job'.body = [job.body EXCEPT ![job.at] = Captured]
<1>1. job.phase = "read" /\ 0 < CaptureAttempts /\ 0 \in 0 .. CaptureAttempts
  BY AttemptsAssumption DEF ReadItem, At
<1> DEFINE a == [job EXCEPT !.phase = "pack"]
           b == [a EXCEPT !.tries = 0]
           c == [b EXCEPT !.before = Absent]
           d == [c EXCEPT !.body[job.at] = Captured]
<1>2. \/ job' = a /\ job.tries < CaptureAttempts
      \/ job' = Onward(d)
  BY DEF ReadItem, Become
<1>3. a \in Job /\ SameWork(a, job) /\ a.phase = "pack" /\ a.at = job.at /\ a.tries = job.tries
  BY PhaseOf DEF Phases
<1> HIDE DEF a
<1>4. CASE job' = a /\ job.tries < CaptureAttempts
  BY <1>1, <1>3, <1>4 DEF SameWork
<1>5. CASE job' = Onward(d)
  <2>1. b \in Job /\ SameWork(b, job) /\ b.phase = "pack" /\ b.at = job.at /\ b.tries = 0
    BY <1>1, <1>3 DEF Job, SameWork
  <2> HIDE DEF b
  <2>2. c \in Job /\ SameWork(c, job) /\ c.phase = "pack" /\ c.at = job.at /\ c.tries = 0
    BY <2>1, Constants DEF Job, SameWork
  <2> HIDE DEF c
  <2>3. Captured \in Value
    BY Constants DEF Captured, Job, State
  <2>4. /\ d \in Job /\ d.phase = "pack" /\ d.at = job.at /\ d.tries = 0
        /\ d.use = job.use /\ d.reviewed = job.reviewed /\ d.plan = job.plan
        /\ d.attempt = job.attempt /\ d.seen = job.seen /\ d.held = job.held
        /\ d.body = [job.body EXCEPT ![job.at] = Captured]
    BY <2>2, <2>3 DEF Job, SameWork, State
  <2> HIDE DEF d
  <2>5. d.at # PathCount + 1
    BY <2>4, Constants DEF Paths
  <2> QED
    BY <1>1, <1>5, <2>4, <2>5, OnwardOf DEF SameWork
<1> QED
  BY <1>2, <1>4, <1>5

LEMMA SealGoesOn ==
  ASSUME Seal, job \in Job
  PROVE  /\ job' \in Job /\ job.phase = "pack" /\ job.at = PathCount + 1
         /\ job.use = "capture" /\ job'.phase = "recheck" /\ job'.at = 1
         /\ job'.use = job.use /\ job'.reviewed = job.reviewed /\ job'.plan = job.plan
         /\ job'.attempt = job.attempt /\ job'.seen = job.seen /\ job'.held = job.held
         /\ job'.body = job.body /\ job'.bundle \in FreeIds
         /\ bundles' = [bundles EXCEPT ![job'.bundle] = [body |-> job.body, sealed |-> TRUE]]
         /\ dir[AttemptName(job.attempt)] = NoBundle
         /\ dir' = [dir EXCEPT ![AttemptName(job.attempt)] = job'.bundle]
         /\ views' = {dir'} /\ UNCHANGED <<source, review, owner, receipt, harm>>
<1> DEFINE id == CHOOSE id \in FreeIds : TRUE
<1>1. id \in FreeIds
  BY DEF Seal
<1> DEFINE j == [job EXCEPT !.bundle = id]
<1>2. /\ job.phase = "pack" /\ job.at = PathCount + 1 /\ job.use = "capture"
      /\ dir[AttemptName(job.attempt)] = NoBundle
      /\ job' = Walk(j, "recheck")
      /\ bundles' = [bundles EXCEPT ![id] = [body |-> job.body, sealed |-> TRUE]]
      /\ dir' = [dir EXCEPT ![AttemptName(job.attempt)] = id]
      /\ views' = {dir'} /\ UNCHANGED <<source, review, owner, receipt, harm>>
  BY DEF Seal, Become, At, Walked
<1> HIDE DEF id
<1>3. /\ j \in Job /\ j.bundle = id /\ j.use = job.use /\ j.reviewed = job.reviewed
      /\ j.plan = job.plan /\ j.attempt = job.attempt /\ j.seen = job.seen
      /\ j.held = job.held /\ j.body = job.body
  BY <1>1, Constants DEF Job, FreeIds, Ids
<1> HIDE DEF j
<1>4. "recheck" \in Phases
  BY DEF Phases
<1>5. job' \in Job /\ SameWork(job', j) /\ job'.phase = "recheck" /\ job'.at = 1
  BY <1>2, <1>3, <1>4, WalkOf
<1>6. job'.bundle = id
  BY <1>3, <1>5 DEF SameWork
<1> QED
  BY <1>1, <1>2, <1>3, <1>5, <1>6 DEF SameWork

LEMMA RecheckGoesOn ==
  ASSUME Recheck, job \in Job, source \in State
  PROVE  /\ job' \in Job /\ job.phase = "recheck" /\ job'.phase = "recheck"
         /\ job.at \in Paths /\ job'.at = job.at + 1
         /\ job'.use = job.use /\ job'.reviewed = job.reviewed /\ job'.plan = job.plan
         /\ job'.attempt = job.attempt /\ job'.seen = job.seen /\ job'.held = job.held
         /\ job'.body = job.body /\ job'.bundle = job.bundle
         /\ job'.post = [job.post EXCEPT ![job.at] = Read]
<1> DEFINE j == [job EXCEPT !.post[job.at] = Read]
<1>1. /\ job.phase = "recheck" /\ job.at # PathCount + 1 /\ job' = Onward(j)
  BY DEF Recheck, Become, At, Walked
<1>2. job.at \in Paths
  BY <1>1, Constants DEF Job, Paths
<1>3. Read \in Value
  BY <1>2, SourceObserved DEF Read, State
<1>4. /\ j \in Job /\ j.use = job.use /\ j.reviewed = job.reviewed /\ j.plan = job.plan
      /\ j.post = [job.post EXCEPT ![job.at] = Read] /\ j.at = job.at /\ j.phase = job.phase
      /\ j.attempt = job.attempt /\ j.seen = job.seen /\ j.held = job.held
      /\ j.body = job.body /\ j.bundle = job.bundle
  BY <1>2, <1>3 DEF Job, State
<1> HIDE DEF j
<1> QED
  BY <1>1, <1>2, <1>3, <1>4, OnwardOf DEF SameWork

\* The steps that only move the phase.
LEMMA MovesOn ==
  ASSUME job \in Job
  PROVE  /\ Rechecked => /\ job.phase = "recheck" /\ job.at = PathCount + 1
                         /\ job' \in Job /\ SameWork(job', job)
                         /\ job'.phase = IF job.use = "capture" THEN "decide" ELSE "judge"
         /\ PublishAttempt => /\ job.phase = "decide" /\ job' \in Job /\ SameWork(job', job)
                              /\ job'.phase = "unlink"
         /\ UnlinkAttempt => /\ job.phase = "unlink" /\ job' \in Job /\ SameWork(job', job)
                             /\ job'.phase = "modes"
         /\ RetainAttempt => /\ job.phase = "decide" /\ job' \in Job /\ SameWork(job', job)
                             /\ job'.phase = "unretain"
<1>1. /\ Rechecked => /\ job.phase = "recheck" /\ job.at = PathCount + 1
                      /\ job' = [job EXCEPT !.phase =
                                    IF job.use = "capture" THEN "decide" ELSE "judge"]
      /\ PublishAttempt => job.phase = "decide" /\ job' = [job EXCEPT !.phase = "unlink"]
      /\ UnlinkAttempt => job.phase = "unlink" /\ job' = [job EXCEPT !.phase = "modes"]
      /\ RetainAttempt => job.phase = "decide" /\ job' = [job EXCEPT !.phase = "unretain"]
  BY DEF Rechecked, PublishAttempt, UnlinkAttempt, RetainAttempt, Goto, Become, At, Walked
<1>2. /\ "decide" \in Phases /\ "judge" \in Phases /\ "unlink" \in Phases
      /\ "modes" \in Phases /\ "unretain" \in Phases
  BY DEF Phases
<1> QED
  BY <1>1, <1>2, PhaseOf

LEMMA NextAttemptGoesOn ==
  ASSUME NextAttempt, job \in Job, job.attempt \in Attempts
  PROVE  /\ job' \in Job /\ job.phase = "unretain"
         /\ \/ job' = Idle
            \/ job'.phase = "names" /\ job'.use = "capture" /\ job'.attempt \in Attempts
<1> DEFINE a == [Idle EXCEPT !.phase = "names"]
           b == [a EXCEPT !.attempt = job.attempt + 1]
           c == [b EXCEPT !.reviewed = job.reviewed]
           d == [c EXCEPT !.excluded = job.excluded]
<1>1. /\ job.phase = "unretain"
      /\ \/ job' = Idle
         \/ job' = [d EXCEPT !.plan = job.plan] /\ job.attempt < TotalAttempts
  BY DEF NextAttempt, Become, At, MoreAttempts
<1>2. CASE job' = Idle
  BY <1>1, <1>2, IdleFields
<1>3. CASE job' = [d EXCEPT !.plan = job.plan] /\ job.attempt < TotalAttempts
  <2>1. a \in Job /\ a.phase = "names" /\ a.use = "capture"
    BY IdleFields, PhaseOf DEF Phases, SameWork
  <2>2. job.attempt + 1 \in Attempts /\ job.attempt + 1 \in 0 .. TotalAttempts
    BY <1>3, Constants DEF Attempts
  <2> HIDE DEF a
  <2>3. b \in Job /\ b.phase = "names" /\ b.use = "capture" /\ b.attempt \in Attempts
    BY <2>1, <2>2 DEF Job
  <2> HIDE DEF b
  <2>4. c \in Job /\ c.phase = "names" /\ c.use = "capture" /\ c.attempt \in Attempts
    BY <2>3 DEF Job
  <2> HIDE DEF c
  <2>5. d \in Job /\ d.phase = "names" /\ d.use = "capture" /\ d.attempt \in Attempts
    BY <2>4 DEF Job
  <2> HIDE DEF d
  <2> QED
    BY <1>1, <1>3, <2>5 DEF Job
<1> QED
  BY <1>1, <1>2, <1>3

LEMMA CopyGoesOn ==
  ASSUME CopyPath, job \in Job, source \in State
  PROVE  /\ job' \in Job /\ job.phase = "copy" /\ job'.phase = "copy"
         /\ job'.use = job.use /\ job'.reviewed = job.reviewed /\ job'.plan = job.plan
         /\ job'.seen = job.seen /\ job'.held = job.held
<1> DEFINE v == IF job.at \in job.excluded THEN Absent ELSE source[job.at]
           j == [job EXCEPT !.body[job.at] = v]
<1>1. job.phase = "copy" /\ job.at # PathCount + 1 /\ job' = Onward(j)
  BY DEF CopyPath, Become, At, Walked
<1>2. job.at \in Paths
  BY <1>1, Constants DEF Job, Paths
<1>3. v \in Value
  BY <1>2, Constants DEF State
<1> HIDE DEF v
<1>4. /\ j \in Job /\ j.use = job.use /\ j.reviewed = job.reviewed /\ j.plan = job.plan
      /\ j.at = job.at /\ j.phase = job.phase /\ j.seen = job.seen /\ j.held = job.held
  BY <1>2, <1>3 DEF Job, State
<1> HIDE DEF j
<1> QED
  BY <1>1, <1>4, OnwardOf DEF SameWork

LEMMA SealCandidateGoesOn ==
  ASSUME SealCandidate, job \in Job
  PROVE  /\ job' \in Job /\ job.phase \in {"copy", "pack"} /\ job'.phase = "recheck"
         /\ job.phase = "pack" => job.use = "snapshot" /\ job.at = PathCount + 1
         /\ job'.at = 1 /\ SameWork(job', job)
<1>1. /\ job.phase \in {"copy", "pack"} /\ job' = Walk(job, "recheck") /\ "recheck" \in Phases
      /\ job.phase = "pack" => job.use = "snapshot" /\ job.at = PathCount + 1
  BY DEF SealCandidate, Become, At, Phases, Walked
<1> QED
  BY <1>1, WalkOf

LEMMA JudgeGitGoesOn ==
  ASSUME JudgeGitNative, job \in Job
  PROVE  /\ job' \in Job /\ job.phase = "judge" /\ job.use = "git"
         /\ job'.phase = "exclude" /\ job'.use = "snapshot"
         /\ job'.reviewed = job.reviewed /\ job'.plan = job.plan
         /\ job'.seen = job.seen /\ job'.held = job.held
<1> DEFINE a == [job EXCEPT !.phase = "exclude"]
           b == [a EXCEPT !.use = "snapshot"]
<1>1. job.phase = "judge" /\ job.use = "git" /\ job' = [b EXCEPT !.body = Empty]
  BY DEF JudgeGitNative, Become, At
<1>2. a \in Job /\ SameWork(a, job) /\ a.phase = "exclude"
  BY PhaseOf DEF Phases
<1> HIDE DEF a
<1>3. /\ b \in Job /\ b.phase = "exclude" /\ b.use = "snapshot"
      /\ b.reviewed = job.reviewed /\ b.plan = job.plan
      /\ b.seen = job.seen /\ b.held = job.held
  BY <1>2 DEF Job, SameWork
<1> HIDE DEF b
<1> QED
  BY <1>1, <1>3, Constants DEF Job

LEMMA JudgeSnapshotGoesOn ==
  ASSUME JudgeSnapshot, job \in Job
  PROVE  /\ job' \in Job /\ job.phase = "judge" /\ job.use = "snapshot"
         /\ \/ job' = Idle
            \/ /\ job'.phase = "recommend" /\ SameWork(job', job)
               /\ Eligible(Materialized(job.body, CurrentModes))
<1>1. /\ job.phase = "judge" /\ job.use = "snapshot" /\ "recommend" \in Phases
      /\ \/ job' = Idle
         \/ /\ job' = [job EXCEPT !.phase = "recommend"]
            /\ Eligible(Materialized(job.body, CurrentModes))
  BY DEF JudgeSnapshot, Become, At, Phases
<1> QED
  BY <1>1, IdleFields, PhaseOf

\* The steps that end a call.
LEMMA CallEnds ==
  ASSUME ReportVerified \/ Refuse \/ Recommend \/ Fault \/ PowerLoss
  PROVE  job' = Idle /\ job' \in Job
<1>1. job' = Idle
  BY DEF ReportVerified, Refuse, Recommend, Fault, PowerLoss, Become
<1> QED
  BY <1>1, IdleFields

(***************************************************************************)
(* Types                                                                   *)
(***************************************************************************)
\* What each phase knows of its call.
CallOK(j) ==
  /\ j.phase \in {"names", "decide", "unlink", "modes", "unretain"} => j.use = "capture"
  /\ j.phase \in {"pack", "read"} => j.use # "git"
  /\ j.phase = "copy" => j.use = "git"
  /\ j.phase = "judge" => j.use # "capture"
  /\ j.phase = "recommend" => j.use = "snapshot"
  /\ j.phase = "scan" => j.use # "git"
  /\ j.phase \in {"names", "observe"} => j.use # "snapshot"
  /\ j.use = "git" => j.plan = {}
  /\ j.use = "capture" /\ j.phase \notin {"idle", "exclude", "scan"} => j.attempt \in Attempts
  /\ j.phase = "read" => j.at \in Paths /\ j.at \in j.plan
  /\ j.phase = "pack" => j.tries < CaptureAttempts

CapsuleTyped == TypeOK /\ CallOK(job)

LEMMA IdleOK == CallOK(Idle)
  BY IdleFields DEF CallOK

LEMMA SameStore ==
  ASSUME TypeOK, job' \in Job,
         UNCHANGED <<source, review, dir, views, bundles, owner, receipt, harm>>
  PROVE  TypeOK'
  BY DEF TypeOK

LEMMA InitTyped ==
  ASSUME Init PROVE CapsuleTyped
<1>1. source \in State
  <2>1. [body : {1}, exec : BOOLEAN] \subseteq Value
    BY CapsuleBounds DEF Value
  <2> QED
    BY <2>1, Constants DEF Init, State
<1>2. review \in Review
  BY Constants DEF Init, NoReview, Review
<1>3. Unlinked \in [Names -> 0 .. MaxBundles] /\ \A n \in Names : Unlinked[n] = NoBundle
  BY Constants DEF Unlinked, NoBundle
<1>4. bundles \in [Ids -> Content]
  BY Constants DEF Init, Unpacked, Content
<1>5. owner \in Expectation
  BY Constants DEF Init, NoExpectation, Expectation, NoBundle
<1>6. receipt \in [bundle : 0 .. MaxBundles, restorable : BOOLEAN]
  BY Constants DEF Init, NoBundle
<1>7. harm \in [Harms -> Nat] /\ harm["edit"] + harm["undo"] <= MaxChanges
  BY Constants DEF Init, Harms
<1> QED
  BY <1>1, <1>2, <1>3, <1>4, <1>5, <1>6, <1>7, IdleFields, IdleOK DEF Init, CapsuleTyped, TypeOK

LEMMA JobOnlyTyped ==
  ASSUME CapsuleTyped,
         \/ Capture \/ Exclude \/ Scan \/ BeginAttempt \/ Observe \/ EndObservation
         \/ SkipItem \/ OpenItem \/ ReadItem \/ Recheck \/ Rechecked \/ Refuse
         \/ Comparing
  PROVE  CapsuleTyped'
<1>1. /\ job \in Job /\ source \in State /\ review \in Review /\ CallOK(job)
  BY DEF CapsuleTyped, TypeOK
<1>2. OnlyJob
  BY DEF Capture, Exclude, Scan, BeginAttempt, Observe, EndObservation, SkipItem, OpenItem,
         ReadItem, Recheck, Rechecked, Refuse, Comparing, Compare, CopyPath, SealCandidate,
         JudgeGitNative, JudgeSnapshot, Recommend
<1>3. job' \in Job /\ CallOK(job')
  <2>1. CASE Capture
    BY <1>1, <2>1, CaptureStarts DEF CallOK
  <2>2. CASE Exclude
    BY <1>1, <2>2, ExcludeGoesOn DEF CallOK
  <2>3. CASE Scan
    <3>1. 1 \in Attempts
      BY AttemptsAssumption DEF Attempts
    <3>2. CASE job.use = "snapshot"
      <4>1. job'.tries < CaptureAttempts
        <5>1. job' = Walk([job EXCEPT !.plan = Present(source) \ job.excluded], "pack")
          BY <2>3, <3>2 DEF Scan, Become
        <5>2. job'.tries = 0
          BY <5>1 DEF Walk
        <5> QED
          BY <5>2, AttemptsAssumption
      <4> QED
        BY <1>1, <2>3, <3>2, <4>1, ScanGoesOn DEF CallOK
    <3>3. CASE job.use # "snapshot"
      <4>1. job.use \in {"capture", "git", "snapshot"}
        BY <1>1 DEF Job
      <4> QED
        BY <1>1, <2>3, <3>1, <3>3, <4>1, ScanGoesOn DEF CallOK
    <3> QED
      BY <3>2, <3>3
  <2>4. CASE BeginAttempt
    BY <1>1, <2>4, BeginGoesOn DEF CallOK, SameWork
  <2>5. CASE Observe
    BY <1>1, <2>5, ObserveGoesOn DEF CallOK
  <2>6. CASE EndObservation
    <3>1. job.use = "capture" => job'.tries < CaptureAttempts
      <4> SUFFICES ASSUME job.use = "capture" PROVE job'.tries < CaptureAttempts
        OBVIOUS
      <4>1. job' = Walk([job EXCEPT !.held = Observation(source, job.reviewed)], "pack")
        BY <2>6 DEF EndObservation, Become
      <4>2. job'.tries = 0
        BY <4>1 DEF Walk
      <4> QED
        BY <4>2, AttemptsAssumption
    <3> QED
      BY <1>1, <2>6, <3>1, EndObservationGoesOn DEF CallOK
  <2>7. CASE SkipItem
    <3>1. job'.tries = job.tries
      BY <2>7 DEF SkipItem, Become, Onward
    <3> QED
      BY <1>1, <2>7, <3>1, SkipGoesOn DEF CallOK, SameWork
  <2>8. CASE OpenItem
    <3>1. job.tries < CaptureAttempts
      BY <1>1, <2>8 DEF OpenItem, At, CallOK
    <3> QED
      BY <1>1, <2>8, <3>1, OpenGoesOn DEF CallOK, SameWork
  <2>9. CASE ReadItem
    <3>1. job.at \in Paths
      BY <1>1, <2>9 DEF ReadItem, At, CallOK
    <3> QED
      BY <1>1, <2>9, <3>1, ReadGoesOn DEF CallOK
  <2>10. CASE Recheck
    BY <1>1, <2>10, RecheckGoesOn DEF CallOK
  <2>11. CASE Rechecked
    BY <1>1, <2>11, MovesOn DEF CallOK, SameWork
  <2>12. CASE Refuse \/ Recommend
    BY <2>12, CallEnds, IdleOK
  <2>13. CASE Compare
    BY <2>13, CompareStarts DEF CallOK
  <2>14. CASE CopyPath
    BY <1>1, <2>14, CopyGoesOn DEF CallOK
  <2>15. CASE SealCandidate
    BY <1>1, <2>15, SealCandidateGoesOn DEF CallOK, SameWork
  <2>16. CASE JudgeGitNative
    BY <1>1, <2>16, JudgeGitGoesOn DEF CallOK
  <2>17. CASE JudgeSnapshot
    <3>1. CASE job' = Idle
      BY <3>1, IdleFields, IdleOK
    <3>2. CASE job' # Idle
      BY <1>1, <2>17, <3>2, JudgeSnapshotGoesOn DEF CallOK, SameWork
    <3> QED
      BY <3>1, <3>2
  <2> QED
    BY <2>1, <2>2, <2>3, <2>4, <2>5, <2>6, <2>7, <2>8, <2>9, <2>10, <2>11, <2>12, <2>13, <2>14,
       <2>15, <2>16, <2>17 DEF Comparing
<1>4. TypeOK'
  BY <1>2, <1>3, SameStore DEF CapsuleTyped, OnlyJob
<1> QED
  BY <1>3, <1>4 DEF CapsuleTyped, CallOK

LEMMA NamesFacts ==
  /\ Destination \in Names
  /\ \A k \in Attempts : AttemptName(k) \in Names /\ RetainedName(k) \in Names
  /\ \A k, m \in Attempts : AttemptName(k) # Destination /\ AttemptName(k) # RetainedName(m)
  /\ \A k \in Attempts : RetainedName(k) # Destination
  BY DEF Names, Destination, AttemptName, RetainedName

\* A directory that names what another one does is as good as that one.
LEMMA Renames ==
  ASSUME TypeOK, NEW d \in [Names -> 0 .. MaxBundles], NEW e \in views,
         \A n \in Names : d[n] = NoBundle \/ \E m \in Names : d[n] = e[m]
  PROVE  \A n \in Names : d[n] # NoBundle => bundles[d[n]].sealed
  BY DEF TypeOK

LEMMA RelinkTyped ==
  ASSUME CapsuleTyped, PublishAttempt \/ UnlinkAttempt \/ RetainAttempt \/ NextAttempt
  PROVE  CapsuleTyped'
<1>1. /\ job \in Job /\ CallOK(job) /\ dir \in views /\ dir \in [Names -> 0 .. MaxBundles]
  BY DEF CapsuleTyped, TypeOK
<1>2. /\ views' = views \cup {dir'} /\ UNCHANGED <<source, review, bundles, owner, receipt, harm>>
  BY DEF PublishAttempt, UnlinkAttempt, RetainAttempt, NextAttempt, Relink
<1>3. job.attempt \in Attempts
  BY <1>1 DEF PublishAttempt, UnlinkAttempt, RetainAttempt, NextAttempt, At, CallOK
<1>4. \E n \in Names, b \in 0 .. MaxBundles :
         /\ dir' = [dir EXCEPT ![n] = b]
         /\ b = NoBundle \/ \E m \in Names : b = dir[m]
  <2>1. NoBundle \in 0 .. MaxBundles /\ \A m \in Names : dir[m] \in 0 .. MaxBundles
    BY <1>1, Constants DEF NoBundle
  <2>2. CASE PublishAttempt
    BY <1>3, <2>1, <2>2, NamesFacts DEF PublishAttempt, Relink
  <2>3. CASE UnlinkAttempt
    BY <1>3, <2>1, <2>3, NamesFacts DEF UnlinkAttempt, Relink
  <2>4. CASE RetainAttempt
    BY <1>3, <2>1, <2>4, NamesFacts DEF RetainAttempt, Relink, Retained
  <2>5. CASE NextAttempt
    BY <1>3, <2>1, <2>5, NamesFacts DEF NextAttempt, Relink
  <2> QED
    BY <2>2, <2>3, <2>4, <2>5
<1>5. dir' \in [Names -> 0 .. MaxBundles]
  BY <1>1, <1>4
<1>6. \A n \in Names : dir'[n] = NoBundle \/ \E m \in Names : dir'[n] = dir[m]
  BY <1>1, <1>4
<1>7. \A n \in Names : dir'[n] # NoBundle => bundles[dir'[n]].sealed
  <2>1. TypeOK
    BY DEF CapsuleTyped
  <2> QED
    BY <1>1, <1>5, <1>6, <2>1, Renames
<1>8. job' \in Job /\ CallOK(job')
  <2>1. CASE PublishAttempt \/ UnlinkAttempt \/ RetainAttempt
    BY <1>1, <2>1, MovesOn DEF CallOK, SameWork
  <2>2. CASE NextAttempt
    <3>1. CASE job' = Idle
      BY <3>1, IdleFields, IdleOK
    <3>2. CASE job' # Idle
      BY <1>1, <1>3, <2>2, <3>2, NextAttemptGoesOn DEF CallOK
    <3> QED
      BY <3>1, <3>2
  <2> QED
    BY <2>1, <2>2
<1>9. TypeOK'
  BY <1>2, <1>5, <1>7, <1>8 DEF CapsuleTyped, TypeOK
<1> QED
  BY <1>8, <1>9 DEF CapsuleTyped, CallOK

LEMMA SealTyped ==
  ASSUME CapsuleTyped, Seal
  PROVE  CapsuleTyped'
<1>1. /\ job \in Job /\ CallOK(job) /\ dir \in views /\ dir \in [Names -> 0 .. MaxBundles]
      /\ bundles \in [Ids -> Content]
      /\ \A d \in views : \A n \in Names : d[n] # NoBundle => bundles[d[n]].sealed
  BY DEF CapsuleTyped, TypeOK
<1> DEFINE b == job'.bundle
           k == AttemptName(job.attempt)
<1>2. /\ job' \in Job /\ b \in FreeIds
      /\ bundles' = [bundles EXCEPT ![b] = [body |-> job.body, sealed |-> TRUE]]
      /\ dir' = [dir EXCEPT ![k] = b]
      /\ views' = {dir'} /\ UNCHANGED <<source, review, owner, receipt, harm>>
  BY <1>1, SealGoesOn
<1>3. job.attempt \in Attempts /\ k \in Names
  BY <1>1, SealGoesOn, NamesFacts DEF CallOK
<1> HIDE DEF b, k
<1>4. b \in Ids /\ b \in 0 .. MaxBundles /\ b # NoBundle /\ \A n \in Names : dir[n] # b
  BY <1>1, <1>2, Constants DEF FreeIds, Ids, NoBundle
<1>5. dir' \in [Names -> 0 .. MaxBundles]
  BY <1>1, <1>2, <1>4
<1>6. [body |-> job.body, sealed |-> TRUE] \in Content
  BY <1>1 DEF Content, Job
<1>7. bundles' \in [Ids -> Content]
  BY <1>1, <1>2, <1>4, <1>6
<1>8. ASSUME NEW n \in Names, dir'[n] # NoBundle
      PROVE  bundles'[dir'[n]].sealed
  <2>1. CASE n = k
    BY <1>1, <1>2, <1>3, <1>4, <2>1
  <2>2. CASE n # k
    <3>1. dir'[n] = dir[n] /\ dir[n] # b
      BY <1>1, <1>2, <1>4, <2>2
    <3>2. dir[n] \in Ids
      BY <1>1, <1>8, <3>1 DEF Ids, NoBundle
    <3> QED
      BY <1>1, <1>2, <1>8, <3>1, <3>2
  <2> QED
    BY <2>1, <2>2
<1>9. TypeOK'
  BY <1>2, <1>5, <1>7, <1>8 DEF CapsuleTyped, TypeOK
<1>10. CallOK(job')
  BY <1>1, SealGoesOn DEF CallOK
<1> QED
  BY <1>9, <1>10 DEF CapsuleTyped, CallOK

LEMMA ReviewTyped ==
  ASSUME CapsuleTyped, ReviewProject
  PROVE  CapsuleTyped'
<1>1. PICK included \in SUBSET Candidates(source) :
        review' = [done |-> TRUE, state |-> source, included |-> included,
                   export |-> Replaces(included), value |-> ExportObserved]
  BY DEF ReviewProject
<1>2. included \in SUBSET Ignored /\ Replaces(included) \in BOOLEAN /\ ExportObserved \in Value
  BY RolesAssumption DEF Candidates, Replaces, ExportObserved, CapsuleTyped, TypeOK, State
<1>3. review' \in Review
  BY <1>1, <1>2 DEF Review, CapsuleTyped, TypeOK
<1>4. UNCHANGED <<source, dir, views, bundles, job, owner, receipt, harm>>
  BY DEF ReviewProject
<1> QED
  BY <1>3, <1>4 DEF CapsuleTyped, TypeOK, CallOK

LEMMA ReportTyped ==
  ASSUME CapsuleTyped, ReportVerified
  PROVE  CapsuleTyped'
<1>1. /\ owner' = [bundle |-> job.bundle, seen |-> job.seen, reviewed |-> job.reviewed,
                   modes |-> Executables]
      /\ UNCHANGED <<source, review, dir, views, bundles, receipt, harm>>
  BY DEF ReportVerified
<1>2. job \in Job /\ Executables \in SUBSET Paths
  BY RolesAssumption DEF CapsuleTyped, TypeOK
<1>3. owner' \in Expectation
  BY <1>1, <1>2 DEF Expectation, Job
<1>4. job' = Idle /\ job' \in Job
  BY CallEnds
<1> QED
  BY <1>1, <1>3, <1>4, IdleOK DEF CapsuleTyped, TypeOK, CallOK

LEMMA RehearseTyped ==
  ASSUME CapsuleTyped, Rehearse
  PROVE  CapsuleTyped'
<1>1. /\ receipt'.bundle = owner.bundle
      /\ receipt' \in [bundle : {owner.bundle}, restorable : BOOLEAN]
  BY DEF Rehearse, Faithful
<1>2. owner.bundle \in 0 .. MaxBundles
  BY DEF CapsuleTyped, TypeOK, Expectation
<1>3. receipt' \in [bundle : 0 .. MaxBundles, restorable : BOOLEAN]
  BY <1>1, <1>2
<1>4. UNCHANGED <<source, review, dir, views, bundles, job, owner, harm>>
  BY DEF Rehearse
<1> QED
  BY <1>3, <1>4 DEF CapsuleTyped, TypeOK, CallOK

LEMMA HarmTyped ==
  ASSUME CapsuleTyped, NEW h \in Harms, Harm(h),
         h \in {"edit", "undo"} => MayChange
  PROVE  harm' \in [Harms -> Nat] /\ harm'["edit"] + harm'["undo"] <= MaxChanges
<1>1. harm \in [Harms -> Nat] /\ harm["edit"] + harm["undo"] <= MaxChanges
  BY DEF CapsuleTyped, TypeOK
<1>2. "edit" \in Harms /\ "undo" \in Harms
  BY DEF Harms
<1>3. harm' = [harm EXCEPT ![h] = harm[h] + 1]
  BY DEF Harm
<1>4. harm' \in [Harms -> Nat]
  BY <1>1, <1>3
<1>5. harm'["edit"] + harm'["undo"] <= MaxChanges
  BY <1>1, <1>2, <1>3, Constants DEF MayChange
<1> QED
  BY <1>4, <1>5

\* The environment changes one path to a value, and the value grows by an edit.
LEMMA ChangeFacts ==
  ASSUME CapsuleTyped, NEW p \in Paths, Edit(p) \/ Undo(p)
  PROVE  /\ \E v \in Value :
              /\ source' = [source EXCEPT ![p] = v]
              /\ harm'["undo"] = 0 => /\ harm["undo"] = 0 /\ v.exec = source[p].exec
                                      /\ v.body = harm["edit"] + 2
                                      /\ harm'["edit"] = harm["edit"] + 1
         /\ harm' \in [Harms -> Nat] /\ harm'["edit"] + harm'["undo"] <= MaxChanges
         /\ UNCHANGED <<review, dir, views, bundles, job, owner, receipt>>
<1>1. /\ source \in State /\ source[p] \in Value /\ harm \in [Harms -> Nat]
      /\ harm["edit"] + harm["undo"] <= MaxChanges
  BY DEF CapsuleTyped, TypeOK, State
<1>2. "edit" \in Harms /\ "undo" \in Harms /\ harm["edit"] \in Nat /\ harm["undo"] \in Nat
  BY <1>1 DEF Harms
<1>3. CASE Edit(p)
  <2> DEFINE v == [source[p] EXCEPT !.body = harm["edit"] + 2]
  <2>1. /\ harm["edit"] + harm["undo"] < MaxChanges /\ Harm("edit")
        /\ source' = [source EXCEPT ![p] = v]
        /\ UNCHANGED <<review, dir, views, bundles, job, owner, receipt>>
    BY <1>3 DEF Edit, MayChange
  <2>2. harm["edit"] + 2 \in 0 .. MaxChanges + 1
    BY <1>2, <2>1, Constants
  <2>3. v \in Value /\ v.exec = source[p].exec /\ v.body = harm["edit"] + 2
    BY <1>1, <2>2 DEF Value
  <2>4. harm' = [harm EXCEPT !["edit"] = harm["edit"] + 1]
    BY <2>1 DEF Harm
  <2>5. harm'["undo"] = harm["undo"] /\ harm'["edit"] = harm["edit"] + 1
    BY <1>1, <1>2, <2>4
  <2>6. harm' \in [Harms -> Nat] /\ harm'["edit"] + harm'["undo"] <= MaxChanges
    BY <1>2, <2>1, HarmTyped DEF MayChange
  <2> HIDE DEF v
  <2> QED
    BY <2>1, <2>3, <2>5, <2>6
<1>4. CASE Undo(p)
  <2>1. PICK v \in {Absent} \cup [body : {1, source[p].body} \ {0}, exec : BOOLEAN] :
          source' = [source EXCEPT ![p] = v]
    BY <1>4 DEF Undo
  <2>2. /\ harm["edit"] + harm["undo"] < MaxChanges /\ Harm("undo")
        /\ UNCHANGED <<review, dir, views, bundles, job, owner, receipt>>
    BY <1>4 DEF Undo, MayChange
  <2>3. v \in Value
    <3>1. 1 \in 0 .. MaxChanges + 1 /\ source[p].body \in 0 .. MaxChanges + 1
      BY <1>1, Constants DEF Value
    <3> QED
      BY <2>1, <3>1, Constants DEF Value
  <2>4. harm'["undo"] = harm["undo"] + 1
    BY <1>1, <1>2, <2>2 DEF Harm
  <2>5. harm' \in [Harms -> Nat] /\ harm'["edit"] + harm'["undo"] <= MaxChanges
    BY <1>2, <2>2, HarmTyped DEF MayChange
  <2>6. harm'["undo"] # 0
    BY <1>2, <2>4
  <2>7. \E x \in Value :
           /\ source' = [source EXCEPT ![p] = x]
           /\ harm'["undo"] = 0 => /\ harm["undo"] = 0 /\ x.exec = source[p].exec
                                   /\ x.body = harm["edit"] + 2
                                   /\ harm'["edit"] = harm["edit"] + 1
    BY <2>1, <2>3, <2>6
  <2> QED
    BY <2>2, <2>5, <2>7
<1> QED
  BY <1>3, <1>4

LEMMA ChangeTyped ==
  ASSUME CapsuleTyped, NEW p \in Paths, Edit(p) \/ Undo(p)
  PROVE  CapsuleTyped'
<1>1. PICK v \in Value : source' = [source EXCEPT ![p] = v]
  BY ChangeFacts
<1>2. source' \in State
  BY <1>1 DEF CapsuleTyped, TypeOK, State
<1>3. /\ harm' \in [Harms -> Nat] /\ harm'["edit"] + harm'["undo"] <= MaxChanges
      /\ UNCHANGED <<review, dir, views, bundles, job, owner, receipt>>
  BY ChangeFacts
<1> QED
  BY <1>2, <1>3 DEF CapsuleTyped, TypeOK, CallOK

LEMMA HarmsTyped ==
  ASSUME CapsuleTyped, Fault \/ PowerLoss
  PROVE  CapsuleTyped'
<1>1. harm' \in [Harms -> Nat] /\ harm'["edit"] + harm'["undo"] <= MaxChanges
  BY HarmTyped DEF Fault, PowerLoss, Harms
<1>2. /\ UNCHANGED <<source, review, bundles, owner, receipt>>
      /\ views' \subseteq views /\ dir' \in views'
  BY DEF Fault, PowerLoss, CapsuleTyped, TypeOK
<1>3. job' = Idle /\ job' \in Job
  BY CallEnds
<1> QED
  BY <1>1, <1>2, <1>3, IdleOK DEF CapsuleTyped, TypeOK, CallOK

LEMMA NextTyped ==
  ASSUME CapsuleTyped, [Next]_vars
  PROVE  CapsuleTyped'
<1>1. CASE UNCHANGED vars
  BY <1>1 DEF vars, CapsuleTyped, TypeOK, CallOK
<1>2. CASE Next
  BY <1>2, JobOnlyTyped, RelinkTyped, SealTyped, ReviewTyped, ReportTyped, RehearseTyped,
     ChangeTyped, HarmsTyped DEF Next, Capturing
<1> QED
  BY <1>1, <1>2

LEMMA AlwaysTyped == Spec => []CapsuleTyped
  BY InitTyped, NextTyped, PTL DEF Spec

\* Every variable has its type, and whatever a name links is a sealed Bundle, also
\* after a power loss (publish_project_capsule_attempt,
\* retain_changed_project_capsule_attempt).
THEOREM TypeCorrect == Spec => []TypeOK
<1>1. CapsuleTyped => TypeOK
  BY DEF CapsuleTyped
<1> QED
  BY <1>1, AlwaysTyped, PTL

(***************************************************************************)
(* Names                                                                   *)
(***************************************************************************)
\* A call that is about to remove the name of its attempt has given the Bundle
\* another one.
Relinked ==
  LET k == job.attempt IN
  /\ job.phase = "unlink" => dir[Destination] = dir[AttemptName(k)]
  /\ job.phase = "unretain" => dir[RetainedName(k)] = dir[AttemptName(k)]

StepKeepsLinks ==
  \A b \in Ids : (\A d \in views : Linked(b, d)) => \A d \in views' : Linked(b, d)

\* Only publication and retention move a call to the removal of a name.
LEMMA OthersStay ==
  ASSUME CapsuleTyped,
         \/ Capture \/ Exclude \/ Scan \/ BeginAttempt \/ Observe \/ EndObservation
         \/ SkipItem \/ OpenItem \/ ReadItem \/ Recheck \/ Rechecked \/ Refuse
         \/ Comparing \/ Seal \/ ReportVerified \/ Fault \/ PowerLoss
  PROVE  job'.phase \notin {"unlink", "unretain"}
<1>1. job \in Job /\ source \in State /\ review \in Review /\ CallOK(job)
  BY DEF CapsuleTyped, TypeOK
<1>2. CASE Capture \/ Exclude \/ Scan \/ BeginAttempt
  BY <1>1, <1>2, CaptureStarts, ExcludeGoesOn, ScanGoesOn, BeginGoesOn
<1>3. CASE Observe \/ EndObservation \/ SkipItem
  BY <1>1, <1>3, ObserveGoesOn, EndObservationGoesOn, SkipGoesOn
<1>4. CASE OpenItem
  BY <1>1, <1>4, OpenGoesOn DEF OpenItem, At, CallOK
<1>5. CASE ReadItem
  BY <1>1, <1>5, ReadGoesOn DEF ReadItem, At, CallOK
<1>6. CASE Recheck \/ Rechecked \/ Seal
  BY <1>1, <1>6, RecheckGoesOn, MovesOn, SealGoesOn
<1>7. CASE Refuse \/ ReportVerified \/ Recommend \/ Fault \/ PowerLoss
  BY <1>7, CallEnds, IdleFields
<1>8. CASE Compare \/ CopyPath \/ SealCandidate \/ JudgeGitNative
  BY <1>1, <1>8, CompareStarts, CopyGoesOn, SealCandidateGoesOn, JudgeGitGoesOn
<1>9. CASE JudgeSnapshot
  BY <1>1, <1>9, JudgeSnapshotGoesOn, IdleFields
<1> QED
  BY <1>2, <1>3, <1>4, <1>5, <1>6, <1>7, <1>8, <1>9 DEF Comparing

LEMMA AttemptNames ==
  ASSUME CapsuleTyped, job.phase \in {"decide", "unlink", "unretain"}
  PROVE  /\ AttemptName(job.attempt) \in Names /\ RetainedName(job.attempt) \in Names
         /\ AttemptName(job.attempt) # Destination
         /\ AttemptName(job.attempt) # RetainedName(job.attempt)
<1>1. job.attempt \in Attempts
  BY DEF CapsuleTyped, CallOK
<1> QED
  BY <1>1, NamesFacts

LEMMA RelinkedKept ==
  ASSUME CapsuleTyped, Relinked, [Next]_vars
  PROVE  Relinked'
<1>1. dir \in [Names -> 0 .. MaxBundles] /\ job \in Job
  BY DEF CapsuleTyped, TypeOK
<1>2. CASE UNCHANGED <<dir, job>>
  BY <1>2 DEF Relinked
<1>3. CASE UNCHANGED vars \/ ReviewProject \/ Rehearse \/ \E p \in Paths : Edit(p) \/ Undo(p)
  BY <1>2, <1>3 DEF vars, ReviewProject, Rehearse, Edit, Undo
<1>4. CASE PublishAttempt
  <2>1. /\ dir' = [dir EXCEPT ![Destination] = dir[AttemptName(job.attempt)]]
        /\ job.phase = "decide" /\ job'.phase = "unlink" /\ job'.attempt = job.attempt
    BY <1>1, <1>4, MovesOn DEF PublishAttempt, Relink, SameWork
  <2> QED
    BY <1>1, <2>1, AttemptNames, NamesFacts DEF Relinked
<1>5. CASE RetainAttempt
  <2>1. /\ dir' = [dir EXCEPT ![RetainedName(job.attempt)] = dir[AttemptName(job.attempt)]]
        /\ job.phase = "decide" /\ job'.phase = "unretain" /\ job'.attempt = job.attempt
    BY <1>1, <1>5, MovesOn DEF RetainAttempt, Relink, Retained, SameWork
  <2> QED
    BY <1>1, <2>1, AttemptNames, NamesFacts DEF Relinked
<1>6. CASE UnlinkAttempt
  BY <1>1, <1>6, MovesOn DEF Relinked
<1>7. CASE NextAttempt
  <2>1. job.attempt \in Attempts
    BY <1>7 DEF CapsuleTyped, CallOK, NextAttempt, At
  <2> QED
    BY <1>1, <1>7, <2>1, NextAttemptGoesOn, IdleFields DEF Relinked
<1> QED
  BY <1>3, <1>4, <1>5, <1>6, <1>7, OthersStay DEF Next, Capturing, Relinked

LEMMA LinksKept ==
  ASSUME CapsuleTyped, Relinked, [Next]_vars
  PROVE  StepKeepsLinks
<1>1. /\ dir \in views /\ dir \in [Names -> 0 .. MaxBundles] /\ job \in Job /\ CallOK(job)
  BY DEF CapsuleTyped, TypeOK
<1>2. CASE views' = views
  BY <1>2 DEF StepKeepsLinks
<1>3. CASE PowerLoss
  BY <1>1, <1>3 DEF PowerLoss, StepKeepsLinks
<1>4. ASSUME NEW d, views' = views \cup {d} \/ views' = {d},
             \A n \in Names : dir[n] # NoBundle => \E m \in Names : d[m] = dir[n]
      PROVE  StepKeepsLinks
  <2> SUFFICES ASSUME NEW b \in Ids, \A e \in views : Linked(b, e), NEW e \in views'
               PROVE  Linked(b, e)
    BY DEF StepKeepsLinks
  <2>1. Linked(b, dir) /\ b # NoBundle
    BY <1>1 DEF Ids, NoBundle
  <2>2. Linked(b, d)
    BY <1>4, <2>1 DEF Linked
  <2> QED
    BY <1>4, <2>2
<1>5. CASE Seal
  <2>1. /\ dir' = [dir EXCEPT ![AttemptName(job.attempt)] = job'.bundle]
        /\ dir[AttemptName(job.attempt)] = NoBundle /\ views' = {dir'}
    BY <1>1, <1>5, SealGoesOn
  <2>2. \A n \in Names : dir[n] # NoBundle => dir'[n] = dir[n]
    BY <1>1, <2>1
  <2> QED
    BY <1>4, <2>1, <2>2
<1>6. CASE PublishAttempt
  <2>1. /\ dir' = [dir EXCEPT ![Destination] = dir[AttemptName(job.attempt)]]
        /\ dir[Destination] = NoBundle /\ views' = views \cup {dir'}
    BY <1>6 DEF PublishAttempt, Relink
  <2>2. \A n \in Names : dir[n] # NoBundle => dir'[n] = dir[n]
    BY <1>1, <2>1
  <2> QED
    BY <1>4, <2>1, <2>2
<1>7. CASE RetainAttempt
  <2>1. /\ dir' = [dir EXCEPT ![RetainedName(job.attempt)] = dir[AttemptName(job.attempt)]]
        /\ dir[RetainedName(job.attempt)] = NoBundle /\ views' = views \cup {dir'}
    BY <1>7 DEF RetainAttempt, Relink, Retained
  <2>2. \A n \in Names : dir[n] # NoBundle => dir'[n] = dir[n]
    BY <1>1, <2>1
  <2> QED
    BY <1>4, <2>1, <2>2
<1>8. CASE UnlinkAttempt
  <2>1. /\ dir' = [dir EXCEPT ![AttemptName(job.attempt)] = NoBundle]
        /\ dir[Destination] = dir[AttemptName(job.attempt)] /\ views' = views \cup {dir'}
        /\ job.phase = "unlink"
    BY <1>8 DEF UnlinkAttempt, Relink, Relinked, At
  <2>2. dir'[Destination] = dir[AttemptName(job.attempt)]
    BY <1>1, <2>1, AttemptNames, NamesFacts
  <2>3. \A n \in Names : dir[n] # NoBundle => dir'[n] = dir[n] \/ dir'[Destination] = dir[n]
    BY <1>1, <2>1, <2>2
  <2> QED
    BY <1>4, <2>1, <2>3, NamesFacts
<1>9. CASE NextAttempt
  <2>1. /\ dir' = [dir EXCEPT ![AttemptName(job.attempt)] = NoBundle]
        /\ dir[RetainedName(job.attempt)] = dir[AttemptName(job.attempt)]
        /\ views' = views \cup {dir'} /\ job.phase = "unretain"
    BY <1>9 DEF NextAttempt, Relink, Relinked, At
  <2>2. dir'[RetainedName(job.attempt)] = dir[AttemptName(job.attempt)]
    BY <1>1, <2>1, AttemptNames
  <2>3. \A n \in Names :
          dir[n] # NoBundle => dir'[n] = dir[n] \/ dir'[RetainedName(job.attempt)] = dir[n]
    BY <1>1, <2>1, <2>2
  <2> QED
    BY <1>4, <2>1, <2>3, AttemptNames
<1>10. CASE \/ Capture \/ Exclude \/ Scan \/ BeginAttempt \/ Observe \/ EndObservation
            \/ SkipItem \/ OpenItem \/ ReadItem \/ Recheck \/ Rechecked \/ Refuse \/ Comparing
  <2>1. OnlyJob
    BY <1>10 DEF Capture, Exclude, Scan, BeginAttempt, Observe, EndObservation, SkipItem,
         OpenItem, ReadItem, Recheck, Rechecked, Refuse, Comparing, Compare, CopyPath,
         SealCandidate, JudgeGitNative, JudgeSnapshot, Recommend
  <2> QED
    BY <1>2, <2>1 DEF OnlyJob
<1>11. CASE \/ UNCHANGED vars \/ ReviewProject \/ Rehearse \/ ReportVerified \/ Fault
            \/ \E p \in Paths : Edit(p) \/ Undo(p)
  BY <1>2, <1>11 DEF vars, ReviewProject, Rehearse, ReportVerified, Fault, Edit, Undo
<1> QED
  BY <1>3, <1>5, <1>6, <1>7, <1>8, <1>9, <1>10, <1>11 DEF Next, Capturing

\* No step of a capture and no power loss takes the last name of a sealed attempt
\* away: the second name is given before the first is removed, and both of the
\* directories that a power loss may leave have one
\* (publish_project_capsule_attempt, retain_changed_project_capsule_attempt).
THEOREM SealedAreLinked == Spec => SealedStayLinked
<1>1. Init => Relinked
  BY IdleFields DEF Init, Relinked
<1>2. CapsuleTyped /\ Relinked /\ [Next]_vars => Relinked'
  BY RelinkedKept
<1>3. Spec => []Relinked
  BY <1>1, <1>2, AlwaysTyped, PTL DEF Spec
<1>4. CapsuleTyped /\ Relinked /\ [Next]_vars =>
        [\A b \in Ids : (\A d \in views : Linked(b, d)) => \A d \in views' : Linked(b, d)]_vars
  BY LinksKept DEF StepKeepsLinks
<1> QED
  BY <1>3, <1>4, AlwaysTyped, PTL DEF Spec, SealedStayLinked

(***************************************************************************)
(* Rehearsal                                                               *)
(***************************************************************************)
\* What was restored is the expectation, so the Bundle has what it shows.
LEMMA FaithfulIsWhole ==
  ASSUME NEW expected \in State, NEW body \in State, NEW modes, NEW reviewed,
         Faithful(expected, Materialized(body, modes), reviewed)
  PROVE  \A p \in Observed(reviewed) : body[p].body = expected[p].body
<1> SUFFICES ASSUME NEW p \in Observed(reviewed)
             PROVE  body[p].body = expected[p].body
  OBVIOUS
<1> DEFINE restored == Materialized(body, modes)
<1>1. p \in Paths /\ expected[p] = restored[p]
  BY DEF Faithful, Observation, Observed
<1>2. restored[p].body = body[p].body
  BY <1>1 DEF Materialized, Absent
<1> QED
  BY <1>1, <1>2

\* The Bundle that a running capture has sealed is not the one rehearsed.
RehearsalOK ==
  /\ RestorableIsWhole
  /\ receipt.restorable => receipt.bundle \in Ids
  /\ job.use = "capture" /\ job.phase \in {"recheck", "decide", "unlink", "modes"}
       => job.bundle # receipt.bundle

LEMMA RehearsalKept ==
  ASSUME CapsuleTyped, RehearsalOK, [Next]_vars
  PROVE  RehearsalOK'
<1>1. /\ job \in Job /\ source \in State /\ review \in Review /\ CallOK(job)
      /\ bundles \in [Ids -> Content] /\ owner \in Expectation
  BY DEF CapsuleTyped, TypeOK
<1>2. ASSUME UNCHANGED <<bundles, owner, receipt>>,
             job'.use = "capture" /\ job'.phase \in {"recheck", "decide", "unlink", "modes"}
               => /\ job'.bundle = job.bundle /\ job.use = "capture"
                  /\ job.phase \in {"recheck", "decide", "unlink", "modes"}
      PROVE  RehearsalOK'
  BY <1>2 DEF RehearsalOK, RestorableIsWhole
<1>3. CASE UNCHANGED vars \/ ReviewProject \/ \E p \in Paths : Edit(p) \/ Undo(p)
  BY <1>2, <1>3 DEF vars, ReviewProject, Edit, Undo
<1>4. CASE Capture \/ Exclude \/ Scan \/ BeginAttempt
  BY <1>1, <1>2, <1>4, CaptureStarts, ExcludeGoesOn, ScanGoesOn, BeginGoesOn
  DEF Capture, Exclude, Scan, BeginAttempt, OnlyJob
<1>5. CASE Observe \/ EndObservation \/ SkipItem
  BY <1>1, <1>2, <1>5, ObserveGoesOn, EndObservationGoesOn, SkipGoesOn
  DEF Observe, EndObservation, SkipItem, OnlyJob
<1>6. CASE OpenItem
  <2>1. job'.phase = "read"
    BY <1>1, <1>6, OpenGoesOn DEF OpenItem, At, CallOK
  <2> QED
    BY <1>2, <1>6, <2>1 DEF OpenItem, OnlyJob
<1>7. CASE ReadItem
  <2>1. job'.phase = "pack"
    BY <1>1, <1>7, ReadGoesOn DEF ReadItem, At, CallOK
  <2> QED
    BY <1>2, <1>7, <2>1 DEF ReadItem, OnlyJob
<1>8. CASE Recheck \/ Rechecked
  BY <1>1, <1>2, <1>8, RecheckGoesOn, MovesOn DEF Recheck, Rechecked, OnlyJob, SameWork
<1>9. CASE PublishAttempt \/ UnlinkAttempt \/ RetainAttempt
  BY <1>1, <1>2, <1>9, MovesOn DEF PublishAttempt, UnlinkAttempt, RetainAttempt, SameWork
<1>10. CASE NextAttempt
  <2>1. job.attempt \in Attempts
    BY <1>1, <1>10 DEF CallOK, NextAttempt, At
  <2>2. job'.phase \in {"idle", "names"}
    BY <1>1, <1>10, <2>1, NextAttemptGoesOn, IdleFields
  <2> QED
    BY <1>2, <1>10, <2>2 DEF NextAttempt
<1>11. CASE Refuse \/ Recommend \/ Fault \/ PowerLoss
  BY <1>2, <1>11, CallEnds, IdleFields DEF Refuse, Recommend, Fault, PowerLoss, OnlyJob
<1>12. CASE Compare \/ CopyPath \/ JudgeGitNative
  BY <1>1, <1>2, <1>12, CompareStarts, CopyGoesOn, JudgeGitGoesOn
  DEF Compare, CopyPath, JudgeGitNative, OnlyJob
<1>13. CASE SealCandidate
  <2>1. job'.use # "capture"
    BY <1>1, <1>13, SealCandidateGoesOn DEF CallOK, SameWork
  <2> QED
    BY <1>2, <1>13, <2>1 DEF SealCandidate, OnlyJob
<1>14. CASE JudgeSnapshot
  <2>1. job'.phase \in {"idle", "recommend"}
    BY <1>1, <1>14, JudgeSnapshotGoesOn, IdleFields
  <2> QED
    BY <1>2, <1>14, <2>1 DEF JudgeSnapshot, OnlyJob
<1>15. CASE Seal
  <2>1. /\ job'.bundle \in FreeIds /\ UNCHANGED <<owner, receipt>>
        /\ bundles' = [bundles EXCEPT ![job'.bundle] = [body |-> job.body, sealed |-> TRUE]]
    BY <1>1, <1>15, SealGoesOn
  <2>2. job'.bundle # receipt.bundle
    BY <2>1 DEF FreeIds
  <2>3. receipt.restorable => bundles'[receipt.bundle] = bundles[receipt.bundle]
    BY <1>1, <2>1, <2>2 DEF RehearsalOK
  <2> QED
    BY <2>1, <2>2, <2>3 DEF RehearsalOK, RestorableIsWhole
<1>16. CASE ReportVerified
  <2>1. /\ owner'.bundle = job.bundle /\ UNCHANGED <<bundles, receipt>>
        /\ job.phase = "modes" /\ job.use = "capture" /\ job'.phase = "idle"
    BY <1>1, <1>16, CallEnds, IdleFields DEF ReportVerified, At, CallOK
  <2> QED
    BY <2>1 DEF RehearsalOK, RestorableIsWhole
<1>17. CASE Rehearse
  <2>1. PICK approved \in BOOLEAN :
          receipt' = [bundle |-> owner.bundle,
                      restorable |->
                        /\ (approved \/ owner.modes = {})
                        /\ Faithful(owner.seen,
                                    Materialized(bundles[owner.bundle].body,
                                                 IF approved THEN owner.modes ELSE {}),
                                    owner.reviewed)]
    BY <1>17 DEF Rehearse
  <2>2. /\ owner.bundle \in Ids /\ UNCHANGED <<bundles, owner, job>> /\ job.phase = "idle"
    BY <1>1, <1>17 DEF Rehearse, At, Expectation, Ids, NoBundle
  <2>3. receipt'.bundle = owner.bundle
    BY <2>1
  <2>4. receipt'.restorable =>
          Faithful(owner.seen,
                   Materialized(bundles[owner.bundle].body, IF approved THEN owner.modes ELSE {}),
                   owner.reviewed)
    BY <2>1
  <2>5. bundles[owner.bundle].body \in State /\ owner.seen \in State
    BY <1>1, <2>2 DEF Content, Expectation
  <2>6. receipt'.restorable =>
          \A p \in Observed(owner.reviewed) :
            bundles[owner.bundle].body[p].body = owner.seen[p].body
    BY <2>4, <2>5, FaithfulIsWhole
  <2> QED
    BY <2>2, <2>3, <2>6 DEF RehearsalOK, RestorableIsWhole
<1> QED
  BY <1>3, <1>4, <1>5, <1>6, <1>7, <1>8, <1>9, <1>10, <1>11, <1>12, <1>13, <1>14, <1>15, <1>16,
     <1>17 DEF Next, Capturing, Comparing

\* A rehearsal that reports Restorable holds of the very Bundle of the expectation,
\* path by path, whatever is captured or changed afterwards (rehearse,
\* validate_project).
THEOREM RestorablesAreWhole == Spec => []RestorableIsWhole
<1>1. Init => RehearsalOK
  BY IdleFields DEF Init, RehearsalOK, RestorableIsWhole
<1>2. CapsuleTyped /\ RehearsalOK /\ [Next]_vars => RehearsalOK'
  BY RehearsalKept
<1>3. RehearsalOK => RestorableIsWhole
  BY DEF RehearsalOK
<1> QED
  BY <1>1, <1>2, <1>3, AlwaysTyped, PTL DEF Spec

(***************************************************************************)
(* Snapshots                                                               *)
(***************************************************************************)
\* As long as nothing is undone, the value of a path only grows: a value read
\* later is the same one or has a higher version.
Upto(u, v) == u.exec = v.exec /\ u.body <= v.body

LEMMA UptoFacts ==
  ASSUME NEW u \in Value, NEW v \in Value, NEW w \in Value
  PROVE  /\ Upto(u, u)
         /\ Upto(u, v) /\ Upto(v, w) => Upto(u, w)
         /\ Upto(u, v) /\ Upto(v, u) => u = v
         /\ Upto(u, v) /\ u # v => u.body < v.body
         /\ Upto(u, v) /\ v.body < w.body => u.body < w.body
         /\ Upto(v, w) /\ u.body < v.body => u.body < w.body
<1>1. /\ u.body \in Int /\ v.body \in Int /\ w.body \in Int
  BY Constants DEF Value
<1>2. u.body = v.body /\ u.exec = v.exec => u = v
  BY DEF Value
<1> QED
  BY <1>1, <1>2 DEF Upto

\* What is packed of p was read between the first observation and w, or p has
\* changed in between.
Packed(j, p, w) ==
  p \in j.plan => \/ Upto(j.held[p], j.body[p]) /\ Upto(j.body[p], w)
                  \/ j.held[p].body < w.body

\* The phases at which the first observation is over and counts.
Holding(j) ==
  \/ j.phase \in {"pack", "read", "recheck", "decide", "judge"}
  \/ j.use # "capture" /\ j.phase \in {"exclude", "scan", "copy"}

HeldAt(j, p) == j.seen[p] = j.held[p] /\ (p \in j.plan => j.body[p] = j.held[p])

\* How far a call is with its two observations, on every path p that it observes
\* and that the Project has as src shows.
SnapOf(j, p, src) ==
  /\ j.phase = "observe" /\ p < j.at => Upto(j.seen[p], src[p])
  /\ Holding(j) => Upto(j.seen[p], j.held[p]) /\ Upto(j.held[p], src[p])
  /\ j.phase \in {"pack", "read"} /\ p < j.at => Packed(j, p, src[p])
  /\ j.phase = "read" /\ p = j.at => Upto(j.held[p], j.before) /\ Upto(j.before, src[p])
  /\ j.phase = "recheck" => Packed(j, p, src[p])
  /\ j.phase = "recheck" /\ p < j.at => Packed(j, p, j.post[p]) /\ Upto(j.held[p], j.post[p])
  /\ j.phase \in {"decide", "judge"} => Packed(j, p, j.post[p]) /\ Upto(j.held[p], j.post[p])
  /\ j.phase \in {"unlink", "modes", "recommend"} => HeldAt(j, p)

Snap(j, src) == \A p \in Observed(j.reviewed) : SnapOf(j, p, src)

LEMMA ObservedPaths == \A reviewed : Observed(reviewed) \subseteq Paths
  BY DEF Observed

\* The values of a call.
LEMMA CallValues ==
  ASSUME NEW j \in Job, NEW p \in Paths
  PROVE  /\ j.seen[p] \in Value /\ j.held[p] \in Value /\ j.body[p] \in Value
         /\ j.post[p] \in Value /\ j.before \in Value
         /\ j.at \in Int /\ p \in Int
  BY PathsAssumption DEF Job, State, Paths

\* What a call has read stays in its order when the Project grows.
LEMMA SnapGrows ==
  ASSUME NEW j \in Job, NEW src \in State, NEW more \in State, Snap(j, src),
         \A p \in Paths : Upto(src[p], more[p])
  PROVE  Snap(j, more)
<1> SUFFICES ASSUME NEW p \in Observed(j.reviewed)
             PROVE  SnapOf(j, p, more)
  BY DEF Snap
<1>1. p \in Paths /\ SnapOf(j, p, src)
  BY ObservedPaths DEF Snap
<1>2. /\ src[p] \in Value /\ more[p] \in Value /\ Upto(src[p], more[p])
      /\ j.seen[p] \in Value /\ j.held[p] \in Value /\ j.body[p] \in Value /\ j.before \in Value
  BY <1>1, CallValues DEF State
<1>3. Packed(j, p, src[p]) => Packed(j, p, more[p])
  BY <1>2, UptoFacts DEF Packed
<1>4. \A u \in Value : Upto(u, src[p]) => Upto(u, more[p])
  BY <1>2, UptoFacts
<1> QED
  BY <1>1, <1>2, <1>3, <1>4 DEF SnapOf

LEMMA IdleSnap ==
  ASSUME NEW j, j.phase \in {"idle", "names", "unretain"} \/
                (j.use = "capture" /\ j.phase \in {"exclude", "scan"}), NEW src
  PROVE  Snap(j, src)
  BY DEF Snap, SnapOf, Holding

LEMMA ObserveSnap ==
  ASSUME CapsuleTyped, Snap(job, source),
         \/ Capture \/ Compare \/ BeginAttempt \/ Observe \/ EndObservation
  PROVE  Snap(job', source)
<1>1. job \in Job /\ source \in State /\ review \in Review /\ CallOK(job)
  BY DEF CapsuleTyped, TypeOK
<1>2. CASE Capture
  BY <1>1, <1>2, CaptureStarts, IdleSnap
<1>3. CASE Compare \/ BeginAttempt
  <2>1. job' \in Job /\ job'.phase = "observe" /\ job'.at = 1
    BY <1>1, <1>3, CompareStarts, BeginGoesOn
  <2> SUFFICES ASSUME NEW p \in Observed(job'.reviewed) PROVE SnapOf(job', p, source)
    BY DEF Snap
  <2>2. ~ (p < 1)
    BY ObservedPaths, PathsAssumption DEF Paths
  <2> QED
    BY <2>1, <2>2 DEF SnapOf, Holding
<1>4. CASE Observe
  <2>1. /\ job' \in Job /\ job.phase = "observe" /\ job'.phase = "observe" /\ job.at \in Paths
        /\ job'.at = job.at + 1 /\ job'.reviewed = job.reviewed
        /\ job'.seen = [job.seen EXCEPT ![job.at] = Read]
    BY <1>1, <1>4, ObserveGoesOn
  <2> SUFFICES ASSUME NEW p \in Observed(job.reviewed) PROVE SnapOf(job', p, source)
    BY <2>1 DEF Snap
  <2>2. p \in Paths /\ SnapOf(job, p, source) /\ source[p] \in Value
    BY <1>1, ObservedPaths DEF Snap, State
  <2>3. p < job'.at => Upto(job'.seen[p], source[p])
    <3>1. CASE p = job.at
      <4>1. job'.seen[p] = source[p]
        BY <1>1, <2>1, <2>2, <3>1, SourceObserved DEF Read, Job, State
      <4> QED
        BY <2>2, <4>1, UptoFacts
    <3>2. CASE p # job.at
      <4>1. job'.seen[p] = job.seen[p]
        BY <1>1, <2>1, <2>2, <3>2 DEF Job, State
      <4>2. p < job'.at => p < job.at
        BY <1>1, <2>1, <2>2, <3>2, CallValues
      <4> QED
        BY <2>1, <2>2, <4>1, <4>2 DEF SnapOf
    <3> QED
      BY <3>1, <3>2
  <2> QED
    BY <2>1, <2>3 DEF SnapOf, Holding
<1>5. CASE EndObservation
  <2>1. /\ job' \in Job /\ job.phase = "observe" /\ job.at = PathCount + 1
        /\ job'.phase = IF job.use = "capture" THEN "pack" ELSE "exclude"
        /\ job.use = "capture" => job'.at = 1
        /\ job'.reviewed = job.reviewed /\ job'.seen = job.seen
        /\ job'.held = Observation(source, job.reviewed)
    BY <1>1, <1>5, EndObservationGoesOn
  <2> SUFFICES ASSUME NEW p \in Observed(job.reviewed) PROVE SnapOf(job', p, source)
    BY <2>1 DEF Snap
  <2>2. p \in Paths /\ SnapOf(job, p, source) /\ source[p] \in Value
    BY <1>1, ObservedPaths DEF Snap, State
  <2>3. p < job.at /\ ~ (p < 1)
    BY <2>1, <2>2, PathsAssumption DEF Paths
  <2>4. Upto(job'.seen[p], job'.held[p]) /\ Upto(job'.held[p], source[p])
    BY <1>1, <2>1, <2>2, <2>3, SourceObserved, UptoFacts DEF SnapOf
  <2> QED
    BY <2>1, <2>3, <2>4 DEF SnapOf
<1> QED
  BY <1>2, <1>3, <1>4, <1>5

LEMMA PackSnap ==
  ASSUME CapsuleTyped, Snap(job, source),
         \/ Exclude \/ Scan \/ SkipItem \/ OpenItem \/ ReadItem \/ CopyPath \/ JudgeGitNative
  PROVE  Snap(job', source)
<1>1. job \in Job /\ source \in State /\ CallOK(job)
  BY DEF CapsuleTyped, TypeOK
<1>2. CASE Exclude
  <2>1. /\ job.phase = "exclude" /\ job'.phase \in {"copy", "scan"} /\ job'.use = job.use
        /\ job'.phase = "copy" => job.use = "git"
        /\ job'.reviewed = job.reviewed /\ job'.seen = job.seen /\ job'.held = job.held
    BY <1>1, <1>2, ExcludeGoesOn
  <2> QED
    BY <2>1 DEF Snap, SnapOf, Holding
<1>3. CASE Scan
  <2>1. /\ job.phase = "scan" /\ job'.use = job.use
        /\ job'.phase = IF job.use = "snapshot" THEN "pack" ELSE "names"
        /\ job'.reviewed = job.reviewed /\ job'.seen = job.seen /\ job'.held = job.held
        /\ job.use = "snapshot" => job'.at = 1
    BY <1>1, <1>3, ScanGoesOn
  <2>2. CASE job.use # "snapshot"
    BY <2>1, <2>2, IdleSnap
  <2>3. CASE job.use = "snapshot"
    <3>1. \A p \in Observed(job.reviewed) : ~ (p < 1)
      BY ObservedPaths, PathsAssumption DEF Paths
    <3> QED
      BY <2>1, <2>3, <3>1 DEF Snap, SnapOf, Holding
  <2> QED
    BY <2>2, <2>3
<1>4. CASE SkipItem
  <2>1. /\ job.phase = "pack" /\ job'.phase = "pack" /\ job.at \notin job.plan
        /\ job'.at = job.at + 1 /\ SameWork(job', job)
    BY <1>1, <1>4, SkipGoesOn
  <2> SUFFICES ASSUME NEW p \in Observed(job.reviewed) PROVE SnapOf(job', p, source)
    BY <2>1 DEF Snap, SameWork
  <2>2. p \in Paths /\ SnapOf(job, p, source)
    BY ObservedPaths DEF Snap
  <2>3. p < job'.at => p = job.at \/ p < job.at
    BY <1>1, <2>1, <2>2, CallValues
  <2> QED
    BY <2>1, <2>2, <2>3 DEF SnapOf, Holding, Packed, SameWork
<1>5. CASE OpenItem
  <2>1. job.tries < CaptureAttempts
    BY <1>1, <1>5 DEF OpenItem, At, CallOK
  <2>2. /\ job.phase = "pack" /\ job'.phase = "read" /\ job'.at = job.at
        /\ job'.before = source[job.at] /\ SameWork(job', job)
    BY <1>1, <1>5, <2>1, OpenGoesOn
  <2> SUFFICES ASSUME NEW p \in Observed(job.reviewed) PROVE SnapOf(job', p, source)
    BY <2>2 DEF Snap, SameWork
  <2>3. p \in Paths /\ SnapOf(job, p, source) /\ source[p] \in Value
    BY <1>1, ObservedPaths DEF Snap, State
  <2>4. Upto(source[p], source[p])
    BY <2>3, UptoFacts
  <2> QED
    BY <2>2, <2>3, <2>4 DEF SnapOf, Holding, Packed, SameWork
<1>6. CASE ReadItem
  <2>1. job.phase = "read" /\ job.at \in Paths /\ job.at \in job.plan
    BY <1>1, <1>6 DEF ReadItem, At, CallOK
  <2>2. /\ job'.phase = "pack" /\ job'.use = job.use /\ job'.reviewed = job.reviewed
        /\ job'.plan = job.plan /\ job'.seen = job.seen /\ job'.held = job.held
        /\ \/ job'.at = job.at /\ job'.body = job.body
           \/ job'.at = job.at + 1 /\ job'.body = [job.body EXCEPT ![job.at] = Captured]
    BY <1>1, <1>6, <2>1, ReadGoesOn
  <2> SUFFICES ASSUME NEW p \in Observed(job.reviewed) PROVE SnapOf(job', p, source)
    BY <2>2 DEF Snap
  <2>3. p \in Paths /\ SnapOf(job, p, source) /\ source[p] \in Value
    BY <1>1, ObservedPaths DEF Snap, State
  <2>4. Upto(job.seen[p], job.held[p]) /\ Upto(job.held[p], source[p])
    BY <2>1, <2>3 DEF SnapOf, Holding
  <2>5. p < job'.at => Packed(job', p, source[p])
    <3>1. CASE job'.at = job.at /\ job'.body = job.body
      BY <2>1, <2>2, <2>3, <3>1 DEF SnapOf, Packed
    <3>2. CASE job'.at = job.at + 1 /\ job'.body = [job.body EXCEPT ![job.at] = Captured] /\ p # job.at
      <4>1. job'.body[p] = job.body[p]
        BY <1>1, <2>3, <3>2 DEF Job, State
      <4>2. p < job'.at => p < job.at
        BY <1>1, <2>3, <3>2, CallValues
      <4> QED
        BY <2>1, <2>2, <2>3, <4>1, <4>2 DEF SnapOf, Packed
    <3>3. CASE job'.at = job.at + 1 /\ job'.body = [job.body EXCEPT ![job.at] = Captured] /\ p = job.at
      <4>1. job'.body[p] = Captured
        BY <1>1, <2>3, <3>3 DEF Job, State
      <4>2. Upto(job.held[p], job.before) /\ Upto(job.before, source[p])
        BY <2>1, <2>3, <3>3 DEF SnapOf
      <4>3. job.held[p] \in Value /\ job.before \in Value
        BY <1>1, <2>3, CallValues
      <4>4. CASE source[p] = job.before
        <5>1. Captured = job.before
          BY <3>3, <4>4 DEF Captured
        <5> QED
          BY <2>2, <4>1, <4>2, <5>1 DEF Packed
      <4>5. CASE source[p] # job.before
        <5>1. job.held[p].body < source[p].body
          BY <2>3, <4>2, <4>3, <4>5, UptoFacts
        <5> QED
          BY <2>2, <5>1 DEF Packed
      <4> QED
        BY <4>4, <4>5
    <3> QED
      BY <2>2, <3>1, <3>2, <3>3
  <2> QED
    BY <2>2, <2>4, <2>5 DEF SnapOf
<1>7. CASE CopyPath \/ JudgeGitNative
  <2>1. /\ job.phase \in {"copy", "judge"} /\ job.use = "git"
        /\ job'.phase \in {"copy", "exclude"} /\ job'.use # "capture"
        /\ job'.reviewed = job.reviewed /\ job'.seen = job.seen /\ job'.held = job.held
    BY <1>1, <1>7, CopyGoesOn, JudgeGitGoesOn DEF CallOK
  <2> QED
    BY <2>1 DEF Snap, SnapOf, Holding
<1> QED
  BY <1>2, <1>3, <1>4, <1>5, <1>6, <1>7

\* Two equal observations around what was packed are one moment.
LEMMA UnchangedIsHeld ==
  ASSUME NEW j \in Job, NEW p \in Paths, j.seen = j.post,
         Upto(j.seen[p], j.held[p]), Upto(j.held[p], j.post[p]), Packed(j, p, j.post[p])
  PROVE  HeldAt(j, p)
<1>1. j.seen[p] \in Value /\ j.held[p] \in Value /\ j.body[p] \in Value /\ j.post[p] = j.seen[p]
  BY CallValues
<1>2. j.seen[p] = j.held[p]
  BY <1>1, UptoFacts
<1>3. ~ (j.held[p].body < j.post[p].body)
  BY <1>1, <1>2, Constants DEF Value
<1>4. p \in j.plan => j.body[p] = j.held[p]
  BY <1>1, <1>2, <1>3, UptoFacts DEF Packed
<1> QED
  BY <1>2, <1>4 DEF HeldAt

LEMMA RecheckSnap ==
  ASSUME CapsuleTyped, Snap(job, source),
         \/ Seal \/ SealCandidate \/ Recheck \/ Rechecked \/ PublishAttempt \/ UnlinkAttempt
         \/ RetainAttempt \/ NextAttempt \/ JudgeSnapshot
  PROVE  Snap(job', source)
<1>1. job \in Job /\ source \in State /\ CallOK(job)
  BY DEF CapsuleTyped, TypeOK
<1>2. CASE Seal \/ SealCandidate
  <2>1. /\ job'.phase = "recheck" /\ job'.at = 1
        /\ \/ job.phase = "pack" /\ job.at = PathCount + 1
           \/ job.phase = "copy" /\ job.plan = {}
        /\ job'.reviewed = job.reviewed /\ job'.plan = job.plan
        /\ job'.seen = job.seen /\ job'.held = job.held /\ job'.body = job.body
    <3>1. CASE Seal
      BY <1>1, <3>1, SealGoesOn
    <3>2. CASE SealCandidate
      BY <1>1, <3>2, SealCandidateGoesOn DEF CallOK, SameWork
    <3> QED
      BY <1>2, <3>1, <3>2
  <2> SUFFICES ASSUME NEW p \in Observed(job.reviewed) PROVE SnapOf(job', p, source)
    BY <2>1 DEF Snap
  <2>2. p \in Paths /\ SnapOf(job, p, source) /\ ~ (p < 1)
    BY ObservedPaths, PathsAssumption DEF Snap, Paths
  <2>3. job.phase = "pack" => p < job.at
    BY <2>1, <2>2, PathsAssumption DEF Paths
  <2>4. Upto(job.seen[p], job.held[p]) /\ Upto(job.held[p], source[p])
    BY <1>1, <2>1, <2>2 DEF SnapOf, Holding, CallOK
  <2>5. Packed(job', p, source[p])
    BY <2>1, <2>2, <2>3 DEF SnapOf, Packed
  <2> QED
    BY <2>1, <2>2, <2>4, <2>5 DEF SnapOf
<1>3. CASE Recheck
  <2>1. /\ job.phase = "recheck" /\ job'.phase = "recheck" /\ job.at \in Paths
        /\ job'.at = job.at + 1
        /\ job'.reviewed = job.reviewed /\ job'.plan = job.plan
        /\ job'.seen = job.seen /\ job'.held = job.held /\ job'.body = job.body
        /\ job'.post = [job.post EXCEPT ![job.at] = Read]
    BY <1>1, <1>3, RecheckGoesOn
  <2> SUFFICES ASSUME NEW p \in Observed(job.reviewed) PROVE SnapOf(job', p, source)
    BY <2>1 DEF Snap
  <2>2. p \in Paths /\ SnapOf(job, p, source)
    BY ObservedPaths DEF Snap
  <2>3. /\ Upto(job.seen[p], job.held[p]) /\ Upto(job.held[p], source[p])
        /\ Packed(job, p, source[p])
    BY <2>1, <2>2 DEF SnapOf, Holding
  <2>4. p < job'.at => Packed(job', p, job'.post[p]) /\ Upto(job'.held[p], job'.post[p])
    <3>1. CASE p = job.at
      <4>1. job'.post[p] = source[p]
        BY <1>1, <2>1, <2>2, <3>1, SourceObserved DEF Read, Job, State
      <4> QED
        BY <2>1, <2>3, <4>1 DEF Packed
    <3>2. CASE p # job.at
      <4>1. job'.post[p] = job.post[p]
        BY <1>1, <2>1, <2>2, <3>2 DEF Job, State
      <4>2. p < job'.at => p < job.at
        BY <1>1, <2>1, <2>2, <3>2, CallValues
      <4> QED
        BY <2>1, <2>2, <4>1, <4>2 DEF SnapOf, Packed
    <3> QED
      BY <3>1, <3>2
  <2>5. Packed(job', p, source[p])
    BY <2>1, <2>3 DEF Packed
  <2> QED
    BY <2>1, <2>3, <2>4, <2>5 DEF SnapOf
<1>4. CASE Rechecked
  <2>1. /\ job.phase = "recheck" /\ job.at = PathCount + 1 /\ SameWork(job', job)
        /\ job'.phase \in {"decide", "judge"}
    BY <1>1, <1>4, MovesOn
  <2> SUFFICES ASSUME NEW p \in Observed(job.reviewed) PROVE SnapOf(job', p, source)
    BY <2>1 DEF Snap, SameWork
  <2>2. p \in Paths /\ SnapOf(job, p, source)
    BY ObservedPaths DEF Snap
  <2>3. p < job.at
    BY <2>1, <2>2, PathsAssumption DEF Paths
  <2> QED
    BY <2>1, <2>2, <2>3 DEF SnapOf, Holding, Packed, SameWork
<1>5. CASE PublishAttempt \/ (JudgeSnapshot /\ job' # Idle)
  <2>1. /\ job.phase \in {"decide", "judge"} /\ job'.phase \in {"unlink", "recommend"}
        /\ SameWork(job', job) /\ job.seen = job.post
    BY <1>1, <1>5, MovesOn, JudgeSnapshotGoesOn DEF PublishAttempt, Eligible, Unchanged
  <2> SUFFICES ASSUME NEW p \in Observed(job.reviewed) PROVE SnapOf(job', p, source)
    BY <2>1 DEF Snap, SameWork
  <2>2. p \in Paths /\ SnapOf(job, p, source)
    BY ObservedPaths DEF Snap
  <2>3. HeldAt(job, p)
    <3>1. /\ Upto(job.seen[p], job.held[p]) /\ Upto(job.held[p], job.post[p])
          /\ Packed(job, p, job.post[p])
      BY <2>1, <2>2 DEF SnapOf, Holding
    <3> QED
      BY <1>1, <2>1, <2>2, <3>1, UnchangedIsHeld
  <2> QED
    BY <2>1, <2>3 DEF SnapOf, Holding, HeldAt, SameWork
<1>6. CASE UnlinkAttempt
  BY <1>1, <1>6, MovesOn DEF Snap, SnapOf, Holding, HeldAt, SameWork
<1>7. CASE RetainAttempt
  BY <1>1, <1>7, MovesOn, IdleSnap
<1>8. CASE NextAttempt
  <2>1. job.attempt \in Attempts
    BY <1>1, <1>8 DEF CallOK, NextAttempt, At
  <2> QED
    BY <1>1, <1>8, <2>1, NextAttemptGoesOn, IdleFields, IdleSnap
<1>9. CASE job' = Idle
  BY <1>9, IdleFields, IdleSnap
<1> QED
  BY <1>2, <1>3, <1>4, <1>5, <1>6, <1>7, <1>8, <1>9

\* While nothing was undone, every path has a version below the next one, and
\* the running call read what it has in this order.
Ordered ==
  harm["undo"] = 0 =>
    /\ \A p \in Paths : source[p].body <= harm["edit"] + 1
    /\ Snap(job, source)

LEMMA OrderedKept ==
  ASSUME CapsuleTyped, Ordered, [Next]_vars
  PROVE  Ordered'
<1>1. /\ job \in Job /\ source \in State /\ CallOK(job) /\ harm \in [Harms -> Nat]
  BY DEF CapsuleTyped, TypeOK
<1>2. "edit" \in Harms /\ "undo" \in Harms /\ harm["edit"] \in Nat /\ harm["undo"] \in Nat
  BY <1>1 DEF Harms
<1>3. ASSUME UNCHANGED source, harm'["undo"] = harm["undo"], harm'["edit"] = harm["edit"],
             Snap(job, source) => Snap(job', source)
      PROVE  Ordered'
  <2> SUFFICES ASSUME harm'["undo"] = 0
               PROVE  /\ \A p \in Paths : source'[p].body <= harm'["edit"] + 1
                      /\ Snap(job', source')
    BY DEF Ordered, Snap, SnapOf, Packed, HeldAt, Holding
  <2>1. Snap(job', source)
    BY <1>3 DEF Ordered
  <2> QED
    BY <1>3, <2>1 DEF Ordered
<1>4. CASE \/ Capture \/ Compare \/ BeginAttempt \/ Observe \/ EndObservation
  BY <1>3, <1>4, ObserveSnap DEF Capture, Compare, BeginAttempt, Observe, EndObservation, OnlyJob
<1>5. CASE \/ Exclude \/ Scan \/ SkipItem \/ OpenItem \/ ReadItem \/ CopyPath \/ JudgeGitNative
  BY <1>3, <1>5, PackSnap
  DEF Exclude, Scan, SkipItem, OpenItem, ReadItem, CopyPath, JudgeGitNative, OnlyJob
<1>6. CASE \/ Seal \/ SealCandidate \/ Recheck \/ Rechecked \/ PublishAttempt \/ UnlinkAttempt
           \/ RetainAttempt \/ NextAttempt \/ JudgeSnapshot
  <2>1. Snap(job, source) => Snap(job', source)
    BY <1>6, RecheckSnap
  <2>2. UNCHANGED <<source, harm>>
    BY <1>6 DEF Seal, SealCandidate, Recheck, Rechecked, PublishAttempt, UnlinkAttempt,
       RetainAttempt, NextAttempt, JudgeSnapshot, OnlyJob
  <2> QED
    BY <1>3, <2>1, <2>2
<1>7. CASE Refuse \/ ReportVerified \/ Recommend \/ Fault \/ PowerLoss
  <2>1. Snap(job', source)
    BY <1>7, CallEnds, IdleFields, IdleSnap
  <2>2. UNCHANGED source /\ harm'["undo"] = harm["undo"] /\ harm'["edit"] = harm["edit"]
    BY <1>1, <1>2, <1>7
    DEF Refuse, ReportVerified, Recommend, Fault, PowerLoss, OnlyJob, Harm
  <2> QED
    BY <1>3, <2>1, <2>2
<1>8. CASE UNCHANGED vars \/ ReviewProject \/ Rehearse
  <2>1. UNCHANGED <<source, harm, job>>
    BY <1>8 DEF vars, ReviewProject, Rehearse
  <2> QED
    BY <1>3, <2>1
<1>9. ASSUME NEW q \in Paths, Edit(q) \/ Undo(q)
      PROVE  Ordered'
  <2> SUFFICES ASSUME harm'["undo"] = 0
               PROVE  /\ \A p \in Paths : source'[p].body <= harm'["edit"] + 1
                      /\ Snap(job', source')
    BY DEF Ordered, Snap, SnapOf, Packed, HeldAt, Holding
  <2>1. PICK v \in Value :
          /\ source' = [source EXCEPT ![q] = v] /\ harm["undo"] = 0
          /\ v.exec = source[q].exec /\ v.body = harm["edit"] + 2
          /\ harm'["edit"] = harm["edit"] + 1
    BY <1>9, ChangeFacts
  <2>2. job' = job /\ source' \in State
    BY <1>1, <1>9, <2>1, ChangeFacts DEF State
  <2>3. Snap(job, source) /\ \A p \in Paths : source[p].body <= harm["edit"] + 1
    BY <2>1 DEF Ordered
  <2>4. \A p \in Paths : source[p] \in Value /\ source[p].body \in Int
    BY <1>1, Constants DEF State, Value
  <2>5. \A p \in Paths : Upto(source[p], source'[p]) /\ source'[p].body <= harm'["edit"] + 1
    <3> SUFFICES ASSUME NEW p \in Paths
                 PROVE  Upto(source[p], source'[p]) /\ source'[p].body <= harm'["edit"] + 1
      OBVIOUS
    <3>1. CASE p = q
      <4>1. source'[p] = v
        BY <1>1, <2>1, <3>1 DEF State
      <4> QED
        BY <1>2, <2>1, <2>3, <2>4, <3>1, <4>1 DEF Upto
    <3>2. CASE p # q
      <4>1. source'[p] = source[p]
        BY <1>1, <2>1, <3>2 DEF State
      <4> QED
        BY <1>2, <2>1, <2>3, <2>4, <4>1 DEF Upto
    <3> QED
      BY <3>1, <3>2
  <2>6. Snap(job, source')
    BY <1>1, <2>2, <2>3, <2>5, SnapGrows
  <2> QED
    BY <2>2, <2>5, <2>6
<1> QED
  BY <1>4, <1>5, <1>6, <1>7, <1>8, <1>9 DEF Next, Capturing, Comparing

LEMMA InitOrdered ==
  ASSUME Init PROVE Ordered
<1>1. Snap(job, source)
  BY IdleFields, IdleSnap DEF Init
<1>2. harm["edit"] = 0
  BY DEF Init, Harms
<1>3. \A p \in Paths : source[p].body \in {0, 1}
  BY DEF Init, Absent
<1> QED
  BY <1>1, <1>2, <1>3 DEF Ordered

LEMMA AlwaysOrdered == Spec => []Ordered
<1>1. Init => Ordered
  BY InitOrdered
<1>2. CapsuleTyped /\ Ordered /\ [Next]_vars => Ordered'
  BY OrderedKept
<1> QED
  BY <1>1, <1>2, AlwaysTyped, PTL DEF Spec

\* What a published attempt holds, and what its expectation shows, is the Project
\* at the end of the first observation: each read is between that moment and the
\* second observation, which shows the same (capture's comparison of the digests,
\* the stable reads of capture_regular_file).
THEOREM SnapshotsAreConsistent == Spec => []SnapshotIsConsistent
<1>1. Ordered => SnapshotIsConsistent
  BY DEF Ordered, Snap, SnapOf, HeldAt, Held, SnapshotIsConsistent
<1> QED
  BY <1>1, AlwaysOrdered, PTL

\* Nothing is recommended whose restored paths differ from the first observation.
RecommendedOK ==
  job.phase = "recommend" =>
    \A p \in Observed(job.reviewed) : job.body[p].body = job.seen[p].body

LEMMA RecommendedKept ==
  ASSUME CapsuleTyped, RecommendedOK, [Next]_vars
  PROVE  RecommendedOK'
<1>1. /\ job \in Job /\ source \in State /\ review \in Review /\ CallOK(job)
  BY DEF CapsuleTyped, TypeOK
<1>2. ASSUME job'.phase # "recommend" PROVE RecommendedOK'
  BY <1>2 DEF RecommendedOK
<1>3. CASE UNCHANGED vars \/ ReviewProject \/ Rehearse \/ \E p \in Paths : Edit(p) \/ Undo(p)
  BY <1>3 DEF vars, ReviewProject, Rehearse, Edit, Undo, RecommendedOK
<1>4. CASE \/ Capture \/ Exclude \/ Scan \/ BeginAttempt \/ Observe \/ EndObservation
           \/ Compare \/ CopyPath \/ JudgeGitNative
  BY <1>1, <1>2, <1>4, CaptureStarts, ExcludeGoesOn, ScanGoesOn, BeginGoesOn, ObserveGoesOn,
     EndObservationGoesOn, CompareStarts, CopyGoesOn, JudgeGitGoesOn
<1>5. CASE SkipItem \/ OpenItem \/ ReadItem
  <2>1. CASE SkipItem
    <3>1. job'.phase = "pack"
      BY <1>1, <2>1, SkipGoesOn DEF SkipItem, At, CallOK
    <3> QED
      BY <1>2, <3>1
  <2>2. CASE OpenItem
    <3>1. job'.phase = "read"
      BY <1>1, <2>2, OpenGoesOn DEF OpenItem, At, CallOK
    <3> QED
      BY <1>2, <3>1
  <2>3. CASE ReadItem
    <3>1. job'.phase = "pack"
      BY <1>1, <2>3, ReadGoesOn DEF ReadItem, At, CallOK
    <3> QED
      BY <1>2, <3>1
  <2> QED
    BY <1>5, <2>1, <2>2, <2>3
<1>6. CASE Seal \/ SealCandidate \/ Recheck \/ Rechecked
  BY <1>1, <1>2, <1>6, SealGoesOn, SealCandidateGoesOn, RecheckGoesOn, MovesOn
<1>7. CASE PublishAttempt \/ UnlinkAttempt \/ RetainAttempt
  BY <1>1, <1>2, <1>7, MovesOn
<1>8. CASE NextAttempt
  <2>1. job.attempt \in Attempts
    BY <1>1, <1>8 DEF CallOK, NextAttempt, At
  <2> QED
    BY <1>1, <1>2, <1>8, <2>1, NextAttemptGoesOn, IdleFields
<1>9. CASE Refuse \/ ReportVerified \/ Recommend \/ Fault \/ PowerLoss
  BY <1>2, <1>9, CallEnds, IdleFields
<1>10. CASE JudgeSnapshot
  <2>1. CASE job' = Idle
    BY <1>2, <2>1, IdleFields
  <2>2. CASE job' # Idle
    <3>1. SameWork(job', job) /\ Eligible(Materialized(job.body, CurrentModes))
      BY <1>1, <1>10, <2>2, JudgeSnapshotGoesOn
    <3>2. Faithful(job.seen, Materialized(job.body, CurrentModes), job.reviewed)
      BY <3>1 DEF Eligible
    <3>3. job.seen \in State /\ job.body \in State
      BY <1>1 DEF Job
    <3>4. \A p \in Observed(job.reviewed) : job.body[p].body = job.seen[p].body
      BY <3>2, <3>3, FaithfulIsWhole
    <3> QED
      BY <3>1, <3>4 DEF RecommendedOK, SameWork
  <2> QED
    BY <2>1, <2>2
<1> QED
  BY <1>3, <1>4, <1>5, <1>6, <1>7, <1>8, <1>9, <1>10 DEF Next, Capturing, Comparing

\* A comparison recommends the snapshot only when what was restored from it shows
\* every observed path as the first observation did, and that observation is the
\* Project at one moment when nothing was undone (compare, validate_project).
THEOREM RecommendedAreWhole == Spec => []RecommendedIsWhole
<1>1. Init => RecommendedOK
  BY IdleFields DEF Init, RecommendedOK
<1>2. CapsuleTyped /\ RecommendedOK /\ [Next]_vars => RecommendedOK'
  BY RecommendedKept
<1>3. Ordered /\ RecommendedOK => RecommendedIsWhole
  BY DEF Ordered, Snap, SnapOf, HeldAt, Held, RecommendedOK, RecommendedIsWhole, At
<1> QED
  BY <1>1, <1>2, <1>3, AlwaysTyped, AlwaysOrdered, PTL DEF Spec
================================================================================
