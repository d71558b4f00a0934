---------------------------- MODULE ProjectCapsule ----------------------------
(***************************************************************************)
(* ProjectCapsuleEngine: review, capture, rehearsal and comparison of the  *)
(* encrypted snapshot of one Project while the Project changes.            *)
(*                                                                         *)
(* Nothing locks the Project.  Every observation of it and every Pack of   *)
(* it walks its paths one after the other, in the order of their names,    *)
(* and the owner may edit a path between any two reads.                    *)
(***************************************************************************)
EXTENDS Integers, FiniteSets

CONSTANTS
  PathCount,        \* paths of the Project, in the order of their names
  Ignored,          \* the paths that Git ignores
  Databases,        \* ignored live databases, which are never copied as they are
  Export,           \* the path of the file that the owner exports a database to
  Executables,      \* the paths whose executable mode the owner reviews
  TotalAttempts,    \* ProjectCapsuleRetryPolicy.total_attempts
  CaptureAttempts,  \* reads of a file that Pack tries before it gives up
  MaxBundles,       \* Bundles packed in a behaviour
  MaxChanges,       \* changes of the Project in a behaviour
  MaxFaults,        \* storage refusals and terminations
  MaxPowerLosses    \* power losses

Paths == 1 .. PathCount

ASSUME PathsAssumption == PathCount \in Nat \ {0}
ASSUME RolesAssumption ==
  /\ Ignored \subseteq Paths /\ Databases \subseteq Ignored
  /\ Export \in Paths \ Ignored
  /\ Executables \subseteq Paths \ Ignored
ASSUME AttemptsAssumption == TotalAttempts \in 1 .. 3 /\ CaptureAttempts \in Nat \ {0}
ASSUME CapsuleBounds ==
  /\ MaxBundles \in Nat /\ MaxChanges \in Nat
  /\ MaxFaults \in Nat /\ MaxPowerLosses \in Nat

VARIABLES
  source,      \* the Project: what every path holds
  review,      \* the owner's last ProjectCapsuleReview
  dir,         \* the directory of the capsule as the running system sees it
  views,       \* the directories a power loss may leave, dir among them
  bundles,     \* what each Bundle packed so far holds
  job,         \* the local state of the running call
  owner,       \* the last expectation that a capture returned
  receipt,     \* the last rehearsal receipt
  harm         \* how many edits, undos, faults and power losses

vars == <<source, review, dir, views, bundles, job, owner, receipt, harm>>

(***************************************************************************)
(* Types                                                                   *)
(***************************************************************************)
\* A version of a file, 0 when there is no file, and its executable mode.
Value == [body : 0 .. MaxChanges + 1, exec : BOOLEAN]

Absent == [body |-> 0, exec |-> FALSE]

State == [Paths -> Value]

Empty == [p \in Paths |-> Absent]

Present(state) == {p \in Paths : state[p].body # 0}

Ids == 1 .. MaxBundles
NoBundle == 0

Attempts == 1 .. TotalAttempts

\* The destination, and the name of each attempt and of its retained Bundle.
Destination == <<"destination", 0>>

Names == {Destination} \cup ({"attempt", "retained"} \X Attempts)

AttemptName(k)  == <<"attempt", k>>
RetainedName(k) == <<"retained", k>>

Unlinked == [n \in Names |-> NoBundle]

Content == [body : State, sealed : BOOLEAN]

Unpacked == [body |-> Empty, sealed |-> FALSE]

Review == [done     : BOOLEAN,
           state    : State,          \* the audited Project
           included : SUBSET Ignored, \* ignored paths that the owner includes
           export   : BOOLEAN,        \* a database is replaced by its export
           value    : Value]          \* the export that was reviewed

NoReview == [done |-> FALSE, state |-> Empty, included |-> {}, export |-> FALSE,
             value |-> Absent]

Phases == {"idle", "exclude", "scan", "names", "observe", "pack", "read",
           "seal", "verify", "recheck", "decide", "unlink", "modes", "unretain",
           "copy", "judge", "recommend"}

Job == [phase    : Phases,
        use      : {"capture", "git", "snapshot"},
        reviewed : SUBSET Ignored,  \* reviewed_ignored_paths
        excluded : SUBSET Paths,    \* unreviewed_ignored_paths
        plan     : SUBSET Paths,    \* the items of capsule_plan
        attempt  : 0 .. TotalAttempts,
        at       : 1 .. PathCount + 1,
        tries    : 0 .. CaptureAttempts,
        before   : Value,           \* the observation that precedes a read
        seen     : State,           \* the first observation, "expected"
        held     : State,           \* the Project when that observation ended
        body     : State,           \* what is packed
        post     : State,           \* the observation after the Pack
        bundle   : 0 .. MaxBundles]

Idle == [phase |-> "idle", use |-> "capture", reviewed |-> {}, excluded |-> {},
         plan |-> {}, attempt |-> 0, at |-> 1, tries |-> 0, before |-> Absent,
         seen |-> Empty, held |-> Empty, body |-> Empty, post |-> Empty,
         bundle |-> NoBundle]

Expectation == [bundle : 0 .. MaxBundles, seen : State, reviewed : SUBSET Ignored,
                modes : SUBSET Paths]

NoExpectation == [bundle |-> NoBundle, seen |-> Empty, reviewed |-> {}, modes |-> {}]

Harms == {"edit", "undo", "fault", "power"}

\* Every variable has its type, and a Bundle is named only once it is sealed.
TypeOK ==
  /\ source \in State
  /\ review \in Review
  /\ dir \in views /\ views \subseteq [Names -> 0 .. MaxBundles]
  /\ bundles \in [Ids -> Content]
  /\ \A d \in views : \A n \in Names : d[n] # NoBundle => bundles[d[n]].sealed
  /\ job \in Job
  /\ owner \in Expectation
  /\ receipt \in [bundle : 0 .. MaxBundles, restorable : BOOLEAN]
  /\ harm \in [Harms -> Nat]
  /\ harm["edit"] + harm["undo"] <= MaxChanges

(***************************************************************************)
(* The Project                                                             *)
(***************************************************************************)
\* observe_directory skips ignored paths, unless the owner reviewed them.
Observed(reviewed) == Paths \ (Ignored \ reviewed)

\* The part of a state that an observation shows.
Observation(state, reviewed) ==
  [p \in Paths |-> IF p \in Observed(reviewed) THEN state[p] ELSE Absent]

Candidates(state) == Ignored \cap Present(state)

(***************************************************************************)
(* Steps of a call                                                         *)
(***************************************************************************)
At(phase) == job.phase = phase

Become(j) == job' = j

Goto(phase) == Become([job EXCEPT !.phase = phase])

\* A walk over the paths begins.
Walk(j, phase) == [j EXCEPT !.phase = phase, !.at = 1, !.tries = 0]

Walked == job.at = PathCount + 1

Onward(j) == [j EXCEPT !.at = @ + 1]

OnlyJob == UNCHANGED <<source, review, dir, views, bundles, owner,
                       receipt, harm>>

Relink(d) == dir' = d /\ views' = views \cup {d}

(***************************************************************************)
(* Audit and review                                                        *)
(***************************************************************************)
\* The audit behind a review still is what an observation shows now.
Fresh(state) == /\ Observation(source, {}) = Observation(state, {})
                /\ Candidates(source) = Candidates(state)

\* observe_database_export: what the export holds now.
ExportObserved == source[Export]

\* An export can be reviewed if it is there.
ExportReviewable == ExportObserved.body # 0

\* The export on disk is the reviewed one.
ExportBound(value) == ExportObserved = value

\* A review is complete when every candidate has a decision: it is included or
\* excluded as generated state, and a database that is left out is replaced.
Replaces(included) == (Databases \cap Candidates(source)) \ included # {}

\* A review is accepted of a Project that is as its audit saw it, so the audit
\* is the Project at this step.  The owner decides on every ignored candidate:
\* include it, exclude it as generated state, or, for a database, replace it by
\* an export that two observations found stable.  A behaviour has one review.
ReviewProject ==
  /\ At("idle") /\ ~ review.done
  /\ \E included \in SUBSET Candidates(source) :
       /\ Replaces(included) => ExportReviewable
       /\ review' = [done |-> TRUE, state |-> source, included |-> included,
                     export |-> Replaces(included), value |-> ExportObserved]
  /\ UNCHANGED <<source, dir, views, bundles, job, owner, receipt, harm>>

(***************************************************************************)
(* Capture                                                                 *)
(***************************************************************************)
\* reviewed_executable_modes reads the modes from the Project as it is now.
ModesReadable == \A p \in Executables : source[p].exec /\ source[p].body # 0

CaptureAccepted ==
  /\ review.done
  /\ Fresh(review.state)
  /\ review.export => ExportBound(review.value)
  /\ dir[Destination] = NoBundle
  /\ ModesReadable

Capture ==
  /\ At("idle")
  /\ CaptureAccepted
  /\ Become([Idle EXCEPT !.phase = "exclude", !.reviewed = review.included])
  /\ OnlyJob

\* unreviewed_ignored_paths
Exclude ==
  /\ At("exclude")
  /\ LET j == [job EXCEPT !.excluded = Candidates(source) \ job.reviewed] IN
       Become(IF job.use = "git" THEN Walk(j, "copy") ELSE [j EXCEPT !.phase = "scan"])
  /\ OnlyJob

\* approved_capsule_plan: every path that exists now, unless it is excluded.  It
\* is computed once, before the first attempt.
Scan ==
  /\ At("scan")
  /\ LET j == [job EXCEPT !.plan = Present(source) \ job.excluded] IN
       Become(IF job.use = "snapshot" THEN Walk(j, "pack")
                                      ELSE [j EXCEPT !.phase = "names", !.attempt = 1])
  /\ OnlyJob

NamesFree(k) == dir[AttemptName(k)] = NoBundle /\ dir[RetainedName(k)] = NoBundle

\* An attempt begins, if neither of its names is taken.
BeginAttempt ==
  /\ At("names")
  /\ NamesFree(job.attempt)
  /\ Become(Walk(job, "observe"))
  /\ OnlyJob

\* What a walk of observe_directory reads of the path it has come to.
Read == Observation(source, job.reviewed)[job.at]

Observe ==
  /\ At("observe") /\ ~ Walked
  /\ Become(Onward([job EXCEPT !.seen[job.at] = Read]))
  /\ OnlyJob

\* "held" is a note of the model: the code cannot know it.
EndObservation ==
  /\ At("observe") /\ Walked
  /\ LET j == [job EXCEPT !.held = Observation(source, job.reviewed)] IN
       Become(IF job.use = "capture" THEN Walk(j, "pack")
                                     ELSE [j EXCEPT !.phase = "exclude"])
  /\ OnlyJob

(***************************************************************************)
(* Pack of the snapshot                                                    *)
(***************************************************************************)
SkipItem ==
  /\ At("pack") /\ ~ Walked
  /\ job.at \notin job.plan
  /\ Become(Onward(job))
  /\ OnlyJob

\* capture_regular_file observes the file, reads it and observes it again.
OpenItem ==
  /\ At("pack") /\ ~ Walked
  /\ job.at \in job.plan
  /\ Become([job EXCEPT !.phase = "read", !.before = source[job.at], !.tries = @ + 1])
  /\ OnlyJob

\* A file that is stable is captured; one that changes on every try, or is
\* gone, is Unverified and the Bundle has nothing of it.
Captured == IF source[job.at] = job.before THEN job.before ELSE Absent

ReadItem ==
  /\ At("read")
  /\ LET stable == source[job.at] = job.before IN
       Become(IF ~ stable /\ job.tries < CaptureAttempts
                THEN [job EXCEPT !.phase = "pack"]
                ELSE Onward([job EXCEPT !.phase = "pack", !.tries = 0,
                                        !.before = Absent,
                                        !.body[job.at] = Captured]))
  /\ OnlyJob

FreeIds == {b \in Ids : /\ \A d \in views : \A n \in Names : d[n] # b
                        /\ b \notin {owner.bundle, receipt.bundle}}

\* The Bundle is sealed and renamed to a name that nobody has.
Seal ==
  /\ At("pack") /\ Walked /\ job.use = "capture"
  /\ dir[AttemptName(job.attempt)] = NoBundle
  /\ FreeIds # {}
  /\ LET b == CHOOSE id \in FreeIds : TRUE IN
       /\ bundles' = [bundles EXCEPT ![b] = [body |-> job.body, sealed |-> TRUE]]
       /\ dir' = [dir EXCEPT ![AttemptName(job.attempt)] = b]
       /\ views' = {dir'}
       /\ Become(Walk([job EXCEPT !.bundle = b], "recheck"))
  /\ UNCHANGED <<source, review, owner, receipt, harm>>

Recheck ==
  /\ At("recheck") /\ ~ Walked
  /\ Become(Onward([job EXCEPT !.post[job.at] = Read]))
  /\ OnlyJob

Rechecked ==
  /\ At("recheck") /\ Walked
  /\ Goto(IF job.use = "capture" THEN "decide" ELSE "judge")
  /\ OnlyJob

\* Mutant: the observation after the Pack is not compared.
UnchangedAssumed == job.seen = job.seen

\* The digests of the two observations are equal.
Unchanged == job.seen = job.post

\* publish_project_capsule_attempt: an exclusive hard link, then the removal of
\* the attempt's name.  The directory is not synchronized.
PublishAttempt ==
  /\ At("decide") /\ Unchanged
  /\ dir[Destination] = NoBundle
  /\ Relink([dir EXCEPT ![Destination] = dir[AttemptName(job.attempt)]])
  /\ Goto("unlink")
  /\ UNCHANGED <<source, review, bundles, owner, receipt, harm>>

UnlinkAttempt ==
  /\ At("unlink")
  /\ Relink([dir EXCEPT ![AttemptName(job.attempt)] = NoBundle])
  /\ Goto("modes")
  /\ UNCHANGED <<source, review, bundles, owner, receipt, harm>>

ReportVerified ==
  /\ At("modes") /\ ModesReadable
  /\ owner' = [bundle |-> job.bundle, seen |-> job.seen, reviewed |-> job.reviewed,
               modes |-> Executables]
  /\ Become(Idle)
  /\ UNCHANGED <<source, review, dir, views, bundles, receipt, harm>>

\* Mutant: a retained attempt takes the name away before it gives the other.
RetainUnlinked(k) == [dir EXCEPT ![AttemptName(k)] = NoBundle]

Retained(k) == [dir EXCEPT ![RetainedName(k)] = dir[AttemptName(k)]]

\* retain_changed_project_capsule_attempt
RetainAttempt ==
  /\ At("decide") /\ ~ Unchanged
  /\ dir[RetainedName(job.attempt)] = NoBundle
  /\ Relink(Retained(job.attempt))
  /\ Goto("unretain")
  /\ UNCHANGED <<source, review, bundles, owner, receipt, harm>>

\* Mutant: the retry policy allows one attempt too many.
MoreAttemptsAndOne == job.attempt <= TotalAttempts

MoreAttempts == job.attempt < TotalAttempts

\* Then the next attempt, or ChangedAndUnverified without an expectation.
NextAttempt ==
  /\ At("unretain")
  /\ Relink([dir EXCEPT ![AttemptName(job.attempt)] = NoBundle])
  /\ Become(IF MoreAttempts
              THEN [Idle EXCEPT !.phase = "names", !.attempt = job.attempt + 1,
                                !.reviewed = job.reviewed, !.excluded = job.excluded,
                                !.plan = job.plan]
              ELSE Idle)
  /\ UNCHANGED <<source, review, bundles, owner, receipt, harm>>

\* An error leaves everything where it is: no attempt is cleaned up, and what
\* was published stays published, without an expectation.
Refused ==
  \/ At("names") /\ ~ NamesFree(job.attempt)
  \/ At("pack") /\ Walked /\ job.use = "capture" /\ dir[AttemptName(job.attempt)] # NoBundle
  \/ At("decide") /\ Unchanged /\ dir[Destination] # NoBundle
  \/ At("modes") /\ ~ ModesReadable

Refuse == Refused /\ Become(Idle) /\ OnlyJob

(***************************************************************************)
(* Rehearsal                                                               *)
(***************************************************************************)
\* What Restore materializes of a Bundle.  No file is executable, but those
\* whose mode the owner approved.
Materialized(body, modes) ==
  [p \in Paths |-> IF body[p].body = 0 THEN Absent
                                       ELSE [body |-> body[p].body, exec |-> p \in modes]]

\* Mutant: only what the Bundle has is compared.
FaithfulSubset(expected, restored, reviewed) ==
  \A p \in Present(restored) : restored[p] = expected[p]

\* validate_project: heads, references, index and worktree are the expected
\* ones, and every reviewed executable is one.
Faithful(expected, restored, reviewed) ==
  /\ Observation(restored, reviewed) = expected
  /\ \A p \in Executables : restored[p].exec

\* The Bundle at the destination is authenticated, must be the one of the
\* expectation, is restored, and is validated without the Project.
Rehearse ==
  /\ At("idle")
  /\ owner.bundle # NoBundle
  /\ dir[Destination] = owner.bundle
  /\ \E approved \in BOOLEAN :
       LET restored == Materialized(bundles[owner.bundle].body,
                                    IF approved THEN owner.modes ELSE {}) IN
       receipt' = [bundle |-> owner.bundle,
                   restorable |-> (approved \/ owner.modes = {})
                                    /\ Faithful(owner.seen, restored, owner.reviewed)]
  /\ UNCHANGED <<source, review, dir, views, bundles, job, owner, harm>>

(***************************************************************************)
(* Comparison of the two representations                                   *)
(***************************************************************************)
\* compare needs no review: the owner names the ignored paths to include.  It
\* keeps nothing, so it is enough to let it run before a review.
Compare ==
  /\ At("idle") /\ ~ review.done
  /\ \E reviewed \in SUBSET Ignored :
       Become([Idle EXCEPT !.phase = "observe", !.use = "git", !.reviewed = reviewed])
  /\ OnlyJob

\* copy_worktree_overlay reads every path once.
CopyPath ==
  /\ At("copy") /\ ~ Walked
  /\ Become(Onward([job EXCEPT !.body[job.at] =
                      IF job.at \in job.excluded THEN Absent ELSE source[job.at]]))
  /\ OnlyJob

\* The Bundle of a comparison has a name of its own in a disposable workspace.
SealCandidate ==
  /\ \/ At("copy") /\ Walked
     \/ At("pack") /\ Walked /\ job.use = "snapshot"
  /\ Become(Walk(job, "recheck"))
  /\ OnlyJob

\* restore_reviewed_executable_modes copies the modes from the Project.
CurrentModes == {p \in Executables : source[p].exec}

JudgeGitNative ==
  /\ At("judge") /\ job.use = "git"
  /\ Become([job EXCEPT !.phase = "exclude", !.use = "snapshot", !.body = Empty])
  /\ OnlyJob

\* Mutant: a snapshot is recommended without validating what was restored.
EligibleIfUnchanged(restored) == Unchanged

\* Only the snapshot may be recommended, when the Project did not change and
\* what was restored is faithful.
Eligible(restored) == Unchanged /\ Faithful(job.seen, restored, job.reviewed)

JudgeSnapshot ==
  /\ At("judge") /\ job.use = "snapshot"
  /\ Become(IF Eligible(Materialized(job.body, CurrentModes))
              THEN [job EXCEPT !.phase = "recommend"] ELSE Idle)
  /\ OnlyJob

Recommend == At("recommend") /\ Become(Idle) /\ OnlyJob

(***************************************************************************)
(* The environment                                                         *)
(***************************************************************************)
Harm(h) == harm' = [harm EXCEPT ![h] = @ + 1]

MayChange == harm["edit"] + harm["undo"] < MaxChanges

\* A path gets a version it never had.
Edit(p) ==
  /\ MayChange /\ Harm("edit")
  /\ source' = [source EXCEPT ![p].body = harm["edit"] + 2]
  /\ UNCHANGED <<review, dir, views, bundles, job, owner, receipt>>

\* A path goes back to a version it may have had, gets another mode, or goes.
Undo(p) ==
  /\ MayChange /\ Harm("undo")
  /\ \E v \in {Absent} \cup [body : {1, source[p].body} \ {0}, exec : BOOLEAN] :
       /\ v # source[p]
       /\ v.exec => p \in Executables
       /\ source' = [source EXCEPT ![p] = v]
  /\ UNCHANGED <<review, dir, views, bundles, job, owner, receipt>>

\* The storage refuses, git fails or the process ends: nothing is undone.
Fault ==
  /\ ~ At("idle") /\ ~ Refused
  /\ harm["fault"] < MaxFaults /\ Harm("fault")
  /\ Become(Idle)
  /\ UNCHANGED <<source, review, dir, views, bundles, owner, receipt>>

PowerLoss ==
  /\ views # {dir}
  /\ harm["power"] < MaxPowerLosses /\ Harm("power")
  /\ \E d \in views : dir' = d /\ views' = {d}
  /\ Become(Idle)
  /\ UNCHANGED <<source, review, bundles, owner, receipt>>

(***************************************************************************)
(* The specification                                                       *)
(***************************************************************************)
Init ==
  /\ source \in [Paths -> {Absent} \cup [body : {1}, exec : BOOLEAN]]
  /\ \A p \in Paths : source[p].exec <=> p \in Executables
  /\ review = NoReview
  /\ dir = Unlinked
  /\ views = {Unlinked}
  /\ bundles = [b \in Ids |-> Unpacked]
  /\ job = Idle
  /\ owner = NoExpectation
  /\ receipt = [bundle |-> NoBundle, restorable |-> FALSE]
  /\ harm = [h \in Harms |-> 0]

Capturing == \/ Capture \/ Exclude \/ Scan \/ BeginAttempt \/ Observe \/ EndObservation
             \/ SkipItem \/ OpenItem \/ ReadItem \/ Seal \/ Recheck \/ Rechecked
             \/ PublishAttempt \/ UnlinkAttempt \/ ReportVerified
             \/ RetainAttempt \/ NextAttempt \/ Refuse

Comparing == Compare \/ CopyPath \/ SealCandidate \/ JudgeGitNative \/ JudgeSnapshot
               \/ Recommend

Next == \/ ReviewProject \/ Capturing \/ Rehearse \/ Comparing
        \/ \E p \in Paths : Edit(p) \/ Undo(p)
        \/ Fault \/ PowerLoss

Spec == Init /\ [][Next]_vars

(***************************************************************************)
(* Safety                                                                  *)
(***************************************************************************)
\* What the expectation shows of p, and what is packed of it, is what the
\* Project held there at one moment: when the first observation ended.
Held(p) == job.seen[p] = job.held[p] /\ (p \in job.plan => job.body[p] = job.held[p])

\* As long as no change is undone, two equal observations around a Pack mean
\* that the Bundle and the expectation are the Project as it was at one
\* moment, although every walk reads one path after the other (the comparison
\* of the digests in capture, the stable reads of capture_regular_file).
SnapshotIsConsistent ==
  job.phase \in {"unlink", "modes"} /\ harm["undo"] = 0
    => \A p \in Observed(job.reviewed) : Held(p)

\* compare recommends a snapshot only if what was restored from it is what its
\* first observation showed, on every path; and when nothing was undone, that
\* is the Project as it was at one moment.
RecommendedIsWhole ==
  At("recommend") =>
    \A p \in Observed(job.reviewed) :
      /\ job.body[p].body = job.seen[p].body
      /\ harm["undo"] = 0 => Held(p)

\* A rehearsal reports Restorable only of a Bundle that has, path by path, what
\* the expectation of that Bundle shows, whatever the Project went through
\* (rehearse, validate_project).
RestorableIsWhole ==
  receipt.restorable /\ receipt.bundle = owner.bundle =>
    \A p \in Observed(owner.reviewed) :
      bundles[receipt.bundle].body[p].body = owner.seen[p].body

Linked(b, d) == \E n \in Names : d[n] = b

\* A sealed attempt, published or retained, always has a name: no step and no
\* power loss takes the last one away (hard link first, removal second).
SealedStayLinked ==
  [][\A b \in Ids : (\A d \in views : Linked(b, d)) => \A d \in views' : Linked(b, d)]_vars

(***************************************************************************)
(* What the documentation says                                             *)
(***************************************************************************)
\* A Project that changes during capture is not silently captured in part: an
\* expectation is returned only with a Bundle of every path it shows.
NothingOmitted ==
  owner.bundle # NoBundle =>
    Present(owner.seen) \subseteq Present(bundles[owner.bundle].body)
=============================================================================
