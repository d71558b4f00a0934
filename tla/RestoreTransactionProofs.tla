----------------------- MODULE RestoreTransactionProofs -----------------------
(***************************************************************************)
(* Theorems of RestoreTransaction, for every number of restorers on one    *)
(* destination, every pool of directories, number of entries and bound on  *)
(* the harm.  What the journal, a report and the final modes say is proved *)
(* for one restorer on its destination: it is false for several.           *)
(***************************************************************************)
EXTENDS RestoreTransaction, TLAPS

(***************************************************************************)
(* Type correctness                                                        *)
(***************************************************************************)
TreeOK(t) ==
  /\ t \in Tree
  /\ t.control = NoDir => t.staging = NoDir /\ t.journal = NoJournal /\ t.partial = NoJournal
  /\ t.staging = NoDir => t.staged = Nothing

StorageOK == tree \in views /\ \A t \in views : TreeOK(t)

JournalPhases == {"write", "rename", "sync journal"}

\* The phase that a call is in, or to which its journal write leads.
Aim(j) == IF j.phase \in JournalPhases THEN j.next ELSE j.phase

\* The phases that use the staging directory, a positive count, or an entry.
StagingPhases == {"roll", "unmove", "sync unmove", "sync staging", "fill", "stream",
                  "finish", "validate", "staged", "preflight", "move", "check",
                  "sync move", "advance"}
CountPhases == {"unmove", "sync unmove"}
EntryPhases == {"move", "check", "sync move", "advance", "finalize"}
OutsidePhases == {"idle", "control", "cleanup", "sync cleanup"}

\* What a call at phase a holds.
Holding(j, a) ==
  /\ a \in Phases \ JournalPhases
  /\ a \notin OutsidePhases => j.ctl \in Dirs
  /\ a \in StagingPhases => j.stg \in Dirs
  /\ a \in CountPhases => j.i > 0
  /\ a \in EntryPhases => j.i \in Entries

JobOK(j) ==
  /\ j \in Job
  /\ Holding(j, Aim(j))
  /\ j.phase \in JournalPhases => j.ctl \in Dirs

JobsOK == /\ job \in [Restorers -> Job]
          /\ \A p \in Restorers : JobOK(job[p])

RestOK ==
  /\ body \in [Dirs -> {"empty", "volatile", "durable", "torn"}]
  /\ final \in [Dirs -> SUBSET Entries]
  /\ told \in [Restorers -> {"none", "paused", "complete", "failed"}]
  /\ \A h \in Harms : harm[h] \in 0 .. Limit(h)

\* The harm has its counters; TypeOK only speaks of their values.
HarmOK == DOMAIN harm = Harms

TypeInv == StorageOK /\ JobsOK /\ RestOK /\ HarmOK

LEMMA TypeInvTypes ==
  ASSUME TypeInv
  PROVE  TypeOK
  BY DEF TypeInv, StorageOK, TreeOK, JobsOK, RestOK, TypeOK

(***************************************************************************)
(* Storage                                                                 *)
(***************************************************************************)
LEMMA RelinkOK ==
  ASSUME StorageOK, NEW t, TreeOK(t), Relink(t)
  PROVE  StorageOK'
  BY DEF StorageOK, TreeOK, Relink

LEMMA SyncOK ==
  ASSUME StorageOK, Sync
  PROVE  StorageOK'
  BY DEF StorageOK, TreeOK, Sync

LEMMA StorageSame ==
  ASSUME StorageOK, UNCHANGED <<tree, views>>
  PROVE  StorageOK'
  BY DEF StorageOK, TreeOK

LEMMA TreeFacts ==
  ASSUME StorageOK
  PROVE  /\ TreeOK(tree)
         /\ tree.control \in MaybeDir /\ tree.staging \in MaybeDir
         /\ tree.journal \in Journal /\ tree.partial \in Journal
         /\ tree.staged \in [Entries -> Item] /\ tree.dest \in [Entries -> Item]
  BY DEF StorageOK, TreeOK, Tree

LEMMA NoJournalType == NoJournal \in Journal
  BY EntryCountAssumption DEF NoJournal, Entry, Journal, NoIntent

LEMMA Counts ==
  /\ \A i \in 0 .. EntryCount : i > 0 => i - 1 \in 0 .. EntryCount /\ i - 1 \in Entries
  /\ \A e \in Entries : e \in 0 .. EntryCount /\ e + 1 \in 0 .. EntryCount
  /\ 0 \in 0 .. EntryCount /\ 0 \in Entries
  BY EntryCountAssumption DEF Entries

LEMMA NothingType == Nothing \in [Entries -> Item]
  BY DEF Nothing, Item, MaybeDir

LEMMA NewDirsAreFree ==
  ASSUME NEW d \in NewDirs
  PROVE  d \in FreeDirs /\ d \in Dirs /\ d \in MaybeDir /\ d # NoDir
  BY DirsAssumption DEF NewDirs, FreeDirs, MaybeDir

(***************************************************************************)
(* Jobs                                                                    *)
(***************************************************************************)
LEMMA BecomeOK ==
  ASSUME JobsOK, NEW p \in Restorers, NEW j, JobOK(j), Become(p, j)
  PROVE  JobsOK'
  BY DEF JobsOK, JobOK, Become

LEMMA JobsSame ==
  ASSUME JobsOK, UNCHANGED job
  PROVE  JobsOK'
  BY DEF JobsOK

LEMMA JobFacts ==
  ASSUME JobsOK, NEW p \in Restorers
  PROVE  /\ job[p] \in Job /\ Holding(job[p], Aim(job[p]))
         /\ job[p].phase \in JournalPhases => job[p].ctl \in Dirs
         /\ job[p].phase \in Phases /\ job[p].next \in Phases
         /\ job[p].entry \in Journal /\ job[p].seen \in Journal
         /\ job[p].ctl \in MaybeDir /\ job[p].stg \in MaybeDir
         /\ job[p].i \in 0 .. EntryCount /\ job[p].valid \in [Entries -> Item]
  BY DEF JobsOK, JobOK, Job

LEMMA IdleOK == JobOK(Idle) /\ JobOK([Idle EXCEPT !.phase = "cleanup"])
<1>1. Idle \in Job
  <2>1. NoDir \in MaybeDir /\ 0 \in 0 .. EntryCount /\ "idle" \in Phases
    BY EntryCountAssumption DEF MaybeDir, Phases
  <2> QED
    BY <2>1, NoJournalType, NothingType DEF Idle, Job
<1>3. [Idle EXCEPT !.phase = "cleanup"] \in Job
  <2>1. "cleanup" \in Phases
    BY DEF Phases
  <2> QED
    BY <1>1, <2>1 DEF Job
<1>2. /\ Aim(Idle) = "idle" /\ Idle.phase = "idle"
      /\ [Idle EXCEPT !.phase = "cleanup"].phase = "cleanup"
      /\ Aim([Idle EXCEPT !.phase = "cleanup"]) = "cleanup"
  BY DEF Idle, Aim, JournalPhases
<1> QED
  BY <1>1, <1>2, <1>3 DEF JobOK, Holding, Phases, JournalPhases, OutsidePhases,
                          StagingPhases, CountPhases, EntryPhases

\* A call goes on to another phase with what it holds.
LEMMA GotoOK ==
  ASSUME NEW j \in Job, NEW a, Holding(j, a)
  PROVE  JobOK([j EXCEPT !.phase = a])
<1> DEFINE k == [j EXCEPT !.phase = a]
<1>1. k \in Job /\ k.phase = a /\ k.ctl = j.ctl /\ k.stg = j.stg /\ k.i = j.i
  BY DEF Job, Holding
<1>2. Aim(k) = a
  BY <1>1 DEF Aim, Holding
<1> QED
  BY <1>1, <1>2 DEF JobOK, Holding

LEMMA RecordingOK ==
  ASSUME NEW j \in Job, NEW entry \in Journal, NEW a, Holding(j, a), a \notin OutsidePhases
  PROVE  JobOK(Recording(j, entry, a))
<1> DEFINE k == Recording(j, entry, a)
<1>1. k \in Job /\ k.phase = "write" /\ k.next = a
      /\ k.ctl = j.ctl /\ k.stg = j.stg /\ k.i = j.i
  BY DEF Job, Holding, Recording, Phases
<1>2. Aim(k) = a
  BY <1>1 DEF Aim, JournalPhases
<1> QED
  BY <1>1, <1>2 DEF JobOK, Holding

\* The phases that a call passes with the directories that it has.
LEMMA Passing ==
  ASSUME NEW j \in Job, NEW a \in Phases \ JournalPhases, Holding(j, a),
         NEW b \in Phases \ JournalPhases,
         a \in OutsidePhases => b \in OutsidePhases,
         b \in StagingPhases => a \in StagingPhases,
         b \in CountPhases => a \in CountPhases,
         b \in EntryPhases => a \in EntryPhases
  PROVE  Holding(j, b)
  BY DEF Holding

LEMMA AtHolds ==
  ASSUME JobsOK, NEW p \in Restorers, NEW a \in Phases \ JournalPhases, At(p, a)
  PROVE  Holding(job[p], a)
  BY JobFacts DEF Aim, At

\* The call goes from phase a on to phase b.
LEMMA GoesOn ==
  ASSUME JobsOK, NEW p \in Restorers,
         NEW a \in Phases \ JournalPhases, At(p, a),
         NEW b \in Phases \ JournalPhases, Goto(p, b),
         a \in OutsidePhases => b \in OutsidePhases,
         b \in StagingPhases => a \in StagingPhases,
         b \in CountPhases => a \in CountPhases,
         b \in EntryPhases => a \in EntryPhases
  PROVE  JobsOK'
<1>1. job[p] \in Job
  BY JobFacts
<1>2. Holding(job[p], b)
  BY <1>1, AtHolds, Passing
<1> QED
  BY <1>1, <1>2, GotoOK, BecomeOK DEF Goto

LEMMA OnlyTreeOK ==
  ASSUME TypeInv, StorageOK', JobsOK', OnlyTree
  PROVE  TypeInv'
  BY DEF TypeInv, RestOK, HarmOK, OnlyTree

LEMMA IdleJob ==
  ASSUME JobsOK, NEW p \in Restorers, Become(p, Idle)
  PROVE  JobsOK'
  BY IdleOK, BecomeOK

(***************************************************************************)
(* The calls and their rollback                                            *)
(***************************************************************************)
LEMMA FreshType ==
  ASSUME TypeInv, NEW p \in Restorers, Fresh(p)
  PROVE  TypeInv'
<1> USE DEF TypeInv
<1>1. StorageOK'
  BY StorageSame DEF Fresh
<1>2. JobsOK'
  <2>1. "idle" \in Phases \ JournalPhases /\ "control" \in Phases \ JournalPhases
    BY DEF Phases, JournalPhases
  <2> QED
    BY <2>1, GoesOn DEF Fresh, OutsidePhases, StagingPhases, CountPhases, EntryPhases
<1> QED
  BY <1>1, <1>2, OnlyTreeOK DEF Fresh

LEMMA ResumeType ==
  ASSUME TypeInv, NEW p \in Restorers, Resume(p)
  PROVE  TypeInv'
<1> USE DEF TypeInv
<1> DEFINE j == [Idle EXCEPT !.phase = AfterResume, !.resume = TRUE,
                             !.seen = tree.journal, !.ctl = tree.control]
<1>1. StorageOK'
  BY StorageSame DEF Resume
<1>2. JobsOK'
  <2>1. AfterResume \in {"reconcile", "discard"}
    BY DEF AfterResume
  <2>2. tree.control \in Dirs /\ tree.journal \in Journal
    BY TreeFacts DEF Resume, ResumeAccepted, MaybeDir
  <2>3. j \in Job /\ j.phase = AfterResume /\ j.ctl = tree.control
    BY <2>1, <2>2, IdleOK DEF JobOK, Job, Phases, MaybeDir
  <2>4. Aim(j) = AfterResume
    BY <2>1, <2>3 DEF Aim, JournalPhases
  <2>5. Holding(j, AfterResume)
    BY <2>1, <2>2, <2>3 DEF Holding, Phases, JournalPhases, OutsidePhases, StagingPhases,
                            CountPhases, EntryPhases
  <2> QED
    BY <2>1, <2>3, <2>4, <2>5, BecomeOK DEF Resume, JobOK, JournalPhases
<1>3. final' \in [Dirs -> SUBSET Entries]
  BY DEF Resume, RestOK
<1> QED
  BY <1>1, <1>2, <1>3 DEF Resume, RestOK, HarmOK

LEMMA DiscardPartialType ==
  ASSUME TypeInv, NEW p \in Restorers, DiscardPartial(p)
  PROVE  TypeInv'
<1> USE DEF TypeInv
<1>1. StorageOK'
  <2>1. TreeOK([tree EXCEPT !.partial = NoJournal])
    BY TreeFacts, NoJournalType DEF TreeOK, Tree
  <2> QED
    BY <2>1, RelinkOK DEF DiscardPartial
<1>2. JobsOK'
  <2>1. "discard" \in Phases \ JournalPhases /\ "sync discard" \in Phases \ JournalPhases
    BY DEF Phases, JournalPhases
  <2> QED
    BY <2>1, GoesOn DEF DiscardPartial, Does, OutsidePhases, StagingPhases, CountPhases,
                        EntryPhases
<1> QED
  BY <1>1, <1>2, OnlyTreeOK DEF DiscardPartial

LEMMA ReconcileType ==
  ASSUME TypeInv, NEW p \in Restorers, Reconcile(p)
  PROVE  TypeInv'
<1> USE DEF TypeInv
<1> DEFINE n == Settled(tree, job[p].seen)
           j == [job[p] EXCEPT !.phase = "roll", !.stg = tree.staging, !.i = n]
<1>1. StorageOK'
  BY StorageSame DEF Reconcile
<1>2. n \in 0 .. EntryCount
  BY JobFacts, EntryCountAssumption DEF Settled, Journal, NoIntent
<1>3. tree.staging \in Dirs
  BY TreeFacts DEF Reconcile, Does, Ready, At, MaybeDir
<1>4. job[p].ctl \in Dirs
  <2>1. "reconcile" \in Phases \ JournalPhases
    BY DEF Phases, JournalPhases
  <2> QED
    BY <2>1, AtHolds DEF Reconcile, Does, Holding, OutsidePhases
<1>5. j \in Job /\ j.ctl \in Dirs /\ j.stg \in Dirs /\ j.phase = "roll"
  <2>1. job[p] \in Job /\ tree.staging \in MaybeDir /\ "roll" \in Phases
    BY JobFacts, TreeFacts DEF Phases
  <2>2. j \in Job
    BY <1>2, <2>1 DEF Job
  <2>3. j.ctl = job[p].ctl /\ j.stg = tree.staging /\ j.phase = "roll"
    BY <2>1 DEF Job
  <2> QED
    BY <1>3, <1>4, <2>2, <2>3
<1>6. Holding(j, "roll")
  BY <1>5 DEF Holding, Phases, JournalPhases, CountPhases, EntryPhases
<1>7. JobOK(j)
  BY <1>5, <1>6 DEF JobOK, Aim, JournalPhases
<1>8. JobOK(Recording(j, Entry("publishing", n, NoIntent), "roll"))
  <2>1. Entry("publishing", n, NoIntent) \in Journal
    BY <1>2, EntryCountAssumption DEF Entry, Journal, NoIntent
  <2> QED
    BY <2>1, <1>5, <1>6, RecordingOK DEF OutsidePhases
<1>9. JobsOK'
  BY <1>7, <1>8, BecomeOK DEF Reconcile
<1> QED
  BY <1>1, <1>9, OnlyTreeOK DEF Reconcile

LEMMA RollType ==
  ASSUME TypeInv, NEW p \in Restorers, Roll(p)
  PROVE  TypeInv'
<1> USE DEF TypeInv
<1> DEFINE j == job[p]
<1>1. StorageOK'
  BY StorageSame DEF Roll
<1>2. Holding(j, "roll") /\ j \in Job /\ j.i \in 0 .. EntryCount
  <2>1. "roll" \in Phases \ JournalPhases
    BY DEF Phases, JournalPhases
  <2> QED
    BY <2>1, AtHolds, JobFacts DEF Roll, Does
<1>3. Holding(j, "reset")
  BY <1>2 DEF Holding, Phases, JournalPhases, OutsidePhases, StagingPhases, CountPhases,
              EntryPhases
<1>4. ASSUME j.i # 0
      PROVE  JobOK(Recording(j, Entry("rolling-back", j.i, j.i - 1), "unmove"))
  <2>1. Entry("rolling-back", j.i, j.i - 1) \in Journal
    BY <1>2, <1>4, EntryCountAssumption DEF Entry, Journal, NoIntent
  <2>2. Holding(j, "unmove")
    BY <1>2, <1>4, EntryCountAssumption
       DEF Holding, Phases, JournalPhases, OutsidePhases, StagingPhases, EntryPhases
  <2> QED
    BY <2>1, <2>2, <1>2, RecordingOK DEF OutsidePhases
<1>5. JobsOK'
  BY <1>2, <1>3, <1>4, GotoOK, BecomeOK DEF Roll
<1> QED
  BY <1>1, <1>5, OnlyTreeOK DEF Roll

LEMMA UnmoveType ==
  ASSUME TypeInv, NEW p \in Restorers, Unmove(p)
  PROVE  TypeInv'
<1> USE DEF TypeInv
<1> DEFINE e == job[p].i - 1
           t == [tree EXCEPT !.staged[e] = tree.dest[e], !.dest[e] = NoDir]
<1>1. "unmove" \in Phases \ JournalPhases /\ "sync unmove" \in Phases \ JournalPhases
  BY DEF Phases, JournalPhases
<1>2. Holding(job[p], "unmove") /\ job[p].i \in 0 .. EntryCount
  BY <1>1, AtHolds, JobFacts DEF Unmove, Does
<1>3. e \in Entries
  BY <1>2, EntryCountAssumption DEF Holding, CountPhases, Entries
<1>4. tree.staging # NoDir /\ tree.control # NoDir
  <2>1. job[p].stg \in Dirs /\ job[p].ctl \in Dirs
    BY <1>2 DEF Holding, StagingPhases, OutsidePhases
  <2>2. Live(job[p])
    BY DEF Unmove, Does, Ready, At
  <2> QED
    BY <2>1, <2>2, DirsAssumption DEF Live, Held
<1>5. TreeOK(t)
  <2>1. tree.dest[e] \in Item /\ NoDir \in Item
    BY <1>3, TreeFacts DEF Item, MaybeDir
  <2> QED
    BY <1>3, <1>4, <2>1, TreeFacts DEF TreeOK, Tree
<1>6. StorageOK'
  BY <1>5, RelinkOK DEF Unmove
<1>7. JobsOK'
  BY <1>1, GoesOn DEF Unmove, Does, OutsidePhases, StagingPhases, CountPhases, EntryPhases
<1> QED
  BY <1>6, <1>7, OnlyTreeOK DEF Unmove

LEMMA SyncUnmoveType ==
  ASSUME TypeInv, NEW p \in Restorers, SyncUnmove(p)
  PROVE  TypeInv'
<1> USE DEF TypeInv
<1> DEFINE n == job[p].i - 1
           j == [job[p] EXCEPT !.i = n]
<1>1. Holding(job[p], "sync unmove") /\ job[p] \in Job /\ job[p].i \in 0 .. EntryCount
  <2>1. "sync unmove" \in Phases \ JournalPhases
    BY DEF Phases, JournalPhases
  <2> QED
    BY <2>1, AtHolds, JobFacts DEF SyncUnmove, Does
<1>2. n \in 0 .. EntryCount
  <2>1. job[p].i > 0
    BY <1>1 DEF Holding, CountPhases
  <2> QED
    BY <1>1, <2>1, Counts
<1>3. j \in Job /\ j.ctl = job[p].ctl /\ j.stg = job[p].stg
  BY <1>1, <1>2 DEF Job
<1>4. Holding(j, "roll")
  BY <1>1, <1>3 DEF Holding, Phases, JournalPhases, OutsidePhases, StagingPhases, CountPhases,
                    EntryPhases
<1>5. Entry("publishing", n, NoIntent) \in Journal
  BY <1>2, EntryCountAssumption DEF Entry, Journal, NoIntent
<1>6. JobsOK'
  BY <1>3, <1>4, <1>5, RecordingOK, BecomeOK DEF SyncUnmove, OutsidePhases
<1> QED
  BY <1>6, SyncOK, OnlyTreeOK DEF SyncUnmove

LEMMA EmptyStagingType ==
  ASSUME TypeInv, NEW p \in Restorers, EmptyStaging(p)
  PROVE  TypeInv'
<1> USE DEF TypeInv
<1>1. PICK e \in Entries : tree.staged[e] # NoDir /\ Relink([tree EXCEPT !.staged[e] = NoDir])
  BY DEF EmptyStaging
<1>2. tree.staging # NoDir
  <2>1. SUFFICES ASSUME tree.staging = NoDir PROVE FALSE
    OBVIOUS
  <2> QED
    BY <1>1, <2>1, TreeFacts DEF TreeOK, Nothing
<1>3. TreeOK([tree EXCEPT !.staged[e] = NoDir])
  BY <1>2, TreeFacts DEF TreeOK, Tree, Item, MaybeDir
<1> QED
  BY <1>1, <1>3, RelinkOK, JobsSame, OnlyTreeOK DEF EmptyStaging

LEMMA ResetStagingType ==
  ASSUME TypeInv, NEW p \in Restorers, ResetStaging(p)
  PROVE  TypeInv'
<1> USE DEF TypeInv
<1>1. TreeOK([tree EXCEPT !.staging = NoDir])
  BY TreeFacts DEF ResetStaging, TreeOK, Tree, MaybeDir
<1>2. "reset" \in Phases \ JournalPhases /\ "sync reset" \in Phases \ JournalPhases
  BY DEF Phases, JournalPhases
<1>3. JobsOK'
  BY <1>2, GoesOn DEF ResetStaging, Does, OutsidePhases, StagingPhases, CountPhases, EntryPhases
<1> QED
  BY <1>1, <1>3, RelinkOK, OnlyTreeOK DEF ResetStaging

(***************************************************************************)
(* The materialization                                                     *)
(***************************************************************************)
LEMMA MakeControlType ==
  ASSUME TypeInv, NEW p \in Restorers, MakeControl(p)
  PROVE  TypeInv'
<1> USE DEF TypeInv
<1>1. PICK d \in NewDirs :
        /\ Relink([tree EXCEPT !.control = d])
        /\ Become(p, [job[p] EXCEPT !.ctl = d, !.phase = "sync control"])
  BY DEF MakeControl
<1>2. d \in Dirs /\ d \in MaybeDir /\ d # NoDir
  BY NewDirsAreFree
<1>3. TreeOK([tree EXCEPT !.control = d])
  BY <1>2, TreeFacts DEF TreeOK, Tree
<1> DEFINE j == [job[p] EXCEPT !.ctl = d]
<1>4. j \in Job /\ j.ctl = d
  BY <1>2, JobFacts DEF Job
<1>5. Holding(j, "sync control")
  BY <1>2, <1>4 DEF Holding, Phases, JournalPhases, StagingPhases, CountPhases, EntryPhases
<1>6. JobOK([j EXCEPT !.phase = "sync control"])
  BY <1>4, <1>5, GotoOK
<1>7. JobsOK'
  BY <1>1, <1>6, BecomeOK
<1> QED
  BY <1>1, <1>3, <1>7, RelinkOK, OnlyTreeOK DEF MakeControl

LEMMA MakeStagingType ==
  ASSUME TypeInv, NEW p \in Restorers, MakeStaging(p)
  PROVE  TypeInv'
<1> USE DEF TypeInv
<1>1. PICK d \in NewDirs :
        /\ Relink([tree EXCEPT !.staging = d])
        /\ Become(p, [job[p] EXCEPT !.stg = d, !.phase = "sync staging"])
        /\ body' = [body EXCEPT ![d] = "empty"]
        /\ final' = [final EXCEPT ![d] = {}]
  BY DEF MakeStaging
<1>2. d \in Dirs /\ d \in MaybeDir /\ d # NoDir
  BY NewDirsAreFree
<1>3. job[p].ctl \in Dirs /\ job[p] \in Job
  <2>1. "staging" \in Phases \ JournalPhases
    BY DEF Phases, JournalPhases
  <2> QED
    BY <2>1, AtHolds, JobFacts DEF MakeStaging, Does, Holding, OutsidePhases
<1>4. tree.control # NoDir
  BY <1>3, DirsAssumption DEF MakeStaging, Does, Ready, At, Held
<1>5. TreeOK([tree EXCEPT !.staging = d])
  BY <1>2, <1>4, TreeFacts DEF TreeOK, Tree
<1> DEFINE j == [job[p] EXCEPT !.stg = d]
<1>6. j \in Job /\ j.stg = d /\ j.ctl = job[p].ctl
  BY <1>2, <1>3 DEF Job
<1>7. Holding(j, "sync staging")
  BY <1>2, <1>3, <1>6 DEF Holding, Phases, JournalPhases, CountPhases, EntryPhases
<1>8. JobOK([j EXCEPT !.phase = "sync staging"])
  BY <1>6, <1>7, GotoOK
<1>9. JobsOK'
  BY <1>1, <1>8, BecomeOK
<1>10. RestOK'
  BY <1>1, <1>2 DEF MakeStaging, RestOK
<1> QED
  BY <1>1, <1>5, <1>9, <1>10, RelinkOK DEF MakeStaging, HarmOK

LEMMA SyncStagingType ==
  ASSUME TypeInv, NEW p \in Restorers, SyncStaging(p)
  PROVE  TypeInv'
<1> USE DEF TypeInv
<1>1. "sync staging" \in Phases \ JournalPhases /\ "fill" \in Phases \ JournalPhases
  BY DEF Phases, JournalPhases
<1>2. Holding(job[p], "fill") /\ job[p] \in Job
  BY <1>1, AtHolds, JobFacts
     DEF SyncStaging, Does, Holding, OutsidePhases, StagingPhases, CountPhases, EntryPhases
<1>3. Entry("materializing", 0, NoIntent) \in Journal
  BY EntryCountAssumption DEF Entry, Journal, NoIntent
<1>4. JobsOK'
  BY <1>2, <1>3, RecordingOK, BecomeOK DEF SyncStaging, OutsidePhases
<1> QED
  BY <1>4, SyncOK, OnlyTreeOK DEF SyncStaging

LEMMA SyncStepType ==
  ASSUME TypeInv, NEW p \in Restorers, SyncStep(p)
  PROVE  TypeInv'
<1> USE DEF TypeInv
<1>1. StorageOK'
  BY SyncOK DEF SyncStep
<1>2. PICK a \in {"sync discard", "sync reset", "sync control", "sync drop staging",
                  "sync drop journal"} : At(p, a) /\ Goto(p, SyncNext[a])
  BY DEF SyncStep, SyncNext, At
<1>3. SyncNext[a] \in {"reconcile", "sync control", "staging", "drop journal", "drop control"}
  BY DEF SyncNext
<1>4. a \in Phases \ JournalPhases /\ SyncNext[a] \in Phases \ JournalPhases
  BY <1>3 DEF Phases, JournalPhases
<1>5. a \notin OutsidePhases
  BY DEF OutsidePhases
<1>6. SyncNext[a] \notin StagingPhases \cup CountPhases \cup EntryPhases
  BY <1>3 DEF StagingPhases, CountPhases, EntryPhases
<1>7. JobsOK'
  BY <1>2, <1>4, <1>5, <1>6, GoesOn
<1> QED
  BY <1>1, <1>7, OnlyTreeOK DEF SyncStep

LEMMA AtJournal ==
  ASSUME JobsOK, NEW p \in Restorers, job[p].phase \in JournalPhases
  PROVE  Holding(job[p], job[p].next) /\ job[p].ctl \in Dirs
  BY JobFacts DEF Aim

LEMMA JournalGoesOn ==
  ASSUME JobsOK, NEW p \in Restorers, job[p].phase \in JournalPhases,
         NEW b \in JournalPhases, Goto(p, b)
  PROVE  JobsOK'
<1> DEFINE j == [job[p] EXCEPT !.phase = b]
<1>1. b \in Phases /\ job[p] \in Job
  BY JobFacts DEF Phases, JournalPhases
<1>2. j \in Job /\ j.phase = b /\ j.next = job[p].next
      /\ j.ctl = job[p].ctl /\ j.stg = job[p].stg /\ j.i = job[p].i
  BY <1>1 DEF Job
<1>3. Aim(j) = job[p].next
  BY <1>2 DEF Aim
<1>4. JobOK(j)
  BY <1>2, <1>3, AtJournal DEF JobOK, Holding
<1> QED
  BY <1>4, BecomeOK DEF Goto

LEMMA WritePartialType ==
  ASSUME TypeInv, NEW p \in Restorers, WritePartial(p)
  PROVE  TypeInv'
<1> USE DEF TypeInv
<1>1. job[p].phase \in JournalPhases /\ "rename" \in JournalPhases
  BY DEF WritePartial, Does, At, JournalPhases
<1>2. tree.control # NoDir
  BY <1>1, AtJournal, DirsAssumption DEF WritePartial, Does, Ready, At, Held
<1>3. TreeOK([tree EXCEPT !.partial = job[p].entry])
  BY <1>2, TreeFacts, JobFacts DEF TreeOK, Tree
<1>4. StorageOK'
  BY <1>3, RelinkOK DEF WritePartial
<1>5. JobsOK'
  BY <1>1, JournalGoesOn DEF WritePartial
<1> QED
  BY <1>4, <1>5, OnlyTreeOK DEF WritePartial

LEMMA RenamePartialType ==
  ASSUME TypeInv, NEW p \in Restorers, RenamePartial(p)
  PROVE  TypeInv'
<1> USE DEF TypeInv
<1>1. job[p].phase \in JournalPhases /\ "sync journal" \in JournalPhases
  BY DEF RenamePartial, Does, At, JournalPhases
<1>2. tree.control # NoDir
  BY <1>1, AtJournal, DirsAssumption DEF RenamePartial, Does, Ready, At, Held
<1>3. TreeOK([tree EXCEPT !.journal = tree.partial, !.partial = NoJournal])
  BY <1>2, TreeFacts, NoJournalType DEF TreeOK, Tree
<1>4. StorageOK'
  BY <1>3, RelinkOK DEF RenamePartial
<1>5. JobsOK'
  BY <1>1, JournalGoesOn DEF RenamePartial
<1> QED
  BY <1>4, <1>5, OnlyTreeOK DEF RenamePartial

LEMMA SyncJournalType ==
  ASSUME TypeInv, NEW p \in Restorers, SyncJournal(p)
  PROVE  TypeInv'
<1> USE DEF TypeInv
<1> DEFINE keep == job[p].keep \/ job[p].next = "move"
           j == [job[p] EXCEPT !.keep = keep]
<1>1. job[p].phase \in JournalPhases
  BY DEF SyncJournal, Does, At, JournalPhases
<1>2. keep \in BOOLEAN
  BY JobFacts DEF Job
<1>3. job[p] \in Job
  BY JobFacts
<1>4. j \in Job /\ j.ctl = job[p].ctl /\ j.stg = job[p].stg /\ j.i = job[p].i
  BY <1>2, <1>3 DEF Job
<1>5. Holding(j, job[p].next)
  BY <1>1, <1>4, AtJournal DEF Holding
<1>6. JobOK([j EXCEPT !.phase = job[p].next])
  BY <1>4, <1>5, GotoOK
<1>7. job' = [job EXCEPT ![p] = [job[p] EXCEPT !.phase = job[p].next, !.keep = keep]]
  BY DEF SyncJournal, Become
<1>8. [job[p] EXCEPT !.phase = job[p].next, !.keep = keep] = [j EXCEPT !.phase = job[p].next]
  BY <1>3 DEF Job
<1>9. JobsOK'
  BY <1>6, <1>7, <1>8, BecomeOK DEF Become
<1> QED
  BY <1>9, SyncOK, OnlyTreeOK DEF SyncJournal

LEMMA FillType ==
  ASSUME TypeInv, NEW p \in Restorers, Fill(p)
  PROVE  TypeInv'
<1> USE DEF TypeInv
<1>1. "fill" \in Phases \ JournalPhases /\ "stream" \in Phases \ JournalPhases
  BY DEF Phases, JournalPhases
<1>2. job[p].stg \in Dirs /\ job[p].ctl \in Dirs
  BY <1>1, AtHolds DEF Fill, Does, Holding, StagingPhases, OutsidePhases
<1>3. tree.staging # NoDir /\ tree.control # NoDir
  BY <1>2, DirsAssumption DEF Fill, Does, Ready, At, Live, Held
<1>4. [e \in Entries |-> job[p].stg] \in [Entries -> Item]
  BY <1>2 DEF Item, MaybeDir
<1>5. TreeOK([tree EXCEPT !.staged = [e \in Entries |-> job[p].stg]])
  BY <1>3, <1>4, TreeFacts DEF TreeOK, Tree
<1>6. StorageOK'
  BY <1>5, RelinkOK DEF Fill
<1>7. JobsOK'
  BY <1>1, GoesOn DEF Fill, Does, OutsidePhases, StagingPhases, CountPhases, EntryPhases
<1> QED
  BY <1>6, <1>7, OnlyTreeOK DEF Fill

LEMMA StreamType ==
  ASSUME TypeInv, NEW p \in Restorers, Stream(p)
  PROVE  TypeInv'
<1> USE DEF TypeInv
<1>1. StorageOK'
  BY StorageSame DEF Stream
<1>2. "stream" \in Phases \ JournalPhases /\ "finish" \in Phases \ JournalPhases
  BY DEF Phases, JournalPhases
<1>3. JobsOK'
  BY <1>2, GoesOn DEF Stream, Does, OutsidePhases, StagingPhases, CountPhases, EntryPhases
<1> QED
  BY <1>1, <1>3 DEF Stream, RestOK, HarmOK

LEMMA FinishType ==
  ASSUME TypeInv, NEW p \in Restorers, Finish(p)
  PROVE  TypeInv'
<1> USE DEF TypeInv
<1>1. StorageOK'
  BY StorageSame DEF Finish
<1>2. "finish" \in Phases \ JournalPhases /\ "validate" \in Phases \ JournalPhases
  BY DEF Phases, JournalPhases
<1>3. JobsOK'
  BY <1>2, GoesOn DEF Finish, Does, OutsidePhases, StagingPhases, CountPhases, EntryPhases
<1> QED
  BY <1>1, <1>3 DEF Finish, RestOK, HarmOK

LEMMA ValidateStagingType ==
  ASSUME TypeInv, NEW p \in Restorers, ValidateStaging(p)
  PROVE  TypeInv'
<1> USE DEF TypeInv
<1>1. "validate" \in Phases \ JournalPhases /\ "staged" \in Phases \ JournalPhases
  BY DEF Phases, JournalPhases
<1>2. Holding(job[p], "staged") /\ job[p] \in Job
  BY <1>1, AtHolds, JobFacts
     DEF ValidateStaging, Does, Holding, OutsidePhases, StagingPhases, CountPhases, EntryPhases
<1>3. Entry("staged", 0, NoIntent) \in Journal
  BY EntryCountAssumption DEF Entry, Journal, NoIntent
<1>4. JobsOK'
  BY <1>2, <1>3, RecordingOK, BecomeOK DEF ValidateStaging, OutsidePhases
<1> QED
  BY <1>4, StorageSame, OnlyTreeOK DEF ValidateStaging

(***************************************************************************)
(* The publication                                                         *)
(***************************************************************************)
LEMMA PauseType ==
  ASSUME TypeInv, NEW p \in Restorers, Pause(p)
  PROVE  TypeInv'
<1> USE DEF TypeInv
<1>1. StorageOK' /\ JobsOK'
  BY StorageSame, IdleJob DEF Pause
<1>2. RestOK'
  <2>1. told' \in [Restorers -> {"none", "paused", "complete", "failed"}]
    BY DEF Pause, RestOK
  <2>2. \A h \in Harms : harm'[h] \in 0 .. Limit(h)
    BY LimitsAssumption DEF Pause, RestOK, HarmOK, Harms, Limit
  <2> QED
    BY <2>1, <2>2 DEF Pause, RestOK
<1>3. HarmOK'
  BY DEF Pause, HarmOK
<1> QED
  BY <1>1, <1>2, <1>3

LEMMA StagedType ==
  ASSUME TypeInv, NEW p \in Restorers, Staged(p)
  PROVE  TypeInv'
<1> USE DEF TypeInv
<1>1. CASE Pause(p)
  BY <1>1, PauseType
<1>2. CASE Goto(p, "preflight") /\ UNCHANGED <<tree, views>> /\ OnlyTree
  <2>1. "staged" \in Phases \ JournalPhases /\ "preflight" \in Phases \ JournalPhases
    BY DEF Phases, JournalPhases
  <2>2. JobsOK'
    BY <1>2, <2>1, GoesOn DEF Staged, Does, OutsidePhases, StagingPhases, CountPhases, EntryPhases
  <2> QED
    BY <1>2, <2>2, StorageSame, OnlyTreeOK
<1> QED
  BY <1>1, <1>2 DEF Staged

\* The intent of the next move.
LEMMA NextEntryOK ==
  ASSUME NEW j \in Job, j.ctl \in Dirs, j.stg \in Dirs, NEW e \in Entries
  PROVE  JobOK(NextEntry(j, e))
<1> DEFINE k == [j EXCEPT !.i = e]
<1>1. k \in Job /\ k.i = e /\ k.ctl = j.ctl /\ k.stg = j.stg
  BY Counts DEF Job
<1>2. Holding(k, "move")
  BY <1>1 DEF Holding, Phases, JournalPhases, CountPhases
<1>3. Entry("publishing", e, e) \in Journal
  BY EntryCountAssumption DEF Entry, Journal, Entries, NoIntent
<1> QED
  BY <1>1, <1>2, <1>3, RecordingOK DEF NextEntry, OutsidePhases

LEMMA PreflightType ==
  ASSUME TypeInv, NEW p \in Restorers, Preflight(p)
  PROVE  TypeInv'
<1> USE DEF TypeInv
<1>1. "preflight" \in Phases \ JournalPhases
  BY DEF Phases, JournalPhases
<1>2. job[p].ctl \in Dirs /\ job[p].stg \in Dirs /\ job[p] \in Job
  BY <1>1, AtHolds, JobFacts DEF Preflight, Does, Holding, OutsidePhases, StagingPhases
<1>3. JobsOK'
  BY <1>2, Counts, NextEntryOK, BecomeOK DEF Preflight
<1> QED
  BY <1>3, StorageSame, OnlyTreeOK DEF Preflight

LEMMA MoveType ==
  ASSUME TypeInv, NEW p \in Restorers, Move(p)
  PROVE  TypeInv'
<1> USE DEF TypeInv
<1> DEFINE e == job[p].i
           t == [tree EXCEPT !.dest[e] = tree.staged[e], !.staged[e] = NoDir]
<1>1. "move" \in Phases \ JournalPhases /\ "check" \in Phases \ JournalPhases
  BY DEF Phases, JournalPhases
<1>2. e \in Entries
  BY <1>1, AtHolds DEF Move, Does, Holding, EntryPhases
<1>3. tree.staged[e] # NoDir
  BY DEF Move, Does, Ready, At, MayPublish
<1>4. tree.staging # NoDir
  BY <1>2, <1>3, TreeFacts DEF TreeOK, Nothing
<1>5. TreeOK(t)
  <2>1. tree.staged[e] \in Item /\ NoDir \in Item
    BY <1>2, TreeFacts DEF Item, MaybeDir
  <2> QED
    BY <1>2, <1>4, <2>1, TreeFacts DEF TreeOK, Tree
<1>6. JobsOK'
  BY <1>1, GoesOn DEF Move, Does, OutsidePhases, StagingPhases, CountPhases, EntryPhases
<1> QED
  BY <1>5, <1>6, RelinkOK, OnlyTreeOK DEF Move

LEMMA CheckType ==
  ASSUME TypeInv, NEW p \in Restorers, Check(p)
  PROVE  TypeInv'
<1> USE DEF TypeInv
<1> DEFINE e == job[p].i
           valid == [job[p].valid EXCEPT ![e] = tree.dest[e]]
           j == [job[p] EXCEPT !.valid = valid]
<1>1. "check" \in Phases \ JournalPhases /\ "sync move" \in Phases \ JournalPhases
  BY DEF Phases, JournalPhases
<1>2. Holding(job[p], "check") /\ job[p] \in Job
  BY <1>1, AtHolds, JobFacts DEF Check, Does
<1>3. e \in Entries
  BY <1>2 DEF Holding, EntryPhases
<1>4. valid \in [Entries -> Item]
  <2>1. tree.dest[e] \in Item
    BY <1>3, TreeFacts
  <2> QED
    BY <2>1, JobFacts
<1>5. j \in Job /\ j.ctl = job[p].ctl /\ j.stg = job[p].stg /\ j.i = job[p].i
  BY <1>2, <1>4 DEF Job
<1>6. Holding(j, "sync move")
  BY <1>2, <1>5 DEF Holding, Phases, JournalPhases, OutsidePhases, StagingPhases, CountPhases,
                    EntryPhases
<1>7. JobOK([j EXCEPT !.phase = "sync move"])
  BY <1>5, <1>6, GotoOK
<1>8. [job[p] EXCEPT !.valid[e] = tree.dest[e], !.phase = "sync move"]
        = [j EXCEPT !.phase = "sync move"]
  OBVIOUS
<1>9. JobsOK'
  BY <1>7, <1>8, BecomeOK DEF Check
<1> QED
  BY <1>9, StorageSame, OnlyTreeOK DEF Check

LEMMA SyncMoveType ==
  ASSUME TypeInv, NEW p \in Restorers, SyncMove(p)
  PROVE  TypeInv'
<1> USE DEF TypeInv
<1>1. "sync move" \in Phases \ JournalPhases /\ "advance" \in Phases \ JournalPhases
  BY DEF Phases, JournalPhases
<1>2. Holding(job[p], "sync move") /\ job[p] \in Job
  BY <1>1, AtHolds, JobFacts DEF SyncMove, Does
<1>3. Holding(job[p], "advance")
  BY <1>1, <1>2 DEF Holding, OutsidePhases, StagingPhases, CountPhases, EntryPhases
<1>4. Entry("publishing", job[p].i + 1, NoIntent) \in Journal
  <2>1. job[p].i \in Entries
    BY <1>2 DEF Holding, EntryPhases
  <2>2. job[p].i + 1 \in 0 .. EntryCount
    BY <2>1, Counts
  <2> QED
    BY <2>2, EntryCountAssumption DEF Entry, Journal, NoIntent
<1>5. JobsOK'
  BY <1>2, <1>3, <1>4, RecordingOK, BecomeOK DEF SyncMove, OutsidePhases
<1> QED
  BY <1>5, SyncOK, OnlyTreeOK DEF SyncMove

LEMMA AdvanceType ==
  ASSUME TypeInv, NEW p \in Restorers, Advance(p)
  PROVE  TypeInv'
<1> USE DEF TypeInv
<1>1. CASE Pause(p)
  BY <1>1, PauseType
<1>2. CASE ~ Pause(p)
  <2>1. "advance" \in Phases \ JournalPhases
    BY DEF Phases, JournalPhases
  <2>2. Holding(job[p], "advance") /\ job[p] \in Job
    BY <2>1, AtHolds, JobFacts DEF Advance, Does
  <2>3. job[p].ctl \in Dirs /\ job[p].stg \in Dirs /\ job[p].i \in Entries
    BY <2>2 DEF Holding, OutsidePhases, StagingPhases, EntryPhases
  <2>4. ASSUME job[p].i + 1 < EntryCount
        PROVE  JobOK(NextEntry(job[p], job[p].i + 1))
    <3>1. job[p].i + 1 \in Entries
      BY <2>3, <2>4, EntryCountAssumption DEF Entries
    <3> QED
      BY <2>2, <2>3, <3>1, NextEntryOK
  <2> DEFINE j == [job[p] EXCEPT !.i = 0]
  <2>5. j \in Job /\ j.ctl = job[p].ctl /\ j.i = 0
    BY <2>2, Counts DEF Job
  <2>6. Holding(j, "finalize")
    BY <2>3, <2>5, Counts DEF Holding, Phases, JournalPhases, StagingPhases, CountPhases
  <2>7. JobOK([j EXCEPT !.phase = "finalize"])
    BY <2>5, <2>6, GotoOK
  <2>8. JobsOK'
    BY <1>2, <2>4, <2>7, BecomeOK DEF Advance
  <2> QED
    BY <1>2, <2>8, StorageSame, OnlyTreeOK DEF Advance
<1> QED
  BY <1>1, <1>2

(***************************************************************************)
(* The conclusion                                                          *)
(***************************************************************************)
LEMMA FinalizeType ==
  ASSUME TypeInv, NEW p \in Restorers, Finalize(p)
  PROVE  TypeInv'
<1> USE DEF TypeInv
<1>1. "finalize" \in Phases \ JournalPhases /\ "recheck" \in Phases \ JournalPhases
  BY DEF Phases, JournalPhases
<1>2. Holding(job[p], "finalize") /\ job[p] \in Job
  BY <1>1, AtHolds, JobFacts DEF Finalize, Does
<1>3. job[p].i \in Entries /\ job[p].ctl \in Dirs
  BY <1>2 DEF Holding, EntryPhases, OutsidePhases
<1>4. ASSUME job[p].i + 1 < EntryCount
      PROVE  JobOK([job[p] EXCEPT !.i = job[p].i + 1])
  <2> DEFINE j == [job[p] EXCEPT !.i = job[p].i + 1]
  <2>1. job[p].i + 1 \in Entries /\ job[p].i + 1 \in 0 .. EntryCount
    BY <1>3, <1>4, EntryCountAssumption DEF Entries
  <2>2. j \in Job /\ j.i = job[p].i + 1 /\ j.ctl = job[p].ctl /\ j.phase = job[p].phase
    BY <1>2, <2>1 DEF Job
  <2>3. job[p].phase = "finalize"
    BY DEF Finalize, Does, At
  <2>4. Aim(j) = "finalize"
    BY <2>2, <2>3 DEF Aim, JournalPhases
  <2>5. Holding(j, "finalize")
    BY <1>3, <2>1, <2>2 DEF Holding, Phases, JournalPhases, StagingPhases, CountPhases
  <2> QED
    BY <2>2, <2>3, <2>4, <2>5 DEF JobOK, JournalPhases
<1>5. Holding(job[p], "recheck")
  BY <1>1, <1>2 DEF Holding, OutsidePhases, StagingPhases, CountPhases, EntryPhases
<1>6. JobsOK'
  <2>1. JobOK([job[p] EXCEPT !.phase = "recheck"])
    BY <1>2, <1>5, GotoOK
  <2> QED
    BY <1>4, <2>1, BecomeOK DEF Finalize
<1>7. RestOK'
  <2>1. final' \in [Dirs -> SUBSET Entries]
    BY <1>3 DEF Finalize, Finalized, RestOK
  <2> QED
    BY <2>1 DEF Finalize, RestOK
<1> QED
  BY <1>6, <1>7, StorageSame DEF Finalize, HarmOK

LEMMA RecheckType ==
  ASSUME TypeInv, NEW p \in Restorers, Recheck(p)
  PROVE  TypeInv'
<1> USE DEF TypeInv
<1>1. "recheck" \in Phases \ JournalPhases /\ "drop staging" \in Phases \ JournalPhases
  BY DEF Phases, JournalPhases
<1>2. JobsOK'
  BY <1>1, GoesOn DEF Recheck, Does, OutsidePhases, StagingPhases, CountPhases, EntryPhases
<1> QED
  BY <1>2, StorageSame, OnlyTreeOK DEF Recheck

LEMMA DropStagingType ==
  ASSUME TypeInv, NEW p \in Restorers, DropStaging(p)
  PROVE  TypeInv'
<1> USE DEF TypeInv
<1>1. TreeOK([tree EXCEPT !.staging = NoDir, !.staged = Nothing])
  BY TreeFacts, NothingType DEF TreeOK, Tree, MaybeDir
<1>2. "drop staging" \in Phases \ JournalPhases /\ "sync drop staging" \in Phases \ JournalPhases
  BY DEF Phases, JournalPhases
<1>3. JobsOK'
  BY <1>2, GoesOn DEF DropStaging, Does, OutsidePhases, StagingPhases, CountPhases, EntryPhases
<1> QED
  BY <1>1, <1>3, RelinkOK, OnlyTreeOK DEF DropStaging

LEMMA DropJournalType ==
  ASSUME TypeInv, NEW p \in Restorers, DropJournal(p)
  PROVE  TypeInv'
<1> USE DEF TypeInv
<1>1. TreeOK([tree EXCEPT !.journal = NoJournal])
  BY TreeFacts, NoJournalType DEF TreeOK, Tree
<1>2. "drop journal" \in Phases \ JournalPhases /\ "sync drop journal" \in Phases \ JournalPhases
  BY DEF Phases, JournalPhases
<1>3. JobsOK'
  BY <1>2, GoesOn DEF DropJournal, Does, OutsidePhases, StagingPhases, CountPhases, EntryPhases
<1> QED
  BY <1>1, <1>3, RelinkOK, OnlyTreeOK DEF DropJournal

LEMMA DropControlType ==
  ASSUME TypeInv, NEW p \in Restorers, DropControl(p)
  PROVE  TypeInv'
<1> USE DEF TypeInv
<1>1. tree.staging = NoDir /\ tree.journal = NoJournal /\ tree.partial = NoJournal
  BY DEF DropControl, Does, Ready, At
<1>2. TreeOK([tree EXCEPT !.control = NoDir])
  BY <1>1, TreeFacts DEF TreeOK, Tree, MaybeDir
<1>3. "drop control" \in Phases \ JournalPhases /\ "sync drop control" \in Phases \ JournalPhases
  BY DEF Phases, JournalPhases
<1>4. JobsOK'
  BY <1>3, GoesOn DEF DropControl, Does, OutsidePhases, StagingPhases, CountPhases, EntryPhases
<1> QED
  BY <1>2, <1>4, RelinkOK, OnlyTreeOK DEF DropControl

LEMMA CompleteType ==
  ASSUME TypeInv, NEW p \in Restorers, Complete(p)
  PROVE  TypeInv'
<1> USE DEF TypeInv
<1>1. StorageOK' /\ JobsOK'
  BY SyncOK, IdleJob DEF Complete
<1>2. told' \in [Restorers -> {"none", "paused", "complete", "failed"}]
  BY DEF Complete, RestOK
<1> QED
  BY <1>1, <1>2 DEF Complete, RestOK, HarmOK

(***************************************************************************)
(* Errors and the environment                                              *)
(***************************************************************************)
LEMMA HarmGrows ==
  ASSUME RestOK, HarmOK, NEW h \in Harms, harm[h] < Limit(h),
         harm' = [harm EXCEPT ![h] = @ + 1]
  PROVE  HarmOK' /\ \A k \in Harms : harm'[k] \in 0 .. Limit(k)
<1>1. \A k \in Harms : Limit(k) \in Nat /\ harm[k] \in 0 .. Limit(k)
  BY LimitsAssumption DEF Limit, RestOK, Harms
<1> QED
  BY <1>1 DEF HarmOK

LEMMA FailKeeps ==
  ASSUME TypeInv, NEW p \in Restorers, Fail(p)
  PROVE  StorageOK' /\ JobsOK' /\ told' \in [Restorers -> {"none", "paused", "complete", "failed"}]
<1> USE DEF TypeInv
<1>1. StorageOK'
  BY StorageSame DEF Fail
<1>2. JobsOK'
  BY IdleOK, BecomeOK DEF Fail
<1>3. told' \in [Restorers -> {"none", "paused", "complete", "failed"}]
  BY DEF Fail, RestOK
<1> QED
  BY <1>1, <1>2, <1>3

LEMMA RefuseType ==
  ASSUME TypeInv, NEW p \in Restorers, Refuse(p)
  PROVE  TypeInv'
  BY FailKeeps DEF Refuse, Fail, TypeInv, RestOK, HarmOK

LEMMA FaultType ==
  ASSUME TypeInv, NEW p \in Restorers, Fault(p)
  PROVE  TypeInv'
<1>1. HarmOK' /\ \A k \in Harms : harm'[k] \in 0 .. Limit(k)
  BY HarmGrows DEF Fault, Harms, Limit, TypeInv
<1> QED
  BY <1>1, FailKeeps DEF Fault, Fail, TypeInv, RestOK

LEMMA CleanInsideType ==
  ASSUME TypeInv, NEW p \in Restorers, CleanInside(p)
  PROVE  TypeInv'
<1> USE DEF TypeInv
<1>1. TreeOK([tree EXCEPT !.journal = NoJournal]) /\ TreeOK([tree EXCEPT !.partial = NoJournal])
  BY TreeFacts, NoJournalType DEF TreeOK, Tree
<1>2. ASSUME tree.staged = Nothing
      PROVE  TreeOK([tree EXCEPT !.staging = NoDir])
  BY <1>2, TreeFacts DEF TreeOK, Tree, MaybeDir
<1>3. StorageOK'
  BY <1>1, <1>2, RelinkOK DEF CleanInside
<1> QED
  BY <1>3, JobsSame, OnlyTreeOK DEF CleanInside

LEMMA CleanControlType ==
  ASSUME TypeInv, NEW p \in Restorers, CleanControl(p)
  PROVE  TypeInv'
<1> USE DEF TypeInv
<1>1. TreeOK([tree EXCEPT !.control = NoDir])
  BY TreeFacts DEF CleanControl, TreeOK, Tree, MaybeDir
<1>2. "cleanup" \in Phases \ JournalPhases /\ "sync cleanup" \in Phases \ JournalPhases
  BY DEF Phases, JournalPhases
<1>3. JobsOK'
  BY <1>2, GoesOn DEF CleanControl, OutsidePhases, StagingPhases, CountPhases, EntryPhases
<1> QED
  BY <1>1, <1>3, RelinkOK, OnlyTreeOK DEF CleanControl

LEMMA SyncCleanupType ==
  ASSUME TypeInv, NEW p \in Restorers, SyncCleanup(p)
  PROVE  TypeInv'
<1> USE DEF TypeInv
<1>1. StorageOK' /\ JobsOK'
  BY SyncOK, IdleJob DEF SyncCleanup
<1>2. told' \in [Restorers -> {"none", "paused", "complete", "failed"}]
  BY DEF SyncCleanup, RestOK
<1> QED
  BY <1>1, <1>2 DEF SyncCleanup, RestOK, HarmOK

LEMMA KillType ==
  ASSUME TypeInv, NEW p \in Restorers, Kill(p)
  PROVE  TypeInv'
<1> USE DEF TypeInv
<1>1. StorageOK' /\ JobsOK'
  BY StorageSame, IdleJob DEF Kill
<1>2. HarmOK' /\ \A k \in Harms : harm'[k] \in 0 .. Limit(k)
  BY HarmGrows DEF Kill, Harms, Limit
<1> QED
  BY <1>1, <1>2 DEF Kill, RestOK

LEMMA PowerLossType ==
  ASSUME TypeInv, PowerLoss
  PROVE  TypeInv'
<1> USE DEF TypeInv
<1>1. StorageOK'
  BY DEF PowerLoss, StorageOK, TreeOK
<1>2. JobsOK'
  BY IdleOK DEF PowerLoss, JobsOK, JobOK
<1>3. body' \in [Dirs -> {"empty", "volatile", "durable", "torn"}]
  BY DEF PowerLoss, RestOK
<1>4. HarmOK' /\ \A k \in Harms : harm'[k] \in 0 .. Limit(k)
  BY HarmGrows DEF PowerLoss, Harms, Limit
<1> QED
  BY <1>1, <1>2, <1>3, <1>4 DEF PowerLoss, RestOK

LEMMA PutForeignType ==
  ASSUME TypeInv, PutForeign
  PROVE  TypeInv'
<1> USE DEF TypeInv
<1>1. PICK e \in Entries : Relink([tree EXCEPT !.dest[e] = Foreign])
  BY DEF PutForeign
<1>2. TreeOK([tree EXCEPT !.dest[e] = Foreign])
  BY TreeFacts DEF TreeOK, Tree, Item
<1>3. StorageOK' /\ JobsOK'
  BY <1>1, <1>2, RelinkOK, JobsSame DEF PutForeign
<1>4. HarmOK' /\ \A k \in Harms : harm'[k] \in 0 .. Limit(k)
  BY HarmGrows DEF PutForeign, Harms, Limit
<1> QED
  BY <1>3, <1>4 DEF PutForeign, RestOK

LEMMA InitType ==
  ASSUME Init
  PROVE  TypeInv
<1>1. TreeOK(Empty)
  BY NoJournalType, NothingType DEF TreeOK, Tree, Empty, MaybeDir
<1>2. StorageOK
  BY <1>1 DEF Init, StorageOK
<1>3. JobsOK
  BY IdleOK DEF Init, JobsOK, JobOK
<1>4. RestOK
  BY LimitsAssumption DEF Init, RestOK, Limit
<1> QED
  BY <1>2, <1>3, <1>4 DEF TypeInv, HarmOK, Init

LEMMA RunType ==
  ASSUME TypeInv, NEW p \in Restorers, Run(p)
  PROVE  TypeInv'
<1>1. CASE Rollback(p)
  BY <1>1, DiscardPartialType, ReconcileType, RollType, UnmoveType, SyncUnmoveType,
     EmptyStagingType, ResetStagingType DEF Rollback
<1>2. CASE Materialize(p)
  BY <1>2, MakeControlType, MakeStagingType, SyncStagingType, SyncStepType, WritePartialType,
     RenamePartialType, SyncJournalType, FillType, StreamType, FinishType, ValidateStagingType
     DEF Materialize
<1>3. CASE Publish(p)
  BY <1>3, StagedType, PreflightType, MoveType, CheckType, SyncMoveType, AdvanceType DEF Publish
<1>4. CASE Conclude(p)
  BY <1>4, FinalizeType, RecheckType, DropStagingType, DropJournalType, DropControlType,
     CompleteType DEF Conclude
<1>5. CASE Refuse(p)
  BY <1>5, RefuseType
<1>6. CASE Cleanup(p)
  BY <1>6, CleanInsideType, CleanControlType, SyncCleanupType DEF Cleanup
<1> QED
  BY <1>1, <1>2, <1>3, <1>4, <1>5, <1>6 DEF Run

LEMMA NextType ==
  ASSUME TypeInv, [Next]_vars
  PROVE  TypeInv'
<1>1. CASE UNCHANGED vars
  BY <1>1 DEF vars, TypeInv, StorageOK, TreeOK, JobsOK, RestOK, HarmOK
<1>2. CASE Next
  BY <1>2, FreshType, ResumeType, RunType, FaultType, KillType, PowerLossType, PutForeignType
     DEF Next
<1> QED
  BY <1>1, <1>2

\* Every variable has its type in every reachable state, and nothing is inside
\* a control or staging directory that is gone, in whatever order the calls,
\* faults, terminations and power losses come (restore_transaction,
\* reconcile_interrupted_publication, cleanup_failed_restore).
THEOREM TypeCorrect == Spec => []TypeOK
<1>1. Spec => []TypeInv
  BY InitType, NextType, PTL DEF Spec
<1>2. TypeInv => TypeOK
  BY TypeInvTypes
<1> QED
  BY <1>1, <1>2, PTL

(***************************************************************************)
(* What is visible is complete                                             *)
(*                                                                         *)
(* A staging directory belongs to the call that made it until its files    *)
(* are synchronized, and only then can any of them be published.           *)
(***************************************************************************)
Filling == {"sync staging", "fill", "stream", "finish"}
Publishing == {"validate", "staged", "preflight", "move", "check", "sync move", "advance"}

\* Published files are durable, and staged ones are durable or in the staging
\* directory that has its name.
FilesOK(t) ==
  \A e \in Entries :
    /\ t.dest[e] \in Dirs => body[t.dest[e]] = "durable"
    /\ t.staged[e] \in Dirs => body[t.staged[e]] = "durable" \/ t.staged[e] = t.staging

ViewsFull == \A t \in views : FilesOK(t)

Stagers ==
  /\ \A p \in Restorers :
       /\ Aim(job[p]) \in Publishing => body[job[p].stg] = "durable"
       /\ Aim(job[p]) \in Filling => body[job[p].stg] # "durable"
  /\ \A p, q \in Restorers :
       p # q /\ Aim(job[p]) \in Filling /\ Aim(job[q]) \in Filling => job[p].stg # job[q].stg

FullInv == TypeInv /\ ViewsFull /\ Stagers

LEMMA FullIsComplete ==
  ASSUME FullInv
  PROVE  VisibleIsComplete
<1> SUFFICES ASSUME NEW t \in views, NEW e \in Entries, t.dest[e] # NoDir, t.dest[e] # Foreign
             PROVE  body[t.dest[e]] = "durable"
  BY DEF VisibleIsComplete, Visible
<1>1. t.dest \in [Entries -> Item]
  BY DEF FullInv, TypeInv, StorageOK, TreeOK, Tree
<1>2. t.dest[e] \in Dirs
  BY <1>1 DEF Item, MaybeDir
<1> QED
  BY <1>2 DEF FullInv, ViewsFull, FilesOK

LEMMA RelinkFull ==
  ASSUME ViewsFull, NEW t, FilesOK(t), Relink(t), UNCHANGED body
  PROVE  ViewsFull'
  BY DEF ViewsFull, FilesOK, Relink

LEMMA SyncFull ==
  ASSUME ViewsFull, StorageOK, Sync, UNCHANGED body
  PROVE  ViewsFull'
  BY DEF ViewsFull, FilesOK, Sync, StorageOK

LEMMA SameFull ==
  ASSUME ViewsFull, UNCHANGED <<tree, views, body>>
  PROVE  ViewsFull'
  BY DEF ViewsFull, FilesOK

\* The call goes on with the staging directory that it was filling or
\* publishing, or with none.
Follows(j, k) ==
  /\ Aim(k) \in Filling => Aim(j) \in Filling /\ k.stg = j.stg
  /\ Aim(k) \in Publishing => Aim(j) \in Publishing /\ k.stg = j.stg

LEMMA FollowsStagers ==
  ASSUME JobsOK, Stagers, NEW p \in Restorers, NEW k, Follows(job[p], k), Become(p, k),
         UNCHANGED body
  PROVE  Stagers'
<1>1. job' = [job EXCEPT ![p] = k] /\ \A q \in Restorers : job'[q] = IF q = p THEN k ELSE job[q]
  BY DEF Become, JobsOK
<1>2. \A q \in Restorers :
        /\ Aim(job'[q]) \in Filling => Aim(job[q]) \in Filling /\ job'[q].stg = job[q].stg
        /\ Aim(job'[q]) \in Publishing => Aim(job[q]) \in Publishing /\ job'[q].stg = job[q].stg
  BY <1>1 DEF Follows
<1> QED
  BY <1>2 DEF Stagers, Aim

LEMMA SameStagers ==
  ASSUME Stagers, UNCHANGED <<job, body>>
  PROVE  Stagers'
  BY DEF Stagers, Aim

LEMMA AimOfGoto ==
  ASSUME NEW j \in Job, NEW a, a \notin JournalPhases
  PROVE  Aim([j EXCEPT !.phase = a]) = a /\ [j EXCEPT !.phase = a].stg = j.stg
  BY DEF Job, Aim

LEMMA AimOfRecording ==
  ASSUME NEW j \in Job, NEW entry, NEW a
  PROVE  Aim(Recording(j, entry, a)) = a /\ Recording(j, entry, a).stg = j.stg
  BY DEF Job, Aim, Recording, JournalPhases

LEMMA AimAt ==
  ASSUME NEW p \in Restorers, NEW a, a \notin JournalPhases, At(p, a)
  PROVE  Aim(job[p]) = a
  BY DEF At, Aim

\* A call that is neither filling nor publishing has no part in it.
LEMMA ElsewhereFollows ==
  ASSUME NEW j, NEW k, Aim(k) \notin Filling \cup Publishing
  PROVE  Follows(j, k)
  BY DEF Follows

LEMMA GotoStagers ==
  ASSUME JobsOK, Stagers, NEW p \in Restorers, NEW a, a \notin JournalPhases, Goto(p, a),
         UNCHANGED body,
         a \in Filling => Aim(job[p]) \in Filling,
         a \in Publishing => Aim(job[p]) \in Publishing
  PROVE  Stagers'
<1>1. Follows(job[p], [job[p] EXCEPT !.phase = a])
  BY JobFacts, AimOfGoto DEF Follows
<1> QED
  BY <1>1, FollowsStagers DEF Goto

LEMMA IdleStagers ==
  ASSUME JobsOK, Stagers, NEW p \in Restorers, UNCHANGED body,
         Become(p, Idle) \/ Become(p, [Idle EXCEPT !.phase = "cleanup"])
  PROVE  Stagers'
<1>1. Aim(Idle) = "idle" /\ Aim([Idle EXCEPT !.phase = "cleanup"]) = "cleanup"
  BY DEF Idle, Aim, JournalPhases
<1> QED
  BY <1>1, ElsewhereFollows, FollowsStagers DEF Filling, Publishing

(***************************************************************************)
(* The rollback                                                            *)
(***************************************************************************)
LEMMA FreshFull ==
  ASSUME FullInv, NEW p \in Restorers, Fresh(p)
  PROVE  ViewsFull' /\ Stagers'
<1>1. Stagers'
  BY GotoStagers DEF Fresh, FullInv, TypeInv, OnlyTree, JournalPhases, Filling, Publishing
<1> QED
  BY <1>1, SameFull DEF Fresh, FullInv, OnlyTree

LEMMA ResumeFull ==
  ASSUME FullInv, NEW p \in Restorers, Resume(p)
  PROVE  ViewsFull' /\ Stagers'
<1> DEFINE k == [Idle EXCEPT !.phase = AfterResume, !.resume = TRUE,
                             !.seen = tree.journal, !.ctl = tree.control]
<1>1. Aim(k) \in {"reconcile", "discard"}
  BY DEF Aim, Idle, AfterResume, JournalPhases
<1>2. Follows(job[p], k)
  BY <1>1, ElsewhereFollows DEF Filling, Publishing
<1>3. Stagers'
  BY <1>2, FollowsStagers DEF Resume, FullInv, TypeInv
<1> QED
  BY <1>3, SameFull DEF Resume, FullInv

LEMMA DiscardPartialFull ==
  ASSUME FullInv, NEW p \in Restorers, DiscardPartial(p)
  PROVE  ViewsFull' /\ Stagers'
<1>1. FilesOK([tree EXCEPT !.partial = NoJournal])
  BY TreeFacts DEF FullInv, TypeInv, ViewsFull, FilesOK, StorageOK, TreeOK, Tree
<1>2. Stagers'
  BY GotoStagers DEF DiscardPartial, FullInv, TypeInv, OnlyTree, JournalPhases, Filling, Publishing
<1> QED
  BY <1>1, <1>2, RelinkFull DEF DiscardPartial, FullInv, OnlyTree

LEMMA ReconcileFull ==
  ASSUME FullInv, NEW p \in Restorers, Reconcile(p)
  PROVE  ViewsFull' /\ Stagers'
<1> DEFINE n == Settled(tree, job[p].seen)
           j == [job[p] EXCEPT !.phase = "roll", !.stg = tree.staging, !.i = n]
           k == IF job[p].seen.intent = NoIntent
                  THEN j ELSE Recording(j, Entry("publishing", n, NoIntent), "roll")
<1>1. job[p] \in Job
  BY JobFacts DEF FullInv, TypeInv
<1>2. Aim(k) = "roll"
  BY <1>1 DEF Job, Aim, Recording, JournalPhases
<1>3. Stagers'
  BY <1>2, ElsewhereFollows, FollowsStagers
     DEF Reconcile, FullInv, TypeInv, OnlyTree, Filling, Publishing
<1> QED
  BY <1>3, SameFull DEF Reconcile, FullInv, OnlyTree

LEMMA RollFull ==
  ASSUME FullInv, NEW p \in Restorers, Roll(p)
  PROVE  ViewsFull' /\ Stagers'
<1> DEFINE j == job[p]
           k == IF j.i = 0 THEN [j EXCEPT !.phase = "reset"]
                  ELSE Recording(j, Entry("rolling-back", j.i, j.i - 1), "unmove")
<1>1. job[p] \in Job
  BY JobFacts DEF FullInv, TypeInv
<1>2. Aim(k) \in {"reset", "unmove"}
  <2>1. Aim([j EXCEPT !.phase = "reset"]) = "reset"
    BY <1>1, AimOfGoto DEF JournalPhases
  <2>2. Aim(Recording(j, Entry("rolling-back", j.i, j.i - 1), "unmove")) = "unmove"
    BY <1>1, AimOfRecording
  <2> QED
    BY <2>1, <2>2
<1>3. Stagers'
  BY <1>2, ElsewhereFollows, FollowsStagers
     DEF Roll, FullInv, TypeInv, OnlyTree, Filling, Publishing
<1> QED
  BY <1>3, SameFull DEF Roll, FullInv, OnlyTree

LEMMA UnmoveFull ==
  ASSUME FullInv, NEW p \in Restorers, Unmove(p)
  PROVE  ViewsFull' /\ Stagers'
<1> DEFINE e == job[p].i - 1
           t == [tree EXCEPT !.staged[e] = tree.dest[e], !.dest[e] = NoDir]
<1>1. e \in Entries
  <2>1. "unmove" \in Phases \ JournalPhases
    BY DEF Phases, JournalPhases
  <2>2. job[p].i > 0 /\ job[p].i \in 0 .. EntryCount
    BY <2>1, AtHolds, JobFacts DEF Unmove, Does, Holding, CountPhases, FullInv, TypeInv
  <2> QED
    BY <2>2, Counts
<1>2. tree \in Tree /\ FilesOK(tree)
  BY TreeFacts DEF FullInv, TypeInv, ViewsFull, StorageOK, TreeOK
<1>3. /\ t.staging = tree.staging
      /\ \A f \in Entries : t.staged[f] = IF f = e THEN tree.dest[e] ELSE tree.staged[f]
      /\ \A f \in Entries : t.dest[f] = IF f = e THEN NoDir ELSE tree.dest[f]
  BY <1>1, <1>2 DEF Tree
<1>4. FilesOK(t)
  BY <1>1, <1>2, <1>3, DirsAssumption DEF FilesOK
<1>5. Stagers'
  BY GotoStagers DEF Unmove, FullInv, TypeInv, OnlyTree, JournalPhases, Filling, Publishing
<1> QED
  BY <1>4, <1>5, RelinkFull DEF Unmove, FullInv, OnlyTree

LEMMA SyncUnmoveFull ==
  ASSUME FullInv, NEW p \in Restorers, SyncUnmove(p)
  PROVE  ViewsFull' /\ Stagers'
<1> DEFINE n == job[p].i - 1
           k == Recording([job[p] EXCEPT !.i = n], Entry("publishing", n, NoIntent), "roll")
<1>1. job[p] \in Job
  BY JobFacts DEF FullInv, TypeInv
<1>2. Aim(k) = "roll"
  BY <1>1 DEF Job, Aim, Recording, JournalPhases
<1>3. Stagers'
  BY <1>2, ElsewhereFollows, FollowsStagers
     DEF SyncUnmove, FullInv, TypeInv, OnlyTree, Filling, Publishing
<1> QED
  BY <1>3, SyncFull DEF SyncUnmove, FullInv, TypeInv, OnlyTree

LEMMA EmptyStagingFull ==
  ASSUME FullInv, NEW p \in Restorers, EmptyStaging(p)
  PROVE  ViewsFull' /\ Stagers'
<1>1. PICK e \in Entries : Relink([tree EXCEPT !.staged[e] = NoDir])
  BY DEF EmptyStaging
<1>2. tree \in Tree /\ FilesOK(tree)
  BY TreeFacts DEF FullInv, TypeInv, ViewsFull, StorageOK, TreeOK
<1>3. FilesOK([tree EXCEPT !.staged[e] = NoDir])
  BY <1>2, DirsAssumption DEF FilesOK, Tree
<1> QED
  BY <1>1, <1>3, RelinkFull, SameStagers DEF EmptyStaging, FullInv, OnlyTree

LEMMA ResetStagingFull ==
  ASSUME FullInv, NEW p \in Restorers, ResetStaging(p)
  PROVE  ViewsFull' /\ Stagers'
<1>1. tree \in Tree /\ FilesOK(tree)
  BY TreeFacts DEF FullInv, TypeInv, ViewsFull, StorageOK, TreeOK
<1>2. FilesOK([tree EXCEPT !.staging = NoDir])
  BY <1>1, DirsAssumption DEF ResetStaging, FilesOK, Tree, Nothing
<1>3. Stagers'
  BY GotoStagers DEF ResetStaging, FullInv, TypeInv, OnlyTree, JournalPhases, Filling, Publishing
<1> QED
  BY <1>2, <1>3, RelinkFull DEF ResetStaging, FullInv, OnlyTree

(***************************************************************************)
(* The materialization                                                     *)
(***************************************************************************)
LEMMA MakeControlFull ==
  ASSUME FullInv, NEW p \in Restorers, MakeControl(p)
  PROVE  ViewsFull' /\ Stagers'
<1>1. PICK d \in NewDirs : /\ Relink([tree EXCEPT !.control = d])
                           /\ Become(p, [job[p] EXCEPT !.ctl = d, !.phase = "sync control"])
  BY DEF MakeControl
<1>2. tree \in Tree /\ FilesOK(tree)
  BY TreeFacts DEF FullInv, TypeInv, ViewsFull, StorageOK, TreeOK
<1>3. FilesOK([tree EXCEPT !.control = d])
  BY <1>2 DEF FilesOK, Tree
<1>4. Aim([job[p] EXCEPT !.ctl = d, !.phase = "sync control"]) = "sync control"
  BY JobFacts DEF FullInv, TypeInv, Job, Aim, JournalPhases
<1>5. Stagers'
  BY <1>1, <1>4, ElsewhereFollows, FollowsStagers
     DEF MakeControl, FullInv, TypeInv, OnlyTree, Filling, Publishing
<1> QED
  BY <1>1, <1>3, <1>5, RelinkFull DEF MakeControl, FullInv, OnlyTree

\* The new directory is in no view, and no call holds it.
LEMMA MakeStagingFull ==
  ASSUME FullInv, NEW p \in Restorers, MakeStaging(p)
  PROVE  ViewsFull' /\ Stagers'
<1>1. PICK d \in NewDirs :
        /\ Relink([tree EXCEPT !.staging = d])
        /\ Become(p, [job[p] EXCEPT !.stg = d, !.phase = "sync staging"])
        /\ body' = [body EXCEPT ![d] = "empty"]
  BY DEF MakeStaging
<1> DEFINE t == [tree EXCEPT !.staging = d]
           k == [job[p] EXCEPT !.stg = d, !.phase = "sync staging"]
<1>2. d \in Dirs /\ d \in FreeDirs
  BY NewDirsAreFree
<1>3. /\ \A v \in views : \A e \in Entries : v.dest[e] # d /\ v.staged[e] # d
      /\ \A q \in Restorers : job[q].stg # d
  BY <1>2 DEF FreeDirs, InUse, Holds
<1>4. body'[d] = "empty" /\ \A c \in Dirs : c # d => body'[c] = body[c]
  BY <1>1, <1>2 DEF FullInv, TypeInv, RestOK
<1>5. tree \in views /\ tree \in Tree /\ tree.staged = Nothing
  BY TreeFacts DEF MakeStaging, Does, Ready, At, FullInv, TypeInv, StorageOK, TreeOK
<1>6. ViewsFull'
  <2>1. \A v \in views : FilesOK(v)'
    BY <1>3, <1>4 DEF FullInv, ViewsFull, FilesOK
  <2>2. t.dest = tree.dest /\ t.staged = Nothing /\ t.staging = d
    BY <1>5 DEF Tree
  <2>3. ASSUME NEW v, v = t
        PROVE  FilesOK(v)'
    BY <1>5, <2>1, <2>2, <2>3, DirsAssumption DEF FilesOK, Nothing
  <2>4. views' = views \cup {t}
    BY <1>1 DEF Relink
  <2> QED
    BY <2>1, <2>3, <2>4 DEF ViewsFull
<1>7. Stagers'
  <2>1. k.stg = d /\ Aim(k) = "sync staging"
    BY JobFacts DEF FullInv, TypeInv, Job, Aim, JournalPhases
  <2>2. \A q \in Restorers : job'[q] = IF q = p THEN k ELSE job[q]
    BY <1>1 DEF Become, FullInv, TypeInv, JobsOK
  <2>3. \A q \in Restorers : Aim(job[q]) \in Filling \cup Publishing => job[q].stg \in Dirs
    BY JobFacts DEF FullInv, TypeInv, Holding, Filling, Publishing, StagingPhases
  <2>4. Stagers
    BY DEF FullInv
  <2>5. \A q \in Restorers :
          /\ Aim(job'[q]) \in Publishing => body'[job'[q].stg] = "durable"
          /\ Aim(job'[q]) \in Filling => body'[job'[q].stg] # "durable"
    <3> SUFFICES ASSUME NEW q \in Restorers
                 PROVE  /\ Aim(job'[q]) \in Publishing => body'[job'[q].stg] = "durable"
                        /\ Aim(job'[q]) \in Filling => body'[job'[q].stg] # "durable"
      OBVIOUS
    <3>1. CASE q = p
      BY <1>4, <2>1, <2>2, <3>1 DEF Publishing
    <3>2. CASE q # p
      BY <1>3, <1>4, <2>2, <2>3, <2>4, <3>2 DEF Stagers
    <3> QED
      BY <3>1, <3>2
  <2>6. \A q, r \in Restorers :
          q # r /\ Aim(job'[q]) \in Filling /\ Aim(job'[r]) \in Filling => job'[q].stg # job'[r].stg
    <3> SUFFICES ASSUME NEW q \in Restorers, NEW r \in Restorers, q # r,
                        Aim(job'[q]) \in Filling, Aim(job'[r]) \in Filling
                 PROVE  job'[q].stg # job'[r].stg
      OBVIOUS
    <3>1. CASE q = p
      BY <1>3, <2>1, <2>2, <3>1
    <3>2. CASE r = p
      BY <1>3, <2>1, <2>2, <3>2
    <3>3. CASE q # p /\ r # p
      BY <2>2, <2>4, <3>3 DEF Stagers
    <3> QED
      BY <3>1, <3>2, <3>3
  <2> QED
    BY <2>5, <2>6 DEF Stagers, Aim
<1> QED
  BY <1>6, <1>7

LEMMA SyncStagingFull ==
  ASSUME FullInv, NEW p \in Restorers, SyncStaging(p)
  PROVE  ViewsFull' /\ Stagers'
<1> DEFINE k == Recording(job[p], Entry("materializing", 0, NoIntent), "fill")
<1>1. Aim(job[p]) = "sync staging"
  BY AimAt DEF SyncStaging, Does, JournalPhases
<1>2. Aim(k) = "fill" /\ k.stg = job[p].stg
  BY JobFacts, AimOfRecording DEF FullInv, TypeInv
<1>3. Stagers'
  BY <1>1, <1>2, FollowsStagers
     DEF SyncStaging, Follows, FullInv, TypeInv, OnlyTree, Filling, Publishing
<1> QED
  BY <1>3, SyncFull DEF SyncStaging, FullInv, TypeInv, OnlyTree

LEMMA SyncStepFull ==
  ASSUME FullInv, NEW p \in Restorers, SyncStep(p)
  PROVE  ViewsFull' /\ Stagers'
<1>1. PICK a \in {"sync discard", "sync reset", "sync control", "sync drop staging",
                  "sync drop journal"} : At(p, a) /\ Goto(p, SyncNext[a])
  BY DEF SyncStep, SyncNext, At
<1>2. SyncNext[a] \in {"reconcile", "sync control", "staging", "drop journal", "drop control"}
  BY DEF SyncNext
<1>3. SyncNext[a] \notin Filling \cup Publishing \cup JournalPhases
  BY <1>2 DEF Filling, Publishing, JournalPhases
<1>4. Stagers'
  BY <1>1, <1>3, GotoStagers DEF SyncStep, FullInv, TypeInv, OnlyTree
<1> QED
  BY <1>4, SyncFull DEF SyncStep, FullInv, TypeInv, OnlyTree

LEMMA JournalStagers ==
  ASSUME FullInv, NEW p \in Restorers, job[p].phase \in JournalPhases,
         NEW b \in JournalPhases, Goto(p, b), UNCHANGED body
  PROVE  Stagers'
<1> DEFINE k == [job[p] EXCEPT !.phase = b]
<1>1. Aim(k) = Aim(job[p]) /\ k.stg = job[p].stg
  BY JobFacts DEF FullInv, TypeInv, Job, Aim
<1> QED
  BY <1>1, FollowsStagers DEF Goto, Follows, FullInv, TypeInv

LEMMA WritePartialFull ==
  ASSUME FullInv, NEW p \in Restorers, WritePartial(p)
  PROVE  ViewsFull' /\ Stagers'
<1>1. FilesOK([tree EXCEPT !.partial = job[p].entry])
  BY TreeFacts DEF FullInv, TypeInv, ViewsFull, FilesOK, StorageOK, TreeOK, Tree
<1>2. Stagers'
  BY JournalStagers DEF WritePartial, Does, At, OnlyTree, JournalPhases
<1> QED
  BY <1>1, <1>2, RelinkFull DEF WritePartial, FullInv, OnlyTree

LEMMA RenamePartialFull ==
  ASSUME FullInv, NEW p \in Restorers, RenamePartial(p)
  PROVE  ViewsFull' /\ Stagers'
<1>1. FilesOK([tree EXCEPT !.journal = tree.partial, !.partial = NoJournal])
  BY TreeFacts DEF FullInv, TypeInv, ViewsFull, FilesOK, StorageOK, TreeOK, Tree
<1>2. Stagers'
  BY JournalStagers DEF RenamePartial, Does, At, OnlyTree, JournalPhases
<1> QED
  BY <1>1, <1>2, RelinkFull DEF RenamePartial, FullInv, OnlyTree

LEMMA SyncJournalFull ==
  ASSUME FullInv, NEW p \in Restorers, SyncJournal(p)
  PROVE  ViewsFull' /\ Stagers'
<1> DEFINE keep == job[p].keep \/ job[p].next = "move"
           k == [job[p] EXCEPT !.phase = job[p].next, !.keep = keep]
<1>1. job[p] \in Job /\ job[p].phase \in JournalPhases
  BY JobFacts DEF SyncJournal, Does, At, JournalPhases, FullInv, TypeInv
<1>2. Aim(job[p]) = job[p].next /\ job[p].next \notin JournalPhases
  BY <1>1, AtJournal DEF Aim, Holding, FullInv, TypeInv
<1>3. Aim(k) = job[p].next /\ k.stg = job[p].stg
  BY <1>1, <1>2 DEF Job, Aim
<1>4. Become(p, k)
  BY DEF SyncJournal
<1>5. Stagers'
  BY <1>2, <1>3, <1>4, FollowsStagers DEF SyncJournal, Follows, FullInv, TypeInv, OnlyTree
<1> QED
  BY <1>5, SyncFull DEF SyncJournal, FullInv, TypeInv, OnlyTree

\* The files that a call creates are in the staging directory that has the name.
LEMMA FillFull ==
  ASSUME FullInv, NEW p \in Restorers, Fill(p)
  PROVE  ViewsFull' /\ Stagers'
<1> DEFINE t == [tree EXCEPT !.staged = [e \in Entries |-> job[p].stg]]
<1>1. tree \in Tree /\ FilesOK(tree)
  BY TreeFacts DEF FullInv, TypeInv, ViewsFull, StorageOK, TreeOK
<1>2. tree.staging = job[p].stg
  BY DEF Fill, Does, Ready, At, Live
<1>3. FilesOK(t)
  BY <1>1, <1>2 DEF FilesOK, Tree
<1>4. Aim(job[p]) \in Filling
  BY AimAt DEF Fill, Does, JournalPhases, Filling
<1>5. Stagers'
  BY <1>4, GotoStagers DEF Fill, FullInv, TypeInv, OnlyTree, JournalPhases, Filling, Publishing
<1> QED
  BY <1>3, <1>5, RelinkFull DEF Fill, FullInv, OnlyTree

\* A body that a filling call changes is published nowhere, and no other call
\* has it.
LEMMA BodyFull ==
  ASSUME FullInv, NEW p \in Restorers, Aim(job[p]) \in Filling, NEW b,
         body' = [body EXCEPT ![job[p].stg] = b], UNCHANGED <<tree, views>>
  PROVE  /\ ViewsFull'
         /\ \A q \in Restorers \ {p} :
              /\ Aim(job[q]) \in Publishing => body'[job[q].stg] = "durable"
              /\ Aim(job[q]) \in Filling => body'[job[q].stg] # "durable"
<1> DEFINE d == job[p].stg
<1>1. \A q \in Restorers : Aim(job[q]) \in Filling \cup Publishing => job[q].stg \in Dirs
  BY JobFacts DEF FullInv, TypeInv, Holding, Filling, Publishing, StagingPhases
<1>2. body[d] # "durable" /\ \A c \in Dirs : c # d => body'[c] = body[c]
  BY <1>1 DEF FullInv, TypeInv, RestOK, Stagers
<1>3. ViewsFull'
  BY <1>2 DEF FullInv, ViewsFull, FilesOK
<1>4. \A q \in Restorers \ {p} : Aim(job[q]) \in Filling \cup Publishing => job[q].stg # d
  BY <1>2 DEF FullInv, Stagers
<1> QED
  BY <1>1, <1>2, <1>3, <1>4 DEF FullInv, Stagers

LEMMA StreamFull ==
  ASSUME FullInv, NEW p \in Restorers, Stream(p)
  PROVE  ViewsFull' /\ Stagers'
<1> DEFINE k == [job[p] EXCEPT !.phase = "finish"]
<1>1. Aim(job[p]) = "stream"
  BY AimAt DEF Stream, Does, JournalPhases
<1>2. Aim(k) = "finish" /\ k.stg = job[p].stg
  BY JobFacts, AimOfGoto DEF FullInv, TypeInv, JournalPhases
<1>3. \A q \in Restorers : job'[q] = IF q = p THEN k ELSE job[q]
  BY DEF Stream, Goto, Become, FullInv, TypeInv, JobsOK
<1>4. body'[job[p].stg] = "volatile"
  BY <1>1, JobFacts DEF Stream, FullInv, TypeInv, RestOK, Holding, StagingPhases
<1>5. /\ ViewsFull'
      /\ \A q \in Restorers \ {p} :
           /\ Aim(job[q]) \in Publishing => body'[job[q].stg] = "durable"
           /\ Aim(job[q]) \in Filling => body'[job[q].stg] # "durable"
  BY <1>1, BodyFull DEF Stream, Filling
<1>6. \A q \in Restorers :
        /\ Aim(job'[q]) \in Publishing => body'[job'[q].stg] = "durable"
        /\ Aim(job'[q]) \in Filling => body'[job'[q].stg] # "durable"
  <2> SUFFICES ASSUME NEW q \in Restorers
               PROVE  /\ Aim(job'[q]) \in Publishing => body'[job'[q].stg] = "durable"
                      /\ Aim(job'[q]) \in Filling => body'[job'[q].stg] # "durable"
    OBVIOUS
  <2>1. CASE q = p
    BY <1>2, <1>3, <1>4, <2>1 DEF Publishing
  <2>2. CASE q # p
    BY <1>3, <1>5, <2>2
  <2> QED
    BY <2>1, <2>2
<1>7. \A q, r \in Restorers :
        q # r /\ Aim(job'[q]) \in Filling /\ Aim(job'[r]) \in Filling => job'[q].stg # job'[r].stg
  <2>1. \A q \in Restorers : Aim(job'[q]) \in Filling =>
          Aim(job[q]) \in Filling /\ job'[q].stg = job[q].stg
    <3> SUFFICES ASSUME NEW q \in Restorers, Aim(job'[q]) \in Filling
                 PROVE  Aim(job[q]) \in Filling /\ job'[q].stg = job[q].stg
      OBVIOUS
    <3> QED
      BY <1>1, <1>2, <1>3 DEF Filling
  <2> QED
    BY <2>1 DEF FullInv, Stagers
<1> QED
  BY <1>5, <1>6, <1>7 DEF Stagers, Aim

LEMMA FinishFull ==
  ASSUME FullInv, NEW p \in Restorers, Finish(p)
  PROVE  ViewsFull' /\ Stagers'
<1> DEFINE k == [job[p] EXCEPT !.phase = "validate"]
<1>1. Aim(job[p]) = "finish"
  BY AimAt DEF Finish, Does, JournalPhases
<1>2. Aim(k) = "validate" /\ k.stg = job[p].stg
  BY JobFacts, AimOfGoto DEF FullInv, TypeInv, JournalPhases
<1>3. \A q \in Restorers : job'[q] = IF q = p THEN k ELSE job[q]
  BY DEF Finish, Goto, Become, FullInv, TypeInv, JobsOK
<1>4. body'[job[p].stg] = "durable"
  BY <1>1, JobFacts DEF Finish, FullInv, TypeInv, RestOK, Holding, StagingPhases
<1>5. /\ ViewsFull'
      /\ \A q \in Restorers \ {p} :
           /\ Aim(job[q]) \in Publishing => body'[job[q].stg] = "durable"
           /\ Aim(job[q]) \in Filling => body'[job[q].stg] # "durable"
  BY <1>1, BodyFull DEF Finish, Filling
<1>6. \A q \in Restorers :
        /\ Aim(job'[q]) \in Publishing => body'[job'[q].stg] = "durable"
        /\ Aim(job'[q]) \in Filling => body'[job'[q].stg] # "durable"
  <2> SUFFICES ASSUME NEW q \in Restorers
               PROVE  /\ Aim(job'[q]) \in Publishing => body'[job'[q].stg] = "durable"
                      /\ Aim(job'[q]) \in Filling => body'[job'[q].stg] # "durable"
    OBVIOUS
  <2>1. CASE q = p
    BY <1>2, <1>3, <1>4, <2>1 DEF Filling
  <2>2. CASE q # p
    BY <1>3, <1>5, <2>2
  <2> QED
    BY <2>1, <2>2
<1>7. \A q, r \in Restorers :
        q # r /\ Aim(job'[q]) \in Filling /\ Aim(job'[r]) \in Filling => job'[q].stg # job'[r].stg
  <2>1. \A q \in Restorers : Aim(job'[q]) \in Filling =>
          Aim(job[q]) \in Filling /\ job'[q].stg = job[q].stg
    <3> SUFFICES ASSUME NEW q \in Restorers, Aim(job'[q]) \in Filling
                 PROVE  Aim(job[q]) \in Filling /\ job'[q].stg = job[q].stg
      OBVIOUS
    <3> QED
      BY <1>1, <1>2, <1>3 DEF Filling
  <2> QED
    BY <2>1 DEF FullInv, Stagers
<1> QED
  BY <1>5, <1>6, <1>7 DEF Stagers, Aim

LEMMA ValidateStagingFull ==
  ASSUME FullInv, NEW p \in Restorers, ValidateStaging(p)
  PROVE  ViewsFull' /\ Stagers'
<1> DEFINE k == Recording(job[p], Entry("staged", 0, NoIntent), "staged")
<1>1. Aim(job[p]) = "validate"
  BY AimAt DEF ValidateStaging, Does, JournalPhases
<1>2. Aim(k) = "staged" /\ k.stg = job[p].stg
  BY JobFacts, AimOfRecording DEF FullInv, TypeInv
<1>3. Stagers'
  BY <1>1, <1>2, FollowsStagers
     DEF ValidateStaging, Follows, FullInv, TypeInv, OnlyTree, Filling, Publishing
<1> QED
  BY <1>3, SameFull DEF ValidateStaging, FullInv, OnlyTree

(***************************************************************************)
(* The publication                                                         *)
(***************************************************************************)
LEMMA PauseFull ==
  ASSUME FullInv, NEW p \in Restorers, Pause(p)
  PROVE  ViewsFull' /\ Stagers'
  BY IdleStagers, SameFull DEF Pause, FullInv, TypeInv

LEMMA StagedFull ==
  ASSUME FullInv, NEW p \in Restorers, Staged(p)
  PROVE  ViewsFull' /\ Stagers'
<1>1. CASE Pause(p)
  BY <1>1, PauseFull
<1>2. CASE ~ Pause(p)
  <2>1. Aim(job[p]) \in Publishing
    BY AimAt DEF Staged, Does, JournalPhases, Publishing
  <2>2. Stagers'
    BY <1>2, <2>1, GotoStagers
       DEF Staged, FullInv, TypeInv, OnlyTree, JournalPhases, Filling, Publishing
  <2> QED
    BY <1>2, <2>2, SameFull DEF Staged, FullInv, OnlyTree
<1> QED
  BY <1>1, <1>2

LEMMA NextEntryFollows ==
  ASSUME NEW j \in Job, Aim(j) \in Publishing, NEW e
  PROVE  Follows(j, NextEntry(j, e))
<1>1. Aim(NextEntry(j, e)) = "move" /\ NextEntry(j, e).stg = j.stg
  BY DEF Job, Aim, NextEntry, Recording, JournalPhases
<1> QED
  BY <1>1 DEF Follows, Filling, Publishing

LEMMA PreflightFull ==
  ASSUME FullInv, NEW p \in Restorers, Preflight(p)
  PROVE  ViewsFull' /\ Stagers'
<1>1. Aim(job[p]) \in Publishing /\ job[p] \in Job
  BY AimAt, JobFacts DEF Preflight, Does, JournalPhases, Publishing, FullInv, TypeInv
<1>2. Stagers'
  BY <1>1, NextEntryFollows, FollowsStagers DEF Preflight, FullInv, TypeInv, OnlyTree
<1> QED
  BY <1>2, SameFull DEF Preflight, FullInv, OnlyTree

\* What is moved is durable already, or in the staging directory of the call
\* that finished it.
LEMMA MoveFull ==
  ASSUME FullInv, NEW p \in Restorers, Move(p)
  PROVE  ViewsFull' /\ Stagers'
<1> DEFINE e == job[p].i
           t == [tree EXCEPT !.dest[e] = tree.staged[e], !.staged[e] = NoDir]
<1>1. Aim(job[p]) = "move" /\ Aim(job[p]) \in Publishing
  BY AimAt DEF Move, Does, JournalPhases, Publishing
<1>2. e \in Entries
  BY <1>1, JobFacts DEF FullInv, TypeInv, Holding, EntryPhases
<1>3. tree \in Tree /\ FilesOK(tree)
  BY TreeFacts DEF FullInv, TypeInv, ViewsFull, StorageOK, TreeOK
<1>4. tree.staging = job[p].stg /\ body[job[p].stg] = "durable"
  BY <1>1 DEF Move, Does, Ready, At, MayPublish, Live, FullInv, Stagers
<1>5. tree.staged[e] \in Dirs => body[tree.staged[e]] = "durable"
  BY <1>2, <1>3, <1>4 DEF FilesOK
<1>6. /\ t.staging = tree.staging
      /\ \A f \in Entries : t.staged[f] = IF f = e THEN NoDir ELSE tree.staged[f]
      /\ \A f \in Entries : t.dest[f] = IF f = e THEN tree.staged[e] ELSE tree.dest[f]
  BY <1>2, <1>3 DEF Tree
<1>7. FilesOK(t)
  BY <1>3, <1>5, <1>6, DirsAssumption DEF FilesOK
<1>8. Stagers'
  BY <1>1, GotoStagers DEF Move, FullInv, TypeInv, OnlyTree, JournalPhases, Filling, Publishing
<1> QED
  BY <1>7, <1>8, RelinkFull DEF Move, FullInv, OnlyTree

LEMMA CheckFull ==
  ASSUME FullInv, NEW p \in Restorers, Check(p)
  PROVE  ViewsFull' /\ Stagers'
<1> DEFINE k == [job[p] EXCEPT !.valid[job[p].i] = tree.dest[job[p].i], !.phase = "sync move"]
<1>1. Aim(job[p]) \in Publishing /\ job[p] \in Job
  BY AimAt, JobFacts DEF Check, Does, JournalPhases, Publishing, FullInv, TypeInv
<1>2. Aim(k) = "sync move" /\ k.stg = job[p].stg
  BY <1>1 DEF Job, Aim, JournalPhases
<1>3. Stagers'
  BY <1>1, <1>2, FollowsStagers
     DEF Check, Follows, FullInv, TypeInv, OnlyTree, Filling, Publishing
<1> QED
  BY <1>3, SameFull DEF Check, FullInv, OnlyTree

LEMMA SyncMoveFull ==
  ASSUME FullInv, NEW p \in Restorers, SyncMove(p)
  PROVE  ViewsFull' /\ Stagers'
<1> DEFINE k == Recording(job[p], Entry("publishing", job[p].i + 1, NoIntent), "advance")
<1>1. Aim(job[p]) \in Publishing /\ job[p] \in Job
  BY AimAt, JobFacts DEF SyncMove, Does, JournalPhases, Publishing, FullInv, TypeInv
<1>2. Aim(k) = "advance" /\ k.stg = job[p].stg
  BY <1>1, AimOfRecording
<1>3. Stagers'
  BY <1>1, <1>2, FollowsStagers
     DEF SyncMove, Follows, FullInv, TypeInv, OnlyTree, Filling, Publishing
<1> QED
  BY <1>3, SyncFull DEF SyncMove, FullInv, TypeInv, OnlyTree

LEMMA AdvanceFull ==
  ASSUME FullInv, NEW p \in Restorers, Advance(p)
  PROVE  ViewsFull' /\ Stagers'
<1>1. CASE Pause(p)
  BY <1>1, PauseFull
<1>2. CASE ~ Pause(p)
  <2> DEFINE k == [job[p] EXCEPT !.i = 0, !.phase = "finalize"]
  <2>1. Aim(job[p]) \in Publishing /\ job[p] \in Job
    BY AimAt, JobFacts DEF Advance, Does, JournalPhases, Publishing, FullInv, TypeInv
  <2>2. Aim(k) = "finalize"
    BY <2>1 DEF Job, Aim, JournalPhases
  <2>3. Follows(job[p], k)
    BY <2>2, ElsewhereFollows DEF Filling, Publishing
  <2>4. Follows(job[p], NextEntry(job[p], job[p].i + 1))
    BY <2>1, NextEntryFollows
  <2>5. Become(p, k) \/ Become(p, NextEntry(job[p], job[p].i + 1))
    BY <1>2 DEF Advance
  <2>6. Stagers'
    BY <1>2, <2>3, <2>4, <2>5, FollowsStagers DEF Advance, FullInv, TypeInv, OnlyTree
  <2> QED
    BY <1>2, <2>6, SameFull DEF Advance, FullInv, OnlyTree
<1> QED
  BY <1>1, <1>2

(***************************************************************************)
(* The conclusion and the cleanup                                          *)
(***************************************************************************)
LEMMA FinalizeFull ==
  ASSUME FullInv, NEW p \in Restorers, Finalize(p)
  PROVE  ViewsFull' /\ Stagers'
<1> DEFINE k == [job[p] EXCEPT !.i = job[p].i + 1]
           m == [job[p] EXCEPT !.phase = "recheck"]
<1>1. job[p] \in Job /\ job[p].phase = "finalize"
  BY JobFacts DEF Finalize, Does, At, FullInv, TypeInv
<1>2. Aim(k) = "finalize" /\ Aim(m) = "recheck"
  BY <1>1 DEF Job, Aim, JournalPhases
<1>3. Follows(job[p], k) /\ Follows(job[p], m)
  BY <1>2, ElsewhereFollows DEF Filling, Publishing
<1>4. Become(p, k) \/ Become(p, m)
  BY DEF Finalize
<1>5. Stagers'
  BY <1>3, <1>4, FollowsStagers DEF Finalize, FullInv, TypeInv
<1> QED
  BY <1>5, SameFull DEF Finalize, FullInv

LEMMA RecheckFull ==
  ASSUME FullInv, NEW p \in Restorers, Recheck(p)
  PROVE  ViewsFull' /\ Stagers'
<1>1. Stagers'
  BY GotoStagers DEF Recheck, FullInv, TypeInv, OnlyTree, JournalPhases, Filling, Publishing
<1> QED
  BY <1>1, SameFull DEF Recheck, FullInv, OnlyTree

LEMMA DropStagingFull ==
  ASSUME FullInv, NEW p \in Restorers, DropStaging(p)
  PROVE  ViewsFull' /\ Stagers'
<1>1. tree \in Tree /\ FilesOK(tree)
  BY TreeFacts DEF FullInv, TypeInv, ViewsFull, StorageOK, TreeOK
<1>2. FilesOK([tree EXCEPT !.staging = NoDir, !.staged = Nothing])
  BY <1>1, DirsAssumption DEF FilesOK, Tree, Nothing
<1>3. Stagers'
  BY GotoStagers DEF DropStaging, FullInv, TypeInv, OnlyTree, JournalPhases, Filling, Publishing
<1> QED
  BY <1>2, <1>3, RelinkFull DEF DropStaging, FullInv, OnlyTree

LEMMA DropJournalFull ==
  ASSUME FullInv, NEW p \in Restorers, DropJournal(p)
  PROVE  ViewsFull' /\ Stagers'
<1>1. FilesOK([tree EXCEPT !.journal = NoJournal])
  BY TreeFacts DEF FullInv, TypeInv, ViewsFull, FilesOK, StorageOK, TreeOK, Tree
<1>2. Stagers'
  BY GotoStagers DEF DropJournal, FullInv, TypeInv, OnlyTree, JournalPhases, Filling, Publishing
<1> QED
  BY <1>1, <1>2, RelinkFull DEF DropJournal, FullInv, OnlyTree

LEMMA DropControlFull ==
  ASSUME FullInv, NEW p \in Restorers, DropControl(p)
  PROVE  ViewsFull' /\ Stagers'
<1>1. FilesOK([tree EXCEPT !.control = NoDir])
  BY TreeFacts DEF FullInv, TypeInv, ViewsFull, FilesOK, StorageOK, TreeOK, Tree
<1>2. Stagers'
  BY GotoStagers DEF DropControl, FullInv, TypeInv, OnlyTree, JournalPhases, Filling, Publishing
<1> QED
  BY <1>1, <1>2, RelinkFull DEF DropControl, FullInv, OnlyTree

LEMMA CompleteFull ==
  ASSUME FullInv, NEW p \in Restorers, Complete(p)
  PROVE  ViewsFull' /\ Stagers'
  BY IdleStagers, SyncFull DEF Complete, FullInv, TypeInv

LEMMA FailFull ==
  ASSUME FullInv, NEW p \in Restorers, Fail(p)
  PROVE  ViewsFull' /\ Stagers'
  BY IdleStagers, SameFull DEF Fail, FullInv, TypeInv

LEMMA CleanInsideFull ==
  ASSUME FullInv, NEW p \in Restorers, CleanInside(p)
  PROVE  ViewsFull' /\ Stagers'
<1>1. tree \in Tree /\ FilesOK(tree)
  BY TreeFacts DEF FullInv, TypeInv, ViewsFull, StorageOK, TreeOK
<1>2. FilesOK([tree EXCEPT !.journal = NoJournal]) /\ FilesOK([tree EXCEPT !.partial = NoJournal])
  BY <1>1 DEF FilesOK, Tree
<1>3. ASSUME tree.staged = Nothing
      PROVE  FilesOK([tree EXCEPT !.staging = NoDir])
  BY <1>1, <1>3, DirsAssumption DEF FilesOK, Tree, Nothing
<1>4. ViewsFull'
  BY <1>2, <1>3, RelinkFull DEF CleanInside, FullInv, OnlyTree
<1> QED
  BY <1>4, SameStagers DEF CleanInside, FullInv, OnlyTree

LEMMA CleanControlFull ==
  ASSUME FullInv, NEW p \in Restorers, CleanControl(p)
  PROVE  ViewsFull' /\ Stagers'
<1>1. FilesOK([tree EXCEPT !.control = NoDir])
  BY TreeFacts DEF FullInv, TypeInv, ViewsFull, FilesOK, StorageOK, TreeOK, Tree
<1>2. Stagers'
  BY GotoStagers DEF CleanControl, FullInv, TypeInv, OnlyTree, JournalPhases, Filling, Publishing
<1> QED
  BY <1>1, <1>2, RelinkFull DEF CleanControl, FullInv, OnlyTree

LEMMA SyncCleanupFull ==
  ASSUME FullInv, NEW p \in Restorers, SyncCleanup(p)
  PROVE  ViewsFull' /\ Stagers'
  BY IdleStagers, SyncFull DEF SyncCleanup, FullInv, TypeInv

(***************************************************************************)
(* The environment                                                         *)
(***************************************************************************)
LEMMA KillFull ==
  ASSUME FullInv, NEW p \in Restorers, Kill(p)
  PROVE  ViewsFull' /\ Stagers'
  BY IdleStagers, SameFull DEF Kill, FullInv, TypeInv

\* A power loss keeps what was synchronized, and ends every call.
LEMMA PowerLossFull ==
  ASSUME FullInv, PowerLoss
  PROVE  ViewsFull' /\ Stagers'
<1>1. PICK t \in views : tree' = t /\ views' = {t}
  BY DEF PowerLoss
<1>2. \A d \in Dirs : body[d] = "durable" => body'[d] = "durable"
  BY DEF PowerLoss
<1>3. ViewsFull'
  BY <1>1, <1>2 DEF FullInv, ViewsFull, FilesOK
<1>4. \A p \in Restorers : Aim(job'[p]) = "idle"
  BY DEF PowerLoss, Idle, Aim, JournalPhases
<1>5. Stagers'
  BY <1>4 DEF Stagers, Aim, Filling, Publishing
<1> QED
  BY <1>3, <1>5

LEMMA PutForeignFull ==
  ASSUME FullInv, PutForeign
  PROVE  ViewsFull' /\ Stagers'
<1>1. PICK e \in Entries : Relink([tree EXCEPT !.dest[e] = Foreign])
  BY DEF PutForeign
<1>2. tree \in Tree /\ FilesOK(tree)
  BY TreeFacts DEF FullInv, TypeInv, ViewsFull, StorageOK, TreeOK
<1>3. FilesOK([tree EXCEPT !.dest[e] = Foreign])
  BY <1>2, DirsAssumption DEF FilesOK, Tree
<1> QED
  BY <1>1, <1>3, RelinkFull, SameStagers DEF PutForeign, FullInv

LEMMA InitFull ==
  ASSUME Init
  PROVE  FullInv
<1>1. ViewsFull
  BY DirsAssumption DEF Init, ViewsFull, FilesOK, Empty, Nothing
<1>2. \A p \in Restorers : Aim(job[p]) = "idle"
  BY DEF Init, Idle, Aim, JournalPhases
<1>3. Stagers
  BY <1>2 DEF Stagers, Filling, Publishing
<1> QED
  BY <1>1, <1>3, InitType DEF FullInv

LEMMA RunFull ==
  ASSUME FullInv, NEW p \in Restorers, Run(p)
  PROVE  ViewsFull' /\ Stagers'
<1>1. CASE Rollback(p)
  BY <1>1, DiscardPartialFull, ReconcileFull, RollFull, UnmoveFull, SyncUnmoveFull,
     EmptyStagingFull, ResetStagingFull DEF Rollback
<1>2. CASE Materialize(p)
  BY <1>2, MakeControlFull, MakeStagingFull, SyncStagingFull, SyncStepFull, WritePartialFull,
     RenamePartialFull, SyncJournalFull, FillFull, StreamFull, FinishFull, ValidateStagingFull
     DEF Materialize
<1>3. CASE Publish(p)
  BY <1>3, StagedFull, PreflightFull, MoveFull, CheckFull, SyncMoveFull, AdvanceFull DEF Publish
<1>4. CASE Conclude(p)
  BY <1>4, FinalizeFull, RecheckFull, DropStagingFull, DropJournalFull, DropControlFull,
     CompleteFull DEF Conclude
<1>5. CASE Refuse(p)
  BY <1>5, FailFull DEF Refuse
<1>6. CASE Cleanup(p)
  BY <1>6, CleanInsideFull, CleanControlFull, SyncCleanupFull DEF Cleanup
<1> QED
  BY <1>1, <1>2, <1>3, <1>4, <1>5, <1>6 DEF Run

LEMMA NextFull ==
  ASSUME FullInv, [Next]_vars
  PROVE  FullInv'
<1>1. TypeInv'
  BY NextType DEF FullInv
<1>2. CASE UNCHANGED vars
  BY <1>1, <1>2, SameFull, SameStagers DEF vars, FullInv
<1>3. CASE Next
  <2>1. ViewsFull' /\ Stagers'
    BY <1>3, FreshFull, ResumeFull, RunFull, FailFull, KillFull, PowerLossFull, PutForeignFull
       DEF Next, Fault
  <2> QED
    BY <1>1, <2>1 DEF FullInv
<1> QED
  BY <1>2, <1>3

\* Whatever is visible at the destination was written completely and
\* synchronized, also when several restorers work on one destination and one
\* takes over or removes by name what another is filling: a call publishes only
\* from a staging directory that it holds open and has finished
\* (StagedFileSink::finish, publish_staged_entries, exclusive_rename).
THEOREM VisibleAreComplete == Spec => []VisibleIsComplete
<1>1. Spec => []FullInv
  BY InitFull, NextFull, PTL DEF Spec
<1>2. FullInv => VisibleIsComplete
  BY FullIsComplete
<1> QED
  BY <1>1, <1>2, PTL

(***************************************************************************)
(* What other programs put at the destination                              *)
(***************************************************************************)
\* The steps that leave the destination's entries alone.
LEMMA DestSame ==
  ASSUME TypeInv, NEW p \in Restorers,
         \/ Fresh(p) \/ Resume(p) \/ Fault(p) \/ Kill(p) \/ Refuse(p) \/ Cleanup(p) \/ Conclude(p)
         \/ DiscardPartial(p) \/ Reconcile(p) \/ Roll(p) \/ SyncUnmove(p)
         \/ EmptyStaging(p) \/ ResetStaging(p) \/ Materialize(p)
         \/ Staged(p) \/ Preflight(p) \/ Check(p) \/ SyncMove(p) \/ Advance(p)
  PROVE  tree'.dest = tree.dest
<1>1. tree \in Tree
  BY TreeFacts DEF TypeInv, StorageOK, TreeOK
<1>2. CASE Fresh(p) \/ Resume(p) \/ Fault(p) \/ Kill(p) \/ Refuse(p)
  BY <1>2 DEF Fresh, Resume, Fault, Kill, Refuse, Fail
<1>3. CASE Cleanup(p)
  BY <1>1, <1>3 DEF Cleanup, CleanInside, CleanControl, SyncCleanup, Relink, Sync, Tree
<1>4. CASE Conclude(p)
  BY <1>1, <1>4 DEF Conclude, Finalize, Recheck, DropStaging, DropJournal, DropControl, Complete,
                    Relink, Sync, Tree
<1>5. CASE \/ DiscardPartial(p) \/ Reconcile(p) \/ Roll(p) \/ SyncUnmove(p)
           \/ EmptyStaging(p) \/ ResetStaging(p)
  BY <1>1, <1>5 DEF DiscardPartial, Reconcile, Roll, SyncUnmove, EmptyStaging, ResetStaging,
                    Relink, Sync, Tree
<1>6. CASE Materialize(p)
  BY <1>1, <1>6 DEF Materialize, MakeControl, MakeStaging, SyncStaging, SyncStep, WritePartial,
                    RenamePartial, SyncJournal, Fill, Stream, Finish, ValidateStaging,
                    Relink, Sync, Tree
<1>7. CASE \/ Staged(p) \/ Preflight(p) \/ Check(p) \/ SyncMove(p) \/ Advance(p)
  BY <1>7 DEF Staged, Preflight, Check, SyncMove, Advance, Pause, Sync
<1> QED
  BY <1>2, <1>3, <1>4, <1>5, <1>6, <1>7

\* A move takes an empty place.
LEMMA MoveSpares ==
  ASSUME TypeInv, NEW p \in Restorers, Move(p), NEW e \in Entries, tree.dest[e] = Foreign
  PROVE  tree'.dest[e] = Foreign
<1>1. tree \in Tree
  BY TreeFacts DEF TypeInv, StorageOK, TreeOK
<1>2. job[p].i # e
  BY DirsAssumption DEF Move, Does, Ready, At, MayPublish
<1> QED
  BY <1>1, <1>2 DEF Move, Relink, Tree

LEMMA PutSpares ==
  ASSUME TypeInv, PutForeign, NEW e \in Entries, tree.dest[e] = Foreign
  PROVE  tree'.dest[e] = Foreign
<1>1. tree \in Tree
  BY TreeFacts DEF TypeInv, StorageOK, TreeOK
<1> QED
  BY <1>1 DEF PutForeign, Relink, Tree

LEMMA ExclusiveStep ==
  ASSUME TypeInv, [Next]_vars
  PROVE  [CodeStep => \A e \in Entries : Touched(e) => \E p \in Restorers : At(p, "unmove")]_vars
<1> SUFFICES ASSUME CodeStep, NEW e \in Entries, Touched(e)
             PROVE  \E p \in Restorers : At(p, "unmove")
  OBVIOUS
<1>1. tree.dest[e] = Foreign /\ tree'.dest[e] # Foreign
  BY DEF Touched
<1>2. Next
  BY <1>1 DEF vars
<1>3. ~ PowerLoss
  BY LimitsAssumption DEF CodeStep, PowerLoss, TypeInv, RestOK, HarmOK, Harms, Limit
<1>4. ~ PutForeign
  BY <1>1, PutSpares
<1>5. PICK p \in Restorers : Fresh(p) \/ Resume(p) \/ Run(p) \/ Fault(p) \/ Kill(p)
  BY <1>2, <1>3, <1>4 DEF Next
<1>6. ~ Move(p)
  BY <1>1, MoveSpares
<1>7. Unmove(p)
  BY <1>1, <1>5, <1>6, DestSame DEF Run, Rollback, Publish
<1> QED
  BY <1>7 DEF Unmove, Does

\* No call of any restorer overwrites or removes a file that another program
\* put at the destination; only the rollback of a Resume moves what has the name
\* of a published entry back to staging (exclusive_rename,
\* cleanup_failed_restore, reconcile_interrupted_publication).
THEOREM PublicationsAreExclusive == Spec => PublicationIsExclusive
<1>1. Spec => []TypeInv
  BY InitType, NextType, PTL DEF Spec
<1>2. TypeInv /\ [Next]_vars
        => [CodeStep => \A e \in Entries : Touched(e) => \E p \in Restorers : At(p, "unmove")]_vars
  BY ExclusiveStep
<1> QED
  BY <1>1, <1>2, PTL DEF Spec, PublicationIsExclusive

(***************************************************************************)
(* The journal of one restorer                                             *)
(*                                                                         *)
(* What follows is about one restorer on its destination: another call     *)
(* may take an entry back, or remove the transaction by name, between any  *)
(* two steps (README).                                                     *)
(***************************************************************************)
\* The first lo entries have their places, and only the first hi are restored.
Covers(t, lo, hi) == First(lo) \subseteq Visible(t) /\ Restored(t) \subseteq First(hi)

\* The tree has what the journal says, but for its intent.
Suits(t, journal) ==
  /\ StateIsValid(journal)
  /\ RequiredVisible(journal) \subseteq Visible(t)
  /\ Restored(t) \subseteq AllowedVisible(journal)

\* The entry of the intent is on one side, or another program took its place.
Placed(t, e) == OnOneSide(t, e) \/ t.dest[e] = Foreign

Fits(t, journal) ==
  Suits(t, journal) /\ (journal.intent # NoIntent => Placed(t, journal.intent))

\* A tree with a restored entry has the journal that accounts for it.
Accounted(t) ==
  t.staging # NoDir /\ t.journal # NoJournal /\ Restored(t) # {} => Fits(t, t.journal)

ViewsAccounted == \A t \in views : Accounted(t)

\* No power loss takes the journal away from a restored entry.
Retained ==
  Restored(tree) # {} /\ tree.journal # NoJournal => \A t \in views : t.journal # NoJournal

BarePhases == {"reset", "sync reset", "control", "sync control", "staging", "sync staging",
               "fill", "stream", "finish", "validate", "staged", "preflight",
               "cleanup", "sync cleanup"}
SeenPhases == {"discard", "sync discard", "reconcile"}
RollingPhases == {"roll", "unmove", "sync unmove"}
MovingPhases == {"move", "check", "sync move", "advance"}
EndPhases == {"drop staging", "sync drop staging", "drop journal", "sync drop journal",
              "drop control", "sync drop control"}
FullPhases == {"finalize", "recheck"} \cup EndPhases

\* What the destination t has while call j is at phase a, or writes the journal
\* that leads there.
Stands(t, j, a) ==
  /\ a \in BarePhases => Restored(t) = {}
  /\ a \in SeenPhases => Suits(t, j.seen)
  /\ a \in RollingPhases => t.control = j.ctl /\ t.staging = j.stg
  /\ a = "roll" => Covers(t, j.i, j.i)
  /\ a = "unmove" => Covers(t, j.i - 1, j.i)
  /\ a = "sync unmove" => Covers(t, j.i - 1, j.i - 1)
  /\ a = "move" => Covers(t, j.i, j.i)
  /\ a = "check" => Covers(t, j.i, j.i + 1)
  /\ a \in {"sync move", "advance"} => Covers(t, j.i + 1, j.i + 1)
  /\ a \in MovingPhases => \A e \in Entries :
                             e > j.i \/ (e = j.i /\ a = "move") => t.staged[e] # NoDir
  /\ a \in FullPhases => Entries \subseteq Visible(t)
  /\ a = "sync drop control" => t.control = NoDir

\* The journal that call j writes or has written.
Announced(j) ==
  /\ j.next = "unmove" => j.entry = Entry("rolling-back", j.i, j.i - 1)
  /\ j.next = "move" => j.entry = Entry("publishing", j.i, j.i)

Writes(t, j) ==
  /\ j.phase \in JournalPhases => j.entry.phase # "none" /\ Announced(j)
  /\ j.phase \in {"write", "rename"} => Fits(t, j.entry)
  /\ j.phase = "rename" => t.partial = j.entry
  /\ j.phase = "sync journal" => t.journal = j.entry
  /\ j.phase = "unmove" => t.journal = Entry("rolling-back", j.i, j.i - 1)
  /\ j.phase = "move" => t.journal = Entry("publishing", j.i, j.i)

Unjournaled == {"idle", "sync drop journal", "drop control", "sync drop control"}

\* The recovery state stays once an entry is restored.
Keeps(t, j) ==
  /\ j.phase = "move" => j.keep
  /\ j.phase \notin Unjournaled /\ Restored(t) # {} => t.journal # NoJournal
  /\ j.phase # "idle" /\ Cleans(j) => Restored(t) = {}

\* The entries that call j has validated, and given their final mode in f.
Moded(f, t, j, a) ==
  /\ a \in MovingPhases => \A e \in Entries :
                             e < j.i \/ (e = j.i /\ a \in {"sync move", "advance"})
                               => j.valid[e] \in Dirs
  /\ a \in FullPhases => \A e \in Entries : j.valid[e] \in Dirs
  /\ a = "finalize" => \A e \in Entries : e < j.i => e \in f[j.valid[e]]
  /\ a \in EndPhases \cup {"recheck"} => \A e \in Entries : e \in f[j.valid[e]]
  /\ a \in EndPhases => \A e \in Entries : t.dest[e] \in {Foreign, j.valid[e]}

\* At a move every view has a journal.
MoveRetained(v, j) == j.phase = "move" => \A t \in v : t.journal # NoJournal

Known(v, f, t, j) ==
  /\ Stands(t, j, Aim(j))
  /\ Writes(t, j)
  /\ Keeps(t, j)
  /\ Moded(f, t, j, Aim(j))
  /\ MoveRetained(v, j)

KnownOf(p) == Known(views, final, tree, job[p])

StorageAccounted == ViewsAccounted /\ Retained

AccountInv == FullInv /\ StorageAccounted /\ \A p \in Restorers : KnownOf(p)

(***************************************************************************)
(* What a step has to show                                                 *)
(***************************************************************************)
LEMMA SameEntries ==
  ASSUME NEW t, NEW u, u.dest = t.dest, u.staged = t.staged
  PROVE  /\ Visible(u) = Visible(t) /\ Restored(u) = Restored(t)
         /\ \A lo, hi : Covers(u, lo, hi) <=> Covers(t, lo, hi)
         /\ \A journal : Suits(u, journal) <=> Suits(t, journal)
         /\ \A journal : Fits(u, journal) <=> Fits(t, journal)
  BY DEF Visible, Restored, Covers, Suits, Fits, Placed, OnOneSide

\* The journal of n published entries.
LEMMA SettledFits ==
  ASSUME NEW t, NEW n \in 0 .. EntryCount, Covers(t, n, n)
  PROVE  Fits(t, Entry("publishing", n, NoIntent))
  BY EntryCountAssumption
     DEF Fits, Suits, Covers, StateIsValid, RequiredVisible, AllowedVisible, Entry, NoIntent

LEMMA IsJournal ==
  ASSUME NEW entry, entry.phase # "none"
  PROVE  entry # NoJournal
  BY DEF NoJournal, Entry

LEMMA RelinkAccounted ==
  ASSUME StorageAccounted, NEW t, Relink(t), Accounted(t),
         Restored(t) # {} /\ t.journal # NoJournal => \A u \in views : u.journal # NoJournal
  PROVE  StorageAccounted'
<1>1. tree' = t /\ views' = views \cup {t}
  BY DEF Relink
<1>2. ViewsAccounted'
  BY <1>1 DEF StorageAccounted, ViewsAccounted
<1>3. Retained'
  BY <1>1 DEF Retained
<1> QED
  BY <1>2, <1>3 DEF StorageAccounted

\* A change of the control directory or of the partial journal.
LEMMA RelinkAside ==
  ASSUME StorageAccounted, StorageOK, NEW t, Relink(t), t.dest = tree.dest, t.staged = tree.staged,
         t.journal = tree.journal, t.staging = tree.staging \/ t.staging = NoDir
  PROVE  StorageAccounted'
<1>1. Restored(t) = Restored(tree) /\ \A journal : Fits(t, journal) <=> Fits(tree, journal)
  BY SameEntries
<1>2. Accounted(tree)
  BY DEF StorageAccounted, ViewsAccounted, StorageOK
<1>3. Accounted(t)
  BY <1>1, <1>2 DEF Accounted
<1>4. Restored(t) # {} /\ t.journal # NoJournal => \A u \in views : u.journal # NoJournal
  BY <1>1 DEF StorageAccounted, Retained
<1> QED
  BY <1>3, <1>4, RelinkAccounted

\* A change while no entry is restored.
LEMMA RelinkBare ==
  ASSUME StorageAccounted, NEW t, Relink(t), Restored(t) = {}
  PROVE  StorageAccounted'
  BY RelinkAccounted DEF Accounted

LEMMA SyncAccounted ==
  ASSUME StorageAccounted, StorageOK, Sync
  PROVE  StorageAccounted'
<1>1. tree' = tree /\ views' = {tree} /\ tree \in views
  BY DEF Sync, StorageOK
<1> QED
  BY <1>1 DEF StorageAccounted, ViewsAccounted, Retained

LEMMA SameAccounted ==
  ASSUME StorageAccounted, UNCHANGED <<tree, views>>
  PROVE  StorageAccounted'
  BY DEF StorageAccounted, ViewsAccounted, Retained

LEMMA BecomeIs ==
  ASSUME JobsOK, NEW p \in Restorers, NEW k, Become(p, k)
  PROVE  job'[p] = k
  BY DEF JobsOK, Become

LEMMA IdleKnown ==
  ASSUME NEW v, NEW f, NEW t
  PROVE  Known(v, f, t, Idle)
<1>1. Aim(Idle) = "idle" /\ Idle.phase = "idle"
  BY DEF Idle, Aim, JournalPhases
<1> QED
  BY <1>1 DEF Known, Stands, Writes, Keeps, Moded, MoveRetained, BarePhases, SeenPhases,
              RollingPhases, MovingPhases, EndPhases, FullPhases, JournalPhases, Unjournaled

\* A call that is at phase a goes on to phase b, without a write of the journal.
LEMMA GotoKnown ==
  ASSUME NEW v, NEW f, NEW t, NEW j \in Job, NEW b \in Phases \ JournalPhases,
         b \notin {"unmove", "move"},
         Stands(t, j, b), Moded(f, t, j, b),
         b \notin Unjournaled /\ Restored(t) # {} => t.journal # NoJournal,
         b # "idle" /\ Cleans(j) => Restored(t) = {}
  PROVE  Known(v, f, t, [j EXCEPT !.phase = b])
<1> DEFINE k == [j EXCEPT !.phase = b]
<1>1. /\ k.phase = b /\ Aim(k) = b /\ k.i = j.i /\ k.seen = j.seen /\ k.ctl = j.ctl
      /\ k.stg = j.stg /\ k.valid = j.valid /\ k.keep = j.keep /\ k.resume = j.resume
  BY DEF Job, Aim
<1>2. Stands(t, k, b)
  BY <1>1 DEF Stands
<1>3. Moded(f, t, k, b)
  BY <1>1 DEF Moded
<1>4. Writes(t, k) /\ Keeps(t, k) /\ MoveRetained(v, k)
  BY <1>1 DEF Writes, Keeps, MoveRetained, JournalPhases, Cleans
<1> QED
  BY <1>1, <1>2, <1>3, <1>4 DEF Known

\* A call writes the journal that leads to phase b.
LEMMA RecordingKnown ==
  ASSUME NEW v, NEW f, NEW t, NEW j \in Job, NEW entry \in Journal,
         NEW b \in Phases \ JournalPhases,
         entry.phase # "none", Fits(t, entry),
         b = "unmove" => entry = Entry("rolling-back", j.i, j.i - 1),
         b = "move" => entry = Entry("publishing", j.i, j.i),
         Stands(t, j, b), Moded(f, t, j, b),
         Restored(t) # {} => t.journal # NoJournal,
         Cleans(j) => Restored(t) = {}
  PROVE  Known(v, f, t, Recording(j, entry, b))
<1> DEFINE k == Recording(j, entry, b)
<1>1. /\ k.phase = "write" /\ Aim(k) = b /\ k.i = j.i /\ k.seen = j.seen /\ k.ctl = j.ctl
      /\ k.stg = j.stg /\ k.valid = j.valid /\ k.keep = j.keep /\ k.resume = j.resume
      /\ k.entry = entry /\ k.next = b
  BY DEF Job, Aim, Recording, JournalPhases
<1>2. Stands(t, k, b)
  BY <1>1 DEF Stands
<1>3. Moded(f, t, k, b)
  BY <1>1 DEF Moded
<1>4. Writes(t, k) /\ Keeps(t, k) /\ MoveRetained(v, k)
  BY <1>1 DEF Writes, Announced, Keeps, MoveRetained, JournalPhases, Cleans
<1> QED
  BY <1>1, <1>2, <1>3, <1>4 DEF Known

LEMMA StandsAt ==
  ASSUME AccountInv, NEW p \in Restorers, NEW a, a \notin JournalPhases, At(p, a)
  PROVE  /\ Stands(tree, job[p], a)
         /\ Writes(tree, job[p])
         /\ Moded(final, tree, job[p], a)
         /\ MoveRetained(views, job[p])
  BY AimAt DEF AccountInv, KnownOf, Known

LEMMA KeepsAt ==
  ASSUME AccountInv, NEW p \in Restorers, job[p].phase \notin Unjournaled
  PROVE  /\ Restored(tree) # {} => tree.journal # NoJournal
         /\ Cleans(job[p]) => Restored(tree) = {}
  BY DEF AccountInv, KnownOf, Known, Keeps, Unjournaled

LEMMA BareAt ==
  ASSUME AccountInv, NEW p \in Restorers, job[p].phase \in BarePhases
  PROVE  Restored(tree) = {}
<1>1. Aim(job[p]) = job[p].phase
  BY DEF Aim, BarePhases, JournalPhases
<1> QED
  BY <1>1 DEF AccountInv, KnownOf, Known, Stands

LEMMA BareKnown ==
  ASSUME NEW v, NEW f, NEW t, NEW k, k.phase \in BarePhases, Restored(t) = {}
  PROVE  Known(v, f, t, k)
<1>1. Aim(k) = k.phase
  BY DEF Aim, BarePhases, JournalPhases
<1>2. Stands(t, k, k.phase) /\ Moded(f, t, k, k.phase)
  BY DEF Stands, Moded, BarePhases, SeenPhases, RollingPhases, MovingPhases, FullPhases, EndPhases
<1>3. Writes(t, k) /\ Keeps(t, k) /\ MoveRetained(v, k)
  BY DEF Writes, Keeps, MoveRetained, JournalPhases, BarePhases
<1> QED
  BY <1>1, <1>2, <1>3 DEF Known

\* A step of a call while no entry is restored.
LEMMA BareGoto ==
  ASSUME AccountInv, NEW p \in Restorers, NEW b \in BarePhases, Goto(p, b), Restored(tree') = {}
  PROVE  KnownOf(p)'
<1>1. job'[p] = [job[p] EXCEPT !.phase = b] /\ job[p] \in Job
  BY BecomeIs, JobFacts DEF Goto, AccountInv, FullInv, TypeInv
<1>2. job'[p].phase = b
  BY <1>1 DEF Job
<1> QED
  BY <1>2, BareKnown DEF KnownOf

LEMMA BareStep ==
  ASSUME AccountInv, NEW p \in Restorers, NEW b \in BarePhases, Goto(p, b),
         NEW t, Relink(t), Restored(t) = {}
  PROVE  StorageAccounted' /\ KnownOf(p)'
  BY BareGoto, RelinkBare DEF AccountInv, Relink

(***************************************************************************)
(* The calls and their rollback                                            *)
(***************************************************************************)
LEMMA NoneVisible ==
  ASSUME NEW t, Visible(t) = {}
  PROVE  Restored(t) = {}
  BY DirsAssumption DEF Visible, Restored

LEMMA FreshAccount ==
  ASSUME AccountInv, NEW p \in Restorers, Fresh(p)
  PROVE  StorageAccounted' /\ KnownOf(p)'
<1> DEFINE j == job[p]
<1>1. Restored(tree) = {}
  BY NoneVisible DEF Fresh, FreshAccepted
<1>2. j \in Job /\ "control" \in Phases \ JournalPhases /\ UNCHANGED <<tree, views, final>>
  BY JobFacts DEF Fresh, OnlyTree, AccountInv, FullInv, TypeInv, Phases, JournalPhases
<1>3. Stands(tree, j, "control") /\ Moded(final, tree, j, "control")
  BY <1>1 DEF Stands, Moded, SeenPhases, RollingPhases, MovingPhases, FullPhases, EndPhases
<1>4. Known(views, final, tree, [j EXCEPT !.phase = "control"])
  BY <1>1, <1>2, <1>3, GotoKnown
<1>5. job'[p] = [j EXCEPT !.phase = "control"]
  BY BecomeIs DEF Fresh, Goto, AccountInv, FullInv, TypeInv
<1> QED
  BY <1>2, <1>4, <1>5, SameAccounted DEF AccountInv, KnownOf

LEMMA ResumeAccount ==
  ASSUME AccountInv, NEW p \in Restorers, Resume(p)
  PROVE  StorageAccounted' /\ KnownOf(p)'
<1> DEFINE k == [Idle EXCEPT !.phase = AfterResume, !.resume = TRUE,
                             !.seen = tree.journal, !.ctl = tree.control]
<1>1. AfterResume \in {"reconcile", "discard"}
  BY DEF AfterResume
<1>2. k.phase = AfterResume /\ k.seen = tree.journal /\ k.resume /\ Aim(k) = AfterResume
  BY <1>1 DEF Idle, Aim, JournalPhases
<1>3. Restored(tree) \subseteq Visible(tree) /\ Suits(tree, tree.journal)
  BY DirsAssumption DEF Resume, ResumeAccepted, Suits, Restored, Visible
<1>4. tree.journal # NoJournal
  BY DEF Resume, ResumeAccepted, StateIsValid, NoJournal, Entry
<1>5. Known(views, final', tree, k)
  BY <1>1, <1>2, <1>3, <1>4
     DEF Known, Stands, Writes, Keeps, Moded, MoveRetained, BarePhases, SeenPhases,
         RollingPhases, MovingPhases, EndPhases, FullPhases, JournalPhases, Cleans
<1>6. job'[p] = k /\ UNCHANGED <<tree, views>>
  BY BecomeIs DEF Resume, AccountInv, FullInv, TypeInv
<1> QED
  BY <1>5, <1>6, SameAccounted DEF AccountInv, KnownOf

LEMMA DiscardPartialAccount ==
  ASSUME AccountInv, NEW p \in Restorers, DiscardPartial(p)
  PROVE  StorageAccounted' /\ KnownOf(p)'
<1> DEFINE j == job[p]
           t == [tree EXCEPT !.partial = NoJournal]
<1>1. j \in Job /\ "sync discard" \in Phases \ JournalPhases /\ tree \in Tree /\ At(p, "discard")
  BY JobFacts, TreeFacts DEF DiscardPartial, Does, AccountInv, FullInv, TypeInv, TreeOK, Phases,
                             JournalPhases
<1>2. /\ t.dest = tree.dest /\ t.staged = tree.staged /\ t.journal = tree.journal
      /\ t.staging = tree.staging
  BY <1>1 DEF Tree
<1>3. Suits(t, j.seen) /\ Restored(t) = Restored(tree)
      /\ (Restored(tree) # {} => t.journal # NoJournal) /\ (Cleans(j) => Restored(tree) = {})
  <2>1. Suits(tree, j.seen)
    BY <1>1, StandsAt DEF Stands, SeenPhases, JournalPhases
  <2>2. /\ Restored(tree) # {} => tree.journal # NoJournal
        /\ Cleans(j) => Restored(tree) = {}
    BY <1>1, KeepsAt DEF At, Unjournaled
  <2> QED
    BY <1>2, <2>1, <2>2, SameEntries
<1>4. Stands(t, j, "sync discard") /\ Moded(final, t, j, "sync discard")
  BY <1>3 DEF Stands, Moded, BarePhases, SeenPhases, RollingPhases, MovingPhases, FullPhases,
              EndPhases
<1>5. Known(views', final, t, [j EXCEPT !.phase = "sync discard"])
  BY <1>1, <1>3, <1>4, GotoKnown
<1>6. /\ job'[p] = [j EXCEPT !.phase = "sync discard"] /\ tree' = t /\ UNCHANGED final
      /\ Relink(t)
  BY BecomeIs DEF DiscardPartial, Goto, OnlyTree, Relink, AccountInv, FullInv, TypeInv
<1>7. StorageAccounted'
  BY <1>2, <1>6, RelinkAside DEF AccountInv, FullInv, TypeInv
<1> QED
  BY <1>5, <1>6, <1>7 DEF KnownOf

LEMMA ReconcileAccount ==
  ASSUME AccountInv, NEW p \in Restorers, Reconcile(p)
  PROVE  StorageAccounted' /\ KnownOf(p)'
<1> DEFINE n == Settled(tree, job[p].seen)
           j == [job[p] EXCEPT !.stg = tree.staging, !.i = n]
           j0 == [job[p] EXCEPT !.phase = "roll", !.stg = tree.staging, !.i = n]
           entry == Entry("publishing", n, NoIntent)
<1>1. /\ At(p, "reconcile") /\ Ready(p) /\ job[p] \in Job /\ job[p].seen \in Journal
      /\ tree.staging \in MaybeDir /\ UNCHANGED <<tree, views, final>>
  BY JobFacts, TreeFacts DEF Reconcile, Does, OnlyTree, AccountInv, FullInv, TypeInv
<1>2. /\ Suits(tree, job[p].seen)
      /\ Restored(tree) # {} => tree.journal # NoJournal
      /\ Cleans(job[p]) => Restored(tree) = {}
  <2>1. Suits(tree, job[p].seen)
    BY <1>1, StandsAt DEF Stands, SeenPhases, JournalPhases
  <2> QED
    BY <1>1, <2>1, KeepsAt DEF At, Unjournaled
<1>3. Held(job[p]) /\ Reconcilable(tree, job[p].seen)
  BY <1>1 DEF Ready, At
<1>4. n \in 0 .. EntryCount
  BY <1>1, EntryCountAssumption DEF Settled, Journal, NoIntent
<1>5. Covers(tree, n, n)
  BY <1>1, <1>2, <1>3, EntryCountAssumption, DirsAssumption
     DEF Covers, Suits, StateIsValid, RequiredVisible, AllowedVisible, First, Reconcilable,
         Settled, OnOneSide, Visible, Restored, Journal, NoIntent, Entries
<1>6. /\ j0 \in Job /\ j0.phase = "roll" /\ j0.i = n /\ j0.stg = tree.staging
      /\ j0.ctl = tree.control /\ (Cleans(j0) => Cleans(job[p]))
  BY <1>1, <1>3, <1>4 DEF Job, Phases, Cleans, Held
<1>7. Stands(tree, j0, "roll") /\ Moded(final, tree, j0, "roll")
  BY <1>5, <1>6 DEF Stands, Moded, BarePhases, SeenPhases, RollingPhases, MovingPhases,
                    FullPhases, EndPhases
<1>8. "roll" \in Phases \ JournalPhases /\ entry \in Journal /\ entry.phase # "none"
  BY <1>4, EntryCountAssumption DEF Phases, JournalPhases, Entry, Journal, NoIntent
<1>9. Fits(tree, entry)
  BY <1>4, <1>5, SettledFits
<1>10. Known(views, final, tree, Recording(j0, entry, "roll"))
  BY <1>2, <1>6, <1>7, <1>8, <1>9, RecordingKnown
<1>11. Known(views, final, tree, j0)
  <2>1. Aim(j0) = "roll"
    BY <1>6 DEF Aim, JournalPhases
  <2> QED
    BY <1>2, <1>6, <1>7, <2>1 DEF Known, Writes, Keeps, MoveRetained, JournalPhases
<1>12. job'[p] = j0 \/ job'[p] = Recording(j0, entry, "roll")
  BY BecomeIs DEF Reconcile, AccountInv, FullInv, TypeInv
<1> QED
  BY <1>1, <1>10, <1>11, <1>12, SameAccounted DEF AccountInv, KnownOf

LEMMA RollAccount ==
  ASSUME AccountInv, NEW p \in Restorers, Roll(p)
  PROVE  StorageAccounted' /\ KnownOf(p)'
<1> DEFINE j == job[p]
           entry == Entry("rolling-back", j.i, j.i - 1)
<1>1. /\ At(p, "roll") /\ Ready(p) /\ j \in Job /\ j.i \in 0 .. EntryCount
      /\ UNCHANGED <<tree, views, final>>
  BY JobFacts DEF Roll, Does, OnlyTree, AccountInv, FullInv, TypeInv
<1>2. /\ Covers(tree, j.i, j.i) /\ tree.control = j.ctl /\ tree.staging = j.stg
      /\ Restored(tree) # {} => tree.journal # NoJournal
      /\ Cleans(j) => Restored(tree) = {}
  <2>1. Covers(tree, j.i, j.i) /\ tree.control = j.ctl /\ tree.staging = j.stg
    BY <1>1, StandsAt DEF Stands, Writes, RollingPhases, JournalPhases
  <2> QED
    BY <1>1, <2>1, KeepsAt DEF At, Unjournaled
<1>3. {"unmove", "reset"} \subseteq Phases \ JournalPhases
  BY DEF Phases, JournalPhases
<1>4. CASE j.i = 0
  <2>1. Restored(tree) = {}
    BY <1>2, <1>4 DEF Covers, First, Restored, Entries
  <2>2. Stands(tree, j, "reset") /\ Moded(final, tree, j, "reset")
    BY <2>1 DEF Stands, Moded, SeenPhases, RollingPhases, MovingPhases, FullPhases, EndPhases
  <2>3. Known(views, final, tree, [j EXCEPT !.phase = "reset"])
    BY <1>1, <1>3, <2>1, <2>2, GotoKnown
  <2>4. job'[p] = [j EXCEPT !.phase = "reset"]
    BY <1>4, BecomeIs DEF Roll, AccountInv, FullInv, TypeInv
  <2> QED
    BY <1>1, <2>3, <2>4, SameAccounted DEF AccountInv, KnownOf
<1>5. CASE j.i # 0
  <2>1. j.i - 1 \in Entries /\ entry \in Journal /\ entry.phase # "none"
    BY <1>1, <1>5, EntryCountAssumption DEF Entries, Entry, Journal, NoIntent
  <2>2. tree.staged[j.i - 1] = NoDir /\ tree.dest[j.i - 1] # NoDir
    BY <1>1, <1>2, <1>5 DEF Ready, At, Live, Held
  <2>3. Covers(tree, j.i - 1, j.i)
    BY <1>1, <1>2, EntryCountAssumption DEF Covers, First, Entries
  <2>4. Fits(tree, entry)
    BY <1>1, <1>5, <2>1, <2>2, <2>3
       DEF Fits, Suits, Covers, StateIsValid, RequiredVisible, AllowedVisible, Placed, OnOneSide,
           Entry
  <2>5. Stands(tree, j, "unmove") /\ Moded(final, tree, j, "unmove")
    BY <1>2, <2>3 DEF Stands, Moded, BarePhases, SeenPhases, MovingPhases, FullPhases, EndPhases
  <2>6. Known(views, final, tree, Recording(j, entry, "unmove"))
    BY <1>1, <1>2, <1>3, <2>1, <2>4, <2>5, RecordingKnown
  <2>7. job'[p] = Recording(j, entry, "unmove")
    BY <1>5, BecomeIs DEF Roll, AccountInv, FullInv, TypeInv
  <2> QED
    BY <1>1, <2>6, <2>7, SameAccounted DEF AccountInv, KnownOf
<1> QED
  BY <1>4, <1>5

LEMMA UnmoveAccount ==
  ASSUME AccountInv, NEW p \in Restorers, Unmove(p)
  PROVE  StorageAccounted' /\ KnownOf(p)'
<1> DEFINE j == job[p]
           e == j.i - 1
           t == [tree EXCEPT !.staged[e] = tree.dest[e], !.dest[e] = NoDir]
<1>1. /\ At(p, "unmove") /\ Ready(p) /\ j \in Job /\ j.i \in 0 .. EntryCount /\ j.i > 0
      /\ tree \in Tree
  <2>1. Holding(j, "unmove")
    BY AtHolds DEF Unmove, Does, AccountInv, FullInv, TypeInv, Phases, JournalPhases
  <2> QED
    BY <2>1, JobFacts, TreeFacts
       DEF Unmove, Does, AccountInv, FullInv, TypeInv, TreeOK, Holding, CountPhases
<1>2. /\ Covers(tree, e, j.i) /\ tree.control = j.ctl /\ tree.staging = j.stg
      /\ tree.journal = Entry("rolling-back", j.i, e)
      /\ Restored(tree) # {} => tree.journal # NoJournal
      /\ Cleans(j) => Restored(tree) = {}
  <2>1. /\ Covers(tree, e, j.i) /\ tree.control = j.ctl /\ tree.staging = j.stg
        /\ tree.journal = Entry("rolling-back", j.i, e)
    BY <1>1, StandsAt DEF Stands, Writes, RollingPhases, JournalPhases, At
  <2> QED
    BY <1>1, <2>1, KeepsAt DEF At, Unjournaled
<1>3. e \in Entries /\ tree.dest[e] # NoDir
  BY <1>1, EntryCountAssumption DEF Entries, Ready, At
<1>4. /\ t.control = tree.control /\ t.staging = tree.staging /\ t.journal = tree.journal
      /\ \A f \in Entries : t.dest[f] = IF f = e THEN NoDir ELSE tree.dest[f]
      /\ t.staged[e] = tree.dest[e]
  BY <1>1, <1>3 DEF Tree
<1>5. /\ First(e) \subseteq Visible(t) /\ Restored(t) \subseteq First(e)
      /\ Restored(t) \subseteq Restored(tree)
  BY <1>1, <1>2, <1>3, <1>4, DirsAssumption DEF Covers, First, Visible, Restored, Entries
<1>6. Fits(t, t.journal)
  <2>1. First(e) \subseteq First(j.i)
    BY <1>1, EntryCountAssumption DEF First, Entries
  <2>2. Suits(t, t.journal)
    BY <1>1, <1>2, <1>4, <1>5, <2>1
       DEF Suits, StateIsValid, RequiredVisible, AllowedVisible, Entry
  <2>3. t.journal.intent = e /\ Placed(t, e)
    BY <1>2, <1>3, <1>4 DEF Placed, OnOneSide, Entry
  <2> QED
    BY <2>2, <2>3 DEF Fits
<1>7. Stands(t, j, "sync unmove") /\ Moded(final, t, j, "sync unmove")
  BY <1>2, <1>4, <1>5
     DEF Stands, Moded, Covers, BarePhases, SeenPhases, MovingPhases, FullPhases, EndPhases
<1>8. Known(views', final, t, [j EXCEPT !.phase = "sync unmove"])
  <2>1. "sync unmove" \in Phases \ JournalPhases
    BY DEF Phases, JournalPhases
  <2> QED
    BY <1>1, <1>2, <1>4, <1>5, <1>7, <2>1, GotoKnown
<1>9. /\ job'[p] = [j EXCEPT !.phase = "sync unmove"] /\ tree' = t /\ UNCHANGED final
      /\ Relink(t)
  BY BecomeIs DEF Unmove, Goto, OnlyTree, Relink, AccountInv, FullInv, TypeInv
<1>10. StorageAccounted'
  BY <1>4, <1>5, <1>6, <1>9, RelinkAccounted DEF Accounted, AccountInv, StorageAccounted, Retained
<1> QED
  BY <1>8, <1>9, <1>10 DEF KnownOf

LEMMA SyncUnmoveAccount ==
  ASSUME AccountInv, NEW p \in Restorers, SyncUnmove(p)
  PROVE  StorageAccounted' /\ KnownOf(p)'
<1> DEFINE n == job[p].i - 1
           j == [job[p] EXCEPT !.i = n]
           entry == Entry("publishing", n, NoIntent)
<1>1. /\ At(p, "sync unmove") /\ job[p] \in Job /\ job[p].i \in 0 .. EntryCount /\ job[p].i > 0
  <2>1. Holding(job[p], "sync unmove")
    BY AtHolds DEF SyncUnmove, Does, AccountInv, FullInv, TypeInv, Phases, JournalPhases
  <2> QED
    BY <2>1, JobFacts DEF SyncUnmove, Does, AccountInv, FullInv, TypeInv, Holding, CountPhases
<1>2. /\ Covers(tree, n, n) /\ tree.control = job[p].ctl /\ tree.staging = job[p].stg
      /\ Restored(tree) # {} => tree.journal # NoJournal
      /\ Cleans(job[p]) => Restored(tree) = {}
  <2>1. Covers(tree, n, n) /\ tree.control = job[p].ctl /\ tree.staging = job[p].stg
    BY <1>1, StandsAt DEF Stands, Writes, RollingPhases, JournalPhases
  <2> QED
    BY <1>1, <2>1, KeepsAt DEF At, Unjournaled
<1>3. n \in 0 .. EntryCount /\ entry \in Journal /\ entry.phase # "none"
  <2>1. n \in 0 .. EntryCount
    BY <1>1, Counts
  <2> QED
    BY <2>1, EntryCountAssumption DEF Entry, Journal, NoIntent
<1>4. /\ j \in Job /\ j.i = n /\ j.ctl = job[p].ctl /\ j.stg = job[p].stg
      /\ Cleans(j) => Cleans(job[p])
  BY <1>1, <1>3 DEF Job, Cleans
<1>5. Fits(tree, entry)
  BY <1>2, <1>3, SettledFits
<1>6. Stands(tree, j, "roll") /\ Moded(final, tree, j, "roll")
  BY <1>2, <1>4
     DEF Stands, Moded, BarePhases, SeenPhases, MovingPhases, FullPhases, EndPhases
<1>7. Known({tree}, final, tree, Recording(j, entry, "roll"))
  <2>1. "roll" \in Phases \ JournalPhases
    BY DEF Phases, JournalPhases
  <2> QED
    BY <1>2, <1>3, <1>4, <1>5, <1>6, <2>1, RecordingKnown
<1>8. /\ job'[p] = Recording(j, entry, "roll") /\ tree' = tree /\ views' = {tree}
      /\ UNCHANGED final /\ Sync
  BY BecomeIs DEF SyncUnmove, OnlyTree, Sync, AccountInv, FullInv, TypeInv
<1>9. StorageAccounted'
  BY <1>8, SyncAccounted DEF AccountInv, FullInv, TypeInv
<1> QED
  BY <1>7, <1>8, <1>9 DEF KnownOf

LEMMA EmptyStagingAccount ==
  ASSUME AccountInv, NEW p \in Restorers, EmptyStaging(p)
  PROVE  StorageAccounted' /\ KnownOf(p)'
<1> DEFINE j == job[p]
<1>1. PICK e \in Entries : Relink([tree EXCEPT !.staged[e] = NoDir])
  BY DEF EmptyStaging
<1> DEFINE t == [tree EXCEPT !.staged[e] = NoDir]
<1>2. tree \in Tree /\ job[p] \in Job /\ (At(p, "reset") \/ At(p, "cleanup"))
  BY JobFacts, TreeFacts DEF EmptyStaging, Does, AccountInv, FullInv, TypeInv, TreeOK
<1>3. t.dest = tree.dest /\ t.journal = tree.journal /\ t.control = tree.control
  BY <1>2 DEF Tree
<1>4. Restored(tree) = {}
  BY <1>2, BareAt DEF At, BarePhases
<1>5. Restored(t) = {}
  BY <1>3, <1>4 DEF Restored
<1>6. Known(views', final, t, j)
  <2>1. j.phase \in BarePhases
    BY <1>2 DEF At, BarePhases
  <2> QED
    BY <1>5, <2>1, BareKnown
<1>7. StorageAccounted'
  BY <1>1, <1>5, RelinkBare DEF AccountInv
<1>8. job' = job /\ tree' = t /\ UNCHANGED final
  BY <1>1 DEF EmptyStaging, OnlyTree, Relink
<1> QED
  BY <1>6, <1>7, <1>8 DEF KnownOf

LEMMA ResetStagingAccount ==
  ASSUME AccountInv, NEW p \in Restorers, ResetStaging(p)
  PROVE  StorageAccounted' /\ KnownOf(p)'
<1> DEFINE t == [tree EXCEPT !.staging = NoDir]
<1>1. At(p, "reset") /\ tree \in Tree
  BY TreeFacts DEF ResetStaging, Does, AccountInv, FullInv, TypeInv, TreeOK
<1>2. Restored(tree) = {}
  BY <1>1, BareAt DEF At, BarePhases
<1>3. Restored(t) = {}
  BY <1>1, <1>2 DEF Restored, Tree
<1>4. Relink(t) /\ Goto(p, "sync reset") /\ UNCHANGED final
  BY DEF ResetStaging, OnlyTree
<1> QED
  BY <1>3, <1>4, BareStep DEF BarePhases

(***************************************************************************)
(* The materialization                                                     *)
(***************************************************************************)
LEMMA MakeControlAccount ==
  ASSUME AccountInv, NEW p \in Restorers, MakeControl(p)
  PROVE  StorageAccounted' /\ KnownOf(p)'
<1>1. PICK d \in NewDirs : /\ Relink([tree EXCEPT !.control = d])
                           /\ Become(p, [job[p] EXCEPT !.ctl = d, !.phase = "sync control"])
  BY DEF MakeControl
<1> DEFINE t == [tree EXCEPT !.control = d]
<1>2. tree \in Tree /\ job[p] \in Job /\ job[p].phase = "control"
  BY JobFacts, TreeFacts DEF MakeControl, Does, At, AccountInv, FullInv, TypeInv, TreeOK
<1>3. Restored(t) = {}
  BY <1>2, BareAt DEF Restored, Tree, BarePhases
<1>4. job'[p].phase \in BarePhases
  <2>1. job'[p] = [job[p] EXCEPT !.ctl = d, !.phase = "sync control"]
    BY <1>1, BecomeIs DEF AccountInv, FullInv, TypeInv
  <2> QED
    BY <1>2, <2>1 DEF Job, BarePhases
<1>5. Known(views', final', t, job'[p])
  BY <1>3, <1>4, BareKnown
<1> QED
  BY <1>1, <1>3, <1>5, RelinkBare DEF AccountInv, KnownOf, Relink

LEMMA MakeStagingAccount ==
  ASSUME AccountInv, NEW p \in Restorers, MakeStaging(p)
  PROVE  StorageAccounted' /\ KnownOf(p)'
<1>1. PICK d \in NewDirs : /\ Relink([tree EXCEPT !.staging = d])
                           /\ Become(p, [job[p] EXCEPT !.stg = d, !.phase = "sync staging"])
  BY DEF MakeStaging
<1> DEFINE t == [tree EXCEPT !.staging = d]
<1>2. tree \in Tree /\ job[p] \in Job /\ job[p].phase = "staging"
  BY JobFacts, TreeFacts DEF MakeStaging, Does, At, AccountInv, FullInv, TypeInv, TreeOK
<1>3. Restored(t) = {}
  BY <1>2, BareAt DEF Restored, Tree, BarePhases
<1>4. job'[p].phase \in BarePhases
  <2>1. job'[p] = [job[p] EXCEPT !.stg = d, !.phase = "sync staging"]
    BY <1>1, BecomeIs DEF AccountInv, FullInv, TypeInv
  <2> QED
    BY <1>2, <2>1 DEF Job, BarePhases
<1>5. Known(views', final', t, job'[p])
  BY <1>3, <1>4, BareKnown
<1> QED
  BY <1>1, <1>3, <1>5, RelinkBare DEF AccountInv, KnownOf, Relink

\* A journal that is written while no entry is restored.
LEMMA BareRecording ==
  ASSUME AccountInv, NEW p \in Restorers, job[p].phase \in BarePhases,
         NEW a \in {"materializing", "staged"}, NEW b \in BarePhases \cap Phases,
         Become(p, Recording(job[p], Entry(a, 0, NoIntent), b)), UNCHANGED tree
  PROVE  KnownOf(p)'
<1> DEFINE entry == Entry(a, 0, NoIntent)
<1>1. Restored(tree) = {}
  BY BareAt
<1>2. job[p] \in Job /\ b \in Phases \ JournalPhases
  BY JobFacts DEF AccountInv, FullInv, TypeInv, BarePhases, JournalPhases
<1>3. entry \in Journal /\ entry.phase # "none"
  BY EntryCountAssumption DEF Entry, Journal, NoIntent
<1>4. Fits(tree, entry)
  BY <1>1 DEF Fits, Suits, StateIsValid, RequiredVisible, AllowedVisible, First, Entry, Entries,
              NoIntent
<1>5. Stands(tree, job[p], b) /\ Moded(final', tree, job[p], b) /\ b \notin {"unmove", "move"}
  BY <1>1 DEF Stands, Moded, BarePhases, SeenPhases, RollingPhases, MovingPhases, FullPhases,
              EndPhases
<1>6. Known(views', final', tree, Recording(job[p], entry, b))
  BY <1>1, <1>2, <1>3, <1>4, <1>5, RecordingKnown
<1>7. job'[p] = Recording(job[p], entry, b)
  BY BecomeIs DEF AccountInv, FullInv, TypeInv
<1> QED
  BY <1>6, <1>7 DEF KnownOf

LEMMA SyncStagingAccount ==
  ASSUME AccountInv, NEW p \in Restorers, SyncStaging(p)
  PROVE  StorageAccounted' /\ KnownOf(p)'
<1>1. job[p].phase \in BarePhases /\ "fill" \in BarePhases \cap Phases
  BY DEF SyncStaging, Does, At, BarePhases, Phases
<1>2. KnownOf(p)'
  BY <1>1, BareRecording DEF SyncStaging, Sync
<1> QED
  BY <1>2, SyncAccounted DEF SyncStaging, AccountInv, FullInv, TypeInv

LEMMA SyncStepAccount ==
  ASSUME AccountInv, NEW p \in Restorers, SyncStep(p)
  PROVE  StorageAccounted' /\ KnownOf(p)'
<1> DEFINE j == job[p]
           a == j.phase
           b == SyncNext[a]
<1>1. a \in {"sync discard", "sync reset", "sync control", "sync drop staging", "sync drop journal"}
  BY DEF SyncStep, SyncNext
<1>2. /\ a = "sync discard" => b = "reconcile"
      /\ a = "sync reset" => b = "sync control"
      /\ a = "sync control" => b = "staging"
      /\ a = "sync drop staging" => b = "drop journal"
      /\ a = "sync drop journal" => b = "drop control"
  BY DEF SyncNext
<1>3. Goto(p, b) /\ Sync /\ UNCHANGED <<tree, final>> /\ j \in Job
  BY JobFacts DEF SyncStep, Sync, OnlyTree, AccountInv, FullInv, TypeInv
<1>4. StorageAccounted'
  BY <1>3, SyncAccounted DEF AccountInv, FullInv, TypeInv
<1>5. CASE a \in {"sync reset", "sync control"}
  <2>1. b \in BarePhases /\ a \in BarePhases
    BY <1>2, <1>5 DEF BarePhases
  <2> QED
    BY <1>3, <1>4, <2>1, BareAt, BareGoto
<1>6. CASE a \in {"sync discard", "sync drop staging", "sync drop journal"}
  <2>1. /\ b \in Phases \ JournalPhases /\ b \notin {"unmove", "move", "idle"}
        /\ a \notin JournalPhases
    BY <1>2, <1>6 DEF Phases, JournalPhases
  <2>2. Stands(tree, j, a) /\ Moded(final, tree, j, a)
    BY <2>1, StandsAt DEF At
  <2>3. Stands(tree, j, b)
    BY <1>2, <1>6, <2>2 DEF Stands, BarePhases, SeenPhases, RollingPhases, MovingPhases,
                            FullPhases, EndPhases
  <2>4. Moded(final, tree, j, b)
    BY <1>2, <1>6, <2>2 DEF Moded, MovingPhases, FullPhases, EndPhases
  <2>5. /\ b \notin Unjournaled /\ Restored(tree) # {} => tree.journal # NoJournal
        /\ Cleans(j) => Restored(tree) = {}
    BY <1>2, <1>6, StandsAt DEF AccountInv, KnownOf, Known, Keeps, Unjournaled
  <2>6. Known(views', final, tree, [j EXCEPT !.phase = b])
    BY <1>3, <2>1, <2>3, <2>4, <2>5, GotoKnown
  <2>7. job'[p] = [j EXCEPT !.phase = b]
    BY <1>3, BecomeIs DEF Goto, AccountInv, FullInv, TypeInv
  <2> QED
    BY <1>3, <1>4, <2>6, <2>7 DEF KnownOf
<1> QED
  BY <1>1, <1>5, <1>6

\* A step of the write of a journal leaves the entries as they are.
LEMMA JournalKnown ==
  ASSUME AccountInv, NEW p \in Restorers, job[p].phase \in {"write", "rename"},
         NEW b \in {"rename", "sync journal"}, NEW t \in Tree,
         t.dest = tree.dest, t.staged = tree.staged, t.control = tree.control,
         t.staging = tree.staging,
         b = "rename" => t.journal = tree.journal /\ t.partial = job[p].entry,
         b = "sync journal" => t.journal = job[p].entry
  PROVE  Known(views', final, t, [job[p] EXCEPT !.phase = b])
<1> DEFINE j == job[p]
           k == [j EXCEPT !.phase = b]
<1>1. /\ k.phase = b /\ k.i = j.i /\ k.seen = j.seen /\ k.ctl = j.ctl /\ k.next = j.next
      /\ k.stg = j.stg /\ k.valid = j.valid /\ k.keep = j.keep /\ k.resume = j.resume
      /\ k.entry = j.entry
  BY JobFacts DEF Job, AccountInv, FullInv, TypeInv
<1>2. Aim(k) = j.next /\ Aim(j) = j.next
  BY <1>1 DEF Aim, JournalPhases
<1>3. Stands(tree, j, j.next) /\ Writes(tree, j) /\ Keeps(tree, j) /\ Moded(final, tree, j, j.next)
  BY <1>2 DEF AccountInv, KnownOf, Known
<1>4. /\ Visible(t) = Visible(tree) /\ Restored(t) = Restored(tree)
      /\ \A lo, hi : Covers(t, lo, hi) <=> Covers(tree, lo, hi)
      /\ \A journal : Suits(t, journal) <=> Suits(tree, journal)
      /\ \A journal : Fits(t, journal) <=> Fits(tree, journal)
  BY SameEntries
<1>5. Stands(t, k, j.next)
  <2>1. Visible(t) = Visible(tree) /\ Restored(t) = Restored(tree)
    BY <1>4
  <2> QED
    BY <1>1, <1>3, <2>1 DEF Stands, Covers, Suits
<1>6. Moded(final, t, k, j.next)
  BY <1>1, <1>3 DEF Moded
<1>7. Writes(t, k)
  BY <1>1, <1>3, <1>4 DEF Writes, Announced, JournalPhases
<1>8. Keeps(t, k)
  <2>1. Restored(tree) # {} => t.journal # NoJournal
    <3>1. Restored(tree) # {} => tree.journal # NoJournal
      BY <1>3 DEF Keeps, Unjournaled
    <3>2. j.entry # NoJournal
      <4>1. j.entry.phase # "none"
        BY <1>3 DEF Writes, JournalPhases
      <4> QED
        BY <4>1, IsJournal
    <3> QED
      BY <3>1, <3>2
  <2>2. Cleans(k) => Restored(tree) = {}
    BY <1>1, <1>3 DEF Keeps, Cleans
  <2> QED
    BY <1>1, <1>4, <2>1, <2>2 DEF Keeps
<1> QED
  BY <1>1, <1>2, <1>5, <1>6, <1>7, <1>8 DEF Known, MoveRetained

LEMMA WritePartialAccount ==
  ASSUME AccountInv, NEW p \in Restorers, WritePartial(p)
  PROVE  StorageAccounted' /\ KnownOf(p)'
<1> DEFINE t == [tree EXCEPT !.partial = job[p].entry]
<1>1. job[p].phase = "write" /\ tree \in Tree /\ job[p].entry \in Journal
  BY JobFacts, TreeFacts DEF WritePartial, Does, At, AccountInv, FullInv, TypeInv, TreeOK
<1>2. /\ t \in Tree /\ t.dest = tree.dest /\ t.staged = tree.staged /\ t.control = tree.control
      /\ t.staging = tree.staging /\ t.journal = tree.journal /\ t.partial = job[p].entry
  BY <1>1 DEF Tree
<1>3. Known(views', final, t, [job[p] EXCEPT !.phase = "rename"])
  BY <1>1, <1>2, JournalKnown
<1>4. /\ job'[p] = [job[p] EXCEPT !.phase = "rename"] /\ tree' = t /\ UNCHANGED final
      /\ Relink(t)
  BY BecomeIs DEF WritePartial, Goto, OnlyTree, Relink, AccountInv, FullInv, TypeInv
<1>5. StorageAccounted'
  BY <1>2, <1>4, RelinkAside DEF AccountInv, FullInv, TypeInv
<1> QED
  BY <1>3, <1>4, <1>5 DEF KnownOf

LEMMA RenamePartialAccount ==
  ASSUME AccountInv, NEW p \in Restorers, RenamePartial(p)
  PROVE  StorageAccounted' /\ KnownOf(p)'
<1> DEFINE t == [tree EXCEPT !.journal = tree.partial, !.partial = NoJournal]
<1>1. job[p].phase = "rename" /\ tree \in Tree
  BY TreeFacts DEF RenamePartial, Does, At, AccountInv, FullInv, TypeInv, TreeOK
<1>2. tree.partial = job[p].entry /\ Fits(tree, job[p].entry) /\ job[p].entry.phase # "none"
  BY <1>1 DEF AccountInv, KnownOf, Known, Writes, JournalPhases
<1>3. /\ t \in Tree /\ t.dest = tree.dest /\ t.staged = tree.staged /\ t.control = tree.control
      /\ t.staging = tree.staging /\ t.journal = job[p].entry
  BY <1>1, <1>2, NoJournalType DEF Tree
<1>4. Known(views', final, t, [job[p] EXCEPT !.phase = "sync journal"])
  BY <1>1, <1>3, JournalKnown
<1>5. Fits(t, t.journal) /\ Restored(t) = Restored(tree)
  BY <1>2, <1>3, SameEntries
<1>6. Restored(t) # {} => \A u \in views : u.journal # NoJournal
  <2>1. Restored(tree) # {} => tree.journal # NoJournal
    BY <1>1, KeepsAt DEF Unjournaled
  <2> QED
    BY <1>5, <2>1 DEF AccountInv, StorageAccounted, Retained
<1>7. /\ job'[p] = [job[p] EXCEPT !.phase = "sync journal"] /\ tree' = t /\ UNCHANGED final
      /\ Relink(t)
  BY BecomeIs DEF RenamePartial, Goto, OnlyTree, Relink, AccountInv, FullInv, TypeInv
<1>8. StorageAccounted'
  BY <1>5, <1>6, <1>7, RelinkAccounted DEF AccountInv, Accounted
<1> QED
  BY <1>4, <1>7, <1>8 DEF KnownOf

LEMMA SyncJournalAccount ==
  ASSUME AccountInv, NEW p \in Restorers, SyncJournal(p)
  PROVE  StorageAccounted' /\ KnownOf(p)'
<1> DEFINE j == job[p]
           b == j.next
           k == [j EXCEPT !.phase = b, !.keep = j.keep \/ b = "move"]
<1>1. j.phase = "sync journal" /\ j \in Job /\ b \in Phases \ JournalPhases
  BY JobFacts DEF SyncJournal, Does, At, AccountInv, FullInv, TypeInv, Holding, Aim, JournalPhases
<1>2. /\ k.phase = b /\ k.i = j.i /\ k.seen = j.seen /\ k.ctl = j.ctl
      /\ k.stg = j.stg /\ k.valid = j.valid /\ k.resume = j.resume
      /\ j.keep => k.keep
      /\ b = "move" => k.keep
  BY <1>1 DEF Job
<1>3. Aim(k) = b /\ Aim(j) = b
  BY <1>1, <1>2 DEF Aim, JournalPhases
<1>4. Stands(tree, j, b) /\ Writes(tree, j) /\ Keeps(tree, j) /\ Moded(final, tree, j, b)
  BY <1>3 DEF AccountInv, KnownOf, Known
<1>5. tree.journal = j.entry /\ tree.journal # NoJournal /\ Announced(j)
  <2>1. tree.journal = j.entry /\ j.entry.phase # "none" /\ Announced(j)
    BY <1>1, <1>4 DEF Writes, JournalPhases
  <2> QED
    BY <2>1 DEF NoJournal, Entry
<1>6. Stands(tree, k, b)
  BY <1>2, <1>4 DEF Stands
<1>7. Moded(final, tree, k, b)
  BY <1>2, <1>4 DEF Moded
<1>8. Writes(tree, k)
  BY <1>1, <1>2, <1>5 DEF Writes, Announced, JournalPhases
<1>9. Keeps(tree, k)
  <2>1. Cleans(k) => Cleans(j)
    BY <1>2 DEF Cleans
  <2> QED
    BY <1>1, <1>2, <1>4, <1>5, <2>1 DEF Keeps
<1>10. MoveRetained({tree}, k)
  BY <1>5 DEF MoveRetained
<1>11. Known({tree}, final, tree, k)
  BY <1>3, <1>6, <1>7, <1>8, <1>9, <1>10 DEF Known
<1>12. job'[p] = k /\ tree' = tree /\ views' = {tree} /\ UNCHANGED final /\ Sync
  BY BecomeIs DEF SyncJournal, OnlyTree, Sync, AccountInv, FullInv, TypeInv
<1>13. StorageAccounted'
  BY <1>12, SyncAccounted DEF AccountInv, FullInv, TypeInv
<1> QED
  BY <1>11, <1>12, <1>13 DEF KnownOf

LEMMA FillAccount ==
  ASSUME AccountInv, NEW p \in Restorers, Fill(p)
  PROVE  StorageAccounted' /\ KnownOf(p)'
<1> DEFINE t == [tree EXCEPT !.staged = [e \in Entries |-> job[p].stg]]
<1>1. job[p].phase \in BarePhases /\ tree \in Tree
  BY TreeFacts DEF Fill, Does, At, AccountInv, FullInv, TypeInv, TreeOK, BarePhases
<1>2. Restored(t) = {}
  BY <1>1, BareAt DEF Restored, Tree
<1>3. Relink(t) /\ Goto(p, "stream")
  BY DEF Fill
<1> QED
  BY <1>2, <1>3, BareStep DEF BarePhases

LEMMA StreamAccount ==
  ASSUME AccountInv, NEW p \in Restorers, Stream(p)
  PROVE  StorageAccounted' /\ KnownOf(p)'
<1>1. job[p].phase \in BarePhases /\ Goto(p, "finish") /\ UNCHANGED <<tree, views>>
  BY DEF Stream, Does, At, BarePhases
<1>2. Restored(tree') = {}
  BY <1>1, BareAt
<1> QED
  BY <1>1, <1>2, BareGoto, SameAccounted DEF AccountInv, BarePhases

LEMMA FinishAccount ==
  ASSUME AccountInv, NEW p \in Restorers, Finish(p)
  PROVE  StorageAccounted' /\ KnownOf(p)'
<1>1. job[p].phase \in BarePhases /\ Goto(p, "validate") /\ UNCHANGED <<tree, views>>
  BY DEF Finish, Does, At, BarePhases
<1>2. Restored(tree') = {}
  BY <1>1, BareAt
<1> QED
  BY <1>1, <1>2, BareGoto, SameAccounted DEF AccountInv, BarePhases

LEMMA ValidateStagingAccount ==
  ASSUME AccountInv, NEW p \in Restorers, ValidateStaging(p)
  PROVE  StorageAccounted' /\ KnownOf(p)'
<1>1. job[p].phase \in BarePhases /\ "staged" \in BarePhases \cap Phases
  BY DEF ValidateStaging, Does, At, BarePhases, Phases
<1>2. KnownOf(p)'
  BY <1>1, BareRecording DEF ValidateStaging
<1> QED
  BY <1>2, SameAccounted DEF ValidateStaging, AccountInv

(***************************************************************************)
(* The publication                                                         *)
(***************************************************************************)
LEMMA IdleAccount ==
  ASSUME AccountInv, NEW p \in Restorers, Become(p, Idle)
  PROVE  KnownOf(p)'
  BY BecomeIs, IdleKnown DEF AccountInv, FullInv, TypeInv, KnownOf

LEMMA PauseAccount ==
  ASSUME AccountInv, NEW p \in Restorers, Pause(p)
  PROVE  StorageAccounted' /\ KnownOf(p)'
  BY IdleAccount, SameAccounted DEF Pause, AccountInv

LEMMA StagedAccount ==
  ASSUME AccountInv, NEW p \in Restorers, Staged(p)
  PROVE  StorageAccounted' /\ KnownOf(p)'
<1>1. CASE Pause(p)
  BY <1>1, PauseAccount
<1>2. CASE ~ Pause(p)
  <2>1. job[p].phase \in BarePhases /\ Goto(p, "preflight") /\ UNCHANGED <<tree, views>>
    BY <1>2 DEF Staged, Does, At, BarePhases
  <2>2. Restored(tree') = {}
    BY <2>1, BareAt
  <2> QED
    BY <2>1, <2>2, BareGoto, SameAccounted DEF AccountInv, BarePhases
<1> QED
  BY <1>1, <1>2

\* The intent of the first entry that has no place yet.
LEMMA NextEntryKnown ==
  ASSUME NEW v, NEW f, NEW t \in Tree, NEW j \in Job, NEW n \in Entries,
         Covers(t, n, n),
         \A e \in Entries : e >= n => t.staged[e] # NoDir,
         \A e \in Entries : e < n => j.valid[e] \in Dirs,
         Restored(t) # {} => t.journal # NoJournal,
         Cleans(j) => Restored(t) = {}
  PROVE  Known(v, f, t, NextEntry(j, n))
<1> DEFINE k == [j EXCEPT !.i = n]
           entry == Entry("publishing", n, n)
<1>1. k \in Job /\ k.i = n /\ k.valid = j.valid /\ (Cleans(k) => Cleans(j))
  BY Counts DEF Job, Cleans
<1>2. entry \in Journal /\ entry.phase # "none" /\ entry = Entry("publishing", k.i, k.i)
  BY <1>1, EntryCountAssumption DEF Entry, Journal, NoIntent, Entries
<1>3. "move" \in Phases \ JournalPhases /\ "move" \in MovingPhases
  BY DEF Phases, JournalPhases, MovingPhases
<1>4. Suits(t, entry)
  <2>1. First(n) \subseteq First(n + 1)
    BY EntryCountAssumption DEF First, Entries
  <2>2. StateIsValid(entry)
    BY EntryCountAssumption DEF StateIsValid, Entry, Entries, NoIntent
  <2> QED
    BY <2>1, <2>2 DEF Suits, Covers, RequiredVisible, AllowedVisible, Entry
<1>5. Placed(t, n)
  <2>1. t.staged[n] # NoDir /\ n \notin First(n)
    BY EntryCountAssumption DEF First, Entries
  <2>2. t.dest[n] \notin Dirs
    BY <2>1 DEF Covers, Restored
  <2>3. t.dest[n] \in {NoDir, Foreign}
    BY <2>2 DEF Tree, Item, MaybeDir
  <2> QED
    BY <2>1, <2>3 DEF Placed, OnOneSide
<1>6. Fits(t, entry)
  BY <1>4, <1>5 DEF Fits, Entry
<1>7. Stands(t, k, "move")
  <2>1. Covers(t, k.i, k.i)
    BY <1>1
  <2>2. \A e \in Entries : e > k.i \/ e = k.i => t.staged[e] # NoDir
    BY <1>1, EntryCountAssumption DEF Entries
  <2> QED
    BY <2>1, <2>2 DEF Stands, BarePhases, SeenPhases, RollingPhases, FullPhases, EndPhases
<1>8. Moded(f, t, k, "move")
  BY <1>1 DEF Moded, FullPhases, EndPhases
<1>9. Known(v, f, t, Recording(k, entry, "move"))
  BY <1>1, <1>2, <1>3, <1>6, <1>7, <1>8, RecordingKnown
<1> QED
  BY <1>9 DEF NextEntry

LEMMA PreflightAccount ==
  ASSUME AccountInv, NEW p \in Restorers, Preflight(p)
  PROVE  StorageAccounted' /\ KnownOf(p)'
<1> DEFINE j == job[p]
<1>1. /\ j.phase = "preflight" /\ Ready(p) /\ j \in Job /\ tree \in Tree
      /\ UNCHANGED <<tree, views, final>>
  BY JobFacts, TreeFacts
     DEF Preflight, Does, At, OnlyTree, AccountInv, FullInv, TypeInv, TreeOK
<1>2. Restored(tree) = {}
  BY <1>1, BareAt DEF BarePhases
<1>3. Covers(tree, 0, 0)
  BY <1>2, EntryCountAssumption DEF Covers, First, Entries
<1>4. \A e \in Entries : tree.staged[e] # NoDir
  <2>1. j.stg \in Dirs
    BY <1>1, AtHolds DEF At, AccountInv, FullInv, TypeInv, Holding, StagingPhases, Phases,
                         JournalPhases
  <2>2. AllStaged(j)
    BY <1>1 DEF Ready, At
  <2> QED
    BY <2>1, <2>2, DirsAssumption DEF AllStaged
<1>5. \A e \in Entries : ~ (e < 0)
  BY EntryCountAssumption DEF Entries
<1>6. Known(views, final, tree, NextEntry(j, 0))
  BY <1>1, <1>2, <1>3, <1>4, <1>5, Counts, NextEntryKnown
<1>7. job'[p] = NextEntry(j, 0)
  BY BecomeIs DEF Preflight, AccountInv, FullInv, TypeInv
<1> QED
  BY <1>1, <1>6, <1>7, SameAccounted DEF AccountInv, KnownOf

LEMMA MoveAccount ==
  ASSUME AccountInv, NEW p \in Restorers, Move(p)
  PROVE  StorageAccounted' /\ KnownOf(p)'
<1> DEFINE j == job[p]
           n == j.i
           t == [tree EXCEPT !.dest[n] = tree.staged[n], !.staged[n] = NoDir]
<1>1. At(p, "move") /\ j.phase = "move" /\ Ready(p) /\ j \in Job /\ tree \in Tree /\ n \in Entries
  <2>1. Holding(j, "move")
    BY AtHolds DEF Move, Does, AccountInv, FullInv, TypeInv, Phases, JournalPhases
  <2> QED
    BY <2>1, JobFacts, TreeFacts
       DEF Move, Does, At, AccountInv, FullInv, TypeInv, TreeOK, Holding, EntryPhases
<1>2. /\ Stands(tree, j, "move") /\ Writes(tree, j) /\ Moded(final, tree, j, "move")
      /\ MoveRetained(views, j)
  BY <1>1, StandsAt DEF JournalPhases
<1>3. j.keep
  BY <1>1 DEF AccountInv, KnownOf, Known, Keeps
<1>4. /\ Covers(tree, n, n) /\ tree.journal = Entry("publishing", n, n)
      /\ \A e \in Entries : e > n => tree.staged[e] # NoDir
      /\ \A u \in views : u.journal # NoJournal
  BY <1>1, <1>2 DEF Stands, Writes, MovingPhases, MoveRetained
<1>5. tree.staged[n] # NoDir
  BY <1>1 DEF Ready, At, MayPublish
<1>6. /\ t.control = tree.control /\ t.staging = tree.staging /\ t.journal = tree.journal
      /\ \A e \in Entries : t.dest[e] = IF e = n THEN tree.staged[n] ELSE tree.dest[e]
      /\ \A e \in Entries : t.staged[e] = IF e = n THEN NoDir ELSE tree.staged[e]
  BY <1>1 DEF Tree
<1>7. Covers(t, n, n + 1)
  BY <1>1, <1>4, <1>5, <1>6, EntryCountAssumption DEF Covers, First, Visible, Restored, Entries
<1>8. Fits(t, t.journal)
  <2>1. Suits(t, t.journal)
    <3>1. StateIsValid(t.journal)
      BY <1>1, <1>4, <1>6, EntryCountAssumption DEF StateIsValid, Entry, Entries, NoIntent
    <3>2. t.journal.intent # NoIntent
      BY <1>1, <1>4, <1>6, EntryCountAssumption DEF Entry, Entries, NoIntent
    <3> QED
      BY <1>4, <1>6, <1>7, <3>1, <3>2 DEF Suits, Covers, RequiredVisible, AllowedVisible, Entry
  <2>2. t.journal.intent = n /\ Placed(t, n)
    BY <1>1, <1>4, <1>5, <1>6 DEF Placed, OnOneSide, Entry
  <2> QED
    BY <2>1, <2>2 DEF Fits
<1>9. Stands(t, j, "check")
  <2>1. \A e \in Entries : e > n => t.staged[e] # NoDir
    BY <1>1, <1>4, <1>6, EntryCountAssumption DEF Entries
  <2> QED
    BY <1>7, <2>1 DEF Stands, BarePhases, SeenPhases, RollingPhases, FullPhases, EndPhases
<1>10. Moded(final, t, j, "check")
  BY <1>2 DEF Moded, MovingPhases, FullPhases, EndPhases
<1>11. t.journal # NoJournal /\ ~ Cleans(j)
  BY <1>3, <1>4, <1>6 DEF NoJournal, Entry, Cleans
<1>12. Known(views', final, t, [j EXCEPT !.phase = "check"])
  <2>1. "check" \in Phases \ JournalPhases
    BY DEF Phases, JournalPhases
  <2> QED
    BY <1>1, <1>9, <1>10, <1>11, <2>1, GotoKnown
<1>13. /\ job'[p] = [j EXCEPT !.phase = "check"] /\ tree' = t /\ UNCHANGED final /\ Relink(t)
  BY BecomeIs DEF Move, Goto, OnlyTree, Relink, AccountInv, FullInv, TypeInv
<1>14. StorageAccounted'
  BY <1>4, <1>8, <1>13, RelinkAccounted DEF AccountInv, Accounted
<1> QED
  BY <1>12, <1>13, <1>14 DEF KnownOf

LEMMA CheckAccount ==
  ASSUME AccountInv, NEW p \in Restorers, Check(p)
  PROVE  StorageAccounted' /\ KnownOf(p)'
<1> DEFINE j == job[p]
           n == j.i
           m == [j EXCEPT !.valid[n] = tree.dest[n]]
           k == [j EXCEPT !.valid[n] = tree.dest[n], !.phase = "sync move"]
<1>1. /\ At(p, "check") /\ j.phase = "check" /\ Ready(p) /\ j \in Job /\ tree \in Tree
      /\ n \in Entries /\ UNCHANGED <<tree, views, final>>
  <2>1. Holding(j, "check")
    BY AtHolds DEF Check, Does, AccountInv, FullInv, TypeInv, Phases, JournalPhases
  <2> QED
    BY <2>1, JobFacts, TreeFacts
       DEF Check, Does, At, OnlyTree, AccountInv, FullInv, TypeInv, TreeOK, Holding, EntryPhases
<1>2. Stands(tree, j, "check") /\ Moded(final, tree, j, "check")
  BY <1>1, StandsAt DEF JournalPhases
<1>3. /\ Restored(tree) # {} => tree.journal # NoJournal
      /\ Cleans(j) => Restored(tree) = {}
  BY <1>1, KeepsAt DEF Unjournaled
<1>4. tree.dest[n] \in Dirs
  BY <1>1 DEF Ready, At, Genuine
<1>5. /\ k.phase = "sync move" /\ k.i = n /\ k.keep = j.keep /\ k.resume = j.resume
      /\ \A e \in Entries : k.valid[e] = IF e = n THEN tree.dest[n] ELSE j.valid[e]
  BY <1>1 DEF Job
<1>6. Covers(tree, n + 1, n + 1)
  <2>1. Covers(tree, n, n + 1) /\ n \in Visible(tree)
    BY <1>1, <1>2, <1>4, DirsAssumption DEF Stands, Visible
  <2> QED
    BY <1>1, <2>1, EntryCountAssumption DEF Covers, First, Entries
<1>7. Stands(tree, k, "sync move")
  BY <1>2, <1>5, <1>6
     DEF Stands, BarePhases, SeenPhases, RollingPhases, MovingPhases, FullPhases, EndPhases
<1>8. Moded(final, tree, k, "sync move")
  BY <1>2, <1>4, <1>5 DEF Moded, MovingPhases, FullPhases, EndPhases
<1>9. Known(views, final, tree, k)
  <2>1. Aim(k) = "sync move"
    BY <1>5 DEF Aim, JournalPhases
  <2>2. Writes(tree, k) /\ Keeps(tree, k) /\ MoveRetained(views, k)
    BY <1>3, <1>5 DEF Writes, Keeps, MoveRetained, Cleans, JournalPhases
  <2> QED
    BY <1>7, <1>8, <2>1, <2>2 DEF Known
<1>10. job'[p] = k
  BY BecomeIs DEF Check, AccountInv, FullInv, TypeInv
<1> QED
  BY <1>1, <1>9, <1>10, SameAccounted DEF AccountInv, KnownOf

LEMMA SyncMoveAccount ==
  ASSUME AccountInv, NEW p \in Restorers, SyncMove(p)
  PROVE  StorageAccounted' /\ KnownOf(p)'
<1> DEFINE j == job[p]
           entry == Entry("publishing", j.i + 1, NoIntent)
<1>1. j.phase = "sync move" /\ At(p, "sync move") /\ j \in Job /\ j.i \in Entries
  <2>1. Holding(j, "sync move")
    BY AtHolds DEF SyncMove, Does, AccountInv, FullInv, TypeInv, Phases, JournalPhases
  <2> QED
    BY <2>1, JobFacts DEF SyncMove, Does, At, AccountInv, FullInv, TypeInv, Holding, EntryPhases
<1>2. Stands(tree, j, "sync move") /\ Moded(final, tree, j, "sync move")
  BY <1>1, StandsAt DEF JournalPhases
<1>3. /\ Restored(tree) # {} => tree.journal # NoJournal
      /\ Cleans(j) => Restored(tree) = {}
  BY <1>1, KeepsAt DEF Unjournaled
<1>4. entry \in Journal /\ entry.phase # "none" /\ "advance" \in Phases \ JournalPhases
  <2>1. j.i + 1 \in 0 .. EntryCount
    BY <1>1, Counts
  <2> QED
    BY <2>1, EntryCountAssumption DEF Entry, Journal, NoIntent, Phases, JournalPhases
<1>5. Covers(tree, j.i + 1, j.i + 1)
  BY <1>2 DEF Stands
<1>6. Fits(tree, entry)
  BY <1>1, <1>5, Counts, SettledFits
<1>7. Stands(tree, j, "advance")
  BY <1>2
     DEF Stands, BarePhases, SeenPhases, RollingPhases, MovingPhases, FullPhases, EndPhases
<1>8. Moded(final, tree, j, "advance")
  BY <1>2 DEF Moded, MovingPhases, FullPhases, EndPhases
<1>9. Known({tree}, final, tree, Recording(j, entry, "advance"))
  BY <1>1, <1>3, <1>4, <1>6, <1>7, <1>8, RecordingKnown
<1>10. /\ job'[p] = Recording(j, entry, "advance") /\ tree' = tree /\ views' = {tree}
       /\ UNCHANGED final /\ Sync
  BY BecomeIs DEF SyncMove, OnlyTree, Sync, AccountInv, FullInv, TypeInv
<1>11. StorageAccounted'
  BY <1>10, SyncAccounted DEF AccountInv, FullInv, TypeInv
<1> QED
  BY <1>9, <1>10, <1>11 DEF KnownOf

LEMMA AdvanceAccount ==
  ASSUME AccountInv, NEW p \in Restorers, Advance(p)
  PROVE  StorageAccounted' /\ KnownOf(p)'
<1> DEFINE j == job[p]
           n == j.i
           k == [j EXCEPT !.i = 0, !.phase = "finalize"]
<1>1. CASE Pause(p)
  BY <1>1, PauseAccount
<1>2. CASE ~ Pause(p)
  <2>1. /\ At(p, "advance") /\ j.phase = "advance" /\ j \in Job /\ n \in Entries /\ tree \in Tree
        /\ UNCHANGED <<tree, views, final>>
    <3>1. Holding(j, "advance")
      BY AtHolds DEF Advance, Does, AccountInv, FullInv, TypeInv, Phases, JournalPhases
    <3> QED
      BY <1>2, <3>1, JobFacts, TreeFacts
         DEF Advance, Does, At, OnlyTree, AccountInv, FullInv, TypeInv, TreeOK, Holding, EntryPhases
  <2>2. Stands(tree, j, "advance") /\ Moded(final, tree, j, "advance")
    BY <2>1, StandsAt DEF JournalPhases
  <2>3. /\ Restored(tree) # {} => tree.journal # NoJournal
        /\ Cleans(j) => Restored(tree) = {}
    BY <2>1, KeepsAt DEF Unjournaled
  <2>4. /\ Covers(tree, n + 1, n + 1)
        /\ \A e \in Entries : e > n => tree.staged[e] # NoDir
        /\ \A e \in Entries : e < n \/ e = n => j.valid[e] \in Dirs
    BY <2>2 DEF Stands, Moded, MovingPhases
  <2>5. CASE n + 1 < EntryCount
    <3>1. /\ n + 1 \in Entries
          /\ \A e \in Entries : e >= n + 1 => tree.staged[e] # NoDir
          /\ \A e \in Entries : e < n + 1 => j.valid[e] \in Dirs
      BY <2>1, <2>4, <2>5, EntryCountAssumption DEF Entries
    <3>2. Known(views, final, tree, NextEntry(j, n + 1))
      BY <2>1, <2>3, <2>4, <3>1, NextEntryKnown
    <3>3. job'[p] = NextEntry(j, n + 1)
      BY <1>2, <2>5, BecomeIs DEF Advance, AccountInv, FullInv, TypeInv
    <3> QED
      BY <2>1, <3>2, <3>3, SameAccounted DEF AccountInv, KnownOf
  <2>6. CASE ~ (n + 1 < EntryCount)
    <3>1. /\ Entries \subseteq First(n + 1)
          /\ \A e \in Entries : e < n \/ e = n
      BY <2>1, <2>6, EntryCountAssumption DEF Entries, First
    <3>2. Entries \subseteq Visible(tree) /\ \A e \in Entries : j.valid[e] \in Dirs
      BY <2>4, <3>1 DEF Covers
    <3>3. /\ k.phase = "finalize" /\ k.i = 0 /\ k.valid = j.valid /\ Aim(k) = "finalize"
          /\ (Cleans(k) => Cleans(j))
      BY <2>1 DEF Job, Aim, JournalPhases, Cleans
    <3>4. Stands(tree, k, "finalize")
      BY <3>2 DEF Stands, BarePhases, SeenPhases, RollingPhases, MovingPhases
    <3>5. Moded(final, tree, k, "finalize")
      BY <3>2, <3>3, EntryCountAssumption DEF Moded, MovingPhases, EndPhases, Entries
    <3>6. Writes(tree, k) /\ Keeps(tree, k) /\ MoveRetained(views, k)
      BY <2>3, <3>3 DEF Writes, Keeps, MoveRetained, JournalPhases
    <3>7. Known(views, final, tree, k)
      BY <3>3, <3>4, <3>5, <3>6 DEF Known
    <3>8. job'[p] = k
      BY <1>2, <2>6, BecomeIs DEF Advance, AccountInv, FullInv, TypeInv
    <3> QED
      BY <2>1, <3>7, <3>8, SameAccounted DEF AccountInv, KnownOf
  <2> QED
    BY <2>5, <2>6
<1> QED
  BY <1>1, <1>2

(***************************************************************************)
(* The conclusion                                                          *)
(***************************************************************************)
LEMMA FinalizeAccount ==
  ASSUME AccountInv, NEW p \in Restorers, Finalize(p)
  PROVE  StorageAccounted' /\ KnownOf(p)'
<1> DEFINE j == job[p]
           n == j.i
           k == [j EXCEPT !.i = n + 1]
           m == [j EXCEPT !.phase = "recheck"]
<1>1. /\ At(p, "finalize") /\ j.phase = "finalize" /\ j \in Job /\ n \in Entries
      /\ UNCHANGED <<tree, views>> /\ final \in [Dirs -> SUBSET Entries]
  <2>1. Holding(j, "finalize")
    BY AtHolds DEF Finalize, Does, AccountInv, FullInv, TypeInv, Phases, JournalPhases
  <2> QED
    BY <2>1, JobFacts
       DEF Finalize, Does, At, AccountInv, FullInv, TypeInv, RestOK, Holding, EntryPhases
<1>2. Stands(tree, j, "finalize") /\ Moded(final, tree, j, "finalize")
  BY <1>1, StandsAt DEF JournalPhases
<1>3. /\ Restored(tree) # {} => tree.journal # NoJournal
      /\ Cleans(j) => Restored(tree) = {}
  BY <1>1, KeepsAt DEF Unjournaled
<1>4. /\ Entries \subseteq Visible(tree)
      /\ \A e \in Entries : j.valid[e] \in Dirs
      /\ \A e \in Entries : e < n => e \in final[j.valid[e]]
  BY <1>2 DEF Stands, Moded, FullPhases
<1>5. \A e \in Entries : e < n \/ e = n => e \in final'[j.valid[e]]
  <2>1. final' = [final EXCEPT ![j.valid[n]] = @ \cup {n}] /\ j.valid[n] \in Dirs
    BY <1>1, <1>4 DEF Finalize, Finalized
  <2>2. n \in final'[j.valid[n]] /\ \A d \in Dirs : final[d] \subseteq final'[d]
    BY <1>1, <2>1
  <2> QED
    BY <1>4, <2>2
<1>6. CASE n + 1 < EntryCount
  <2>1. /\ k.phase = "finalize" /\ k.i = n + 1 /\ k.valid = j.valid /\ Aim(k) = "finalize"
        /\ (Cleans(k) => Cleans(j))
    BY <1>1 DEF Job, Aim, JournalPhases, Cleans
  <2>2. Stands(tree, k, "finalize")
    BY <1>4 DEF Stands, BarePhases, SeenPhases, RollingPhases, MovingPhases
  <2>3. Moded(final', tree, k, "finalize")
    <3>1. \A e \in Entries : e < k.i => e < n \/ e = n
      BY <1>1, <2>1, EntryCountAssumption DEF Entries
    <3> QED
      BY <1>4, <1>5, <2>1, <3>1 DEF Moded, MovingPhases, EndPhases
  <2>4. Writes(tree, k) /\ Keeps(tree, k) /\ MoveRetained(views, k)
    BY <1>3, <2>1 DEF Writes, Keeps, MoveRetained, JournalPhases
  <2>5. Known(views, final', tree, k)
    BY <2>1, <2>2, <2>3, <2>4 DEF Known
  <2>6. job'[p] = k
    BY <1>6, BecomeIs DEF Finalize, AccountInv, FullInv, TypeInv
  <2> QED
    BY <1>1, <2>5, <2>6, SameAccounted DEF AccountInv, KnownOf
<1>7. CASE ~ (n + 1 < EntryCount)
  <2>1. \A e \in Entries : e \in final'[j.valid[e]]
    <3>1. \A e \in Entries : e < n \/ e = n
      BY <1>1, <1>7, EntryCountAssumption DEF Entries
    <3> QED
      BY <1>5, <3>1
  <2>2. Stands(tree, j, "recheck")
    BY <1>4 DEF Stands, BarePhases, SeenPhases, RollingPhases, MovingPhases
  <2>3. Moded(final', tree, j, "recheck")
    BY <1>4, <2>1 DEF Moded, MovingPhases, EndPhases
  <2>4. "recheck" \in Phases \ JournalPhases
    BY DEF Phases, JournalPhases
  <2>5. Known(views, final', tree, m)
    BY <1>1, <1>3, <2>2, <2>3, <2>4, GotoKnown
  <2>6. job'[p] = m
    BY <1>7, BecomeIs DEF Finalize, AccountInv, FullInv, TypeInv
  <2> QED
    BY <1>1, <2>5, <2>6, SameAccounted DEF AccountInv, KnownOf
<1> QED
  BY <1>6, <1>7

LEMMA RecheckAccount ==
  ASSUME AccountInv, NEW p \in Restorers, Recheck(p)
  PROVE  StorageAccounted' /\ KnownOf(p)'
<1> DEFINE j == job[p]
<1>1. /\ At(p, "recheck") /\ j.phase = "recheck" /\ Ready(p) /\ j \in Job
      /\ UNCHANGED <<tree, views, final>>
  BY JobFacts DEF Recheck, Does, At, OnlyTree, AccountInv, FullInv, TypeInv
<1>2. Stands(tree, j, "recheck") /\ Moded(final, tree, j, "recheck")
  BY <1>1, StandsAt DEF JournalPhases
<1>3. /\ Restored(tree) # {} => tree.journal # NoJournal
      /\ Cleans(j) => Restored(tree) = {}
  BY <1>1, KeepsAt DEF Unjournaled
<1>4. Stands(tree, j, "drop staging")
  BY <1>2
     DEF Stands, BarePhases, SeenPhases, RollingPhases, MovingPhases, FullPhases, EndPhases
<1>5. Moded(final, tree, j, "drop staging")
  <2>1. tree.dest = j.valid
    BY <1>1 DEF Ready, At
  <2> QED
    BY <1>2, <2>1 DEF Moded, MovingPhases, FullPhases, EndPhases
<1>6. "drop staging" \in Phases \ JournalPhases
  BY DEF Phases, JournalPhases
<1>7. Known(views, final, tree, [j EXCEPT !.phase = "drop staging"])
  BY <1>1, <1>3, <1>4, <1>5, <1>6, GotoKnown
<1>8. job'[p] = [j EXCEPT !.phase = "drop staging"]
  BY BecomeIs DEF Recheck, Goto, AccountInv, FullInv, TypeInv
<1> QED
  BY <1>1, <1>7, <1>8, SameAccounted DEF AccountInv, KnownOf

\* From one step of the end to the next the entries stay as they are.
LEMMA EndKnown ==
  ASSUME AccountInv, NEW p \in Restorers, NEW a \in EndPhases, At(p, a),
         NEW b \in EndPhases, NEW t, t.dest = tree.dest,
         b = "sync drop control" => t.control = NoDir,
         b \notin Unjournaled => t.journal = tree.journal /\ a \notin Unjournaled
  PROVE  Known(views', final, t, [job[p] EXCEPT !.phase = b])
<1> DEFINE j == job[p]
<1>1. j \in Job /\ b \in Phases \ JournalPhases /\ b \notin {"unmove", "move", "idle"}
  BY JobFacts DEF AccountInv, FullInv, TypeInv, EndPhases, Phases, JournalPhases
<1>2. Stands(tree, j, a) /\ Moded(final, tree, j, a) /\ a \in FullPhases
  BY StandsAt DEF EndPhases, FullPhases, JournalPhases
<1>3. Visible(t) = Visible(tree) /\ Restored(t) = Restored(tree)
  BY DEF Visible, Restored
<1>4. Stands(t, j, b)
  BY <1>2, <1>3
     DEF Stands, BarePhases, SeenPhases, RollingPhases, MovingPhases, EndPhases
<1>5. Moded(final, t, j, b)
  BY <1>2 DEF Moded, MovingPhases, FullPhases, EndPhases
<1>6. /\ b \notin Unjournaled /\ Restored(t) # {} => t.journal # NoJournal
      /\ Cleans(j) => Restored(t) = {}
  BY <1>3 DEF AccountInv, KnownOf, Known, Keeps, At, EndPhases
<1> QED
  BY <1>1, <1>4, <1>5, <1>6, GotoKnown

LEMMA DropStagingAccount ==
  ASSUME AccountInv, NEW p \in Restorers, DropStaging(p)
  PROVE  StorageAccounted' /\ KnownOf(p)'
<1> DEFINE t == [tree EXCEPT !.staging = NoDir, !.staged = Nothing]
           b == "sync drop staging"
<1>1. tree \in Tree /\ At(p, "drop staging") /\ Relink(t) /\ Goto(p, b) /\ UNCHANGED final
  BY TreeFacts DEF DropStaging, Does, OnlyTree, AccountInv, FullInv, TypeInv, TreeOK
<1>2. t.dest = tree.dest /\ t.journal = tree.journal /\ t.staging = NoDir
  BY <1>1 DEF Tree
<1>3. Known(views', final, t, [job[p] EXCEPT !.phase = b])
  <2>1. "drop staging" \in EndPhases \ Unjournaled /\ b \in EndPhases
    BY DEF EndPhases, Unjournaled
  <2> QED
    BY <1>1, <1>2, <2>1, EndKnown
<1>4. StorageAccounted'
  <2>1. Restored(t) = Restored(tree)
    BY <1>2 DEF Restored
  <2> QED
    BY <1>1, <1>2, <2>1, RelinkAccounted DEF Accounted, AccountInv, StorageAccounted, Retained
<1>5. job'[p] = [job[p] EXCEPT !.phase = b] /\ tree' = t
  BY <1>1, BecomeIs DEF Goto, Relink, AccountInv, FullInv, TypeInv
<1> QED
  BY <1>1, <1>3, <1>4, <1>5 DEF KnownOf

LEMMA DropJournalAccount ==
  ASSUME AccountInv, NEW p \in Restorers, DropJournal(p)
  PROVE  StorageAccounted' /\ KnownOf(p)'
<1> DEFINE t == [tree EXCEPT !.journal = NoJournal]
           b == "sync drop journal"
<1>1. tree \in Tree /\ At(p, "drop journal") /\ Relink(t) /\ Goto(p, b) /\ UNCHANGED final
  BY TreeFacts DEF DropJournal, Does, OnlyTree, AccountInv, FullInv, TypeInv, TreeOK
<1>2. t.dest = tree.dest /\ t.journal = NoJournal
  BY <1>1 DEF Tree
<1>3. Known(views', final, t, [job[p] EXCEPT !.phase = b])
  <2>1. "drop journal" \in EndPhases /\ b \in EndPhases \cap Unjournaled
    BY DEF EndPhases, Unjournaled
  <2> QED
    BY <1>1, <1>2, <2>1, EndKnown
<1>4. StorageAccounted'
  BY <1>1, <1>2, RelinkAccounted DEF Accounted, AccountInv
<1>5. job'[p] = [job[p] EXCEPT !.phase = b] /\ tree' = t
  BY <1>1, BecomeIs DEF Goto, Relink, AccountInv, FullInv, TypeInv
<1> QED
  BY <1>1, <1>3, <1>4, <1>5 DEF KnownOf

LEMMA DropControlAccount ==
  ASSUME AccountInv, NEW p \in Restorers, DropControl(p)
  PROVE  StorageAccounted' /\ KnownOf(p)'
<1> DEFINE t == [tree EXCEPT !.control = NoDir]
           b == "sync drop control"
<1>1. /\ tree \in Tree /\ At(p, "drop control") /\ Ready(p) /\ Relink(t) /\ Goto(p, b)
      /\ UNCHANGED final
  BY TreeFacts DEF DropControl, Does, OnlyTree, AccountInv, FullInv, TypeInv, TreeOK
<1>2. t.dest = tree.dest /\ t.journal = NoJournal /\ t.control = NoDir
  BY <1>1 DEF Tree, Ready, At
<1>3. Known(views', final, t, [job[p] EXCEPT !.phase = b])
  <2>1. "drop control" \in EndPhases /\ b \in EndPhases \cap Unjournaled
    BY DEF EndPhases, Unjournaled
  <2> QED
    BY <1>1, <1>2, <2>1, EndKnown
<1>4. StorageAccounted'
  BY <1>1, <1>2, RelinkAccounted DEF Accounted, AccountInv
<1>5. job'[p] = [job[p] EXCEPT !.phase = b] /\ tree' = t
  BY <1>1, BecomeIs DEF Goto, Relink, AccountInv, FullInv, TypeInv
<1> QED
  BY <1>1, <1>3, <1>4, <1>5 DEF KnownOf

LEMMA CompleteAccount ==
  ASSUME AccountInv, NEW p \in Restorers, Complete(p)
  PROVE  StorageAccounted' /\ KnownOf(p)'
  BY IdleAccount, SyncAccounted DEF Complete, AccountInv, FullInv, TypeInv

(***************************************************************************)
(* Errors, cleanup and the environment                                     *)
(***************************************************************************)
LEMMA FailAccount ==
  ASSUME AccountInv, NEW p \in Restorers, job[p].phase # "idle", Fail(p)
  PROVE  StorageAccounted' /\ KnownOf(p)'
<1>1. UNCHANGED <<tree, views>>
  BY DEF Fail
<1>2. CASE ~ Cleans(job[p])
  BY <1>1, <1>2, IdleAccount, SameAccounted DEF Fail, AccountInv
<1>3. CASE Cleans(job[p])
  <2>1. Restored(tree) = {}
    BY <1>3 DEF AccountInv, KnownOf, Known, Keeps
  <2>2. job'[p] = [Idle EXCEPT !.phase = "cleanup"]
    BY <1>3, BecomeIs DEF Fail, AccountInv, FullInv, TypeInv
  <2>3. job'[p].phase \in BarePhases
    BY <2>2 DEF Idle, BarePhases
  <2> QED
    BY <1>1, <2>1, <2>3, BareKnown, SameAccounted DEF AccountInv, KnownOf
<1> QED
  BY <1>2, <1>3

LEMMA CleanInsideAccount ==
  ASSUME AccountInv, NEW p \in Restorers, CleanInside(p)
  PROVE  StorageAccounted' /\ KnownOf(p)'
<1>1. job[p].phase \in BarePhases /\ tree \in Tree /\ job' = job
  BY TreeFacts DEF CleanInside, At, AccountInv, FullInv, TypeInv, TreeOK, BarePhases
<1>2. PICK t : Relink(t) /\ t.dest = tree.dest
  BY <1>1 DEF CleanInside, Tree
<1>3. Restored(t) = {}
  BY <1>1, <1>2, BareAt DEF Restored
<1>4. Known(views', final', t, job[p])
  BY <1>1, <1>3, BareKnown
<1> QED
  BY <1>1, <1>2, <1>3, <1>4, RelinkBare DEF AccountInv, KnownOf, Relink

LEMMA CleanControlAccount ==
  ASSUME AccountInv, NEW p \in Restorers, CleanControl(p)
  PROVE  StorageAccounted' /\ KnownOf(p)'
<1> DEFINE t == [tree EXCEPT !.control = NoDir]
<1>1. job[p].phase \in BarePhases /\ tree \in Tree
  BY TreeFacts DEF CleanControl, At, AccountInv, FullInv, TypeInv, TreeOK, BarePhases
<1>2. Restored(t) = {}
  BY <1>1, BareAt DEF Restored, Tree
<1>3. Relink(t) /\ Goto(p, "sync cleanup")
  BY DEF CleanControl
<1> QED
  BY <1>2, <1>3, BareStep DEF BarePhases

LEMMA SyncCleanupAccount ==
  ASSUME AccountInv, NEW p \in Restorers, SyncCleanup(p)
  PROVE  StorageAccounted' /\ KnownOf(p)'
  BY IdleAccount, SyncAccounted DEF SyncCleanup, AccountInv, FullInv, TypeInv

LEMMA KillAccount ==
  ASSUME AccountInv, NEW p \in Restorers, Kill(p)
  PROVE  StorageAccounted' /\ KnownOf(p)'
  BY IdleAccount, SameAccounted DEF Kill, AccountInv

\* A power loss leaves one of the views, and no call.
LEMMA PowerLossAccount ==
  ASSUME AccountInv, PowerLoss
  PROVE  StorageAccounted' /\ \A p \in Restorers : KnownOf(p)'
<1>1. PICK t \in views : tree' = t /\ views' = {t}
  BY DEF PowerLoss
<1>2. StorageAccounted'
  BY <1>1 DEF AccountInv, StorageAccounted, ViewsAccounted, Retained
<1>3. \A p \in Restorers : job'[p] = Idle
  BY DEF PowerLoss
<1> QED
  BY <1>2, <1>3, IdleKnown DEF KnownOf

\* A foreign file takes a place, and what was restored there is not any more.
LEMMA PutForeignAccount ==
  ASSUME AccountInv, PutForeign
  PROVE  StorageAccounted' /\ \A p \in Restorers : KnownOf(p)'
<1>1. PICK e \in Entries : Relink([tree EXCEPT !.dest[e] = Foreign])
  BY DEF PutForeign
<1> DEFINE t == [tree EXCEPT !.dest[e] = Foreign]
<1>2. tree \in Tree /\ UNCHANGED <<final, job>>
  BY TreeFacts DEF PutForeign, AccountInv, FullInv, TypeInv, TreeOK
<1>3. /\ t.control = tree.control /\ t.staging = tree.staging /\ t.journal = tree.journal
      /\ t.partial = tree.partial /\ t.staged = tree.staged
      /\ \A f \in Entries : t.dest[f] = IF f = e THEN Foreign ELSE tree.dest[f]
  BY <1>2 DEF Tree
<1>4. Visible(tree) \subseteq Visible(t) /\ Restored(t) \subseteq Restored(tree)
  BY <1>3, DirsAssumption DEF Visible, Restored
<1>5. \A lo, hi : Covers(tree, lo, hi) => Covers(t, lo, hi)
  BY <1>4 DEF Covers
<1>6. \A journal : Suits(tree, journal) => Suits(t, journal)
  BY <1>4 DEF Suits
<1>7. \A journal : Fits(tree, journal) => Fits(t, journal)
  <2> SUFFICES ASSUME NEW journal, Fits(tree, journal), journal.intent # NoIntent
               PROVE  Placed(t, journal.intent)
    BY <1>6 DEF Fits
  <2>1. Placed(tree, journal.intent)
    BY DEF Fits
  <2>2. CASE journal.intent = e
    BY <1>3, <2>2 DEF Placed
  <2>3. CASE journal.intent # e
    <3>1. t.dest[journal.intent] = tree.dest[journal.intent]
      BY <1>2, <2>3 DEF Tree
    <3> QED
      BY <1>3, <2>1, <3>1 DEF Placed, OnOneSide
  <2> QED
    BY <2>2, <2>3
<1>8. StorageAccounted'
  <2>1. Accounted(tree)
    BY DEF AccountInv, FullInv, TypeInv, StorageOK, StorageAccounted, ViewsAccounted
  <2>2. Accounted(t)
    BY <1>3, <1>4, <1>7, <2>1 DEF Accounted
  <2>3. Restored(t) # {} /\ t.journal # NoJournal => \A u \in views : u.journal # NoJournal
    BY <1>3, <1>4 DEF AccountInv, StorageAccounted, Retained
  <2> QED
    BY <1>1, <2>2, <2>3, RelinkAccounted DEF AccountInv
<1>9. ASSUME NEW p \in Restorers
      PROVE  KnownOf(p)'
  <2> DEFINE j == job[p]
             a == Aim(j)
  <2>1. /\ Stands(tree, j, a) /\ Writes(tree, j) /\ Keeps(tree, j) /\ Moded(final, tree, j, a)
        /\ MoveRetained(views, j)
    BY DEF AccountInv, KnownOf, Known
  <2>2. Stands(t, j, a)
    BY <1>3, <1>4, <1>5, <1>6, <2>1 DEF Stands
  <2>3. Writes(t, j)
    BY <1>3, <1>7, <2>1 DEF Writes
  <2>4. Keeps(t, j)
    BY <1>3, <1>4, <2>1 DEF Keeps
  <2>5. Moded(final, t, j, a)
    BY <1>3, <2>1 DEF Moded
  <2>6. MoveRetained(views \cup {t}, j)
    <3> SUFFICES ASSUME j.phase = "move"
                 PROVE  t.journal # NoJournal
      BY <2>1 DEF MoveRetained
    <3>1. t.journal = Entry("publishing", j.i, j.i)
      BY <1>3, <2>1 DEF Writes
    <3>2. t.journal.phase # "none"
      BY <3>1 DEF Entry
    <3> QED
      BY <3>2, IsJournal
  <2>7. Known(views \cup {t}, final, t, j)
    BY <2>2, <2>3, <2>4, <2>5, <2>6 DEF Known
  <2> QED
    BY <1>1, <1>2, <2>7 DEF KnownOf, Relink
<1> QED
  BY <1>8, <1>9

(***************************************************************************)
(* The steps of one restorer                                               *)
(***************************************************************************)
LEMMA InitAccount ==
  ASSUME Init
  PROVE  AccountInv
<1>1. Restored(Empty) = {}
  BY DirsAssumption DEF Restored, Empty, Nothing
<1>2. StorageAccounted
  BY <1>1 DEF Init, StorageAccounted, ViewsAccounted, Accounted, Retained
<1>3. \A p \in Restorers : KnownOf(p)
  BY IdleKnown DEF Init, KnownOf
<1> QED
  BY <1>2, <1>3, InitFull DEF AccountInv

LEMMA RefuseAccount ==
  ASSUME AccountInv, NEW p \in Restorers, Refuse(p)
  PROVE  StorageAccounted' /\ KnownOf(p)'
<1>1. job[p].phase # "idle"
  BY DEF Refuse, Ready
<1> QED
  BY <1>1, FailAccount DEF Refuse

LEMMA RunAccount ==
  ASSUME AccountInv, NEW p \in Restorers, Run(p)
  PROVE  StorageAccounted' /\ KnownOf(p)'
<1>1. CASE Rollback(p)
  BY <1>1, DiscardPartialAccount, ReconcileAccount, RollAccount, UnmoveAccount,
     SyncUnmoveAccount, EmptyStagingAccount, ResetStagingAccount DEF Rollback
<1>2. CASE Materialize(p)
  BY <1>2, MakeControlAccount, MakeStagingAccount, SyncStagingAccount, SyncStepAccount,
     WritePartialAccount, RenamePartialAccount, SyncJournalAccount, FillAccount,
     StreamAccount, FinishAccount, ValidateStagingAccount DEF Materialize
<1>3. CASE Publish(p)
  BY <1>3, StagedAccount, PreflightAccount, MoveAccount, CheckAccount, SyncMoveAccount,
     AdvanceAccount DEF Publish
<1>4. CASE Conclude(p)
  BY <1>4, FinalizeAccount, RecheckAccount, DropStagingAccount, DropJournalAccount,
     DropControlAccount, CompleteAccount DEF Conclude
<1>5. CASE Refuse(p)
  BY <1>5, RefuseAccount
<1>6. CASE Cleanup(p)
  BY <1>6, CleanInsideAccount, CleanControlAccount, SyncCleanupAccount DEF Cleanup
<1> QED
  BY <1>1, <1>2, <1>3, <1>4, <1>5, <1>6 DEF Run

LEMMA NextAccount ==
  ASSUME NEW r, Restorers = {r}, AccountInv, [Next]_vars
  PROVE  AccountInv'
<1>1. FullInv'
  BY NextFull DEF AccountInv
<1>2. StorageAccounted' /\ \A p \in Restorers : KnownOf(p)'
  <2>1. CASE UNCHANGED vars
    BY <2>1, SameAccounted DEF vars, AccountInv, KnownOf
  <2>2. CASE PowerLoss \/ PutForeign
    BY <2>2, PowerLossAccount, PutForeignAccount
  <2>3. ASSUME NEW p \in Restorers, Fresh(p) \/ Resume(p) \/ Run(p) \/ Fault(p) \/ Kill(p)
        PROVE  StorageAccounted' /\ KnownOf(p)'
    <3>1. CASE Fault(p)
      BY <3>1, FailAccount DEF Fault
    <3> QED
      BY <2>3, <3>1, FreshAccount, ResumeAccount, RunAccount, KillAccount
  <2> QED
    BY <2>1, <2>2, <2>3 DEF Next
<1> QED
  BY <1>1, <1>2 DEF AccountInv

(***************************************************************************)
(* What the journal, the report and the modes say                          *)
(***************************************************************************)
LEMMA AccountsResumable ==
  ASSUME AccountInv
  PROVE  JournalAccounts
<1> SUFFICES ASSUME NEW t \in views, Visible(t) # {}, Visible(t) = Restored(t),
                    t.staging # NoDir, t.journal # NoJournal
             PROVE  CanResume(t)
  BY DEF JournalAccounts
<1>1. t.control # NoDir
  BY DEF AccountInv, FullInv, TypeInv, StorageOK, TreeOK
<1>2. Fits(t, t.journal)
  BY DEF AccountInv, StorageAccounted, ViewsAccounted, Accounted
<1>3. \A e \in Visible(t) : t.dest[e] \in Dirs /\ Genuine(t.dest[e])
  BY DEF AccountInv, FullInv, ViewsFull, FilesOK, Visible, Restored, Genuine
<1>4. ResumeAccepted(t)
  BY <1>1, <1>2, <1>3 DEF ResumeAccepted, Fits, Suits
<1>5. ASSUME t.journal.intent # NoIntent
      PROVE  OnOneSide(t, t.journal.intent)
  <2>1. Placed(t, t.journal.intent)
    BY <1>2, <1>5 DEF Fits
  <2>2. t.journal.intent \in Entries
    <3>1. t.journal.intent \in NoIntent .. EntryCount - 1
      BY DEF AccountInv, FullInv, TypeInv, StorageOK, TreeOK, Tree, Journal
    <3> QED
      BY <1>5, <3>1, EntryCountAssumption DEF NoIntent, Entries
  <2>3. t.dest[t.journal.intent] # Foreign
    BY <1>3, <2>2, DirsAssumption DEF Visible
  <2> QED
    BY <2>1, <2>3 DEF Placed
<1> QED
  BY <1>4, <1>5 DEF CanResume, Reconcilable

\* The steps that leave the journal alone.
LEMMA JournalSame ==
  ASSUME TypeInv, NEW p \in Restorers,
         \/ Fresh(p) \/ Resume(p) \/ Fault(p) \/ Kill(p) \/ Refuse(p) \/ Rollback(p) \/ Publish(p)
         \/ MakeControl(p) \/ MakeStaging(p) \/ SyncStaging(p) \/ SyncStep(p) \/ WritePartial(p)
         \/ SyncJournal(p) \/ Fill(p) \/ Stream(p) \/ Finish(p) \/ ValidateStaging(p)
         \/ Finalize(p) \/ Recheck(p) \/ DropStaging(p) \/ DropControl(p) \/ Complete(p)
         \/ CleanControl(p) \/ SyncCleanup(p)
  PROVE  tree'.journal = tree.journal
<1>1. tree \in Tree
  BY TreeFacts DEF TypeInv, StorageOK, TreeOK
<1>2. CASE Fresh(p) \/ Resume(p) \/ Fault(p) \/ Kill(p) \/ Refuse(p)
  BY <1>2 DEF Fresh, Resume, Fault, Kill, Refuse, Fail
<1>3. CASE Rollback(p)
  BY <1>1, <1>3 DEF Rollback, DiscardPartial, Reconcile, Roll, Unmove, SyncUnmove, EmptyStaging,
                    ResetStaging, Relink, Sync, Tree
<1>4. CASE Publish(p)
  BY <1>1, <1>4 DEF Publish, Staged, Preflight, Move, Check, SyncMove, Advance, Pause, Relink,
                    Sync, Tree
<1>5. CASE \/ MakeControl(p) \/ MakeStaging(p) \/ SyncStaging(p) \/ SyncStep(p) \/ WritePartial(p)
           \/ SyncJournal(p) \/ Fill(p) \/ Stream(p) \/ Finish(p) \/ ValidateStaging(p)
  BY <1>1, <1>5 DEF MakeControl, MakeStaging, SyncStaging, SyncStep, WritePartial, SyncJournal,
                    Fill, Stream, Finish, ValidateStaging, Relink, Sync, Tree
<1>6. CASE \/ Finalize(p) \/ Recheck(p) \/ DropStaging(p) \/ DropControl(p) \/ Complete(p)
           \/ CleanControl(p) \/ SyncCleanup(p)
  BY <1>1, <1>6 DEF Finalize, Recheck, DropStaging, DropControl, Complete, CleanControl,
                    SyncCleanup, Relink, Sync, Tree
<1> QED
  BY <1>2, <1>3, <1>4, <1>5, <1>6

LEMMA RetainedStep ==
  ASSUME AccountInv, [Next]_vars, Restored(tree) # {}, tree.journal # NoJournal,
         tree'.journal = NoJournal
  PROVE  \E p \in Restorers : At(p, "drop journal")
<1>1. Next
  BY DEF vars
<1>2. ~ PowerLoss
  BY DEF PowerLoss, AccountInv, StorageAccounted, Retained
<1>3. ~ PutForeign
  BY TreeFacts DEF PutForeign, Relink, Tree, AccountInv, FullInv, TypeInv, StorageOK, TreeOK
<1>4. PICK p \in Restorers : Fresh(p) \/ Resume(p) \/ Run(p) \/ Fault(p) \/ Kill(p)
  BY <1>1, <1>2, <1>3 DEF Next
<1>5. RenamePartial(p) \/ DropJournal(p) \/ CleanInside(p)
  BY <1>4, JournalSame DEF Run, Materialize, Conclude, Cleanup, AccountInv, FullInv
<1>6. ~ RenamePartial(p)
  <2> SUFFICES ASSUME RenamePartial(p)
               PROVE  FALSE
    OBVIOUS
  <2>1. job[p].phase = "rename"
    BY DEF RenamePartial, Does, At
  <2>2. tree.partial = job[p].entry /\ job[p].entry.phase # "none"
    BY <2>1 DEF AccountInv, KnownOf, Known, Writes, JournalPhases
  <2>3. tree.partial # NoJournal
    BY <2>2, IsJournal
  <2>4. tree \in Tree
    BY TreeFacts DEF AccountInv, FullInv, TypeInv, TreeOK
  <2>5. tree'.journal = tree.partial
    BY <2>4 DEF RenamePartial, Relink, Tree
  <2> QED
    BY <2>3, <2>5
<1>7. ~ CleanInside(p)
  BY BareAt DEF CleanInside, At, BarePhases
<1> QED
  BY <1>5, <1>6, <1>7 DEF DropJournal, Does

\* Only a call that is complete says so.
LEMMA ReportsComplete ==
  ASSUME TypeInv, [Next]_vars, NEW p \in Restorers, Reports(p, "complete")
  PROVE  Complete(p)
<1>1. told'[p] = "complete" /\ told'[p] # told[p]
  BY DEF Reports
<1>2. PICK q \in Restorers : Fresh(q) \/ Resume(q) \/ Run(q) \/ Fault(q) \/ Kill(q)
  BY <1>1 DEF vars, Next, PowerLoss, PutForeign
<1>3. \A s : told' = [told EXCEPT ![q] = s] => q = p /\ s = "complete"
  BY <1>1 DEF TypeInv, RestOK
<1>4. ~ (Fresh(q) \/ Resume(q) \/ Kill(q))
  BY <1>1 DEF Fresh, Resume, Kill, OnlyTree
<1>5. ~ (Fault(q) \/ Refuse(q))
  BY <1>1, <1>3 DEF Fault, Refuse, Fail
<1>6. ~ Rollback(q)
  BY <1>1 DEF Rollback, DiscardPartial, Reconcile, Roll, Unmove, SyncUnmove, EmptyStaging,
              ResetStaging, OnlyTree
<1>7. ~ Materialize(q)
  BY <1>1 DEF Materialize, MakeControl, MakeStaging, SyncStaging, SyncStep, WritePartial,
              RenamePartial, SyncJournal, Fill, Stream, Finish, ValidateStaging, OnlyTree
<1>8. ~ Publish(q)
  BY <1>1, <1>3 DEF Publish, Staged, Preflight, Move, Check, SyncMove, Advance, Pause, OnlyTree
<1>9. ~ Cleanup(q)
  BY <1>1, <1>3 DEF Cleanup, CleanInside, CleanControl, SyncCleanup, OnlyTree
<1>10. Complete(q)
  BY <1>1, <1>2, <1>4, <1>5, <1>6, <1>7, <1>8, <1>9
     DEF Run, Conclude, Finalize, Recheck, DropStaging, DropJournal, DropControl, OnlyTree
<1> QED
  BY <1>3, <1>10 DEF Complete

LEMMA CompleteStep ==
  ASSUME AccountInv, [Next]_vars, NEW p \in Restorers, Reports(p, "complete")
  PROVE  /\ \A t \in views' : t.control # job[p].ctl /\ \A e \in Entries : t.dest[e] # NoDir
         /\ \A e \in Entries : tree.dest[e] # Foreign => e \in final[tree.dest[e]]
<1>1. Complete(p) /\ At(p, "sync drop control")
  BY ReportsComplete DEF Complete, Does, AccountInv, FullInv
<1>2. Holding(job[p], "sync drop control")
  BY <1>1, AtHolds DEF AccountInv, FullInv, TypeInv, Phases, JournalPhases
<1>3. job[p].ctl \in Dirs
  BY <1>2 DEF Holding, OutsidePhases
<1>4. Stands(tree, job[p], "sync drop control") /\ Moded(final, tree, job[p], "sync drop control")
  BY <1>1, StandsAt DEF JournalPhases
<1>5. tree.control = NoDir /\ Entries \subseteq Visible(tree)
  BY <1>4 DEF Stands, FullPhases, EndPhases
<1>6. \A e \in Entries : e \in final[job[p].valid[e]] /\ tree.dest[e] \in {Foreign, job[p].valid[e]}
  BY <1>4 DEF Moded, EndPhases
<1>7. views' = {tree}
  BY <1>1 DEF Complete, Sync
<1> QED
  BY <1>3, <1>5, <1>6, <1>7, DirsAssumption DEF Visible

LEMMA AlwaysAccounted ==
  ASSUME NEW r, Restorers = {r}
  PROVE  Spec => []AccountInv
<1>1. Init => AccountInv
  BY InitAccount
<1>2. AccountInv /\ [Next]_vars => AccountInv'
  BY NextAccount
<1> QED
  BY <1>1, <1>2, PTL DEF Spec

\* With one restorer on the destination, whatever a fault, a termination or a
\* power loss leaves between two steps, and wherever other programs put files: while
\* only restored entries are visible, a transaction with its journal and its
\* staging is one that Resume accepts and can reconcile (the write-ahead intents
\* of publish_staged_entries and reconcile_interrupted_publication).
THEOREM JournalsAccount ==
  ASSUME NEW r, Restorers = {r}
  PROVE  Spec => []JournalAccounts
<1>1. Spec => []AccountInv
  BY AlwaysAccounted
<1>2. AccountInv => JournalAccounts
  BY AccountsResumable
<1> QED
  BY <1>1, <1>2, PTL

\* With one restorer on the destination, no fault, termination, power loss or
\* cleanup removes the journal once an entry is published: only a call that has
\* published, finalized and rechecked them all does (preserve_recovery_state,
\* cleanup_failed_restore).
THEOREM PublicationsAreRetained ==
  ASSUME NEW r, Restorers = {r}
  PROVE  Spec => PublicationRetained
<1>1. Spec => []AccountInv
  BY AlwaysAccounted
<1>2. AccountInv /\ [Next]_vars
        => [(Restored(tree) # {} /\ tree.journal # NoJournal /\ tree'.journal = NoJournal) =>
              \E p \in Restorers : At(p, "drop journal")]_vars
  BY RetainedStep
<1> QED
  BY <1>1, <1>2, PTL DEF Spec, PublicationRetained

\* With one restorer on the destination, a Restore that reports Complete leaves
\* every entry at the destination and no transaction control, also after a power
\* loss, however many interrupted attempts came before (restore_transaction).
THEOREM CompletesAreTrue ==
  ASSUME NEW r, Restorers = {r}
  PROVE  Spec => CompleteIsTrue
<1>1. Spec => []AccountInv
  BY AlwaysAccounted
<1>2. AccountInv /\ [Next]_vars
        => [\A p \in Restorers : Reports(p, "complete") =>
              \A t \in views' : t.control # job[p].ctl /\ \A e \in Entries : t.dest[e] # NoDir]_vars
  BY CompleteStep
<1> QED
  BY <1>1, <1>2, PTL DEF Spec, CompleteIsTrue

\* With one restorer on the destination, a Restore that reports Complete has given
\* every entry its final mode through the identity that it validated, even when
\* an earlier attempt had and a Resume took it back (normalize_resume_modes,
\* finalize_validated_items).
THEOREM ModesAreFinalAtEnd ==
  ASSUME NEW r, Restorers = {r}
  PROVE  Spec => ModesAreFinal
<1>1. Spec => []AccountInv
  BY AlwaysAccounted
<1>2. AccountInv /\ [Next]_vars
        => [\A p \in Restorers : Reports(p, "complete") =>
              \A e \in Entries : tree.dest[e] # Foreign => e \in final[tree.dest[e]]]_vars
  BY CompleteStep
<1> QED
  BY <1>1, <1>2, PTL DEF Spec, ModesAreFinal
===============================================================================
