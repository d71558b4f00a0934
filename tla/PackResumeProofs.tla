-------------------------- MODULE PackResumeProofs ---------------------------
(***************************************************************************)
(* Theorems of PackResume, for every pool of attempts, number of items and *)
(* bound on the harm.                                                      *)
(***************************************************************************)
EXTENDS PackKeepsPromise, WellFoundedInduction, TLAPS

(***************************************************************************)
(* Type correctness                                                        *)
(***************************************************************************)
\* What TypeOK needs to be inductive: only a Resume re-encrypts a prefix, an
\* item being staged is one of the Plan, and the promotion counts its
\* transitions.
StepOK ==
  /\ job.phase = "rekey" => job.resume
  /\ job.phase \in {"stage", "append"} => content[job.att].items < ItemCount
  /\ job.phase \in {"move", "sync move"} => job.step \in 0 .. 3
  /\ job.phase \in {"remove", "sync remove"} => job.step \in 4 .. 5

TypeInv == TypeOK /\ StepOK

LEMMA FirstTry == 0 \in Tries
<1>1. CaptureAttempts \in Nat /\ CaptureAttempts # 0
  BY BoundsAssumption
<1> QED
  BY <1>1 DEF Tries

LEMMA FilesOfAttempts ==
  ASSUME NEW d \in Directory, NEW n \in Names
  PROVE  /\ d[n] \in File
         /\ d[n].kind = "bundle" => d[n].att \in Attempts /\ d[n] = Bundle(d[n].att)
         /\ d[n].kind = "journal" => d[n].att \in Attempts /\ d[n].saved \in Attempts
  BY DEF Directory, File, Absent, Foreign, Bundle, Checkpoint, Journal

LEMMA PlaceType ==
  ASSUME StorageOK, NEW n \in Names, NEW f \in File
  PROVE  Place(n, f) \in Directory
  BY DEF StorageOK, Directory, Place

LEMMA RenameType ==
  ASSUME StorageOK, NEW from \in Names, NEW to \in Names
  PROVE  Rename(from, to) \in Directory
<1>1. Absent \in File
  BY DEF File
<1>2. dir[from] \in File
  BY DEF StorageOK, Directory
<1> QED
  BY <1>1, <1>2 DEF StorageOK, Directory, Rename

LEMMA RelinkType ==
  ASSUME StorageOK, NEW d \in Directory, Relink(d)
  PROVE  StorageOK'
  BY DEF StorageOK, Relink

LEMMA SyncDirectoryType ==
  ASSUME StorageOK, SyncDirectory
  PROVE  StorageOK'
  BY DEF StorageOK, SyncDirectory

LEMMA StorageUnchanged ==
  ASSUME StorageOK, UNCHANGED storage
  PROVE  StorageOK'
  BY DEF StorageOK, storage

LEMMA CleanType ==
  ASSUME StorageOK, NEW n \in Names, NEW f, Clean(n, f)
  PROVE  StorageOK'
<1>1. Place(n, Absent) \in Directory
  BY PlaceType DEF File
<1> QED
  BY <1>1, RelinkType, StorageUnchanged DEF Clean

LEMMA GotoType ==
  ASSUME JobOK, NEW p \in Phases, Goto(p), job.phase # "idle",
         p \in WritePhases \cup PromotionPhases => job.att \in Attempts,
         p \in PromotionPhases => job.saved \in Attempts
  PROVE  /\ JobOK'
         /\ job'.phase = p
         /\ job'.att = job.att
         /\ job'.step = job.step
         /\ job'.resume = job.resume
  BY DEF JobOK, Job, Goto

LEMMA RestingType ==
  ASSUME NEW p \in {"idle", "begin"}, job' = Resting(p)
  PROVE  JobOK' /\ StepOK'
<1>1. job' \in Job
  <2>1. p \in Phases
    BY DEF Phases
  <2>2. NoAttempt \in MaybeAttempt
    BY DEF MaybeAttempt
  <2>3. 0 \in PromotionSteps
    BY DEF PromotionSteps
  <2> QED
    BY <2>1, <2>2, <2>3, FirstTry DEF Job, Resting
<1>2. job'.phase = p /\ job'.resume = FALSE
  BY DEF Resting
<1>3. p \notin WritePhases \cup PromotionPhases
  BY DEF WritePhases, PromotionPhases
<1> QED
  BY <1>1, <1>2, <1>3 DEF JobOK, StepOK

LEMMA IdleType ==
  ASSUME job' = Idle
  PROVE  JobOK' /\ StepOK'
  BY RestingType DEF Idle

\* The same for a step of write_bundle.
LEMMA WriteGotoType ==
  ASSUME JobOK, job.phase \in WritePhases, NEW p \in WritePhases, Goto(p)
  PROVE  /\ JobOK'
         /\ job'.phase = p
         /\ job'.att = job.att
         /\ job'.resume = job.resume
         /\ p \notin {"rekey", "stage", "append"} => StepOK'
<1>1. /\ p \in Phases /\ p \notin PromotionPhases /\ job.phase # "idle"
      /\ p \notin {"move", "sync move", "remove", "sync remove"}
  BY DEF Phases, WritePhases, PromotionPhases
<1>2. job.att \in Attempts
  BY DEF JobOK
<1>3. /\ JobOK' /\ job'.phase = p /\ job'.att = job.att
      /\ job'.resume = job.resume
  BY <1>1, <1>2, GotoType
<1> QED
  BY <1>1, <1>3 DEF StepOK

LEMMA WritingType ==
  ASSUME NEW r \in BOOLEAN, NEW a \in Attempts, NEW s \in MaybeAttempt,
         r => s \in Attempts, job' = Writing(r, a, s)
  PROVE  JobOK' /\ StepOK' /\ job'.phase = "create" /\ job'.att = a
  BY FirstTry DEF JobOK, Job, StepOK, Writing, Phases, WritePhases, PromotionPhases,
                  MaybeAttempt, PromotionSteps

LEMMA PromotingType ==
  ASSUME NEW k \in PromotionSteps, NEW p \in {"journal", PromotionPhase(k)},
         NEW a \in Attempts, NEW s \in Attempts, job' = Promoting(p, a, s, k)
  PROVE  JobOK' /\ StepOK' /\ job'.phase \in PromotionPhases
<1>1. PromotionPhase(k) \in {"move", "remove", "drop journal"}
  BY DEF PromotionPhase
<1>2. JobOK' /\ job'.phase \in PromotionPhases
  BY <1>1, FirstTry
     DEF JobOK, Job, Promoting, Phases, WritePhases, PromotionPhases, MaybeAttempt
<1>3. job'.phase = p /\ job'.step = k
  BY DEF Promoting
<1>4. p = "move" => k \in 0 .. 3
  BY DEF PromotionPhase, PromotionSteps
<1>5. p = "remove" => k \in 4 .. 5
  BY DEF PromotionPhase, PromotionSteps
<1>6. StepOK'
  BY <1>1, <1>3, <1>4, <1>5 DEF StepOK
<1> QED
  BY <1>2, <1>6

LEMMA WriteType ==
  ASSUME ContentOK, job.att \in Attempts, NEW c \in Content, Write(c)
  PROVE  ContentOK' /\ content'[job.att] = c
  BY DEF ContentOK, Write

LEMMA BlankType == Blank \in Content
  BY ItemCountAssumption DEF Blank, Content

LEMMA MineType ==
  ASSUME ContentOK, job.att \in Attempts
  PROVE  Mine \in Content
  BY DEF ContentOK, Mine

LEMMA OutName == Out \in Names /\ Out \in OutputNames /\ CheckpointOf(Out) \in Names
  BY DEF Out, Names, OutputNames, ProgressNames, CheckpointOf

LEMMA ItemType ==
  ASSUME TypeInv, job.phase \in WritePhases, Mine.items < ItemCount
  PROVE  Item \in Items /\ NextItem \in OutputNames \X Items \X Tries
<1>1. Mine \in Content /\ job.try \in Tries
  BY MineType DEF TypeInv, TypeOK, JobOK, Job
<1>2. Item \in Items
  BY <1>1, ItemCountAssumption DEF Item, Items, Content
<1> QED
  BY <1>1, <1>2, OutName DEF NextItem

LEMMA ObservedType ==
  ASSUME TypeInv, job.phase \in WritePhases
  PROVE  Observed \in SUBSET Items
<1>1. Mine \in Content
  BY MineType DEF TypeInv, TypeOK, JobOK
<1>2. Mine.seen \in SUBSET Items /\ Mine.items \in 0 .. ItemCount
  BY <1>1 DEF Content
<1>3. (Item .. ItemCount) \in SUBSET Items
  BY <1>2, ItemCountAssumption DEF Item, Items
<1> QED
  BY <1>2, <1>3 DEF Observed

\* An item is recorded: the call stops or takes the next.
LEMMA RecordedType ==
  ASSUME JobOK, job.phase \in WritePhases, Recorded
  PROVE  /\ JobOK' /\ StepOK'
         /\ job'.phase \in {"sync partial", "item"}
         /\ job'.att = job.att /\ job'.saved = job.saved /\ job'.step = job.step
         /\ job'.resume = job.resume
<1>1. PICK p \in {"sync partial", "item"} : job' = [job EXCEPT !.phase = p, !.try = 0]
  BY DEF Recorded
<1>2. 0 \in Tries
  BY FirstTry
<1>3. /\ p \in WritePhases /\ p \in Phases /\ p \notin PromotionPhases
      /\ job.phase # "idle" /\ job.att \in Attempts /\ job \in Job
  BY DEF Phases, WritePhases, PromotionPhases, JobOK
<1>4. /\ job' \in Job /\ job'.phase = p /\ job'.att = job.att /\ job'.saved = job.saved
      /\ job'.step = job.step /\ job'.resume = job.resume
  BY <1>1, <1>2, <1>3 DEF Job
<1>5. job.resume => job.saved \in Attempts
  BY <1>3 DEF JobOK
<1> QED
  BY <1>3, <1>4, <1>5 DEF JobOK, StepOK

\* A try came to nothing: the item is tried again, or recorded without.
LEMMA NextTryType ==
  ASSUME TypeInv, job.phase \in {"item", "stage"}, Mine.items < ItemCount, NextTry
  PROVE  /\ ContentOK' /\ JobOK' /\ StepOK'
         /\ job'.phase \in {"sync partial", "item"}
         /\ job'.att = job.att /\ job'.saved = job.saved /\ job'.step = job.step
         /\ job'.resume = job.resume
<1>1. /\ job.phase \in WritePhases /\ JobOK /\ ContentOK
      /\ job \in Job /\ job.att \in Attempts /\ Mine \in Content
  BY MineType DEF TypeInv, TypeOK, JobOK, WritePhases
<1>2. CASE job.try + 1 < CaptureAttempts
  <2>1. job' = [job EXCEPT !.phase = "item", !.try = @ + 1] /\ content' = content
    BY <1>2 DEF NextTry
  <2>2. job.try + 1 \in Tries
    BY <1>1, <1>2, BoundsAssumption DEF Job, Tries
  <2>3. "item" \in WritePhases /\ "item" \in Phases /\ "item" \notin PromotionPhases
    BY DEF Phases, WritePhases, PromotionPhases
  <2>4. /\ job' \in Job /\ job'.phase = "item" /\ job'.att = job.att
        /\ job'.saved = job.saved /\ job'.step = job.step /\ job'.resume = job.resume
    BY <1>1, <2>1, <2>2, <2>3 DEF Job
  <2>5. job.resume => job.saved \in Attempts
    BY <1>1 DEF JobOK
  <2> QED
    BY <1>1, <2>1, <2>3, <2>4, <2>5 DEF JobOK, StepOK, ContentOK
<1>3. CASE ~ (job.try + 1 < CaptureAttempts)
  <2> DEFINE c == [Mine EXCEPT !.items = @ + 1, !.seen = @ \ {Item}, !.stale = @ \ {Item}]
  <2>1. Recorded /\ Write(c)
    BY <1>3 DEF NextTry
  <2>2. c \in Content
    <3>1. Mine.items + 1 \in 0 .. ItemCount
      BY <1>1, ItemCountAssumption DEF Content
    <3> QED
      BY <1>1, <3>1 DEF Content
  <2> HIDE DEF c
  <2> QED
    BY <1>1, <2>1, <2>2, RecordedType, WriteType
<1> QED
  BY <1>2, <1>3

LEMMA TypeInit == Init => TypeInv
<1> SUFFICES ASSUME Init PROVE TypeInv
  OBVIOUS
<1>1. StorageOK
  BY DEF Init, StorageOK, Directory, File
<1>2. ContentOK
  BY BlankType DEF Init, ContentOK
<1>3. JobOK /\ StepOK
  BY FirstTry DEF Init, JobOK, Job, StepOK, Idle, Resting, Phases, WritePhases,
                  PromotionPhases, MaybeAttempt, PromotionSteps
<1>4. told \in Report /\ HarmOK
  BY ItemCountAssumption, BoundsAssumption DEF Init, Report, HarmOK
<1> QED
  BY <1>1, <1>2, <1>3, <1>4 DEF TypeInv, TypeOK

LEMMA StartType ==
  ASSUME TypeInv, StartFresh \/ Resume
  PROVE  TypeInv'
<1> USE DEF TypeInv, TypeOK
<1>1. StorageOK' /\ told' \in Report /\ HarmOK'
  BY StorageUnchanged
     DEF StartFresh, Resume, ReconcilePromotion, PromoteResumed, StartResume, HarmOK
<1>2. ContentOK'
  BY BlankType
     DEF StartFresh, Resume, ReconcilePromotion, PromoteResumed, StartResume, ContentOK
<1>3. JobOK' /\ StepOK'
  <2>1. CASE StartFresh
    BY <2>1, WritingType DEF StartFresh, NewAttempts, FreeAttempts, MaybeAttempt
  <2>2. CASE StartResume
    <3>1. dir["partial"].att \in Attempts
      BY <2>2, FilesOfAttempts
         DEF StartResume, Resumable, Authentic, Intact, Current, StorageOK, Names, ProgressNames
    <3> QED
      BY <2>2, <3>1, WritingType DEF StartResume, NewAttempts, FreeAttempts, MaybeAttempt
  <2>3. CASE PromoteResumed
    <3>1. dir["partial"].att \in Attempts /\ dir["resume"].att \in Attempts
      BY <2>3, FilesOfAttempts
         DEF PromoteResumed, Promotable, Authentic, Intact, Current, Resumed, StorageOK,
             Names, ProgressNames
    <3> QED
      BY <2>3, <3>1, PromotingType DEF PromoteResumed, PromotionSteps
  <2>4. CASE ReconcilePromotion
    <3>1. PICK k \in PromotionSteps :
            /\ Reconcilable(dir, k)
            /\ job' = Promoting(
                 IF dir["promotion"] = Absent THEN "journal" ELSE PromotionPhase(k),
                 dir[AdvancedPair(k)[1]].att,
                 IF SavedPairRemains(k) THEN dir[SavedPair(k)[1]].att
                                        ELSE dir["promotion"].saved,
                 k)
      BY <2>4 DEF ReconcilePromotion
    <3>2. AdvancedPair(k)[1] \in Names /\ SavedPair(k)[1] \in Names
      BY DEF AdvancedPair, SavedPair, Names, ProgressNames
    <3>3. dir[AdvancedPair(k)[1]].att \in Attempts
      BY <3>1, <3>2, FilesOfAttempts DEF Reconcilable, Continues, Intact, StorageOK
    <3>4. CASE SavedPairRemains(k)
      <4>1. dir[SavedPair(k)[1]].att \in Attempts
        BY <3>1, <3>2, <3>4, FilesOfAttempts DEF Reconcilable, Continues, Intact, StorageOK
      <4> QED
        BY <3>1, <3>3, <3>4, <4>1, PromotingType
    <3>5. CASE ~ SavedPairRemains(k)
      <4>1. dir["promotion"] # Absent
        BY <3>1, <3>5 DEF Reconcilable, Continues, IsLayout, Present, ProgressNames,
                          PromotionSteps, SavedPairRemains
      <4>2. dir["promotion"].saved \in Attempts
        BY <3>1, <4>1, FilesOfAttempts
           DEF Reconcilable, Continues, JournalMatches, StorageOK, Names, ProgressNames
      <4> QED
        BY <3>1, <3>3, <3>5, <4>1, <4>2, PromotingType
    <3> QED
      BY <3>4, <3>5
  <2> QED
    BY <2>1, <2>2, <2>3, <2>4 DEF Resume
<1> QED
  BY <1>1, <1>2, <1>3

LEMMA WriteBundleType ==
  ASSUME TypeInv, WriteBundle
  PROVE  TypeInv'
<1> USE DEF TypeInv, TypeOK
<1> DEFINE Parts == StorageOK' /\ ContentOK' /\ JobOK' /\ StepOK'
                      /\ told' \in Report /\ HarmOK'
<1> SUFFICES Parts
  OBVIOUS
<1>1. job \in Job /\ (job.phase \in WritePhases => job.att \in Attempts)
  BY DEF JobOK
<1>2. harm' = harm
  BY DEF WriteBundle, CreatePartial, RekeyPrefix, StageItem, FillStage, DropStage,
         AppendItem,
         FinishItems, SyncPartial, CreateCheckpoint, WriteCheckpoint, SyncCheckpoint,
         SyncCheckpointDirectory, SealBundle, Publish, SyncFinal, CleanPartial,
         CleanCheckpoint
<1>3. HarmOK'
  BY <1>2 DEF HarmOK
<1>4. ASSUME job.phase \in WritePhases
      PROVE  Mine \in Content /\ job.att \in Attempts
  BY <1>1, <1>4, MineType
<1>5. ASSUME UNCHANGED content PROVE ContentOK'
  BY <1>5 DEF ContentOK
<1>6. CASE CreatePartial
  <2>1. StorageOK'
    <3>1. Bundle(job.att) \in File
      BY <1>1, <1>6 DEF CreatePartial, At, WritePhases, File
    <3> QED
      BY <1>6, <3>1, OutName, PlaceType, RelinkType DEF CreatePartial
  <2>2. CASE job.resume
    <3>1. Goto("rekey") /\ job.phase = "create"
      BY <1>6, <2>2 DEF CreatePartial, At
    <3>2. JobOK' /\ job'.phase = "rekey" /\ job'.resume
      BY <2>2, <3>1, WriteGotoType DEF WritePhases
    <3> QED
      BY <1>3, <1>5, <1>6, <2>1, <3>2 DEF CreatePartial, StepOK
  <2>3. CASE ~ job.resume
    <3>1. Goto("item") /\ job.phase = "create"
      BY <1>6, <2>3 DEF CreatePartial, At
    <3>2. JobOK' /\ StepOK'
      BY <3>1, WriteGotoType DEF WritePhases
    <3> QED
      BY <1>3, <1>5, <1>6, <2>1, <3>2 DEF CreatePartial
  <2> QED
    BY <2>2, <2>3
<1>7. CASE RekeyPrefix
  <2>1. job.phase = "rekey" /\ Goto("item")
    BY <1>7 DEF RekeyPrefix, At
  <2>2. job.saved \in Attempts
    BY <2>1 DEF StepOK, JobOK
  <2>3. [Mine EXCEPT !.items = content[job.saved].items,
                     !.seen = content[job.saved].seen,
                     !.stale = content[job.saved].stale] \in Content
    BY <1>4, <2>1, <2>2 DEF WritePhases, Content, ContentOK
  <2>4. ContentOK'
    BY <1>4, <1>7, <2>1, <2>3, WriteType DEF RekeyPrefix, WritePhases
  <2>5. JobOK' /\ StepOK'
    BY <2>1, WriteGotoType DEF WritePhases
  <2> QED
    BY <1>3, <1>7, <2>4, <2>5, StorageUnchanged DEF RekeyPrefix
<1>8. CASE StageItem
  <2>1. job.phase = "item" /\ Goto("stage") /\ Mine.items < ItemCount
    BY <1>8 DEF StageItem, At
  <2>2. Mine \in Content /\ job.att \in Attempts /\ Item \in Items
        /\ NextItem \in OutputNames \X Items \X Tries
    BY <1>4, <2>1, ItemType DEF WritePhases
  <2>3. StorageOK'
    BY <1>8, <2>2 DEF StageItem, StorageOK
  <2>4. JobOK' /\ job'.phase = "stage" /\ job'.att = job.att
    BY <2>1, WriteGotoType DEF WritePhases
  <2> DEFINE c == [Mine EXCEPT !.seen = @ \cup {Item}, !.stale = @ \ {Item}]
  <2>5. c \in Content /\ c.items = Mine.items
    BY <2>2 DEF Content
  <2> HIDE DEF c
  <2>6. Write(c)
    BY <1>8 DEF StageItem, c
  <2>7. ContentOK' /\ content'[job.att] = c
    BY <2>2, <2>5, <2>6, WriteType
  <2>8. StepOK'
    BY <2>1, <2>4, <2>5, <2>7 DEF StepOK
  <2> QED
    BY <1>3, <1>8, <2>3, <2>4, <2>7, <2>8 DEF StageItem
<1>9. CASE FillStage
  <2>1. job.phase = "stage" /\ Goto("append") /\ content' = content
    BY <1>9 DEF FillStage, At
  <2>2. JobOK' /\ job'.phase = "append" /\ job'.att = job.att
    BY <2>1, WriteGotoType DEF WritePhases
  <2>3. StepOK'
    BY <2>1, <2>2 DEF StepOK
  <2> QED
    BY <1>3, <1>5, <1>9, <2>2, <2>3, StorageUnchanged DEF FillStage
<1>22. CASE DropStage
  <2>1. job.phase = "stage" /\ Mine.items < ItemCount
    BY <1>22 DEF DropStage, At, StepOK, Mine
  <2>2. NextItem \in OutputNames \X Items \X Tries
    BY <1>4, <2>1, ItemType DEF WritePhases
  <2>3. StorageOK'
    BY <1>22, <2>2 DEF DropStage, StorageOK
  <2>4. ContentOK' /\ JobOK' /\ StepOK'
    BY <1>22, <2>1, NextTryType DEF DropStage
  <2> QED
    BY <1>3, <1>22, <2>3, <2>4 DEF DropStage
<1>10. CASE AppendItem
  <2>1. job.phase = "append" /\ Mine.items < ItemCount
    BY <1>10 DEF AppendItem, At, StepOK, Mine
  <2>2. NextItem \in OutputNames \X Items \X Tries
    BY <1>4, <2>1, ItemType DEF WritePhases
  <2>3. StorageOK'
    BY <1>10, <2>2 DEF AppendItem, StorageOK
  <2>4. [Mine EXCEPT !.items = @ + 1] \in Content
    BY <1>4, <2>1, ItemCountAssumption DEF WritePhases, Content
  <2>5. ContentOK'
    BY <1>4, <1>10, <2>1, <2>4, WriteType DEF AppendItem, WritePhases
  <2>6. JobOK' /\ StepOK'
    BY <1>10, <2>1, RecordedType DEF AppendItem, WritePhases
  <2> QED
    BY <1>3, <1>10, <2>3, <2>5, <2>6 DEF AppendItem
<1>11. CASE FinishItems
  <2>1. job.phase = "item" /\ Goto("seal")
    BY <1>11 DEF FinishItems, At
  <2>2. JobOK' /\ StepOK'
    BY <2>1, WriteGotoType DEF WritePhases
  <2> QED
    BY <1>3, <1>5, <1>11, <2>2, StorageUnchanged DEF FinishItems
<1>12. CASE SyncPartial
  <2>1. job.phase = "sync partial" /\ Goto("create checkpoint")
    BY <1>12 DEF SyncPartial, At
  <2>2. [Mine EXCEPT !.body = "durable", !.seen = Observed] \in Content
    <3>1. Mine \in Content /\ Observed \in SUBSET Items
      BY <1>4, <2>1, ObservedType DEF WritePhases
    <3> QED
      BY <3>1 DEF Content
  <2>3. ContentOK'
    BY <1>4, <1>12, <2>1, <2>2, WriteType DEF SyncPartial, WritePhases
  <2>4. JobOK' /\ StepOK'
    BY <2>1, WriteGotoType DEF WritePhases
  <2> QED
    BY <1>3, <1>12, <2>3, <2>4, StorageUnchanged DEF SyncPartial
<1>13. CASE CreateCheckpoint
  <2>1. job.phase = "create checkpoint" /\ Goto("write checkpoint")
    BY <1>13 DEF CreateCheckpoint, At
  <2>2. StorageOK'
    <3>1. job.att \in Attempts
      BY <1>4, <2>1 DEF WritePhases
    <3>2. Checkpoint(job.att) \in File
      BY <3>1 DEF File
    <3> QED
      BY <1>13, <3>2, OutName, PlaceType, RelinkType DEF CreateCheckpoint
  <2>3. JobOK' /\ StepOK'
    BY <2>1, WriteGotoType DEF WritePhases
  <2> QED
    BY <1>3, <1>5, <1>13, <2>2, <2>3 DEF CreateCheckpoint
<1>14. CASE WriteCheckpoint
  <2>1. job.phase = "write checkpoint" /\ Goto("sync checkpoint")
    BY <1>14 DEF WriteCheckpoint, At
  <2>2. [Mine EXCEPT !.noted = Mine.items, !.note = "volatile"] \in Content
    BY <1>4, <2>1 DEF WritePhases, Content
  <2>3. ContentOK'
    BY <1>4, <1>14, <2>1, <2>2, WriteType DEF WriteCheckpoint, WritePhases
  <2>4. JobOK' /\ StepOK'
    BY <2>1, WriteGotoType DEF WritePhases
  <2> QED
    BY <1>3, <1>14, <2>3, <2>4, StorageUnchanged DEF WriteCheckpoint
<1>15. CASE SyncCheckpoint
  <2>1. job.phase = "sync checkpoint" /\ Goto("sync checkpoint directory")
    BY <1>15 DEF SyncCheckpoint, At
  <2>2. [Mine EXCEPT !.note = "durable"] \in Content
    BY <1>4, <2>1 DEF WritePhases, Content
  <2>3. ContentOK'
    BY <1>4, <1>15, <2>1, <2>2, WriteType DEF SyncCheckpoint, WritePhases
  <2>4. JobOK' /\ StepOK'
    BY <2>1, WriteGotoType DEF WritePhases
  <2> QED
    BY <1>3, <1>15, <2>3, <2>4, StorageUnchanged DEF SyncCheckpoint
<1>16. CASE SyncCheckpointDirectory
  <2>1. job.phase = "sync checkpoint directory"
    BY <1>16 DEF SyncCheckpointDirectory, At
  <2>2. StorageOK'
    BY <1>16, SyncDirectoryType DEF SyncCheckpointDirectory
  <2>3. CASE job.resume
    <3>1. Goto("journal") /\ told' = told
      BY <1>16, <2>3 DEF SyncCheckpointDirectory
    <3>2. job.saved \in Attempts
      BY <2>1, <2>3 DEF JobOK
    <3>3. JobOK' /\ job'.phase = "journal"
      BY <1>4, <2>1, <3>1, <3>2, GotoType DEF WritePhases, PromotionPhases, Phases
    <3>4. StepOK'
      BY <3>3 DEF StepOK
    <3> QED
      BY <1>3, <1>5, <1>16, <2>2, <3>1, <3>3, <3>4 DEF SyncCheckpointDirectory
  <2>4. CASE ~ job.resume
    <3>1. job' = Idle /\ Paused
      BY <1>16, <2>4 DEF SyncCheckpointDirectory
    <3>2. told' \in Report
      BY <1>4, <2>1, <3>1 DEF Paused, WritePhases, Content, Report
    <3> QED
      BY <1>3, <1>5, <1>16, <2>2, <3>1, <3>2, IdleType DEF SyncCheckpointDirectory
  <2> QED
    BY <2>3, <2>4
<1>17. CASE SealBundle
  <2>1. job.phase = "seal" /\ Goto("publish")
    BY <1>17 DEF SealBundle, At
  <2>2. [Mine EXCEPT !.sealed = TRUE, !.body = "durable"] \in Content
    BY <1>4, <2>1 DEF WritePhases, Content
  <2>3. ContentOK'
    BY <1>4, <1>17, <2>1, <2>2, WriteType DEF SealBundle, WritePhases
  <2>4. JobOK' /\ StepOK'
    BY <2>1, WriteGotoType DEF WritePhases
  <2> QED
    BY <1>3, <1>17, <2>3, <2>4, StorageUnchanged DEF SealBundle
<1>18. CASE Publish
  <2>1. job.phase = "publish" /\ Goto("sync final")
    BY <1>18 DEF Publish, At
  <2>2. StorageOK'
    BY <1>18, OutName, RenameType, RelinkType DEF Publish, Names
  <2>3. JobOK' /\ StepOK'
    BY <2>1, WriteGotoType DEF WritePhases
  <2> QED
    BY <1>3, <1>5, <1>18, <2>2, <2>3 DEF Publish
<1>19. CASE SyncFinal
  <2>1. job.phase = "sync final"
    BY <1>19 DEF SyncFinal, At
  <2>2. StorageOK'
    BY <1>19, SyncDirectoryType DEF SyncFinal
  <2>3. CASE job.resume
    <3>1. Goto("clean partial") /\ told' = told
      BY <1>19, <2>3 DEF SyncFinal
    <3>2. JobOK' /\ job'.phase = "clean partial"
      BY <1>4, <2>1, <3>1, GotoType DEF WritePhases, PromotionPhases, Phases
    <3>3. StepOK'
      BY <3>2 DEF StepOK
    <3> QED
      BY <1>3, <1>5, <1>19, <2>2, <3>1, <3>2, <3>3 DEF SyncFinal
  <2>4. CASE ~ job.resume
    <3>1. job' = Idle /\ Completed
      BY <1>19, <2>4 DEF SyncFinal
    <3>2. told' \in Report
      BY <3>1, ItemCountAssumption DEF Completed, Report
    <3> QED
      BY <1>3, <1>5, <1>19, <2>2, <3>1, <3>2, IdleType DEF SyncFinal
  <2> QED
    BY <2>3, <2>4
<1>20. CASE CleanPartial
  <2>1. job.phase = "clean partial" /\ Goto("clean checkpoint")
    BY <1>20 DEF CleanPartial, At
  <2>2. StorageOK'
    BY <1>20, CleanType DEF CleanPartial, Names, ProgressNames
  <2>3. JobOK' /\ job'.phase = "clean checkpoint"
    BY <2>1, GotoType DEF WritePhases, PromotionPhases, Phases
  <2>4. StepOK'
    BY <2>3 DEF StepOK
  <2> QED
    BY <1>3, <1>5, <1>20, <2>2, <2>3, <2>4 DEF CleanPartial
<1>21. CASE CleanCheckpoint
  <2>1. StorageOK'
    BY <1>21, CleanType DEF CleanCheckpoint, Names, ProgressNames
  <2>2. told' = [state |-> "complete", items |-> ItemCount]
    BY <1>21 DEF CleanCheckpoint, Completed
  <2>3. told' \in Report
    BY <2>2, ItemCountAssumption DEF Report
  <2> QED
    BY <1>3, <1>5, <1>21, <2>1, <2>3, IdleType DEF CleanCheckpoint
<1> QED
  BY <1>6, <1>7, <1>8, <1>9, <1>10, <1>11, <1>12, <1>13, <1>14, <1>15, <1>16,
     <1>17, <1>18, <1>19, <1>20, <1>21, <1>22 DEF WriteBundle

LEMMA PromoteType ==
  ASSUME TypeInv, Promote
  PROVE  TypeInv'
<1> USE DEF TypeInv, TypeOK
<1> DEFINE Parts == StorageOK' /\ ContentOK' /\ JobOK' /\ StepOK'
                      /\ told' \in Report /\ HarmOK'
<1> SUFFICES Parts
  OBVIOUS
<1>1. harm' = harm /\ content' = content
  BY DEF Promote, StageJournal, PublishJournal, SyncJournal, Move, Remove,
         SyncTransition, DropJournal, SyncDrop
<1>2. HarmOK' /\ ContentOK'
  BY <1>1 DEF HarmOK, ContentOK
<1>3. job.phase \in PromotionPhases /\ job.att \in Attempts /\ job.saved \in Attempts
  BY DEF Promote, StageJournal, PublishJournal, SyncJournal, Move, Remove,
         SyncTransition, DropJournal, SyncDrop, At, PromotionPhases, JobOK
<1>4. Absent \in File
  BY DEF File
<1>5. ASSUME NEW p \in PromotionPhases, Goto(p)
      PROVE  JobOK' /\ job'.phase = p /\ job'.step = job.step
  <2>1. p \in Phases /\ job.phase # "idle"
    BY <1>3 DEF Phases, PromotionPhases
  <2> QED
    BY <1>3, <1>5, <2>1, GotoType
<1>6. CASE StageJournal
  <2>1. JobOK' /\ job'.phase = "publish journal"
    BY <1>5, <1>6 DEF StageJournal, PromotionPhases
  <2>2. StepOK'
    BY <2>1 DEF StepOK
  <2> QED
    BY <1>2, <1>6, <2>1, <2>2, SyncDirectoryType DEF StageJournal
<1>7. CASE PublishJournal
  <2>1. JobOK' /\ job'.phase = "sync journal"
    BY <1>5, <1>7 DEF PublishJournal, PromotionPhases
  <2>2. StepOK'
    BY <2>1 DEF StepOK
  <2>3. StorageOK'
    <3>1. Journal(job.saved, job.att) \in File
      BY <1>3 DEF File
    <3> QED
      BY <1>7, <3>1, PlaceType, RelinkType DEF PublishJournal, Names, ProgressNames
  <2> QED
    BY <1>2, <1>7, <2>1, <2>2, <2>3 DEF PublishJournal
<1>8. ASSUME NEW k \in PromotionSteps,
             job' = [job EXCEPT !.phase = PromotionPhase(k), !.step = k]
      PROVE  JobOK' /\ StepOK'
  <2>1. PromotionPhase(k) \in {"move", "remove", "drop journal"}
    BY DEF PromotionPhase
  <2>2. job'.phase = PromotionPhase(k) /\ job'.step = k
    BY <1>8 DEF JobOK, Job
  <2>3. JobOK'
    BY <1>3, <1>8, <2>1 DEF JobOK, Job, PromotionPhases, Phases, WritePhases
  <2>4. StepOK'
    <3>1. PromotionPhase(k) = "move" => k \in 0 .. 3
      BY DEF PromotionPhase, PromotionSteps
    <3>2. PromotionPhase(k) = "remove" => k \in 4 .. 5
      BY DEF PromotionPhase, PromotionSteps
    <3> QED
      BY <2>1, <2>2, <3>1, <3>2 DEF StepOK
  <2> QED
    BY <2>3, <2>4
<1>9. CASE SyncJournal
  <2>1. job' = [job EXCEPT !.phase = PromotionPhase(job.step), !.step = job.step]
    BY <1>9 DEF SyncJournal, Goto, JobOK, Job
  <2>2. job.step \in PromotionSteps
    BY DEF JobOK, Job
  <2> QED
    BY <1>2, <1>8, <1>9, <2>1, <2>2, SyncDirectoryType DEF SyncJournal
<1>10. CASE Move
  <2>1. job.phase = "move" /\ job.step \in 0 .. 3
    BY <1>10 DEF Move, At, StepOK
  <2>2. MoveFrom[NextStep] \in Names /\ MoveTo[NextStep] \in Names
    BY <2>1 DEF NextStep, MoveFrom, MoveTo, Names, ProgressNames
  <2>3. StorageOK'
    BY <1>10, <2>2, RenameType, RelinkType DEF Move
  <2>4. JobOK' /\ job'.phase = "sync move" /\ job'.step = job.step
    BY <1>5, <1>10 DEF Move, PromotionPhases
  <2>5. StepOK'
    BY <2>1, <2>4 DEF StepOK
  <2> QED
    BY <1>2, <1>10, <2>3, <2>4, <2>5 DEF Move
<1>11. CASE Remove
  <2>1. job.phase = "remove" /\ job.step \in 4 .. 5
    BY <1>11 DEF Remove, At, StepOK
  <2>2. Removed[job.step - 3] \in Names
    BY <2>1 DEF Removed, Names, ProgressNames
  <2>3. StorageOK'
    BY <1>4, <1>11, <2>2, PlaceType, RelinkType DEF Remove
  <2>4. JobOK' /\ job'.phase = "sync remove" /\ job'.step = job.step
    BY <1>5, <1>11 DEF Remove, PromotionPhases
  <2>5. StepOK'
    BY <2>1, <2>4 DEF StepOK
  <2> QED
    BY <1>2, <1>11, <2>3, <2>4, <2>5 DEF Remove
<1>12. CASE SyncTransition
  <2>1. NextStep \in PromotionSteps
    <3>1. CASE job.phase = "sync move"
      <4>1. job.step \in 0 .. 3
        BY <3>1 DEF StepOK
      <4> QED
        BY <4>1 DEF NextStep, PromotionSteps
    <3>2. CASE job.phase = "sync remove"
      <4>1. job.step \in 4 .. 5
        BY <3>2 DEF StepOK
      <4> QED
        BY <4>1 DEF NextStep, PromotionSteps
    <3> QED
      BY <1>12, <3>1, <3>2 DEF SyncTransition, At
  <2>2. JobOK' /\ StepOK'
    BY <1>8, <1>12, <2>1 DEF SyncTransition
  <2> QED
    BY <1>2, <1>12, <2>2, SyncDirectoryType DEF SyncTransition
<1>13. CASE DropJournal
  <2>1. JobOK' /\ job'.phase = "sync drop"
    BY <1>5, <1>13 DEF DropJournal, PromotionPhases
  <2>2. StepOK'
    BY <2>1 DEF StepOK
  <2>3. StorageOK'
    BY <1>4, <1>13, PlaceType, RelinkType DEF DropJournal, Names, ProgressNames
  <2> QED
    BY <1>2, <1>13, <2>1, <2>2, <2>3 DEF DropJournal
<1>14. CASE SyncDrop
  <2>1. StorageOK'
    BY <1>14, SyncDirectoryType DEF SyncDrop
  <2>2. CASE job.reenter
    <3>1. job' = Resting("begin") /\ told' = told
      BY <1>14, <2>2 DEF SyncDrop
    <3>2. JobOK' /\ StepOK'
      BY <3>1, RestingType
    <3> QED
      BY <1>2, <2>1, <3>1, <3>2
  <2>3. CASE ~ job.reenter
    <3>1. job' = Idle /\ Paused
      BY <1>14, <2>3 DEF SyncDrop
    <3>2. told' \in Report
      BY <1>3, <3>1, MineType DEF Paused, Content, Report
    <3> QED
      BY <1>2, <2>1, <3>1, <3>2, IdleType
  <2> QED
    BY <2>2, <2>3
<1> QED
  BY <1>6, <1>7, <1>9, <1>10, <1>11, <1>12, <1>13, <1>14 DEF Promote

LEMMA SurvivorsType ==
  ASSUME ContentOK, NEW bodies, NEW notes
  PROVE  Survivors(bodies, notes) \in [Attempts -> Content]
<1> SUFFICES ASSUME NEW a \in Attempts
             PROVE  [content[a] EXCEPT !.body = Settled(@, a, bodies),
                                       !.note = Settled(@, a, notes)] \in Content
  BY DEF Survivors
<1>1. content[a] \in Content
  BY DEF ContentOK
<1>2. Settled(content[a].body, a, bodies) \in {"volatile", "durable", "torn"}
  BY <1>1 DEF Settled, Content
<1>3. Settled(content[a].note, a, notes) \in {"none", "volatile", "durable", "torn"}
  BY <1>1 DEF Settled, Content
<1> QED
  BY <1>1, <1>2, <1>3 DEF Content

LEMMA UnwindType ==
  ASSUME TypeInv, Unwind
  PROVE  StorageOK' /\ ContentOK' /\ JobOK' /\ StepOK' /\ told' \in Report
<1> USE DEF TypeInv, TypeOK
<1>1. StorageOK'
  <2>1. dir' \in Directory /\ views' \in SUBSET Directory /\ dir' \in views'
    <3>1. Place(Out, Absent) \in Directory
      BY OutName, PlaceType DEF File
    <3> QED
      BY <3>1 DEF Unwind, StorageOK
  <2>2. stages' \in SUBSET (OutputNames \X Items \X Tries)
    BY DEF Unwind, StorageOK
  <2>3. unsynced' \in SUBSET (OutputNames \X Items \X Tries)
    <3>1. CASE At("stage")
      <4>1. job.phase \in WritePhases /\ Mine.items < ItemCount
        BY <3>1 DEF At, StepOK, WritePhases, Mine
      <4>2. NextItem \in OutputNames \X Items \X Tries
        BY <4>1, ItemType
      <4> QED
        BY <3>1, <4>2 DEF Unwind, StorageOK
    <3> QED
      BY <3>1 DEF Unwind, StorageOK
  <2> QED
    BY <2>1, <2>2, <2>3 DEF StorageOK
<1>2. ContentOK' /\ told' \in Report /\ job' = Idle
  BY DEF Unwind, ContentOK
<1> QED
  BY <1>1, <1>2, IdleType

\* An observation that fails, or an edit, costs one of the changes.
LEMMA SourceHarm ==
  ASSUME HarmOK, harm.source < MaxChanges, harm' = [harm EXCEPT !.source = @ + 1]
  PROVE  /\ HarmOK'
         /\ harm'.fault = harm.fault /\ harm'.kill = harm.kill
         /\ harm'.power = harm.power /\ harm'.foreign = harm.foreign
         /\ harm'.source > 0
  BY BoundsAssumption DEF HarmOK

\* The two hold the same bytes: they differ in the observations at most.
Alike(c, e) ==
  /\ c.items = e.items /\ c.noted = e.noted
  /\ c.sealed = e.sealed /\ c.body = e.body /\ c.note = e.note

LEMMA EditFacts ==
  ASSUME ContentOK, EditSource
  PROVE  /\ ContentOK'
         /\ \A a \in Attempts : /\ Alike(content'[a], content[a])
                               /\ content'[a].seen = content[a].seen
                               /\ content[a].stale \subseteq content'[a].stale
<1>1. PICK i \in Items : content' = [a \in Attempts |-> Edited(content[a], i)]
  BY DEF EditSource
<1>2. ASSUME NEW a \in Attempts
      PROVE  /\ content'[a] \in Content /\ Alike(content'[a], content[a])
             /\ content'[a].seen = content[a].seen
             /\ content[a].stale \subseteq content'[a].stale
  <2>1. content[a] \in Content
    BY DEF ContentOK
  <2>2. content'[a] = [content[a] EXCEPT !.stale = @ \cup ({i} \cap content[a].seen)]
    BY <1>1 DEF Edited
  <2> QED
    BY <2>1, <2>2 DEF Content, Alike
<1> QED
  BY <1>1, <1>2 DEF ContentOK

\* A missed observation changes nothing but what is known of the source.
LEMMA MissRewrites ==
  ASSUME TypeInv, MissObservation
  PROVE  /\ job.phase \in {"stage", "create checkpoint"} /\ job' = job
         /\ dir' = dir /\ views' = views
         /\ \E s \in SUBSET Items, t \in SUBSET Items :
              Write([Mine EXCEPT !.seen = s, !.stale = t])
<1>1. /\ job.phase \in {"stage", "create checkpoint"} /\ job' = job
      /\ dir' = dir /\ views' = views
  BY DEF MissObservation, At, storage
<1>2. Mine \in Content
  BY <1>1, MineType DEF TypeInv, TypeOK, JobOK, WritePhases
<1>3. CASE At("stage")
  <2>1. Item \in Items
    BY <1>3, ItemType DEF At, TypeInv, StepOK, Mine, WritePhases
  <2>2. Write([Mine EXCEPT !.stale = @ \cup {Item}])
    BY <1>3 DEF MissObservation, At
  <2>3. [Mine EXCEPT !.stale = @ \cup {Item}]
          = [Mine EXCEPT !.seen = Mine.seen, !.stale = Mine.stale \cup {Item}]
    BY <1>2 DEF Content
  <2>4. Mine.seen \subseteq Items /\ Mine.stale \cup {Item} \subseteq Items
    BY <1>2, <2>1 DEF Content
  <2> QED
    BY <1>1, <2>2, <2>3, <2>4
<1>4. CASE At("create checkpoint")
  <2>1. PICK i : Write([Mine EXCEPT !.seen = @ \ {i}, !.stale = @ \ {i}])
    BY <1>4 DEF MissObservation, At
  <2>2. Mine.seen \ {i} \subseteq Items /\ Mine.stale \ {i} \subseteq Items
    BY <1>2 DEF Content
  <2> QED
    BY <1>1, <2>1, <2>2
<1> QED
  BY <1>3, <1>4 DEF MissObservation

\* The source hinders the call that captures.
LEMMA MissType ==
  ASSUME TypeInv, MissItem \/ MissObservation
  PROVE  TypeInv'
<1> USE DEF TypeInv, TypeOK
<1>1. HarmOK'
  BY SourceHarm DEF MissItem, MissObservation
<1>2. StorageOK' /\ told' \in Report
  BY StorageUnchanged DEF MissItem, MissObservation
<1>3. CASE MissItem
  BY <1>1, <1>2, <1>3, NextTryType DEF MissItem, At
<1>4. CASE MissObservation
  <2>1. PICK s \in SUBSET Items, t \in SUBSET Items :
          Write([Mine EXCEPT !.seen = s, !.stale = t])
    BY <1>4, MissRewrites
  <2>2. job.phase \in {"stage", "create checkpoint"} /\ job' = job
    BY <1>4, MissRewrites
  <2>3. Mine \in Content /\ job.att \in Attempts
    BY <2>2, MineType DEF JobOK, WritePhases
  <2>4. [Mine EXCEPT !.seen = s, !.stale = t] \in Content
    BY <2>3 DEF Content
  <2>5. ContentOK'
    BY <2>1, <2>3, <2>4, WriteType
  <2>6. content'[job.att].items = content[job.att].items
    BY <2>1, <2>3, <2>4, WriteType DEF Mine, Content
  <2> QED
    BY <1>1, <1>2, <2>2, <2>5, <2>6 DEF JobOK, StepOK
<1> QED
  BY <1>3, <1>4

LEMMA EnvironmentType ==
  ASSUME TypeInv, Refuse \/ Environment
  PROVE  TypeInv'
<1> USE DEF TypeInv, TypeOK
<1>1. CASE Refuse
  BY <1>1, UnwindType DEF Refuse, HarmOK
<1>2. CASE Fault
  <2>1. HarmOK'
    <3>1. harm' = [harm EXCEPT !.fault = @ + 1] /\ harm.fault < MaxFaults
      BY <1>2 DEF Fault
    <3> QED
      BY <3>1, BoundsAssumption DEF HarmOK
  <2> QED
    BY <1>2, <2>1, UnwindType DEF Fault
<1>3. CASE Kill
  <2>1. HarmOK'
    <3>1. harm' = [harm EXCEPT !.kill = @ + 1] /\ harm.kill < MaxKills
      BY <1>3 DEF Kill
    <3> QED
      BY <3>1, BoundsAssumption DEF HarmOK
  <2>2. StorageOK' /\ ContentOK' /\ told' \in Report /\ job' = Idle
    BY <1>3, StorageUnchanged DEF Kill, ContentOK
  <2> QED
    BY <2>1, <2>2, IdleType
<1>4. CASE PowerLoss
  <2>1. HarmOK'
    <3>1. harm' = [harm EXCEPT !.power = @ + 1] /\ harm.power < MaxPowerLosses
      BY <1>4 DEF PowerLoss
    <3> QED
      BY <3>1, BoundsAssumption DEF HarmOK
  <2>2. StorageOK'
    BY <1>4 DEF PowerLoss, StorageOK
  <2>3. ContentOK'
    <3>1. \E bodies, notes : content' = Survivors(bodies, notes)
      BY <1>4, Zenon DEF PowerLoss
    <3> QED
      BY <3>1, SurvivorsType DEF ContentOK
  <2>4. told' \in Report /\ job' = Idle
    BY <1>4 DEF PowerLoss
  <2> QED
    BY <2>1, <2>2, <2>3, <2>4, IdleType
<1>5. CASE PutForeign
  <2>1. HarmOK'
    <3>1. harm' = [harm EXCEPT !.foreign = @ + 1] /\ harm.foreign < MaxForeign
      BY <1>5 DEF PutForeign
    <3> QED
      BY <3>1, BoundsAssumption DEF HarmOK
  <2>2. Foreign \in File
    BY DEF File
  <2>3. StorageOK'
    BY <1>5, <2>2, PlaceType, RelinkType DEF PutForeign
  <2>4. ContentOK' /\ told' \in Report /\ JobOK' /\ StepOK'
    BY <1>5 DEF PutForeign, ContentOK, JobOK, StepOK
  <2> QED
    BY <2>1, <2>3, <2>4
<1>6. CASE EditSource
  <2>1. HarmOK' /\ StorageOK' /\ told' \in Report
    BY <1>6, SourceHarm, StorageUnchanged DEF EditSource
  <2>2. ContentOK' /\ \A a \in Attempts : content'[a].items = content[a].items
    BY <1>6, EditFacts DEF Alike
  <2>3. JobOK' /\ StepOK'
    BY <1>6, <2>2 DEF EditSource, JobOK, StepOK, WritePhases
  <2> QED
    BY <2>1, <2>2, <2>3
<1> QED
  BY <1>1, <1>2, <1>3, <1>4, <1>5, <1>6, MissType DEF Environment

LEMMA TypeStep == TypeInv /\ [Next]_vars => TypeInv'
<1> SUFFICES ASSUME TypeInv, [Next]_vars PROVE TypeInv'
  OBVIOUS
<1>1. CASE UNCHANGED vars
  BY <1>1 DEF TypeInv, TypeOK, StepOK, StorageOK, ContentOK, JobOK, HarmOK, vars, storage
<1>2. CASE Next
  BY <1>2, StartType, WriteBundleType, PromoteType, EnvironmentType DEF Next
<1> QED
  BY <1>1, <1>2

\* Every variable keeps its type through faults, terminations and power losses
\* (BundleEngine::pack, write_bundle and continue_pack_checkpoint_promotion).
THEOREM TypeCorrect == Spec => []TypeOK
<1>1. TypeInv => TypeOK
  BY DEF TypeInv
<1> QED
  BY <1>1, TypeInit, TypeStep, PTL DEF Spec

(***************************************************************************)
(* No false completion                                                     *)
(***************************************************************************)
Early == WritePhases \ {"sync final"}

Done(a) == /\ content[a].sealed
           /\ content[a].body = "durable"
           /\ content[a].items = ItemCount

\* While an attempt still writes, no directory that a power loss may leave has
\* its file under the final name; and a file about to be renamed is complete.
CompletionInv ==
  /\ NoFalseCompletion
  /\ job.phase \in Early => \A d \in views : d["final"] # Bundle(job.att)
  /\ job.phase = "seal" => content[job.att].items = ItemCount
  /\ job.phase = "publish" => Done(job.att)

SameFinals == \A d \in views' : \E e \in views : d["final"] = e["final"]

LEMMA RelinkKeepsFinals ==
  ASSUME StorageOK, NEW d, Relink(d), d["final"] = dir["final"]
  PROVE  SameFinals
  BY DEF SameFinals, Relink, StorageOK

LEMMA PlaceKeepsFinal ==
  ASSUME StorageOK, NEW n \in Names \ {"final"}, NEW f
  PROVE  Place(n, f)["final"] = dir["final"]
  BY DEF Place, StorageOK, Directory, Names

LEMMA RenameKeepsFinal ==
  ASSUME StorageOK, NEW from \in Names \ {"final"}, NEW to \in Names \ {"final"}
  PROVE  Rename(from, to)["final"] = dir["final"]
  BY DEF Rename, StorageOK, Directory, Names

LEMMA SyncKeepsFinals ==
  ASSUME StorageOK, SyncDirectory
  PROVE  SameFinals
  BY DEF SameFinals, SyncDirectory, StorageOK

LEMMA CleanKeepsFinals ==
  ASSUME StorageOK, NEW n \in Names \ {"final"}, NEW f, Clean(n, f)
  PROVE  SameFinals
<1>1. CASE UNCHANGED storage
  BY <1>1 DEF storage, SameFinals
<1>2. CASE Relink(Place(n, Absent))
  BY <1>2, RelinkKeepsFinals, PlaceKeepsFinal
<1> QED
  BY <1>1, <1>2 DEF Clean

LEMMA FinalsKept ==
  ASSUME TypeOK, NoFalseCompletion, SameFinals,
         \A d \in views : d["final"].kind = "bundle" /\ Done(d["final"].att)
                            => Done(d["final"].att)'
  PROVE  NoFalseCompletion'
<1> SUFFICES ASSUME NEW d \in views' PROVE FinalOK(d)'
  BY DEF NoFalseCompletion
<1>1. PICK e \in views : d["final"] = e["final"]
  BY DEF SameFinals
<1>2. FinalOK(e)
  BY DEF NoFalseCompletion
<1> QED
  BY <1>1, <1>2 DEF FinalOK, Done

\* A step that changes no content and no final name.
LEMMA QuietStep ==
  ASSUME TypeOK, CompletionInv, SameFinals, content' = content,
         job'.phase \in Early => job.phase \in Early /\ job'.att = job.att,
         job'.phase = "seal" => content[job'.att].items = ItemCount,
         job'.phase # "publish"
  PROVE  CompletionInv'
<1>1. NoFalseCompletion'
  BY FinalsKept DEF CompletionInv, Done
<1>2. job'.phase \in Early => \A d \in views' : d["final"] # Bundle(job'.att)
  BY DEF CompletionInv, SameFinals
<1> QED
  BY <1>1, <1>2 DEF CompletionInv

\* A step that changes what the file of the running attempt holds.
LEMMA RewriteStep ==
  ASSUME TypeOK, CompletionInv, job.phase \in Early, views' = views,
         NEW c, Write(c), NEW p \in Early \ {"seal"},
         job'.phase = p, job'.att = job.att,
         p = "publish" => c.sealed /\ c.body = "durable" /\ c.items = ItemCount
  PROVE  CompletionInv'
<1>1. job'.phase = p /\ job'.att = job.att /\ job.att \in Attempts
  BY DEF TypeOK, JobOK, Early
<1>2. SameFinals
  BY DEF SameFinals
<1>3. /\ content'[job.att] = c
      /\ \A a \in Attempts \ {job.att} : content'[a] = content[a]
  BY <1>1 DEF Write, TypeOK, ContentOK
<1>4. ASSUME NEW d \in views, d["final"].kind = "bundle"
      PROVE  d["final"].att \in Attempts \ {job.att}
  <2>1. d \in Directory
    BY DEF TypeOK, StorageOK
  <2>2. d["final"].att \in Attempts /\ d["final"] = Bundle(d["final"].att)
    BY <1>4, <2>1, FilesOfAttempts DEF Names
  <2> QED
    BY <2>2 DEF CompletionInv
<1>5. NoFalseCompletion'
  BY <1>2, <1>3, <1>4, FinalsKept DEF CompletionInv, Done
<1>6. p = "publish" => Done(job.att)'
  BY <1>1, <1>3 DEF Done
<1> QED
  BY <1>1, <1>2, <1>5, <1>6 DEF CompletionInv

LEMMA WriteStep ==
  ASSUME TypeOK, CompletionInv, job.phase \in Early, views' = views,
         NEW c, Write(c), NEW p \in Early \ {"seal"}, Goto(p),
         p = "publish" => c.sealed /\ c.body = "durable" /\ c.items = ItemCount
  PROVE  CompletionInv'
<1>1. job'.phase = p /\ job'.att = job.att
  BY DEF Goto, TypeOK, JobOK, Job
<1> QED
  BY <1>1, RewriteStep

LEMMA UnpublishedWriteStep ==
  ASSUME TypeOK, CompletionInv, job.phase \in Early, views' = views,
         NEW c, Write(c), NEW p \in Early \ {"seal", "publish"}, Goto(p)
  PROVE  CompletionInv'
<1>1. p \in Early \ {"seal"} /\ p # "publish"
  OBVIOUS
<1> QED
  BY <1>1, WriteStep

\* A try that comes to nothing.
LEMMA TryCompletion ==
  ASSUME TypeInv, CompletionInv, views' = views, NextTry,
         job.phase \in {"item", "stage"}, Mine.items < ItemCount
  PROVE  CompletionInv'
<1>1. TypeOK /\ job.phase \in Early
  BY DEF TypeInv, Early, WritePhases
<1>2. job'.phase \in {"sync partial", "item"} /\ job'.att = job.att
  BY NextTryType
<1>3. CASE content' = content
  <2>1. SameFinals
    BY DEF SameFinals
  <2> QED
    BY <1>1, <1>2, <1>3, <2>1, QuietStep DEF Early, WritePhases
<1>4. CASE \E c : Write(c)
  BY <1>1, <1>2, <1>4, RewriteStep DEF Early, WritePhases
<1> QED
  BY <1>3, <1>4 DEF NextTry

LEMMA NewAreFree == NewAttempts \subseteq FreeAttempts
  BY DEF NewAttempts

\* A step that begins an attempt nobody has seen yet.
LEMMA StartStep ==
  ASSUME TypeOK, CompletionInv, UNCHANGED storage, NEW a \in FreeAttempts,
         content' = [content EXCEPT ![a] = Blank],
         job'.phase = "create", job'.att = a
  PROVE  CompletionInv'
<1>1. views' = views /\ SameFinals
  BY DEF storage, SameFinals
<1>2. a \in Attempts /\ \A d \in views : d["final"].att # a
  BY DEF FreeAttempts, Mentions, Names
<1>3. ASSUME NEW d \in views, d["final"].kind = "bundle"
      PROVE  d["final"].att \in Attempts \ {a}
  <2>1. d \in Directory
    BY DEF TypeOK, StorageOK
  <2> QED
    BY <1>2, <1>3, <2>1, FilesOfAttempts DEF Names
<1>4. NoFalseCompletion'
  BY <1>1, <1>3, FinalsKept DEF CompletionInv, Done, TypeOK, ContentOK
<1>5. \A d \in views' : d["final"] # Bundle(a)
  BY <1>1, <1>2 DEF Bundle
<1> QED
  BY <1>4, <1>5 DEF CompletionInv

LEMMA CompletionInit == Init => CompletionInv
  BY DEF Init, CompletionInv, NoFalseCompletion, FinalOK, Idle, Resting, Early,
         WritePhases, Names

LEMMA CallCompletion ==
  ASSUME TypeOK, CompletionInv, StartFresh \/ Resume
  PROVE  CompletionInv'
<1>1. CASE StartFresh
  <2>1. PICK a \in FreeAttempts :
          /\ job' = Writing(FALSE, a, NoAttempt)
          /\ content' = [content EXCEPT ![a] = Blank]
    BY <1>1, NewAreFree DEF StartFresh
  <2>2. job'.phase = "create" /\ job'.att = a
    BY <2>1 DEF Writing
  <2> QED
    BY <1>1, <2>1, <2>2, StartStep DEF StartFresh
<1>2. CASE StartResume
  <2>1. PICK a \in FreeAttempts :
          /\ job' = Writing(TRUE, a, dir["partial"].att)
          /\ content' = [content EXCEPT ![a] = Blank]
    BY <1>2, NewAreFree DEF StartResume
  <2>2. job'.phase = "create" /\ job'.att = a
    BY <2>1 DEF Writing
  <2> QED
    BY <1>2, <2>1, <2>2, StartStep DEF StartResume
<1>3. ASSUME PromoteResumed \/ ReconcilePromotion
      PROVE  CompletionInv'
  <2>1. UNCHANGED storage /\ content' = content
    BY <1>3 DEF PromoteResumed, ReconcilePromotion
  <2>2. job'.phase \in {"journal", "move", "remove", "drop journal"}
    <3>1. CASE PromoteResumed
      BY <3>1 DEF PromoteResumed, Promoting
    <3>2. CASE ReconcilePromotion
      <4> DEFINE Start(k) == IF dir["promotion"] = Absent THEN "journal"
                                                          ELSE PromotionPhase(k)
      <4>1. PICK k \in PromotionSteps : job'.phase = Start(k)
        BY <3>2 DEF ReconcilePromotion, Promoting
      <4>2. PromotionPhase(k) \in {"move", "remove", "drop journal"}
        BY DEF PromotionPhase
      <4> QED
        BY <4>1, <4>2
    <3> QED
      BY <1>3, <3>1, <3>2
  <2>3. SameFinals
    BY <2>1 DEF storage, SameFinals
  <2> QED
    BY <2>1, <2>2, <2>3, QuietStep DEF Early, WritePhases
<1> QED
  BY <1>1, <1>2, <1>3 DEF Resume

LEMMA GotoPhase ==
  ASSUME TypeOK, NEW p \in Phases, Goto(p)
  PROVE  job'.phase = p /\ job'.att = job.att
  BY DEF Goto, TypeOK, JobOK, Job

LEMMA WriteCompletion ==
  ASSUME TypeInv, CompletionInv, WriteBundle
  PROVE  CompletionInv'
<1> USE DEF TypeInv
<1>1. StorageOK /\ ContentOK /\ JobOK
  BY DEF TypeOK
<1>2. ASSUME job.phase \in WritePhases, NEW p \in WritePhases, Goto(p)
      PROVE  job'.phase = p /\ job'.att = job.att
  BY <1>1, <1>2, WriteGotoType
<1>3. ASSUME UNCHANGED storage PROVE SameFinals
  BY <1>3 DEF storage, SameFinals
<1>4. Out \in Names \ {"final"} /\ CheckpointOf(Out) \in Names \ {"final"}
  BY DEF Out, CheckpointOf, Names, ProgressNames
<1>5. CASE CreatePartial
  <2>1. SameFinals
    BY <1>1, <1>4, <1>5, PlaceKeepsFinal, RelinkKeepsFinals DEF CreatePartial
  <2>2. job.phase = "create" /\ job'.phase \in {"rekey", "item"} /\ job'.att = job.att
    BY <1>1, <1>2, <1>5 DEF CreatePartial, At, WritePhases
  <2> QED
    BY <1>5, <2>1, <2>2, QuietStep DEF CreatePartial, Early, WritePhases
<1>6. CASE RekeyPrefix
  <2> DEFINE c == [Mine EXCEPT !.items = content[job.saved].items,
                               !.seen = content[job.saved].seen,
                               !.stale = content[job.saved].stale]
  <2>1. job.phase \in Early
    BY <1>6 DEF RekeyPrefix, At, Early, WritePhases
  <2>2. Write(c) /\ Goto("item") /\ views' = views
    BY <1>6 DEF RekeyPrefix, storage
  <2> HIDE DEF c
  <2> QED
    BY <2>1, <2>2, UnpublishedWriteStep DEF Early, WritePhases
<1>7. CASE StageItem
  <2> DEFINE c == [Mine EXCEPT !.seen = @ \cup {Item}, !.stale = @ \ {Item}]
  <2>1. job.phase \in Early
    BY <1>7 DEF StageItem, At, Early, WritePhases
  <2>2. Write(c) /\ Goto("stage") /\ views' = views
    BY <1>7 DEF StageItem
  <2> HIDE DEF c
  <2> QED
    BY <2>1, <2>2, UnpublishedWriteStep DEF Early, WritePhases
<1>8. CASE FillStage
  <2>1. job.phase = "stage" /\ job'.phase = "append" /\ job'.att = job.att
    BY <1>2, <1>8 DEF FillStage, At, WritePhases
  <2> QED
    BY <1>3, <1>8, <2>1, QuietStep DEF FillStage, Early, WritePhases
<1>9. CASE AppendItem
  <2> DEFINE c == [Mine EXCEPT !.items = @ + 1]
  <2>1. job.phase \in Early /\ job.phase \in WritePhases
    BY <1>9 DEF AppendItem, At, Early, WritePhases
  <2>2. Write(c) /\ Recorded /\ views' = views
    BY <1>9 DEF AppendItem
  <2>3. job'.phase \in {"sync partial", "item"} /\ job'.att = job.att
    BY <1>1, <2>1, <2>2, RecordedType
  <2> HIDE DEF c
  <2> QED
    BY <2>1, <2>2, <2>3, RewriteStep DEF Early, WritePhases
<1>10. CASE FinishItems
  <2>1. job.phase = "item" /\ job'.phase = "seal" /\ job'.att = job.att
    BY <1>2, <1>10 DEF FinishItems, At, WritePhases
  <2>2. content[job'.att].items = ItemCount
    BY <1>10, <2>1 DEF FinishItems, Mine
  <2> QED
    BY <1>3, <1>10, <2>1, <2>2, QuietStep DEF FinishItems, Early, WritePhases
<1>11. CASE SyncPartial
  <2> DEFINE c == [Mine EXCEPT !.body = "durable", !.seen = Observed]
  <2>1. job.phase \in Early
    BY <1>11 DEF SyncPartial, At, Early, WritePhases
  <2>2. Write(c) /\ Goto("create checkpoint") /\ views' = views
    BY <1>11 DEF SyncPartial, storage
  <2> HIDE DEF c
  <2> QED
    BY <2>1, <2>2, UnpublishedWriteStep DEF Early, WritePhases
<1>12. CASE CreateCheckpoint
  <2>1. SameFinals
    BY <1>1, <1>4, <1>12, PlaceKeepsFinal, RelinkKeepsFinals DEF CreateCheckpoint
  <2>2. job.phase = "create checkpoint" /\ job'.phase = "write checkpoint"
        /\ job'.att = job.att
    BY <1>2, <1>12 DEF CreateCheckpoint, At, WritePhases
  <2> QED
    BY <1>12, <2>1, <2>2, QuietStep DEF CreateCheckpoint, Early, WritePhases
<1>13. CASE WriteCheckpoint
  <2> DEFINE c == [Mine EXCEPT !.noted = Mine.items, !.note = "volatile"]
  <2>1. job.phase \in Early
    BY <1>13 DEF WriteCheckpoint, At, Early, WritePhases
  <2>2. Write(c) /\ Goto("sync checkpoint") /\ views' = views
    BY <1>13 DEF WriteCheckpoint, storage
  <2> HIDE DEF c
  <2> QED
    BY <2>1, <2>2, UnpublishedWriteStep DEF Early, WritePhases
<1>14. CASE SyncCheckpoint
  <2> DEFINE c == [Mine EXCEPT !.note = "durable"]
  <2>1. job.phase \in Early
    BY <1>14 DEF SyncCheckpoint, At, Early, WritePhases
  <2>2. Write(c) /\ Goto("sync checkpoint directory") /\ views' = views
    BY <1>14 DEF SyncCheckpoint, storage
  <2> HIDE DEF c
  <2> QED
    BY <2>1, <2>2, UnpublishedWriteStep DEF Early, WritePhases
<1>15. CASE SyncCheckpointDirectory
  <2>1. job'.phase \in {"journal", "idle"}
    <3>1. CASE job.resume
      BY <1>15, <3>1, GotoPhase DEF SyncCheckpointDirectory, Phases, PromotionPhases
    <3>2. CASE ~ job.resume
      <4>1. job' = Idle
        BY <1>15, <3>2 DEF SyncCheckpointDirectory
      <4> QED
        BY <4>1 DEF Idle, Resting
    <3> QED
      BY <3>1, <3>2
  <2>2. SameFinals
    BY <1>1, <1>15, SyncKeepsFinals DEF SyncCheckpointDirectory
  <2> QED
    BY <1>15, <2>1, <2>2, QuietStep DEF SyncCheckpointDirectory, Early, WritePhases
<1>16. CASE SealBundle
  <2>1. job.phase = "seal" /\ Mine.items = ItemCount /\ Mine \in Content
    BY <1>1, <1>16, MineType
       DEF SealBundle, At, CompletionInv, Mine, JobOK, WritePhases
  <2> DEFINE c == [Mine EXCEPT !.sealed = TRUE, !.body = "durable"]
  <2>2. c.sealed /\ c.body = "durable" /\ c.items = ItemCount
    BY <2>1 DEF Content
  <2>3. Write(c) /\ Goto("publish") /\ views' = views
    BY <1>16 DEF SealBundle, storage
  <2> HIDE DEF c
  <2> QED
    BY <2>1, <2>2, <2>3, WriteStep DEF Early, WritePhases
<1>17. CASE Publish
  <2>1. job.phase = "publish" /\ job'.phase = "sync final" /\ job'.att = job.att
    BY <1>2, <1>17 DEF Publish, At, WritePhases
  <2>2. job.att \in Attempts
    BY <1>1, <2>1 DEF JobOK, WritePhases
  <2>3. dir'["final"] = Bundle(job.att)
    BY <1>1, <1>4, <1>17 DEF Publish, Relink, Rename, MayPublish, OwnsOutput,
                             StorageOK, Directory, Names
  <2>4. content' = content /\ views' = views \cup {dir'}
    BY <1>17 DEF Publish, Relink
  <2>5. ASSUME NEW d \in views' PROVE FinalOK(d)'
    <3>1. CASE d \in views
      BY <2>4, <3>1 DEF FinalOK, CompletionInv, NoFalseCompletion
    <3>2. CASE d = dir'
      <4>1. d["final"].kind = "bundle" /\ d["final"].att = job.att
        BY <2>3, <3>2 DEF Bundle
      <4>2. Done(job.att)
        BY <2>1 DEF CompletionInv
      <4> QED
        BY <2>4, <4>1, <4>2 DEF FinalOK, Done
    <3> QED
      BY <2>4, <3>1, <3>2
  <2>6. NoFalseCompletion'
    BY <2>5 DEF NoFalseCompletion
  <2> QED
    BY <2>1, <2>6 DEF CompletionInv, Early
<1>18. CASE SyncFinal
  <2>1. job'.phase \in {"clean partial", "idle"}
    <3>1. CASE job.resume
      BY <1>18, <3>1, GotoPhase DEF SyncFinal, Phases
    <3>2. CASE ~ job.resume
      <4>1. job' = Idle
        BY <1>18, <3>2 DEF SyncFinal
      <4> QED
        BY <4>1 DEF Idle, Resting
    <3> QED
      BY <3>1, <3>2
  <2>2. SameFinals
    BY <1>1, <1>18, SyncKeepsFinals DEF SyncFinal
  <2> QED
    BY <1>18, <2>1, <2>2, QuietStep DEF SyncFinal, Early, WritePhases
<1>19. CASE CleanPartial
  <2>1. job'.phase = "clean checkpoint"
    BY <1>1, <1>19 DEF CleanPartial, Goto, JobOK, Job
  <2>2. SameFinals
    BY <1>1, <1>19, CleanKeepsFinals DEF CleanPartial, Names, ProgressNames
  <2> QED
    BY <1>19, <2>1, <2>2, QuietStep DEF CleanPartial, Early, WritePhases
<1>20. CASE CleanCheckpoint
  <2>1. job'.phase = "idle"
    BY <1>20 DEF CleanCheckpoint, Idle, Resting
  <2>2. SameFinals
    BY <1>1, <1>20, CleanKeepsFinals DEF CleanCheckpoint, Names, ProgressNames
  <2> QED
    BY <1>20, <2>1, <2>2, QuietStep DEF CleanCheckpoint, Early, WritePhases
<1>21. CASE DropStage
  <2>1. NextTry /\ job.phase = "stage" /\ views' = views
    BY <1>21 DEF DropStage, At
  <2>2. Mine.items < ItemCount
    BY <2>1 DEF StepOK, Mine
  <2> QED
    BY <2>1, <2>2, TryCompletion
<1> QED
  BY <1>5, <1>6, <1>7, <1>8, <1>9, <1>10, <1>11, <1>12, <1>13, <1>14, <1>15, <1>16,
     <1>17, <1>18, <1>19, <1>20, <1>21 DEF WriteBundle

LEMMA PromotePhases ==
  ASSUME TypeInv, Promote
  PROVE  job'.phase \in {"idle", "begin"} \cup PromotionPhases
<1> USE DEF TypeInv
<1>1. CASE SyncTransition
  <2>1. job'.phase = PromotionPhase(NextStep)
    BY <1>1 DEF SyncTransition, TypeOK, JobOK, Job
  <2> QED
    BY <2>1 DEF PromotionPhase, PromotionPhases
<1>2. CASE SyncDrop
  <2>1. job' = Resting("begin") \/ job' = Idle
    BY <1>2 DEF SyncDrop
  <2> QED
    BY <2>1 DEF Idle, Resting
<1>3. CASE SyncJournal
  <2>1. PromotionPhase(job.step) \in PromotionPhases
    BY DEF PromotionPhase, PromotionPhases
  <2> QED
    BY <1>3, <2>1, GotoPhase DEF SyncJournal, Phases
<1>4. CASE StageJournal \/ PublishJournal \/ Move \/ Remove \/ DropJournal
  BY <1>4, GotoPhase
     DEF StageJournal, PublishJournal, Move, Remove, DropJournal, Phases,
         PromotionPhases
<1> QED
  BY <1>1, <1>2, <1>3, <1>4 DEF Promote

LEMMA PromoteCompletion ==
  ASSUME TypeInv, CompletionInv, Promote
  PROVE  CompletionInv'
<1> USE DEF TypeInv
<1>1. StorageOK /\ content' = content
  BY DEF TypeOK, Promote, StageJournal, PublishJournal, SyncJournal, Move, Remove,
         SyncTransition, DropJournal, SyncDrop
<1>2. SameFinals
  <2>1. CASE StageJournal \/ SyncJournal \/ SyncTransition \/ SyncDrop
    BY <1>1, <2>1, SyncKeepsFinals
       DEF StageJournal, SyncJournal, SyncTransition, SyncDrop
  <2>2. CASE PublishJournal \/ DropJournal
    BY <1>1, <2>2, PlaceKeepsFinal, RelinkKeepsFinals
       DEF PublishJournal, DropJournal, Names, ProgressNames
  <2>3. CASE Move
    <3>1. job.step \in 0 .. 3
      BY <2>3 DEF Move, At, StepOK
    <3>2. /\ MoveFrom[NextStep] \in Names \ {"final"}
          /\ MoveTo[NextStep] \in Names \ {"final"}
      BY <3>1 DEF NextStep, MoveFrom, MoveTo, Names, ProgressNames
    <3> QED
      BY <1>1, <2>3, <3>2, RenameKeepsFinal, RelinkKeepsFinals DEF Move
  <2>4. CASE Remove
    <3>1. job.step \in 4 .. 5
      BY <2>4 DEF Remove, At, StepOK
    <3>2. Removed[job.step - 3] \in Names \ {"final"}
      BY <3>1 DEF Removed, Names, ProgressNames
    <3> QED
      BY <1>1, <2>4, <3>2, PlaceKeepsFinal, RelinkKeepsFinals DEF Remove
  <2> QED
    BY <2>1, <2>2, <2>3, <2>4 DEF Promote
<1>3. job'.phase \in {"idle", "begin"} \cup PromotionPhases
  BY PromotePhases
<1> QED
  BY <1>1, <1>2, <1>3, QuietStep DEF PromotionPhases, Early, WritePhases

LEMMA UnwindCompletion ==
  ASSUME TypeOK, CompletionInv, Unwind
  PROVE  CompletionInv'
<1>1. SameFinals
  <2>1. CASE UNCHANGED <<dir, views>>
    BY <2>1 DEF SameFinals
  <2>2. CASE dir' = Place(Out, Absent) /\ views' = views \cup {dir'}
    <3>1. dir'["final"] = dir["final"]
      BY <2>2, PlaceKeepsFinal DEF TypeOK, Out, Names, ProgressNames
    <3> QED
      BY <2>2, <3>1 DEF SameFinals, TypeOK, StorageOK
  <2> QED
    BY <2>1, <2>2 DEF Unwind
<1>2. content' = content /\ job'.phase = "idle"
  BY DEF Unwind, Idle, Resting
<1> QED
  BY <1>1, <1>2, QuietStep DEF Early, WritePhases

LEMMA PowerLossCompletion ==
  ASSUME TypeOK, CompletionInv, PowerLoss
  PROVE  CompletionInv'
<1>1. SameFinals
  BY DEF PowerLoss, SameFinals
<1>2. ASSUME NEW a \in Attempts, Done(a) PROVE Done(a)'
  <2>1. PICK bodies, notes : content' = Survivors(bodies, notes)
    BY Zenon DEF PowerLoss
  <2>2. content[a] \in Content
    BY DEF TypeOK, ContentOK
  <2>3. content'[a] = [content[a] EXCEPT !.body = Settled(@, a, bodies),
                                         !.note = Settled(@, a, notes)]
    BY <2>1 DEF Survivors
  <2> DEFINE b == Settled(content[a].body, a, bodies)
  <2> DEFINE n == Settled(content[a].note, a, notes)
  <2>4. content'[a] = [content[a] EXCEPT !.body = b, !.note = n]
    BY <2>3, Zenon
  <2>5. b = "durable"
    BY <1>2 DEF Done, Settled
  <2> HIDE DEF b, n
  <2>6. /\ content'[a].sealed = content[a].sealed
        /\ content'[a].items = content[a].items
        /\ content'[a].body = b
    BY <2>2, <2>4 DEF Content
  <2> QED
    BY <1>2, <2>5, <2>6 DEF Done
<1>3. ASSUME NEW d \in views, d["final"].kind = "bundle"
      PROVE  d["final"].att \in Attempts
  <2>1. d \in Directory
    BY DEF TypeOK, StorageOK
  <2> QED
    BY <1>3, <2>1, FilesOfAttempts DEF Names
<1>4. NoFalseCompletion'
  BY <1>1, <1>2, <1>3, FinalsKept DEF CompletionInv
<1>5. job'.phase = "idle"
  BY DEF PowerLoss, Idle, Resting
<1> QED
  BY <1>4, <1>5 DEF CompletionInv, Early, WritePhases

LEMMA ForeignCompletion ==
  ASSUME TypeOK, CompletionInv, PutForeign
  PROVE  CompletionInv'
<1>1. content' = content /\ job' = job
  BY DEF PutForeign
<1>2. PICK n \in Names : Relink(Place(n, Foreign))
  BY DEF PutForeign
<1>3. views' = views \cup {Place(n, Foreign)} /\ dir \in views
  BY <1>2 DEF Relink, TypeOK, StorageOK
<1>4. Place(n, Foreign)["final"] \in {Foreign, dir["final"]}
  BY DEF Place, TypeOK, StorageOK, Directory, Names
<1>5. ASSUME NEW d \in views'
      PROVE  d["final"] = Foreign \/ \E e \in views : d["final"] = e["final"]
  BY <1>3, <1>4
<1>6. NoFalseCompletion'
  BY <1>1, <1>5 DEF CompletionInv, NoFalseCompletion, FinalOK
<1>7. ASSUME job.phase \in Early, NEW d \in views' PROVE d["final"] # Bundle(job.att)
  BY <1>5, <1>7 DEF CompletionInv, Foreign, Bundle
<1> QED
  BY <1>1, <1>6, <1>7 DEF CompletionInv, Done

\* The source hinders the call, or is edited: no file is the less complete.
LEMMA SourceCompletion ==
  ASSUME TypeInv, CompletionInv, MissItem \/ MissObservation \/ EditSource
  PROVE  CompletionInv'
<1>1. TypeOK
  BY DEF TypeInv
<1>2. CASE MissItem
  BY <1>2, TryCompletion DEF MissItem, At, storage
<1>3. CASE MissObservation
  <2>1. job.phase \in {"stage", "create checkpoint"} /\ job' = job /\ views' = views
    BY <1>3, MissRewrites
  <2>2. \E c : Write(c)
    BY <1>3, MissRewrites
  <2> QED
    BY <1>1, <2>1, <2>2, RewriteStep DEF Early, WritePhases
<1>4. CASE EditSource
  <2>1. job' = job /\ views' = views /\ SameFinals
    BY <1>4 DEF EditSource, storage, SameFinals
  <2>2. \A a \in Attempts : Alike(content'[a], content[a])
    BY <1>1, <1>4, EditFacts DEF TypeOK
  <2>3. \A a \in Attempts : Done(a) => Done(a)'
    BY <2>2 DEF Done, Alike
  <2>4. \A d \in views : d["final"].kind = "bundle" => d["final"].att \in Attempts
    <3>1. \A d \in views : d \in Directory
      BY <1>1 DEF TypeOK, StorageOK
    <3> QED
      BY <3>1, FilesOfAttempts DEF Names
  <2>5. NoFalseCompletion'
    BY <1>1, <2>1, <2>3, <2>4, FinalsKept DEF CompletionInv
  <2>6. job.phase \in {"seal", "publish"} => job.att \in Attempts
    BY <1>1 DEF TypeOK, JobOK, WritePhases
  <2> QED
    BY <2>1, <2>2, <2>3, <2>5, <2>6 DEF CompletionInv, Alike
<1> QED
  BY <1>2, <1>3, <1>4

LEMMA EnvironmentCompletion ==
  ASSUME TypeInv, CompletionInv, Refuse \/ Environment
  PROVE  CompletionInv'
<1> USE DEF TypeInv
<1>1. CASE Refuse \/ Fault
  BY <1>1, UnwindCompletion DEF Refuse, Fault
<1>2. CASE Kill
  <2>1. SameFinals /\ content' = content /\ job'.phase = "idle"
    BY <1>2 DEF Kill, storage, SameFinals, Idle, Resting
  <2> QED
    BY <2>1, QuietStep DEF Early, WritePhases
<1> QED
  BY <1>1, <1>2, PowerLossCompletion, ForeignCompletion, SourceCompletion DEF Environment

LEMMA CompletionStep == TypeInv /\ CompletionInv /\ [Next]_vars => CompletionInv'
<1> SUFFICES ASSUME TypeInv, CompletionInv, [Next]_vars PROVE CompletionInv'
  OBVIOUS
<1>1. TypeOK
  BY DEF TypeInv
<1>2. CASE UNCHANGED vars
  <2>1. views' = views /\ content' = content /\ job' = job
    BY <1>2 DEF vars, storage
  <2> QED
    BY <2>1 DEF CompletionInv, NoFalseCompletion, FinalOK, Done
<1>3. CASE Next
  BY <1>1, <1>3, CallCompletion, WriteCompletion, PromoteCompletion,
     EnvironmentCompletion DEF Next
<1> QED
  BY <1>2, <1>3

\* Whatever fails, is killed or loses power, the destination name never links
\* an incomplete Bundle (write_bundle).
THEOREM CompletionIsTrue == Spec => []NoFalseCompletion
<1>1. TypeInv /\ CompletionInv => NoFalseCompletion
  BY DEF CompletionInv
<1> QED
  BY <1>1, TypeInit, TypeStep, CompletionInit, CompletionStep, PTL DEF Spec

(***************************************************************************)
(* Files of other programs                                                 *)
(***************************************************************************)
KeepsForeign == \A n \in Names : dir[n] = Foreign => dir'[n] = Foreign

LEMMA OwnIsNotForeign ==
  /\ Absent # Foreign
  /\ \A a : Bundle(a) # Foreign /\ Checkpoint(a) # Foreign
  /\ \A s, a : Journal(s, a) # Foreign
  BY DEF Absent, Foreign, Bundle, Checkpoint, Journal

LEMMA PlaceKeepsForeign ==
  ASSUME TypeOK, NEW n \in Names, dir[n] # Foreign, NEW f, dir' = Place(n, f)
  PROVE  KeepsForeign
  BY DEF KeepsForeign, Place, TypeOK, StorageOK, Directory

LEMMA RenameKeepsForeign ==
  ASSUME TypeOK, NEW from \in Names, NEW to \in Names, dir[from] # Foreign,
         dir[to] = Absent, dir' = Rename(from, to)
  PROVE  KeepsForeign
  BY OwnIsNotForeign DEF KeepsForeign, Rename, TypeOK, StorageOK, Directory

LEMMA ExpectedIsNotForeign == \A k, s, a : Expected(k, s, a) # Foreign
  BY OwnIsNotForeign DEF Expected

LEMMA CleanKeepsForeign ==
  ASSUME TypeOK, NEW n \in Names, NEW f, f # Foreign, Clean(n, f)
  PROVE  KeepsForeign
<1>1. CASE dir[n] = f /\ Relink(Place(n, Absent))
  BY <1>1, PlaceKeepsForeign DEF Relink
<1>2. CASE UNCHANGED storage
  BY <1>2 DEF storage, KeepsForeign
<1> QED
  BY <1>1, <1>2 DEF Clean

LEMMA WriteKeepsForeign ==
  ASSUME TypeOK, WriteBundle
  PROVE  KeepsForeign
<1>1. Out \in Names /\ CheckpointOf(Out) \in Names
  BY OutName
<1>2. CASE dir' = dir
  BY <1>2 DEF KeepsForeign
<1>3. CASE CreatePartial
  BY <1>1, <1>3, OwnIsNotForeign, PlaceKeepsForeign DEF CreatePartial, Relink
<1>4. CASE CreateCheckpoint
  BY <1>1, <1>4, OwnIsNotForeign, PlaceKeepsForeign DEF CreateCheckpoint, Relink
<1>5. CASE Publish
  BY <1>1, <1>5, OwnIsNotForeign, RenameKeepsForeign
     DEF Publish, MayPublish, OwnsOutput, Relink, Names
<1>6. CASE CleanPartial
  BY <1>6, OwnIsNotForeign, CleanKeepsForeign DEF CleanPartial, Names, ProgressNames
<1>7. CASE CleanCheckpoint
  BY <1>7, OwnIsNotForeign, CleanKeepsForeign DEF CleanCheckpoint, Names, ProgressNames
<1> QED
  BY <1>2, <1>3, <1>4, <1>5, <1>6, <1>7
     DEF WriteBundle, RekeyPrefix, StageItem, FillStage, DropStage, AppendItem,
         FinishItems, SyncPartial, WriteCheckpoint, SyncCheckpoint,
         SyncCheckpointDirectory, SealBundle, SyncFinal, SyncDirectory, storage

LEMMA PromoteKeepsForeign ==
  ASSUME TypeInv, Promote
  PROVE  KeepsForeign
<1> USE DEF TypeInv
<1>1. CASE dir' = dir
  BY <1>1 DEF KeepsForeign
<1>2. CASE PublishJournal
  BY <1>2, OwnIsNotForeign, PlaceKeepsForeign
     DEF PublishJournal, Relink, Names, ProgressNames
<1>3. CASE Move
  <2>1. job.step \in 0 .. 3
    BY <1>3 DEF Move, At, StepOK
  <2>2. MoveFrom[NextStep] \in Names /\ MoveTo[NextStep] \in Names
    BY <2>1 DEF NextStep, MoveFrom, MoveTo, Names, ProgressNames
  <2> QED
    BY <1>3, <2>2, ExpectedIsNotForeign, RenameKeepsForeign DEF Move, MayMove, Relink
<1>4. CASE Remove
  <2>1. job.step \in 4 .. 5
    BY <1>4 DEF Remove, At, StepOK
  <2>2. Removed[job.step - 3] \in Names
    BY <2>1 DEF Removed, Names, ProgressNames
  <2> QED
    BY <1>4, <2>2, ExpectedIsNotForeign, PlaceKeepsForeign DEF Remove, MayRemove, Relink
<1>5. CASE DropJournal
  BY <1>5, OwnIsNotForeign, PlaceKeepsForeign
     DEF DropJournal, MayDropJournal, Relink, Names, ProgressNames
<1> QED
  BY <1>1, <1>2, <1>3, <1>4, <1>5
     DEF Promote, StageJournal, SyncJournal, SyncTransition, SyncDrop, SyncDirectory

LEMMA UnwindKeepsForeign ==
  ASSUME TypeOK, Unwind
  PROVE  KeepsForeign
<1>1. CASE dir' = dir
  BY <1>1 DEF KeepsForeign
<1>2. CASE OwnsOutput /\ dir' = Place(Out, Absent)
  BY <1>2, OutName, OwnIsNotForeign, PlaceKeepsForeign DEF OwnsOutput
<1> QED
  BY <1>1, <1>2 DEF Unwind

LEMMA ForeignStep ==
  TypeInv /\ [Next]_vars => [CodeStep => KeepsForeign]_vars
<1> SUFFICES ASSUME TypeInv, Next, CodeStep PROVE KeepsForeign
  OBVIOUS
<1>1. TypeOK
  BY DEF TypeInv
<1>2. CASE StartFresh \/ Resume \/ Kill \/ MissItem \/ MissObservation \/ EditSource
  BY <1>2 DEF StartFresh, Resume, ReconcilePromotion, PromoteResumed, StartResume,
              Kill, MissItem, MissObservation, EditSource, storage, KeepsForeign
<1>3. CASE Refuse \/ Fault
  BY <1>1, <1>3, UnwindKeepsForeign DEF Refuse, Fault
<1>4. ~ PowerLoss /\ ~ PutForeign
  <2>1. harm.power \in Nat /\ harm.foreign \in Nat
    BY <1>1, BoundsAssumption DEF TypeOK, HarmOK
  <2>2. PowerLoss => harm'.power = harm.power + 1
    BY <1>1 DEF PowerLoss, TypeOK, HarmOK
  <2>3. PutForeign => harm'.foreign = harm.foreign + 1
    BY <1>1 DEF PutForeign, TypeOK, HarmOK
  <2> QED
    BY <2>1, <2>2, <2>3 DEF CodeStep
<1> QED
  BY <1>1, <1>2, <1>3, <1>4, WriteKeepsForeign, PromoteKeepsForeign
     DEF Next, Environment

\* No step of Pack, of its cleanup or of a promotion moves, replaces or removes
\* a file of another program (write_bundle and continue_pack_checkpoint_promotion).
THEOREM ForeignIsUntouched == Spec => ForeignUntouched
<1>1. [CodeStep => KeepsForeign]_vars
        => [CodeStep => \A n \in Names : dir[n] = Foreign => dir'[n] = Foreign]_vars
  BY DEF KeepsForeign
<1> QED
  BY <1>1, TypeInit, TypeStep, ForeignStep, PTL DEF Spec, ForeignUntouched

(***************************************************************************)
(* Saved progress                                                          *)
(*                                                                         *)
(* The owner packs afresh only when told to: an attempt that begins while  *)
(* a promotion is interrupted makes its layout ambiguous (README).         *)
(***************************************************************************)
\* The file and the checkpoint of attempt a are readable and agree.
Good(a) ==
  /\ content[a].body # "torn"
  /\ content[a].note \in {"volatile", "durable"}
  /\ content[a].noted = content[a].items
  /\ ~ content[a].sealed

\* What no termination has let through unsynchronized is durable.
Firm(a) == harm.kill = 0 => content[a].body = "durable" /\ content[a].note = "durable"

\* The pairs of attempts s and a in the directory d after k transitions.
Sits(d, s, a, k) ==
  /\ d["partial"] = IF k = 0 THEN Bundle(s) ELSE IF k < 3 THEN Absent ELSE Bundle(a)
  /\ d["partial.checkpoint"] =
       IF k < 2 THEN Checkpoint(s) ELSE IF k < 4 THEN Absent ELSE Checkpoint(a)
  /\ d["resume"] = IF k < 3 THEN Bundle(a) ELSE Absent
  /\ d["resume.checkpoint"] = IF k < 4 THEN Checkpoint(a) ELSE Absent
  /\ d["previous"] = IF k \in 1 .. 4 THEN Bundle(s) ELSE Absent
  /\ d["previous.checkpoint"] = IF k \in 2 .. 5 THEN Checkpoint(s) ELSE Absent

\* Attempt a may take the place of attempt s, after k transitions.
Worthy(s, a, k) ==
  /\ s \in Attempts /\ a \in Attempts
  /\ Good(a) /\ Firm(a)
  /\ k < 5 => Good(s) /\ Firm(s) /\ content[a].items >= content[s].items

InPromotion(d, s, a, k) == d["promotion"] = Journal(s, a) /\ Sits(d, s, a, k) /\ Worthy(s, a, k)

\* An interrupted promotion has its journal, and knows nothing of the attempt
\* that is being written.
PromotionOK(d) ==
  LET s == d["promotion"].saved
      a == d["promotion"].att
  IN  /\ \E k \in PromotionSteps : InPromotion(d, s, a, k)
      /\ job.phase \in WritePhases => job.att \notin {s, a}

PromotionsOK == \A d \in views : Interrupted(d) => PromotionOK(d)

\* Only the call that writes a pair leaves it unsynchronized.
SettledPair(n) ==
  dir[n].kind = "bundle" =>
    \/ job.phase \in WritePhases /\ dir[n].att = job.att
    \/ content[dir[n].att].body # "volatile" /\ content[dir[n].att].note # "volatile"

PairsSettled == harm.kill = 0 => \A n \in OutputNames : SettledPair(n)

CheckpointPhases == {"sync partial", "create checkpoint", "write checkpoint",
                     "sync checkpoint", "sync checkpoint directory"}
NotePhases == {"sync checkpoint", "sync checkpoint directory"}

\* Where a call that writes has come, and the pair that it resumes.
WritingOK ==
  job.phase \in WritePhases =>
    /\ ~ Interrupted(dir)
    /\ job.saved # job.att /\ job.step = 0
    /\ job.phase \notin {"create", "sync final"} => dir[Out] = Bundle(job.att)
    /\ job.phase = "sync final" => dir["final"] = Bundle(job.att) /\ dir[Out] = Absent
    /\ job.phase \in NotePhases \cup {"write checkpoint"} =>
         dir[CheckpointOf(Out)] = Checkpoint(job.att)
    /\ ~ job.resume \/ job.phase = "create" => dir["resume"] = Absent
    /\ job.resume => /\ dir["partial"] = Bundle(job.saved)
                     /\ dir["partial.checkpoint"] = Checkpoint(job.saved)
                     /\ Good(job.saved) /\ Firm(job.saved)

\* What a call at phase p has written in c, when it started from n items.
Captured(p, c, n) ==
  /\ p \notin {"create", "rekey"} => c.items >= n
  /\ p \notin {"publish", "sync final"} => ~ c.sealed
  /\ p \in CheckpointPhases => c.items > 0
  /\ p \in CheckpointPhases \ {"sync partial"} => c.body = "durable"
  /\ p \in NotePhases => c.noted = c.items
  /\ p = "sync checkpoint directory" => c.note = "durable"

Before == IF job.resume THEN content[job.saved].items ELSE 0

CapturedOK == job.phase \in WritePhases => Captured(job.phase, Mine, Before)

\* How many transitions of the promotion are in the directory.
Reached == IF job.phase \in {"sync move", "sync remove"} THEN NextStep ELSE job.step

BeforeJournal == {"journal", "publish journal"}

\* Where a call that promotes has come.
PromotingOK ==
  job.phase \in PromotionPhases =>
    /\ Reached \in PromotionSteps
    /\ Sits(dir, job.saved, job.att, Reached)
    /\ Worthy(job.saved, job.att, Reached)
    /\ dir["promotion"] = IF job.phase \in BeforeJournal \cup {"sync drop"}
                            THEN Absent ELSE Journal(job.saved, job.att)
    /\ job.phase \in BeforeJournal => job.step = 0
    /\ job.phase \in {"move", "remove", "drop journal"} => job.phase = PromotionPhase(job.step)
    /\ job.phase = "sync drop" => job.step = 6
    /\ ~ job.reenter => content[job.att].items > 0

\* The destination is free until the call publishes.
DestinationOK ==
  /\ job.phase \notin {"idle", "sync final", "clean partial", "clean checkpoint"} =>
       dir["final"] = Absent
  /\ job.phase \in {"clean partial", "clean checkpoint"} =>
       \A d \in views : d["final"].kind = "bundle"

\* No promotion is interrupted when a Resume goes on, nor when it cleans up.
BeginOK ==
  /\ job.phase \in {"begin", "clean partial", "clean checkpoint"} => ~ Interrupted(dir)
  /\ job.phase = "begin" => dir["resume"] = Absent

ProgressParts ==
  /\ PromotionsOK /\ PairsSettled
  /\ WritingOK /\ CapturedOK
  /\ PromotingOK
  /\ DestinationOK /\ BeginOK

\* The invariant of a Pack that nothing has disturbed.
ProgressInv == TypeInv /\ CompletionInv /\ ProgressParts

\* How many items of the pair that leads in d the next Resume will keep.
Worth(d) ==
  IF Interrupted(d) THEN content[d["promotion"].att].items
  ELSE IF Endures(d, Current) /\ ~ Unreported(d, Current) THEN ItemsOf(d, Current)
  ELSE 0

(***************************************************************************)
(* The least of what is held                                               *)
(***************************************************************************)
LEMMA MinFacts ==
  ASSUME NEW S \in SUBSET Nat, S # {}
  PROVE  Min(S) \in S /\ \A x \in S : Min(S) <= x
<1>1. PICK x \in S : \A y \in S : ~ (<<y, x>> \in OpToRel(<, Nat))
  BY WFMin, NatLessThanWellFounded
<1>2. \A y \in S : ~ (y < x)
  BY <1>1 DEF OpToRel
<1>3. \A y \in S : x <= y
  BY <1>2
<1> QED
  BY <1>3, Zenon DEF Min

(***************************************************************************)
(* Layouts                                                                 *)
(***************************************************************************)
LEMMA FileFacts ==
  /\ \A a : Bundle(a).kind = "bundle" /\ Bundle(a).att = a /\ Bundle(a) # Absent
  /\ \A a : Checkpoint(a) # Absent /\ \A b : Checkpoint(a) # Bundle(b)
  /\ \A s, a : Journal(s, a).att = a /\ Journal(s, a).saved = s /\ Journal(s, a) # Absent
  /\ \A s, a : Journal(s, a).kind = "journal"
  /\ Absent.kind = "absent"
  /\ \A a, b : Bundle(a) = Bundle(b) => a = b
  BY DEF Bundle, Checkpoint, Journal, Absent

LEMMA LayoutNames ==
  ASSUME NEW k \in PromotionSteps
  PROVE  /\ "partial" \in LayoutAt(k) <=> k \notin {1, 2}
         /\ "partial.checkpoint" \in LayoutAt(k) <=> k \notin {2, 3}
         /\ "resume" \in LayoutAt(k) <=> k < 3
         /\ "resume.checkpoint" \in LayoutAt(k) <=> k < 4
         /\ "previous" \in LayoutAt(k) <=> k \in 1 .. 4
         /\ "previous.checkpoint" \in LayoutAt(k) <=> k \in 2 .. 5
         /\ "promotion" \notin LayoutAt(k)
         /\ LayoutAt(k) \subseteq ProgressNames
<1>1. k \in {0, 1, 2, 3, 4, 5, 6}
  BY DEF PromotionSteps
<1> QED
  BY <1>1 DEF LayoutAt, ProgressNames

\* What sits in a directory is a layout.
LEMMA SitsPresent ==
  ASSUME NEW d, NEW s, NEW a, NEW k \in PromotionSteps, Sits(d, s, a, k)
  PROVE  \A n \in ProgressNames \ {"promotion"} : d[n] # Absent <=> n \in LayoutAt(k)
<1>1. k \in 0 .. 6
  BY DEF PromotionSteps
<1> QED
  BY <1>1, FileFacts, LayoutNames DEF Sits, ProgressNames

LEMMA SitsIsLayout ==
  ASSUME NEW d, NEW s, NEW a, NEW k \in PromotionSteps, Sits(d, s, a, k),
         d["promotion"] # Absent
  PROVE  IsLayout(k, d) /\ \A j \in PromotionSteps : IsLayout(j, d) => j = k
<1>1. "promotion" \in ProgressNames
  BY DEF ProgressNames
<1>2. Present(d) = LayoutAt(k) \cup {"promotion"}
  BY <1>1, SitsPresent, LayoutNames DEF Present
<1>3. ASSUME NEW j \in PromotionSteps, IsLayout(j, d)
      PROVE  j = k
  <2>1. Present(d) = LayoutAt(j) \cup {"promotion"}
    BY <1>2, <1>3, LayoutNames DEF IsLayout
  <2>2. \A n \in {"partial", "partial.checkpoint", "resume", "resume.checkpoint",
                  "previous", "previous.checkpoint"} : n \in LayoutAt(j) <=> n \in LayoutAt(k)
    BY <1>2, <2>1
  <2>3. /\ j \notin {1, 2} <=> k \notin {1, 2}
        /\ j \notin {2, 3} <=> k \notin {2, 3}
        /\ j < 3 <=> k < 3
        /\ j < 4 <=> k < 4
        /\ j \in 1 .. 4 <=> k \in 1 .. 4
        /\ j \in 2 .. 5 <=> k \in 2 .. 5
    BY <2>2, LayoutNames
  <2> QED
    BY <2>3 DEF PromotionSteps
<1> QED
  BY <1>2, <1>3 DEF IsLayout

LEMMA SitsPairs ==
  ASSUME NEW d, NEW s, NEW a, NEW k \in PromotionSteps, Sits(d, s, a, k)
  PROVE  /\ d[AdvancedPair(k)[1]] = Bundle(a) /\ d[AdvancedPair(k)[2]] = Checkpoint(a)
         /\ k < 5 => /\ d[SavedPair(k)[1]] = Bundle(s)
                     /\ d[SavedPair(k)[2]] = Checkpoint(s)
<1>1. k \in {0, 1, 2, 3, 4, 5, 6}
  BY DEF PromotionSteps
<1> QED
  BY <1>1 DEF Sits, AdvancedPair, SavedPair

(***************************************************************************)
(* The pair that leads                                                     *)
(***************************************************************************)
LEMMA IntactPair ==
  ASSUME NEW d, NEW pair, NEW a, d[pair[1]] = Bundle(a), d[pair[2]] = Checkpoint(a)
  PROVE  (Intact(d, pair) <=> Good(a)) /\ ItemsOf(d, pair) = content[a].items
  BY FileFacts DEF Intact, Good, ItemsOf

\* A promotion that has its journal is the one that the next Resume continues.
LEMMA PromotionStarts ==
  ASSUME NEW d, NEW s, NEW a, NEW k \in PromotionSteps, InPromotion(d, s, a, k)
  PROVE  /\ Continues(d, k)
         /\ \A j \in PromotionSteps : Continues(d, j) => j = k
         /\ Interrupted(d)
         /\ d[AdvancedPair(k)[1]].att = a
         /\ k < 5 => d[SavedPair(k)[1]].att = s
<1>1. d["promotion"] = Journal(s, a) /\ Sits(d, s, a, k) /\ Worthy(s, a, k)
  BY DEF InPromotion
<1>2. d["promotion"] # Absent
  BY <1>1, FileFacts
<1>3. /\ d[AdvancedPair(k)[1]] = Bundle(a) /\ d[AdvancedPair(k)[2]] = Checkpoint(a)
      /\ k < 5 => d[SavedPair(k)[1]] = Bundle(s) /\ d[SavedPair(k)[2]] = Checkpoint(s)
  BY <1>1, SitsPairs
<1>4. Intact(d, AdvancedPair(k)) /\ ItemsOf(d, AdvancedPair(k)) = content[a].items
  BY <1>1, <1>3, IntactPair DEF Worthy
<1>5. ASSUME k < 5
      PROVE  Intact(d, SavedPair(k)) /\ NoOlder(d, AdvancedPair(k), SavedPair(k))
  BY <1>1, <1>3, <1>4, <1>5, IntactPair DEF Worthy, NoOlder
<1>6. JournalMatches(d, k)
  BY <1>1, <1>3, FileFacts DEF JournalMatches, SavedPairRemains
<1>7. Continues(d, k)
  BY <1>1, <1>2, <1>4, <1>5, <1>6, SitsIsLayout DEF Continues, SavedPairRemains
<1>8. \A j \in PromotionSteps : Continues(d, j) => j = k
  BY <1>1, <1>2, SitsIsLayout DEF Continues
<1> QED
  BY <1>2, <1>3, <1>7, <1>8, FileFacts DEF Interrupted

LEMMA MaxOfOne ==
  ASSUME NEW n \in Nat
  PROVE  Max({0} \cup {n}) = n /\ Max({0} \cup {}) = 0
<1>1. \E x \in {0} \cup {n} : \A y \in {0} \cup {n} : x >= y
  OBVIOUS
<1>2. \A x \in {0} \cup {n} : (\A y \in {0} \cup {n} : x >= y) => x = n
  OBVIOUS
<1>3. Max({0} \cup {n}) = n
  BY <1>1, <1>2 DEF Max
<1>4. \E x \in {0} \cup {} : \A y \in {0} \cup {} : x >= y
  OBVIOUS
<1>5. Max({0} \cup {}) = 0
  BY <1>4 DEF Max
<1> QED
  BY <1>3, <1>5

\* When one pair alone can be started from, what is held is what it has.
LEMMA KeptOfOne ==
  ASSUME NEW d, NEW pair, Newest(d) = {pair}, ItemsOf(d, pair) \in Nat
  PROVE  KeptIn(d) = IF Endures(d, pair) /\ ~ Unreported(d, pair) THEN ItemsOf(d, pair) ELSE 0
<1>1. CASE Endures(d, pair) /\ ~ Unreported(d, pair)
  <2>1. {ItemsOf(d, q) : q \in {p \in Newest(d) : Endures(d, p) /\ ~ Unreported(d, p)}}
          = {ItemsOf(d, pair)}
    BY <1>1
  <2> QED
    BY <1>1, <2>1, MaxOfOne DEF KeptIn
<1>2. CASE ~ (Endures(d, pair) /\ ~ Unreported(d, pair))
  <2>1. {ItemsOf(d, q) : q \in {p \in Newest(d) : Endures(d, p) /\ ~ Unreported(d, p)}} = {}
    BY <1>2
  <2> QED
    BY <1>2, <2>1, MaxOfOne DEF KeptIn
<1> QED
  BY <1>1, <1>2

LEMMA ItemsType ==
  ASSUME ContentOK, NEW a \in Attempts
  PROVE  content[a].items \in 0 .. ItemCount /\ content[a].items \in Nat
  BY ItemCountAssumption DEF ContentOK, Content

LEMMA KeptIsWorth ==
  ASSUME TypeInv, PromotionsOK, ~ Disturbed, NEW d \in views
  PROVE  KeptIn(d) = Worth(d) /\ Worth(d) \in 0 .. ItemCount
<1>1. d \in Directory /\ ContentOK
  BY DEF TypeInv, TypeOK, StorageOK
<1>2. CASE Interrupted(d)
  <2> DEFINE s == d["promotion"].saved
             a == d["promotion"].att
  <2>1. PICK k \in PromotionSteps : InPromotion(d, s, a, k)
    BY <1>2 DEF PromotionsOK, PromotionOK
  <2>2. job.phase \in WritePhases => job.att # a
    BY <1>2 DEF PromotionsOK, PromotionOK
  <2>3. Continues(d, k) /\ \A j \in PromotionSteps : Continues(d, j) => j = k
    BY <2>1, PromotionStarts
  <2> DEFINE pair == AdvancedPair(k)
  <2>4. d[pair[1]] = Bundle(a) /\ d[pair[2]] = Checkpoint(a) /\ Good(a) /\ Firm(a) /\ a \in Attempts
    BY <2>1, SitsPairs DEF InPromotion, Worthy
  <2>5. Intact(d, pair) /\ ItemsOf(d, pair) = content[a].items /\ d[pair[1]].att = a
    BY <2>4, IntactPair, FileFacts
  <2>6. Newest(d) = {pair}
    BY <1>2, <2>3 DEF Newest
  <2> HIDE DEF s, a, pair
  <2>7. Endures(d, pair) /\ ~ Unreported(d, pair)
    BY <2>2, <2>4, <2>5 DEF Endures, Unreported, PowerMayFail, Firm
  <2>8. content[a].items \in 0 .. ItemCount /\ content[a].items \in Nat
    BY <1>1, <2>4, ItemsType
  <2>9. KeptIn(d) = content[a].items
    BY <2>5, <2>6, <2>7, <2>8, KeptOfOne
  <2> QED
    BY <1>2, <2>8, <2>9 DEF Worth, a
<1>3. CASE ~ Interrupted(d)
  <2>1. Newest(d) = {Current}
    BY <1>3 DEF Newest
  <2>2. CASE Endures(d, Current)
    <3>1. d["partial"].att \in Attempts
      BY <1>1, <2>2, FilesOfAttempts DEF Endures, Intact, Current, Names, ProgressNames
    <3>2. ItemsOf(d, Current) \in 0 .. ItemCount /\ ItemsOf(d, Current) \in Nat
      BY <1>1, <3>1, ItemsType DEF ItemsOf, Current
    <3>3. KeptIn(d) = IF Endures(d, Current) /\ ~ Unreported(d, Current)
                        THEN ItemsOf(d, Current) ELSE 0
      BY <2>1, <3>2, KeptOfOne
    <3>4. Worth(d) = IF Endures(d, Current) /\ ~ Unreported(d, Current)
                       THEN ItemsOf(d, Current) ELSE 0
      BY <1>3 DEF Worth
    <3> QED
      BY <3>2, <3>3, <3>4, ItemCountAssumption
  <2>3. CASE ~ Endures(d, Current)
    <3>1. {p \in Newest(d) : Endures(d, p) /\ ~ Unreported(d, p)} = {}
      BY <2>1, <2>3
    <3>2. {ItemsOf(d, q) : q \in {p \in Newest(d) : Endures(d, p) /\ ~ Unreported(d, p)}} = {}
      BY <3>1
    <3>3. KeptIn(d) = 0
      BY <3>2, MaxOfOne DEF KeptIn
    <3> QED
      BY <1>3, <2>3, <3>3, ItemCountAssumption DEF Worth
  <2> QED
    BY <2>2, <2>3
<1> QED
  BY <1>2, <1>3

LEMMA Valued ==
  TypeInv /\ PromotionsOK /\ ~ Disturbed
    => \A d \in views : KeptIn(d) = Worth(d) /\ Worth(d) \in 0 .. ItemCount
  BY KeptIsWorth

(***************************************************************************)
(* What a step has to show                                                 *)
(***************************************************************************)
\* Nothing changes but what the running attempt writes, or what nobody knows.
Calm ==
  /\ \A a \in Attempts :
       \/ Alike(content'[a], content[a])
       \/ a \in FreeAttempts
       \/ a = job.att /\ {job.phase, job'.phase} \subseteq WritePhases /\ job'.att = job.att
  /\ job'.phase \in WritePhases =>
       job'.att \in FreeAttempts \/ (job.phase \in WritePhases /\ job'.att = job.att)
  /\ harm'.kill = 0 => harm.kill = 0
  /\ PowerMayFail' => PowerMayFail

\* No step but a power loss takes the directory back, and what it has of use to
\* a Resume stays until the Bundle is published.
Advances ==
  /\ Calm
  /\ views' \subseteq views \cup {dir'}
  /\ dir["final"].kind = "bundle" => dir'["final"] = dir["final"]
  /\ \/ Worth(dir) = 0
     \/ Worth(dir) <= Worth(dir)'
     \/ Published

LEMMA PhasesApart ==
  /\ \A p \in WritePhases : p \notin PromotionPhases
  /\ \A p \in {"idle", "begin", "clean partial", "clean checkpoint"} :
       p \notin WritePhases /\ p \notin PromotionPhases
  /\ WritePhases \subseteq Phases /\ PromotionPhases \subseteq Phases
  BY DEF WritePhases, PromotionPhases, Phases

LEMMA FreeFacts ==
  ASSUME NEW a \in FreeAttempts
  PROVE  /\ a \in Attempts /\ a # job.att /\ a # job.saved
         /\ \A d \in views : \A n \in Names : d[n].att # a /\ d[n].saved # a
  BY DEF FreeAttempts, Mentions

\* What a directory has of use to a Resume is not touched.
LEMMA OldViews ==
  ASSUME TypeInv, TypeInv', PromotionsOK, ~ Disturbed, Calm, NEW d \in views
  PROVE  Worth(d) <= Worth(d)' /\ (Interrupted(d) => PromotionOK(d)')
<1>1. d \in Directory /\ Worth(d) \in 0 .. ItemCount
  BY KeptIsWorth DEF TypeInv, TypeOK, StorageOK
<1>2. \A a \in FreeAttempts : \A n \in Names : d[n].att # a /\ d[n].saved # a
  BY FreeFacts
<1>3. "promotion" \in Names /\ "partial" \in Names
  BY DEF Names, ProgressNames
<1>4. CASE Interrupted(d)
  <2> DEFINE s == d["promotion"].saved
             a == d["promotion"].att
  <2>1. PICK k \in PromotionSteps : InPromotion(d, s, a, k)
    BY <1>4 DEF PromotionsOK, PromotionOK
  <2>2. job.phase \in WritePhases => job.att \notin {s, a}
    BY <1>4 DEF PromotionsOK, PromotionOK
  <2>3. s \in Attempts /\ a \in Attempts /\ s \notin FreeAttempts /\ a \notin FreeAttempts
    BY <1>2, <1>3, <2>1 DEF InPromotion, Worthy
  <2> HIDE DEF s, a
  <2>4. Alike(content'[a], content[a]) /\ Alike(content'[s], content[s])
    BY <2>2, <2>3 DEF Calm
  <2>5. job'.phase \in WritePhases => job'.att \notin {s, a}
    BY <2>2, <2>3 DEF Calm
  <2>6. Worthy(s, a, k)'
    BY <2>1, <2>4 DEF InPromotion, Worthy, Good, Firm, Calm, Alike
  <2>7. InPromotion(d, s, a, k)'
    BY <2>1, <2>6 DEF InPromotion
  <2>8. PromotionOK(d)'
    BY <2>5, <2>7 DEF PromotionOK, s, a
  <2>9. Worth(d)' = Worth(d)
    BY <1>4, <2>4 DEF Worth, a, Alike
  <2> QED
    BY <1>1, <2>8, <2>9
<1>5. CASE ~ Interrupted(d)
  <2> DEFINE b == d["partial"].att
  <2>1. CASE Endures(d, Current) /\ ~ Unreported(d, Current)
    <3>1. b \in Attempts /\ b \notin FreeAttempts
      BY <1>1, <1>2, <1>3, <2>1, FilesOfAttempts DEF Endures, Intact, Current
    <3>2. ~ (job.phase \in WritePhases /\ job.att = b)
      BY <2>1 DEF Unreported, Current
    <3>3. Alike(content'[b], content[b])
      BY <3>1, <3>2 DEF Calm
    <3>4. ~ (job'.phase \in WritePhases /\ job'.att = b)
      BY <3>1, <3>2 DEF Calm
    <3>5. Endures(d, Current)'
      <4>1. Intact(d, Current)'
        BY <2>1, <3>3 DEF Endures, Intact, Current, Alike
      <4> QED
        BY <2>1, <3>3, <4>1 DEF Endures, Current, Calm, Alike
    <3>6. ItemsOf(d, Current)' = ItemsOf(d, Current)
      BY <3>3 DEF ItemsOf, Current, Alike
    <3>7. ~ Unreported(d, Current)'
      BY <3>4 DEF Unreported, Current
    <3> QED
      BY <1>1, <1>5, <2>1, <3>5, <3>6, <3>7 DEF Worth
  <2>2. CASE ~ (Endures(d, Current) /\ ~ Unreported(d, Current))
    <3>1. Worth(d) = 0
      BY <1>5, <2>2 DEF Worth
    <3>2. Worth(d)' >= 0
      <4>1. CASE Endures(d, Current)'
        <5>1. b \in Attempts
          BY <1>1, <1>3, <4>1, FilesOfAttempts DEF Endures, Intact, Current
        <5>2. content'[b].items \in 0 .. ItemCount
          BY <5>1 DEF TypeInv, TypeOK, ContentOK, Content
        <5>3. ItemsOf(d, Current)' \in 0 .. ItemCount
          BY <5>2 DEF ItemsOf, Current
        <5> QED
          BY <1>5, <5>3, ItemCountAssumption DEF Worth
      <4> QED
        BY <1>5, <4>1 DEF Worth
    <3> QED
      BY <1>5, <3>1, <3>2
  <2> QED
    BY <2>1, <2>2
<1> QED
  BY <1>4, <1>5

LEMMA PromotionsKept ==
  ASSUME TypeInv, TypeInv', PromotionsOK, ~ Disturbed, Calm, views' \subseteq views \cup {dir'},
         Interrupted(dir') => PromotionOK(dir)'
  PROVE  PromotionsOK'
  BY OldViews DEF PromotionsOK

(***************************************************************************)
(* A call that writes                                                      *)
(***************************************************************************)
SameCall ==
  /\ job'.att = job.att /\ job'.saved = job.saved
  /\ job'.resume = job.resume /\ job'.step = job.step

\* Attempt job.att goes on writing at phase p.
Writes(p) ==
  /\ {job.phase, p} \subseteq WritePhases
  /\ job'.phase = p /\ SameCall
  /\ harm'.kill = harm.kill /\ harm'.power = harm.power
  /\ content' = content \/ \E c : Write(c)

LEMMA GotoWrites ==
  ASSUME TypeInv, NEW p, {job.phase, p} \subseteq WritePhases, Goto(p), harm' = harm,
         content' = content \/ \E c : Write(c)
  PROVE  Writes(p)
<1>1. job \in Job
  BY DEF TypeInv, TypeOK, JobOK
<1>2. job'.phase = p /\ SameCall
  BY <1>1 DEF Goto, Job, SameCall
<1> QED
  BY <1>2 DEF Writes

LEMMA WritesFacts ==
  ASSUME TypeInv, NEW p, Writes(p)
  PROVE  /\ job'.phase = p /\ job'.att = job.att /\ job'.resume = job.resume
         /\ job'.saved = job.saved /\ job'.step = job.step
         /\ job.att \in Attempts
         /\ \A a \in Attempts \ {job.att} : content'[a] = content[a]
         /\ \A a \in Attempts \ {job.att} :
              (Good(a)' <=> Good(a)) /\ (Firm(a)' <=> Firm(a))
         /\ Out' = Out /\ Calm
<1>1. job \in Job /\ job.att \in Attempts /\ ContentOK
  BY DEF Writes, TypeInv, TypeOK, JobOK
<1>2. /\ job'.phase = p /\ job'.att = job.att /\ job'.resume = job.resume
      /\ job'.saved = job.saved /\ job'.step = job.step
  BY DEF Writes, SameCall
<1>3. \A a \in Attempts \ {job.att} : content'[a] = content[a]
  BY <1>1 DEF Writes, Write, ContentOK
<1>4. harm'.kill = harm.kill /\ harm'.power = harm.power
  BY DEF Writes
<1>5. \A a \in Attempts \ {job.att} : (Good(a)' <=> Good(a)) /\ (Firm(a)' <=> Firm(a))
  BY <1>3, <1>4 DEF Good, Firm
<1>6. Calm
  BY <1>2, <1>3, <1>4 DEF Calm, PowerMayFail, Writes, Alike
<1> QED
  BY <1>1, <1>2, <1>3, <1>5, <1>6 DEF Out

\* What the saved pair of a Resume had does not change while it writes.
LEMMA BeforeStays ==
  ASSUME ProgressInv, NEW p, Writes(p)
  PROVE  Before' = Before
<1>1. job.resume => job.saved \in Attempts /\ job.saved # job.att
  BY DEF ProgressInv, ProgressParts, WritingOK, Writes, TypeInv, TypeOK, JobOK, WritePhases
<1> QED
  BY <1>1, WritesFacts DEF Before, ProgressInv

\* The parts of the invariant that a writing call keeps, whatever it writes.
LEMMA WritesKeep ==
  ASSUME ProgressInv, TypeInv', ~ Disturbed, NEW p \in WritePhases \ {"sync final"}, Writes(p),
         job.phase # "sync final",
         Captured(p, Mine', Before), views' \subseteq views \cup {dir'},
         ~ Interrupted(dir'), dir'["final"] = dir["final"],
         \A n \in OutputNames : dir'[n] \in {dir[n], Absent, Bundle(job.att)}
  PROVE  PromotionsOK' /\ PairsSettled' /\ CapturedOK' /\ PromotingOK' /\ DestinationOK' /\ BeginOK'
<1>1. /\ job'.phase = p /\ job'.att = job.att /\ Calm /\ harm'.kill = harm.kill
      /\ \A a \in Attempts \ {job.att} : content'[a] = content[a]
  BY WritesFacts DEF ProgressInv, Writes
<1>2. PromotionsOK'
  BY <1>1, PromotionsKept DEF ProgressInv, ProgressParts
<1>3. PairsSettled'
  <2> SUFFICES ASSUME harm.kill = 0, NEW n \in OutputNames, dir'[n].kind = "bundle",
                      dir'[n].att # job.att
               PROVE  /\ content'[dir'[n].att].body # "volatile"
                      /\ content'[dir'[n].att].note # "volatile"
    BY <1>1 DEF PairsSettled, SettledPair
  <2>1. dir'[n] = dir[n]
    BY FileFacts
  <2>2. n \in Names /\ dir \in Directory
    BY DEF OutputNames, Names, ProgressNames, ProgressInv, TypeInv, TypeOK, StorageOK
  <2>3. dir[n].att \in Attempts \ {job.att}
    BY <2>1, <2>2, FilesOfAttempts
  <2>4. content[dir[n].att].body # "volatile" /\ content[dir[n].att].note # "volatile"
    BY <2>1, <2>3 DEF ProgressInv, ProgressParts, PairsSettled, SettledPair
  <2> QED
    BY <1>1, <2>1, <2>3, <2>4
<1>4. CapturedOK'
  BY <1>1, BeforeStays DEF CapturedOK
<1>5. PromotingOK' /\ DestinationOK' /\ BeginOK'
  <2>1. /\ p \notin PromotionPhases
        /\ p \notin {"idle", "begin", "clean partial", "clean checkpoint", "sync final"}
    BY PhasesApart
  <2>2. job.phase \notin {"idle", "sync final", "clean partial", "clean checkpoint"}
    BY PhasesApart DEF Writes
  <2>3. dir["final"] = Absent
    BY <2>2 DEF ProgressInv, ProgressParts, DestinationOK
  <2> QED
    BY <1>1, <2>1, <2>3 DEF PromotingOK, DestinationOK, BeginOK
<1> QED
  BY <1>2, <1>3, <1>4, <1>5

\* The pair that a Resume started from is not touched.
LEMMA SavedStays ==
  ASSUME ProgressInv, NEW p, Writes(p), job.resume,
         dir'["partial"] = dir["partial"], dir'["partial.checkpoint"] = dir["partial.checkpoint"]
  PROVE  /\ dir'["partial"] = Bundle(job.saved)
         /\ dir'["partial.checkpoint"] = Checkpoint(job.saved)
         /\ Good(job.saved)' /\ Firm(job.saved)'
<1>1. /\ dir["partial"] = Bundle(job.saved) /\ dir["partial.checkpoint"] = Checkpoint(job.saved)
      /\ Good(job.saved) /\ Firm(job.saved) /\ job.saved \in Attempts /\ job.saved # job.att
  BY DEF ProgressInv, ProgressParts, WritingOK, Writes, TypeInv, TypeOK, JobOK, WritePhases
<1>2. /\ job'.saved = job.saved
      /\ \A a \in Attempts \ {job.att} : (Good(a)' <=> Good(a)) /\ (Firm(a)' <=> Firm(a))
  BY WritesFacts DEF ProgressInv
<1> QED
  BY <1>1, <1>2 DEF Good, Firm

\* A step that only writes the file of the attempt.
LEMMA WritesInPlace ==
  ASSUME ProgressInv, TypeInv', ~ Disturbed, NEW p \in WritePhases \ {"create", "sync final"},
         Writes(p), UNCHANGED <<dir, views>>, job.phase \notin {"create", "sync final"},
         p \in NotePhases \cup {"write checkpoint"} =>
           job.phase \in NotePhases \cup {"write checkpoint"},
         Captured(p, Mine', Before)
  PROVE  ProgressParts' /\ Advances
<1>1. job'.phase = p /\ job'.att = job.att /\ job'.resume = job.resume /\ job'.saved = job.saved
      /\ job'.step = job.step
      /\ Out' = Out /\ Calm
  BY WritesFacts DEF ProgressInv
<1>2. WritingOK
  BY DEF ProgressInv, ProgressParts
<1>3. ~ Interrupted(dir) /\ job.phase \in WritePhases
  BY <1>2 DEF WritingOK, Writes
<1>4. WritingOK'
  BY <1>1, <1>2, <1>3, SavedStays DEF WritingOK
<1>5. ProgressParts'
  BY <1>3, <1>4, WritesKeep DEF ProgressParts
<1>6. dir \in views /\ Worth(dir) <= Worth(dir)'
  <2>1. dir \in views
    BY DEF ProgressInv, TypeInv, TypeOK, StorageOK
  <2>2. \A d \in views : Worth(d) <= Worth(d)'
    BY <1>1, OldViews DEF ProgressInv, ProgressParts
  <2> QED
    BY <2>1, <2>2
<1> QED
  BY <1>1, <1>5, <1>6 DEF Advances

LEMMA WritingFacts ==
  ASSUME ProgressInv, job.phase \in WritePhases
  PROVE  /\ Mine \in Content /\ Mine.items \in Nat /\ job.att \in Attempts
         /\ Captured(job.phase, Mine, Before) /\ Before \in Nat
         /\ job.resume => job.saved \in Attempts /\ job.saved # job.att
         /\ dir \in Directory /\ dir \in views
<1>1. ContentOK /\ JobOK /\ StorageOK
  BY DEF ProgressInv, TypeInv, TypeOK
<1>2. job.att \in Attempts /\ (job.resume => job.saved \in Attempts)
  BY <1>1 DEF JobOK, WritePhases
<1>3. Mine \in Content /\ Mine.items \in Nat
  BY <1>1, <1>2, MineType, ItemsType DEF Mine
<1>4. Before \in Nat
  BY <1>1, <1>2, ItemsType DEF Before
<1>5. Captured(job.phase, Mine, Before) /\ job.saved # job.att
  BY DEF ProgressInv, ProgressParts, CapturedOK, WritingOK
<1> QED
  BY <1>1, <1>2, <1>3, <1>4, <1>5 DEF StorageOK

LEMMA WritesMine ==
  ASSUME TypeInv, NEW p, Writes(p)
  PROVE  (content' = content => Mine' = Mine) /\ \A c : Write(c) => Mine' = c
<1>1. job'.att = job.att /\ job.att \in Attempts
  BY WritesFacts
<1> QED
  BY <1>1 DEF Mine, Write, TypeInv, TypeOK, ContentOK

LEMMA OneMore ==
  ASSUME NEW m \in Nat, NEW n \in Nat, m >= n, NEW i, i = m + 1
  PROVE  i >= n /\ i > 0
  OBVIOUS

\* An item is recorded, captured or not.
LEMMA RecordStep ==
  ASSUME ProgressInv, TypeInv', ~ Disturbed, UNCHANGED <<dir, views>>,
         job.phase \in {"item", "stage", "append"}, Recorded,
         harm'.kill = harm.kill, harm'.power = harm.power,
         NEW c, Write(c), c.items = Mine.items + 1, c.sealed = Mine.sealed
  PROVE  ProgressParts' /\ Advances
<1>1. TypeInv /\ JobOK /\ job.phase \in WritePhases
  BY DEF ProgressInv, TypeInv, TypeOK, WritePhases
<1>2. Mine \in Content /\ Mine.items \in Nat /\ Captured(job.phase, Mine, Before) /\ Before \in Nat
  BY <1>1, WritingFacts
<1>3. PICK p \in {"sync partial", "item"} : job'.phase = p
  BY <1>1, RecordedType
<1>4. p \in WritePhases \ {"create", "sync final"} /\ p \notin NotePhases \cup {"write checkpoint"}
  BY <1>3 DEF WritePhases, NotePhases
<1>5. Writes(p)
  <2>1. SameCall
    BY <1>1, RecordedType DEF SameCall
  <2> QED
    BY <1>1, <1>3, <1>4, <2>1 DEF Writes
<1>6. Mine' = c
  BY <1>1, <1>5, WritesMine
<1>7. Captured(p, Mine', Before)
  <2>1. Mine.items >= Before /\ ~ Mine.sealed
    BY <1>2 DEF Captured
  <2>2. Mine'.items >= Before /\ Mine'.items > 0
    BY <1>2, <1>6, <2>1, OneMore
  <2>3. ~ Mine'.sealed
    BY <1>6, <2>1, Zenon
  <2>4. p \notin CheckpointPhases \ {"sync partial"} /\ p \notin NotePhases
    BY <1>3 DEF CheckpointPhases, NotePhases
  <2> QED
    BY <2>2, <2>3, <2>4 DEF Captured, NotePhases
<1> QED
  BY <1>4, <1>5, <1>7, WritesInPlace

\* A try that comes to nothing.
LEMMA TryStep ==
  ASSUME ProgressInv, TypeInv', ~ Disturbed, UNCHANGED <<dir, views>>,
         job.phase \in {"item", "stage"}, Mine.items < ItemCount, NextTry,
         harm'.kill = harm.kill, harm'.power = harm.power
  PROVE  ProgressParts' /\ Advances
<1>1. TypeInv /\ job.phase \in WritePhases
  BY DEF ProgressInv, WritePhases
<1>2. Mine \in Content /\ Captured(job.phase, Mine, Before)
  BY <1>1, WritingFacts
<1>3. CASE job.try + 1 < CaptureAttempts
  <2>1. job' = [job EXCEPT !.phase = "item", !.try = @ + 1] /\ content' = content
    BY <1>3 DEF NextTry
  <2>2. job'.phase = "item" /\ SameCall
    BY <1>1, <2>1 DEF TypeInv, TypeOK, JobOK, Job, SameCall
  <2>3. Writes("item")
    BY <1>1, <2>1, <2>2 DEF Writes, WritePhases
  <2>4. Captured("item", Mine', Before)
    BY <1>1, <1>2, <2>1, <2>3, WritesMine DEF Captured, CheckpointPhases, NotePhases
  <2>5. "item" \in WritePhases \ {"create", "sync final"}
        /\ "item" \notin NotePhases \cup {"write checkpoint"}
    BY DEF WritePhases, NotePhases
  <2> QED
    BY <2>3, <2>4, <2>5, WritesInPlace
<1>4. CASE ~ (job.try + 1 < CaptureAttempts)
  <2> DEFINE c == [Mine EXCEPT !.items = @ + 1, !.seen = @ \ {Item}, !.stale = @ \ {Item}]
  <2>1. Recorded /\ Write(c)
    BY <1>4 DEF NextTry
  <2>2. c.items = Mine.items + 1 /\ c.sealed = Mine.sealed
    BY <1>2 DEF Content
  <2> HIDE DEF c
  <2> QED
    BY <2>1, <2>2, RecordStep
<1> QED
  BY <1>3, <1>4

LEMMA WriteInPlaceStep ==
  ASSUME ProgressInv, TypeInv', ~ Disturbed,
         \/ RekeyPrefix \/ StageItem \/ FillStage \/ DropStage \/ AppendItem
         \/ FinishItems \/ SyncPartial \/ WriteCheckpoint \/ SyncCheckpoint \/ SealBundle
         \/ MissItem \/ MissObservation
  PROVE  ProgressParts' /\ Advances
<1> DEFINE Steps(p) ==
      /\ p \in WritePhases \ {"create", "sync final"}
      /\ Writes(p) /\ UNCHANGED <<dir, views>> /\ job.phase \notin {"create", "sync final"}
      /\ p \in NotePhases \cup {"write checkpoint"} =>
           job.phase \in NotePhases \cup {"write checkpoint"}
      /\ Captured(p, Mine', Before)
<1>1. TypeInv
  BY DEF ProgressInv
<1>2. CASE RekeyPrefix
  <2>1. job.phase = "rekey" /\ job.resume
    BY <1>1, <1>2 DEF RekeyPrefix, At, TypeInv, StepOK
  <2>2. Mine \in Content /\ Captured("rekey", Mine, Before) /\ Before = content[job.saved].items
    BY <2>1, WritingFacts DEF WritePhases, Before
  <2>3. Writes("item")
    BY <1>1, <1>2, <2>1, GotoWrites DEF RekeyPrefix, WritePhases
  <2>4. Mine' = [Mine EXCEPT !.items = content[job.saved].items,
                             !.seen = content[job.saved].seen,
                             !.stale = content[job.saved].stale]
    BY <1>1, <1>2, <2>3, WritesMine DEF RekeyPrefix
  <2>5. Captured("item", Mine', Before)
    BY <2>2, <2>4, <2>1, WritingFacts
       DEF Captured, Content, CheckpointPhases, NotePhases, WritePhases
  <2>6. Steps("item")
    BY <1>2, <2>1, <2>3, <2>5 DEF RekeyPrefix, storage, WritePhases, NotePhases
  <2> QED
    BY <2>6, WritesInPlace
<1>3. CASE StageItem
  <2>1. job.phase = "item"
    BY <1>3 DEF StageItem, At
  <2>2. Mine \in Content /\ Captured("item", Mine, Before)
    BY <2>1, WritingFacts DEF WritePhases
  <2>3. Writes("stage")
    BY <1>1, <1>3, <2>1, GotoWrites DEF StageItem, WritePhases
  <2>4. Mine' = [Mine EXCEPT !.seen = @ \cup {Item}, !.stale = @ \ {Item}]
    BY <1>1, <1>3, <2>3, WritesMine DEF StageItem
  <2>5. Captured("stage", Mine', Before)
    BY <2>2, <2>4 DEF Captured, CheckpointPhases, NotePhases, Content
  <2>6. Steps("stage")
    BY <1>3, <2>1, <2>3, <2>5 DEF StageItem, WritePhases, NotePhases
  <2> QED
    BY <2>6, WritesInPlace
<1>4. CASE FillStage
  <2>1. job.phase = "stage" /\ content' = content
    BY <1>4 DEF FillStage, At
  <2>2. Captured("stage", Mine, Before)
    BY <2>1, WritingFacts DEF WritePhases
  <2>3. Writes("append")
    BY <1>1, <1>4, <2>1, GotoWrites DEF FillStage, WritePhases
  <2>4. Captured("append", Mine', Before)
    BY <1>1, <2>1, <2>2, <2>3, WritesMine DEF Captured, CheckpointPhases, NotePhases
  <2>5. Steps("append")
    BY <1>4, <2>1, <2>3, <2>4 DEF FillStage, storage, WritePhases, NotePhases
  <2> QED
    BY <2>5, WritesInPlace
<1>5. CASE AppendItem
  <2> DEFINE c == [Mine EXCEPT !.items = @ + 1]
  <2>1. job.phase = "append" /\ Write(c) /\ Recorded /\ UNCHANGED <<dir, views, harm>>
    BY <1>5 DEF AppendItem, At
  <2>2. Mine \in Content
    BY <2>1, WritingFacts DEF WritePhases
  <2>3. c.items = Mine.items + 1 /\ c.sealed = Mine.sealed
    BY <2>2 DEF Content
  <2> HIDE DEF c
  <2> QED
    BY <2>1, <2>3, RecordStep
<1>6. CASE FinishItems
  <2>1. job.phase = "item" /\ content' = content
    BY <1>6 DEF FinishItems, At
  <2>2. Captured("item", Mine, Before)
    BY <2>1, WritingFacts DEF WritePhases
  <2>3. Writes("seal")
    BY <1>1, <1>6, <2>1, GotoWrites DEF FinishItems, WritePhases
  <2>4. Captured("seal", Mine', Before)
    BY <1>1, <2>1, <2>2, <2>3, WritesMine DEF Captured, CheckpointPhases, NotePhases
  <2>5. Steps("seal")
    BY <1>6, <2>1, <2>3, <2>4 DEF FinishItems, storage, WritePhases, NotePhases
  <2> QED
    BY <2>5, WritesInPlace
<1>7. CASE SyncPartial
  <2>1. job.phase = "sync partial"
    BY <1>7 DEF SyncPartial, At
  <2>2. Mine \in Content /\ Captured("sync partial", Mine, Before)
    BY <2>1, WritingFacts DEF WritePhases
  <2>3. Writes("create checkpoint")
    BY <1>1, <1>7, <2>1, GotoWrites DEF SyncPartial, WritePhases
  <2>4. Mine' = [Mine EXCEPT !.body = "durable", !.seen = Observed]
    BY <1>1, <1>7, <2>3, WritesMine DEF SyncPartial
  <2>5. Captured("create checkpoint", Mine', Before)
    BY <2>2, <2>4 DEF Captured, CheckpointPhases, NotePhases, Content
  <2>6. Steps("create checkpoint")
    BY <1>7, <2>1, <2>3, <2>5 DEF SyncPartial, storage, WritePhases, NotePhases
  <2> QED
    BY <2>6, WritesInPlace
<1>8. CASE WriteCheckpoint
  <2>1. job.phase = "write checkpoint"
    BY <1>8 DEF WriteCheckpoint, At
  <2>2. Mine \in Content /\ Captured("write checkpoint", Mine, Before)
    BY <2>1, WritingFacts DEF WritePhases
  <2>3. Writes("sync checkpoint")
    BY <1>1, <1>8, <2>1, GotoWrites DEF WriteCheckpoint, WritePhases
  <2>4. Mine' = [Mine EXCEPT !.noted = Mine.items, !.note = "volatile"]
    BY <1>1, <1>8, <2>3, WritesMine DEF WriteCheckpoint
  <2>5. Captured("sync checkpoint", Mine', Before)
    BY <2>2, <2>4 DEF Captured, CheckpointPhases, NotePhases, Content
  <2>6. Steps("sync checkpoint")
    BY <1>8, <2>1, <2>3, <2>5 DEF WriteCheckpoint, storage, WritePhases, NotePhases
  <2> QED
    BY <2>6, WritesInPlace
<1>9. CASE SyncCheckpoint
  <2>1. job.phase = "sync checkpoint"
    BY <1>9 DEF SyncCheckpoint, At
  <2>2. Mine \in Content /\ Captured("sync checkpoint", Mine, Before)
    BY <2>1, WritingFacts DEF WritePhases
  <2>3. Writes("sync checkpoint directory")
    BY <1>1, <1>9, <2>1, GotoWrites DEF SyncCheckpoint, WritePhases
  <2>4. Mine' = [Mine EXCEPT !.note = "durable"]
    BY <1>1, <1>9, <2>3, WritesMine DEF SyncCheckpoint
  <2>5. Captured("sync checkpoint directory", Mine', Before)
    BY <2>2, <2>4 DEF Captured, CheckpointPhases, NotePhases, Content
  <2>6. Steps("sync checkpoint directory")
    BY <1>9, <2>1, <2>3, <2>5 DEF SyncCheckpoint, storage, WritePhases, NotePhases
  <2> QED
    BY <2>6, WritesInPlace
<1>10. CASE SealBundle
  <2>1. job.phase = "seal"
    BY <1>10 DEF SealBundle, At
  <2>2. Mine \in Content /\ Captured("seal", Mine, Before)
    BY <2>1, WritingFacts DEF WritePhases
  <2>3. Writes("publish")
    BY <1>1, <1>10, <2>1, GotoWrites DEF SealBundle, WritePhases
  <2>4. Mine' = [Mine EXCEPT !.sealed = TRUE, !.body = "durable"]
    BY <1>1, <1>10, <2>3, WritesMine DEF SealBundle
  <2>5. Captured("publish", Mine', Before)
    BY <2>2, <2>4 DEF Captured, CheckpointPhases, NotePhases, Content
  <2>6. Steps("publish")
    BY <1>10, <2>1, <2>3, <2>5 DEF SealBundle, storage, WritePhases, NotePhases
  <2> QED
    BY <2>6, WritesInPlace
<1>11. CASE DropStage
  <2>1. job.phase = "stage" /\ NextTry /\ UNCHANGED <<dir, views, harm>>
    BY <1>11 DEF DropStage, At
  <2>2. Mine.items < ItemCount
    BY <1>1, <2>1 DEF TypeInv, StepOK, Mine
  <2> QED
    BY <2>1, <2>2, TryStep
<1>12. CASE MissItem
  <2>1. job.phase = "item" /\ NextTry /\ UNCHANGED <<dir, views>> /\ Mine.items < ItemCount
    BY <1>12 DEF MissItem, At, storage
  <2>2. harm'.kill = harm.kill /\ harm'.power = harm.power
    BY <1>1, <1>12, SourceHarm DEF MissItem, TypeInv, TypeOK
  <2> QED
    BY <2>1, <2>2, TryStep
<1>13. CASE MissObservation
  <2>1. /\ job.phase \in {"stage", "create checkpoint"} /\ job' = job
        /\ UNCHANGED <<dir, views>>
    BY <1>1, <1>13, MissRewrites
  <2>2. PICK s \in SUBSET Items, t \in SUBSET Items :
          Write([Mine EXCEPT !.seen = s, !.stale = t])
    BY <1>1, <1>13, MissRewrites
  <2>3. harm'.kill = harm.kill /\ harm'.power = harm.power
    BY <1>1, <1>13, SourceHarm DEF MissObservation, TypeInv, TypeOK
  <2>4. Mine \in Content /\ Captured(job.phase, Mine, Before)
    BY <2>1, WritingFacts DEF WritePhases
  <2>5. Writes(job.phase)
    BY <2>1, <2>2, <2>3 DEF Writes, SameCall, WritePhases
  <2>6. Mine' = [Mine EXCEPT !.seen = s, !.stale = t]
    BY <1>1, <2>2, <2>5, WritesMine
  <2>7. Captured(job.phase, Mine', Before)
    BY <2>4, <2>6 DEF Captured, CheckpointPhases, NotePhases, Content
  <2>8. Steps(job.phase)
    BY <2>1, <2>5, <2>7 DEF WritePhases, NotePhases
  <2> QED
    BY <2>8, WritesInPlace
<1> QED
  BY <1>2, <1>3, <1>4, <1>5, <1>6, <1>7, <1>8, <1>9, <1>10, <1>11, <1>12, <1>13

(***************************************************************************)
(* A call that creates its files                                           *)
(***************************************************************************)
LEMMA PlaceAt ==
  ASSUME TypeInv, NEW n \in Names, NEW f, dir' = Place(n, f)
  PROVE  \A m \in Names : dir'[m] = IF m = n THEN f ELSE dir[m]
  BY DEF Place, TypeInv, TypeOK, StorageOK, Directory

LEMMA RenameAt ==
  ASSUME TypeInv, NEW from \in Names, NEW to \in Names, dir' = Rename(from, to)
  PROVE  \A m \in Names :
           dir'[m] = IF m = from THEN Absent ELSE IF m = to THEN dir[from] ELSE dir[m]
  BY DEF Rename, TypeInv, TypeOK, StorageOK, Directory

LEMMA TheNames ==
  {"partial", "partial.checkpoint", "resume", "resume.checkpoint", "previous",
   "previous.checkpoint", "promotion", "final"} = Names
  BY DEF Names, ProgressNames

\* The saved pair of attempt s leads, and nobody writes it.
Leads(s) ==
  /\ ~ Interrupted(dir)
  /\ dir["partial"] = Bundle(s) /\ dir["partial.checkpoint"] = Checkpoint(s)
  /\ Good(s) /\ Firm(s)
  /\ ~ (job.phase \in WritePhases /\ job.att = s)

LEMMA LeadWorth == \A s : Leads(s) => Worth(dir) = content[s].items
<1> SUFFICES ASSUME NEW s, Leads(s) PROVE Worth(dir) = content[s].items
  OBVIOUS
<1>1. dir["partial"].att = s
  BY FileFacts DEF Leads
<1>2. Intact(dir, Current) /\ ItemsOf(dir, Current) = content[s].items
  BY IntactPair DEF Leads, Current
<1>3. Endures(dir, Current) /\ ~ Unreported(dir, Current)
  BY <1>1, <1>2 DEF Endures, Unreported, Leads, Firm, PowerMayFail, Current
<1> QED
  BY <1>2, <1>3 DEF Worth, Leads

LEMMA LeadWorthNext == (\A s : Leads(s) => Worth(dir) = content[s].items)'
  BY LeadWorth, PTL

LEMMA NothingWorth ==
  ASSUME ~ Interrupted(dir), dir["partial"].kind # "bundle" \/ Unreported(dir, Current)
  PROVE  Worth(dir) = 0
  BY DEF Worth, Endures, Intact, Current

LEMMA NoLess ==
  ASSUME NEW m \in Nat, NEW n, n = m
  PROVE  m <= n
  OBVIOUS

LEMMA WritesNew ==
  ASSUME ProgressInv, TypeInv', ~ Disturbed, NEW p \in WritePhases \ {"create", "sync final"},
         Writes(p), content' = content, job.phase # "sync final",
         NEW n \in {Out, CheckpointOf(Out)},
         NEW f, n = Out => f = Bundle(job.att), Relink(Place(n, f)),
         dir'[Out] = Bundle(job.att),
         p \in NotePhases \cup {"write checkpoint"} =>
           dir'[CheckpointOf(Out)] = Checkpoint(job.att),
         Captured(p, Mine, Before),
         ~ job.resume => Worth(dir) = 0
  PROVE  ProgressParts' /\ Advances
<1>1. job'.phase = p /\ job'.att = job.att /\ job'.resume = job.resume /\ job'.saved = job.saved
      /\ job'.step = job.step
      /\ Out' = Out /\ Calm /\ job.att \in Attempts /\ harm'.kill = harm.kill
  BY WritesFacts DEF ProgressInv, Writes
<1>2. WritingOK /\ TypeInv /\ job.phase \in WritePhases
  BY DEF ProgressInv, ProgressParts, Writes
<1>3. n \in Names /\ dir' = Place(n, f) /\ views' = views \cup {dir'}
  BY OutName DEF Relink
<1>4. \A m \in Names : dir'[m] = IF m = n THEN f ELSE dir[m]
  BY <1>2, <1>3, PlaceAt
<1>5. n \in {"partial", "partial.checkpoint", "resume", "resume.checkpoint"}
      /\ (n \in OutputNames => n = Out)
      /\ (job.resume => n \in {"resume", "resume.checkpoint"})
      /\ (~ job.resume => n \in {"partial", "partial.checkpoint"})
  BY DEF Out, CheckpointOf, OutputNames
<1>6. ~ Interrupted(dir') /\ dir'["final"] = dir["final"]
  BY <1>2, <1>4, <1>5, TheNames DEF Interrupted, WritingOK
<1>7. \A m \in OutputNames : dir'[m] \in {dir[m], Absent, Bundle(job.att)}
  BY <1>4, <1>5, TheNames DEF OutputNames
<1>8. ASSUME job.resume
      PROVE  /\ dir'["partial"] = Bundle(job.saved)
             /\ dir'["partial.checkpoint"] = Checkpoint(job.saved)
             /\ Good(job.saved)' /\ Firm(job.saved)'
             /\ dir["partial"] = Bundle(job.saved)
             /\ dir["partial.checkpoint"] = Checkpoint(job.saved)
             /\ Good(job.saved) /\ Firm(job.saved)
  <2>1. dir'["partial"] = dir["partial"] /\ dir'["partial.checkpoint"] = dir["partial.checkpoint"]
    BY <1>4, <1>5, <1>8, TheNames
  <2>2. /\ dir["partial"] = Bundle(job.saved) /\ dir["partial.checkpoint"] = Checkpoint(job.saved)
        /\ Good(job.saved) /\ Firm(job.saved)
    BY <1>2, <1>8 DEF WritingOK
  <2> QED
    BY <1>8, <2>1, <2>2, SavedStays
<1>9. WritingOK'
  <2>1. ~ job.resume => dir'["resume"] = Absent
    BY <1>2, <1>4, <1>5, TheNames DEF WritingOK
  <2> QED
    BY <1>1, <1>2, <1>6, <1>8, <2>1 DEF WritingOK
<1>10. Mine' = Mine
  BY <1>2, WritesMine
<1>11. ProgressParts'
  BY <1>3, <1>6, <1>7, <1>9, <1>10, WritesKeep DEF ProgressParts
<1>12. Worth(dir) = 0 \/ Worth(dir) <= Worth(dir)'
  <2>1. CASE job.resume
    <3>1. job.saved # job.att /\ ~ Interrupted(dir)
      BY <1>2 DEF WritingOK
    <3>2. PICK s \in Attempts : s = job.saved
      BY <1>2, <2>1, WritingFacts
    <3>3. Leads(s)
      BY <1>8, <2>1, <3>1, <3>2 DEF Leads
    <3>4. Leads(s)'
      BY <1>1, <1>6, <1>8, <2>1, <3>1, <3>2 DEF Leads, Good, Firm
    <3>5. Worth(dir) = content[s].items
      BY <3>3, LeadWorth
    <3>6. Worth(dir)' = content'[s].items
      BY <3>4, LeadWorthNext
    <3>7. content[s].items \in Nat
      BY <1>2, ItemsType DEF TypeInv, TypeOK
    <3>8. Worth(dir)' = Worth(dir) /\ Worth(dir) \in Nat
      BY <3>5, <3>6, <3>7
    <3> QED
      BY <3>8, NoLess
  <2> QED
    BY <2>1
<1> QED
  BY <1>1, <1>3, <1>6, <1>11, <1>12 DEF Advances

LEMMA CreatePartialStep ==
  ASSUME ProgressInv, TypeInv', ~ Disturbed, CreatePartial
  PROVE  ProgressParts' /\ Advances
<1> DEFINE p == IF job.resume THEN "rekey" ELSE "item"
<1>1. job.phase = "create" /\ dir[Out] = Absent /\ WritingOK
  BY DEF CreatePartial, At, ProgressInv, ProgressParts
<1>2. Writes(p) /\ content' = content
  BY <1>1, GotoWrites DEF CreatePartial, WritePhases, ProgressInv
<1>3. Captured(p, Mine, Before)
  BY <1>1, WritingFacts DEF Captured, Before, CheckpointPhases, NotePhases, WritePhases
<1>4. dir'[Out] = Bundle(job.att)
  BY OutName, PlaceAt DEF CreatePartial, Relink, ProgressInv
<1>5. ~ job.resume => Worth(dir) = 0
  BY <1>1, FileFacts, NothingWorth DEF WritingOK, Out, WritePhases
<1>6. p \in WritePhases \ {"create", "sync final"} /\ p \notin NotePhases \cup {"write checkpoint"}
  BY DEF WritePhases, NotePhases
<1> HIDE DEF p
<1> QED
  BY <1>1, <1>2, <1>3, <1>4, <1>5, <1>6, WritesNew DEF CreatePartial

LEMMA CreateCheckpointStep ==
  ASSUME ProgressInv, TypeInv', ~ Disturbed, CreateCheckpoint
  PROVE  ProgressParts' /\ Advances
<1>1. job.phase = "create checkpoint" /\ WritingOK
  BY DEF CreateCheckpoint, At, ProgressInv, ProgressParts
<1>2. Writes("write checkpoint") /\ content' = content
  BY <1>1, GotoWrites DEF CreateCheckpoint, WritePhases, ProgressInv
<1>3. Captured("write checkpoint", Mine, Before)
  BY <1>1, WritingFacts DEF Captured, CheckpointPhases, NotePhases, WritePhases
<1>4. dir[Out] = Bundle(job.att) /\ ~ Interrupted(dir)
  BY <1>1 DEF WritingOK, WritePhases
<1>5. /\ dir'[Out] = Bundle(job.att)
      /\ dir'[CheckpointOf(Out)] = Checkpoint(job.att)
      /\ CheckpointOf(Out) # Out
  BY <1>4, OutName, PlaceAt DEF CreateCheckpoint, Relink, ProgressInv, CheckpointOf, Out
<1>6. ~ job.resume => Worth(dir) = 0
  BY <1>1, <1>4, FileFacts, NothingWorth DEF Out, WritePhases, Unreported, Current
<1>7. "write checkpoint" \in WritePhases \ {"create", "sync final"}
  BY DEF WritePhases
<1> QED
  BY <1>1, <1>2, <1>3, <1>5, <1>6, <1>7, WritesNew DEF CreateCheckpoint

(***************************************************************************)
(* What a step reports                                                     *)
(***************************************************************************)
TellsTruth ==
  \/ told' = told
  \/ /\ told' = [state |-> "complete", items |-> ItemCount]
     /\ \A d \in views' : d["final"].kind = "bundle"
  \/ /\ \E n \in 1 .. ItemCount : /\ told' = [state |-> "paused", items |-> n]
                                  /\ n <= Worth(dir)'
     /\ views' = {dir'} /\ dir'["final"] = Absent

LEMMA PausedIsTrue ==
  ASSUME TypeInv, TypeInv', Paused, NEW a \in Attempts, a = job.att, content' = content,
         content[a].items > 0, Leads(a)', views' = {dir'}, dir'["final"] = Absent
  PROVE  TellsTruth
<1>1. content[a].items \in 0 .. ItemCount /\ content[a].items \in Nat
  BY ItemsType DEF TypeInv, TypeOK
<1>2. content[a].items \in 1 .. ItemCount
  BY <1>1, ItemCountAssumption
<1>3. Worth(dir)' = content'[a].items
  BY LeadWorthNext
<1>4. Worth(dir)' = content[a].items
  BY <1>3
<1>5. told' = [state |-> "paused", items |-> content[a].items]
  BY DEF Paused, Mine
<1>6. content[a].items <= Worth(dir)'
  BY <1>1, <1>4
<1> QED
  BY <1>2, <1>5, <1>6 DEF TellsTruth

(***************************************************************************)
(* A step after which no call writes                                       *)
(***************************************************************************)
Rests ==
  /\ content' = content
  /\ harm'.kill = 0 => harm.kill = 0
  /\ PowerMayFail' => PowerMayFail
  /\ job'.phase \notin WritePhases

LEMMA RestsCalm ==
  ASSUME Rests
  PROVE  Calm
  BY DEF Rests, Calm, Alike

\* The pairs that were synchronized stay so.
LEMMA PairsKept ==
  ASSUME ProgressInv, content' = content, harm'.kill = 0 => harm.kill = 0,
         \A n \in OutputNames : dir'[n].kind = "bundle" => \E m \in OutputNames : dir'[n] = dir[m],
         \/ job.phase \notin WritePhases
         \/ job'.phase \in WritePhases /\ job'.att = job.att
         \/ \A n \in OutputNames : dir'[n] # Bundle(job.att)
         \/ content[job.att].body # "volatile" /\ content[job.att].note # "volatile"
  PROVE  PairsSettled'
<1> SUFFICES ASSUME harm.kill = 0, NEW n \in OutputNames, dir'[n].kind = "bundle",
                    ~ (job'.phase \in WritePhases /\ dir'[n].att = job'.att)
             PROVE  content[dir'[n].att].body # "volatile" /\ content[dir'[n].att].note # "volatile"
  BY DEF PairsSettled, SettledPair
<1>1. PICK m \in OutputNames : dir'[n] = dir[m]
  OBVIOUS
<1>2. SettledPair(m) /\ m \in Names /\ dir \in Directory
  BY TheNames DEF ProgressInv, ProgressParts, PairsSettled, TypeInv, TypeOK, StorageOK, OutputNames
<1>3. dir[m] = Bundle(dir[m].att)
  BY <1>1, <1>2, FilesOfAttempts
<1> QED
  BY <1>1, <1>2, <1>3 DEF SettledPair

LEMMA RestsKeep ==
  ASSUME ProgressInv, TypeInv', ~ Disturbed, Rests, views' \subseteq views \cup {dir'},
         Interrupted(dir') => PromotionOK(dir)', PairsSettled', PromotingOK', DestinationOK',
         BeginOK'
  PROVE  ProgressParts' /\ Calm
<1>1. Calm /\ PromotionsOK'
  BY RestsCalm, PromotionsKept DEF ProgressInv, ProgressParts
<1>2. WritingOK' /\ CapturedOK'
  BY DEF Rests, WritingOK, CapturedOK
<1> QED
  BY <1>1, <1>2 DEF ProgressParts

\* The same when the directory does not change.
LEMMA RestsInPlace ==
  ASSUME ProgressInv, TypeInv', ~ Disturbed, Rests, dir' = dir, views' \subseteq views,
         PairsSettled', PromotingOK', DestinationOK', BeginOK'
  PROVE  ProgressParts' /\ Advances
<1>1. Calm /\ dir \in views
  BY RestsCalm DEF ProgressInv, TypeInv, TypeOK, StorageOK
<1>2. \A d \in views : Worth(d) <= Worth(d)' /\ (Interrupted(d) => PromotionOK(d)')
  BY <1>1, OldViews DEF ProgressInv, ProgressParts
<1>3. Worth(dir) <= Worth(dir)' /\ (Interrupted(dir) => PromotionOK(dir)')
  BY <1>1, <1>2
<1>4. ProgressParts'
  BY <1>3, RestsKeep
<1> QED
  BY <1>1, <1>3, <1>4 DEF Advances

\* A call that has just stopped has no phase to answer for.
LEMMA IdleParts ==
  ASSUME job'.phase = "idle"
  PROVE  PromotingOK' /\ DestinationOK' /\ BeginOK' /\ job'.phase \notin WritePhases
  BY PhasesApart DEF PromotingOK, DestinationOK, BeginOK

(***************************************************************************)
(* The checkpoint is on disk                                               *)
(***************************************************************************)
LEMMA CheckpointIsGood ==
  ASSUME ProgressInv, job.phase = "sync checkpoint directory"
  PROVE  /\ Good(job.att) /\ Firm(job.att) /\ job.att \in Attempts
         /\ content[job.att].items > 0 /\ content[job.att].items >= Before
         /\ content[job.att].body = "durable" /\ content[job.att].note = "durable"
         /\ dir[Out] = Bundle(job.att) /\ dir[CheckpointOf(Out)] = Checkpoint(job.att)
         /\ ~ Interrupted(dir) /\ dir["final"] = Absent
<1>1. job.phase \in WritePhases
  BY DEF WritePhases
<1>2. Captured("sync checkpoint directory", Mine, Before) /\ job.att \in Attempts
  BY <1>1, WritingFacts
<1>3. /\ dir[Out] = Bundle(job.att) /\ dir[CheckpointOf(Out)] = Checkpoint(job.att)
      /\ ~ Interrupted(dir)
  BY <1>1 DEF ProgressInv, ProgressParts, WritingOK, NotePhases
<1>4. dir["final"] = Absent
  BY DEF ProgressInv, ProgressParts, DestinationOK
<1> QED
  BY <1>2, <1>3, <1>4 DEF Captured, Mine, CheckpointPhases, NotePhases, Good, Firm

LEMMA SyncCheckpointDirectoryStep ==
  ASSUME ProgressInv, TypeInv', ~ Disturbed, SyncCheckpointDirectory
  PROVE  ProgressParts' /\ Advances /\ TellsTruth
<1>1. job.phase = "sync checkpoint directory" /\ job.phase \in WritePhases /\ WritingOK
      /\ content' = content /\ harm' = harm /\ dir' = dir /\ views' = {dir'} /\ dir \in views
  BY DEF SyncCheckpointDirectory, At, SyncDirectory, WritePhases, ProgressInv, ProgressParts,
         TypeInv, TypeOK, StorageOK
<1>2. /\ Good(job.att) /\ Firm(job.att) /\ job.att \in Attempts
      /\ content[job.att].items > 0 /\ content[job.att].items >= Before
      /\ content[job.att].body = "durable" /\ content[job.att].note = "durable"
      /\ dir[Out] = Bundle(job.att) /\ dir[CheckpointOf(Out)] = Checkpoint(job.att)
      /\ ~ Interrupted(dir) /\ dir["final"] = Absent
  BY <1>1, CheckpointIsGood
<1>3. PairsSettled'
  <2>1. content[job.att].body # "volatile" /\ content[job.att].note # "volatile"
    BY <1>2
  <2> QED
    BY <1>1, <2>1, PairsKept
<1>4. CASE job.resume
  <2>1. job' = [job EXCEPT !.phase = "journal"] /\ told' = told
    BY <1>4 DEF SyncCheckpointDirectory, Goto
  <2>2. /\ job'.phase = "journal" /\ job'.att = job.att /\ job'.saved = job.saved
        /\ job'.step = 0 /\ Out = "resume"
    BY <1>1, <1>4, <2>1 DEF ProgressInv, TypeInv, TypeOK, JobOK, Job, WritingOK, Out
  <2>3. /\ dir["partial"] = Bundle(job.saved) /\ dir["partial.checkpoint"] = Checkpoint(job.saved)
        /\ Good(job.saved) /\ Firm(job.saved) /\ job.saved \in Attempts
    BY <1>1, <1>4, WritingFacts DEF WritingOK
  <2>4. dir["resume"] = Bundle(job.att) /\ dir["resume.checkpoint"] = Checkpoint(job.att)
    BY <1>2, <2>2 DEF CheckpointOf
  <2>5. Sits(dir, job.saved, job.att, 0) /\ dir["promotion"] = Absent
    BY <1>2, <2>3, <2>4 DEF Sits, Interrupted
  <2>6. Worthy(job.saved, job.att, 0)
    BY <1>2, <1>4, <2>3 DEF Worthy, Before
  <2>7. Worthy(job.saved, job.att, 0)'
    BY <1>1, <2>2, <2>6 DEF Worthy, Good, Firm
  <2>8. PromotingOK'
    <3>1. Reached' = 0
      BY <2>2 DEF Reached
    <3>2. 0 \in PromotionSteps
      BY DEF PromotionSteps
    <3>3. job'.phase \in BeforeJournal
          /\ job'.phase \notin {"move", "remove", "drop journal", "sync drop"}
      BY <2>2 DEF BeforeJournal
    <3>4. Sits(dir', job'.saved, job'.att, 0)
      BY <1>1, <2>2, <2>5
    <3>5. Worthy(job.saved, job.att, Reached)'
      BY <2>7, <3>1, <2>2 DEF Worthy
    <3> QED
      BY <1>1, <1>2, <2>2, <2>5, <3>1, <3>2, <3>3, <3>4, <3>5 DEF PromotingOK
  <2>9. DestinationOK' /\ BeginOK' /\ job'.phase \notin WritePhases
    BY <1>1, <1>2, <2>2 DEF DestinationOK, BeginOK, WritePhases
  <2>10. ProgressParts' /\ Advances
    BY <1>1, <1>3, <2>8, <2>9, RestsInPlace DEF Rests, PowerMayFail
  <2> QED
    BY <2>1, <2>10 DEF TellsTruth
<1>5. CASE ~ job.resume
  <2>1. job'.phase = "idle" /\ Paused
    <3>1. job' = Idle /\ Paused
      BY <1>5 DEF SyncCheckpointDirectory
    <3> QED
      BY <3>1 DEF Idle, Resting
  <2>2. PromotingOK' /\ DestinationOK' /\ BeginOK' /\ job'.phase \notin WritePhases
    BY <2>1, IdleParts
  <2>3. ProgressParts' /\ Advances
    BY <1>1, <1>3, <2>2, RestsInPlace DEF Rests, PowerMayFail
  <2>4. PICK a \in Attempts : a = job.att
    BY <1>2
  <2>5. dir["partial"] = Bundle(a) /\ dir["partial.checkpoint"] = Checkpoint(a)
    BY <1>2, <1>5, <2>4 DEF Out, CheckpointOf
  <2>6. Leads(a)'
    BY <1>1, <1>2, <2>2, <2>4, <2>5 DEF Leads, Good, Firm
  <2>7. TellsTruth
    BY <1>1, <1>2, <2>1, <2>4, <2>6, PausedIsTrue DEF ProgressInv
  <2> QED
    BY <2>3, <2>7
<1> QED
  BY <1>4, <1>5

(***************************************************************************)
(* Completion                                                              *)
(***************************************************************************)
LEMMA BundleVerifies ==
  ASSUME NEW d, FinalOK(d)
  PROVE  Verifies(d) <=> d["final"].kind = "bundle"
  BY DEF FinalOK, Verifies, Complete, Absent, Foreign

LEMMA AllVerify ==
  ASSUME CompletionInv, \A d \in views : d["final"].kind = "bundle", dir \in views
  PROVE  Published
<1>1. \A d \in views : Verifies(d)
  BY BundleVerifies DEF CompletionInv, NoFalseCompletion
<1> QED
  BY <1>1 DEF Published, Outcomes

LEMMA PublishStep ==
  ASSUME ProgressInv, TypeInv', ~ Disturbed, Publish
  PROVE  ProgressParts' /\ Advances
<1>1. job.phase = "publish" /\ job.phase \in WritePhases /\ WritingOK /\ content' = content
      /\ harm' = harm /\ dir' = Rename(Out, "final") /\ views' = views \cup {dir'}
      /\ dir[Out] = Bundle(job.att) /\ dir["final"] = Absent
  BY DEF Publish, At, MayPublish, OwnsOutput, Relink, WritePhases, ProgressInv, ProgressParts
<1>2. Writes("sync final")
  BY <1>1, GotoWrites DEF Publish, WritePhases, ProgressInv
<1>3. job'.phase = "sync final" /\ job'.att = job.att /\ job'.resume = job.resume
      /\ job'.saved = job.saved /\ job'.step = job.step /\ Out' = Out /\ Calm
      /\ job.att \in Attempts
  BY <1>2, WritesFacts DEF ProgressInv
<1>4. /\ \A m \in Names :
           dir'[m] = IF m = Out THEN Absent ELSE IF m = "final" THEN dir[Out] ELSE dir[m]
      /\ Out \in Names /\ Out \in OutputNames /\ Out # "final"
  BY <1>1, RenameAt, OutName, TheNames DEF ProgressInv, OutputNames
<1>5. ~ Interrupted(dir) /\ ~ Interrupted(dir')
  BY <1>1, <1>4, TheNames DEF WritingOK, Interrupted, Out
<1>6. PromotionsOK'
  BY <1>1, <1>3, <1>5, PromotionsKept DEF ProgressInv, ProgressParts
<1>7. PairsSettled'
  <2>1. \A n \in OutputNames : dir'[n].kind = "bundle" => dir'[n] = dir[n]
    BY <1>4, FileFacts, TheNames DEF OutputNames
  <2>2. job'.phase \in WritePhases /\ job'.att = job.att
    BY <1>3 DEF WritePhases
  <2> QED
    BY <1>1, <2>1, <2>2, PairsKept
<1>8. CapturedOK'
  <2>1. Captured("publish", Mine, Before)
    BY <1>1, WritingFacts
  <2>2. Captured("sync final", Mine, Before)
    BY <2>1 DEF Captured, CheckpointPhases, NotePhases
  <2>3. Mine' = Mine /\ Before' = Before
    BY <1>1, <1>2, WritesMine, BeforeStays DEF ProgressInv
  <2> QED
    BY <1>3, <2>2, <2>3 DEF CapturedOK
<1>9. ASSUME job.resume
      PROVE  /\ dir'["partial"] = Bundle(job.saved)
             /\ dir'["partial.checkpoint"] = Checkpoint(job.saved)
             /\ Good(job.saved)' /\ Firm(job.saved)'
  <2>1. dir'["partial"] = dir["partial"] /\ dir'["partial.checkpoint"] = dir["partial.checkpoint"]
    BY <1>4, <1>9, TheNames DEF Out
  <2> QED
    BY <1>2, <1>9, <2>1, SavedStays
<1>10. WritingOK'
  <2>1. ~ job.resume => dir'["resume"] = Absent
    BY <1>1, <1>4, TheNames DEF WritingOK, Out
  <2>2. dir'["final"] = Bundle(job.att) /\ dir'[Out] = Absent
    BY <1>1, <1>4, TheNames
  <2>3. "sync final" \notin NotePhases \cup {"write checkpoint"}
    BY DEF NotePhases
  <2> QED
    BY <1>1, <1>3, <1>5, <1>9, <2>1, <2>2, <2>3 DEF WritingOK
<1>11. PromotingOK' /\ DestinationOK' /\ BeginOK'
  BY <1>3, PhasesApart DEF PromotingOK, DestinationOK, BeginOK, PromotionPhases
<1>12. Worth(dir) = 0 \/ Worth(dir) <= Worth(dir)'
  <2>1. CASE ~ job.resume
    <3>1. dir["partial"].att = job.att
      BY <1>1, <2>1, FileFacts DEF Out
    <3> QED
      BY <1>1, <1>5, <3>1, NothingWorth DEF Unreported, Current
  <2>2. CASE job.resume
    <3>1. PICK s \in Attempts : s = job.saved /\ s # job.att
      BY <1>1, <2>2, WritingFacts
    <3>2. Leads(s)
      BY <1>1, <1>5, <2>2, <3>1 DEF Leads, WritingOK
    <3>3. Leads(s)'
      BY <1>3, <1>5, <1>9, <2>2, <3>1 DEF Leads
    <3>4. Worth(dir) = content[s].items
      BY <3>2, LeadWorth
    <3>5. Worth(dir)' = content'[s].items
      BY <3>3, LeadWorthNext
    <3>6. content[s].items \in Nat
      BY ItemsType DEF ProgressInv, TypeInv, TypeOK
    <3>7. Worth(dir)' = Worth(dir) /\ Worth(dir) \in Nat
      BY <1>1, <3>4, <3>5, <3>6
    <3> QED
      BY <3>7, NoLess
  <2> QED
    BY <2>1, <2>2
<1>13. dir["final"].kind # "bundle"
  BY <1>1, FileFacts
<1> QED
  BY <1>1, <1>3, <1>6, <1>7, <1>8, <1>10, <1>11, <1>12, <1>13 DEF ProgressParts, Advances

LEMMA SyncFinalStep ==
  ASSUME ProgressInv, TypeInv', ~ Disturbed, SyncFinal
  PROVE  ProgressParts' /\ Advances /\ TellsTruth
<1>1. job.phase = "sync final" /\ job.phase \in WritePhases /\ WritingOK /\ content' = content
      /\ harm' = harm /\ dir' = dir /\ views' = {dir'} /\ dir \in views
  BY DEF SyncFinal, At, SyncDirectory, WritePhases, ProgressInv, ProgressParts,
         TypeInv, TypeOK, StorageOK
<1>2. dir["final"] = Bundle(job.att) /\ dir[Out] = Absent /\ ~ Interrupted(dir)
      /\ job.saved # job.att
      /\ (job.resume => dir["partial"] = Bundle(job.saved))
      /\ (~ job.resume => dir["resume"] = Absent)
  BY <1>1 DEF WritingOK
<1>3. \A d \in views' : d["final"].kind = "bundle"
  <2>1. dir["final"].kind = "bundle"
    BY <1>2, FileFacts
  <2> QED
    BY <1>1, <2>1
<1>4. PairsSettled'
  <2>1. Bundle(job.att) # Absent /\ (job.resume => Bundle(job.saved) # Bundle(job.att))
    BY <1>2, FileFacts
  <2>2. dir["partial"] # Bundle(job.att) /\ dir["resume"] # Bundle(job.att)
    BY <1>2, <2>1 DEF Out
  <2>3. \A n \in OutputNames : dir'[n] # Bundle(job.att)
    BY <1>1, <2>2 DEF OutputNames
  <2> QED
    BY <1>1, <2>3, PairsKept
<1>5. CASE job.resume
  <2>1. job' = [job EXCEPT !.phase = "clean partial"] /\ told' = told
    BY <1>5 DEF SyncFinal, Goto
  <2>2. job'.phase = "clean partial"
    BY <2>1 DEF ProgressInv, TypeInv, TypeOK, JobOK, Job
  <2>3. job'.phase \notin WritePhases /\ PromotingOK' /\ DestinationOK' /\ BeginOK'
    BY <1>1, <1>2, <1>3, <2>2, PhasesApart DEF PromotingOK, DestinationOK, BeginOK
  <2>4. ProgressParts' /\ Advances
    BY <1>1, <1>4, <2>3, RestsInPlace DEF Rests, PowerMayFail
  <2> QED
    BY <2>1, <2>4 DEF TellsTruth
<1>6. CASE ~ job.resume
  <2>1. job' = Idle /\ Completed
    BY <1>6 DEF SyncFinal
  <2>2. job'.phase = "idle"
    BY <2>1 DEF Idle, Resting
  <2>3. PromotingOK' /\ DestinationOK' /\ BeginOK' /\ job'.phase \notin WritePhases
    BY <2>2, IdleParts
  <2>4. ProgressParts' /\ Advances
    BY <1>1, <1>4, <2>3, RestsInPlace DEF Rests, PowerMayFail
  <2> QED
    BY <1>3, <2>1, <2>4 DEF TellsTruth, Completed
<1> QED
  BY <1>5, <1>6

\* The removal of one of the files of the saved pair, the Bundle being published.
LEMMA CleanStep ==
  ASSUME ProgressInv, TypeInv', ~ Disturbed, NEW n \in {"partial", "partial.checkpoint"}, NEW f,
         Clean(n, f), content' = content, harm' = harm,
         job.phase \in {"clean partial", "clean checkpoint"},
         job'.phase \in {"clean checkpoint", "idle"}
  PROVE  ProgressParts' /\ Advances /\ \A d \in views' : d["final"].kind = "bundle"
<1>1. /\ \A d \in views : d["final"].kind = "bundle"
      /\ ~ Interrupted(dir) /\ dir \in views
  BY DEF ProgressInv, ProgressParts, DestinationOK, BeginOK, TypeInv, TypeOK, StorageOK
<1>2. /\ job.phase \notin WritePhases /\ job'.phase \notin WritePhases
      /\ job'.phase \notin PromotionPhases
  BY PhasesApart
<1>3. /\ \A m \in Names : dir'[m] = dir[m] \/ (m = n /\ dir'[m] = Absent)
      /\ views' \subseteq views \cup {dir'}
  <2>1. CASE UNCHANGED storage
    BY <2>1 DEF storage
  <2>2. CASE Relink(Place(n, Absent))
    <3>1. n \in Names /\ dir' = Place(n, Absent) /\ views' = views \cup {dir'}
      BY <2>2, TheNames DEF Relink
    <3>2. \A m \in Names : dir'[m] = IF m = n THEN Absent ELSE dir[m]
      BY <3>1, PlaceAt DEF ProgressInv
    <3> QED
      BY <3>1, <3>2
  <2> QED
    BY <2>1, <2>2 DEF Clean
<1>4. ~ Interrupted(dir') /\ dir'["final"] = dir["final"]
  BY <1>1, <1>3, TheNames DEF Interrupted
<1>5. \A d \in views' : d["final"].kind = "bundle"
  BY <1>1, <1>3, <1>4
<1>6. PairsSettled'
  <2>1. \A m \in OutputNames : dir'[m].kind = "bundle" => dir'[m] = dir[m]
    BY <1>3, FileFacts, TheNames DEF OutputNames
  <2> QED
    BY <1>2, <2>1, PairsKept
<1>7. PromotingOK' /\ DestinationOK' /\ BeginOK'
  BY <1>2, <1>4, <1>5 DEF PromotingOK, DestinationOK, BeginOK
<1>8. ProgressParts' /\ Calm
  BY <1>2, <1>3, <1>4, <1>6, <1>7, RestsKeep DEF Rests, PowerMayFail
<1>9. Published
  BY <1>1, AllVerify DEF ProgressInv
<1> QED
  BY <1>3, <1>4, <1>5, <1>8, <1>9 DEF Advances

LEMMA CleanPartialStep ==
  ASSUME ProgressInv, TypeInv', ~ Disturbed, CleanPartial
  PROVE  ProgressParts' /\ Advances
<1>1. job'.phase = "clean checkpoint" /\ job.phase = "clean partial"
  BY DEF CleanPartial, At, Goto, ProgressInv, TypeInv, TypeOK, JobOK, Job
<1> QED
  BY <1>1, CleanStep DEF CleanPartial

LEMMA CleanCheckpointStep ==
  ASSUME ProgressInv, TypeInv', ~ Disturbed, CleanCheckpoint
  PROVE  ProgressParts' /\ Advances /\ TellsTruth
<1>1. job'.phase = "idle" /\ job.phase = "clean checkpoint"
  BY DEF CleanCheckpoint, At, Idle, Resting
<1>2. ProgressParts' /\ Advances /\ \A d \in views' : d["final"].kind = "bundle"
  BY <1>1, CleanStep DEF CleanCheckpoint
<1> QED
  BY <1>2 DEF TellsTruth, CleanCheckpoint, Completed

(***************************************************************************)
(* Promotion                                                               *)
(***************************************************************************)
LEMMA PromotingFacts ==
  ASSUME ProgressInv, job.phase \in PromotionPhases
  PROVE  /\ job.att \in Attempts /\ job.saved \in Attempts /\ Reached \in PromotionSteps
         /\ Sits(dir, job.saved, job.att, Reached) /\ Worthy(job.saved, job.att, Reached)
         /\ dir["final"] = Absent /\ job.phase \notin WritePhases /\ dir \in views
         /\ dir["promotion"] = IF job.phase \in BeforeJournal \cup {"sync drop"}
                                 THEN Absent ELSE Journal(job.saved, job.att)
<1>1. PromotingOK /\ DestinationOK
  BY DEF ProgressInv, ProgressParts
<1>2. job.phase \notin {"idle", "sync final", "clean partial", "clean checkpoint"}
      /\ job.phase \notin WritePhases
  BY PhasesApart DEF PromotionPhases
<1>3. dir["final"] = Absent
  BY <1>1, <1>2 DEF DestinationOK
<1> QED
  BY <1>1, <1>2, <1>3 DEF PromotingOK, Worthy, ProgressInv, TypeInv, TypeOK, StorageOK

LEMMA JournalFields ==
  ASSUME NEW f, NEW s, NEW a, f = Journal(s, a)
  PROVE  f.saved = s /\ f.att = a /\ f # Absent
  BY FileFacts

LEMMA SitsEnds ==
  ASSUME NEW d, NEW s, NEW a, NEW k \in {0, 6}, Sits(d, s, a, k)
  PROVE  Interrupted(d) <=> d["promotion"] # Absent
<1>1. d["previous"] = Absent /\ d["previous.checkpoint"] = Absent
  BY DEF Sits
<1> QED
  BY <1>1 DEF Interrupted

LEMMA PromotionHere ==
  ASSUME NEW s, NEW a, NEW k \in PromotionSteps, InPromotion(dir, s, a, k),
         job.phase \notin WritePhases
  PROVE  PromotionOK(dir)
<1>1. dir["promotion"].saved = s /\ dir["promotion"].att = a
  BY JournalFields DEF InPromotion
<1> QED
  BY <1>1 DEF PromotionOK

LEMMA PromotionHereNext ==
  (\A s, a : \A k \in PromotionSteps :
     InPromotion(dir, s, a, k) /\ job.phase \notin WritePhases => PromotionOK(dir))'
<1>1. \A s, a : \A k \in PromotionSteps :
        InPromotion(dir, s, a, k) /\ job.phase \notin WritePhases => PromotionOK(dir)
  BY PromotionHere
<1> QED
  BY <1>1, PTL

\* The step keeps the attempts, and comes to phase p with k transitions done.
Promotes(p, k) ==
  /\ job.phase \in PromotionPhases /\ p \in PromotionPhases
  /\ job'.phase = p /\ job'.att = job.att /\ job'.saved = job.saved
  /\ job'.reenter = job.reenter
  /\ content' = content /\ harm' = harm
  /\ Reached' = k /\ k \in PromotionSteps
  /\ p \in BeforeJournal => job'.step = 0
  /\ p \in {"move", "remove", "drop journal"} => p = PromotionPhase(job'.step)
  /\ p = "sync drop" => job'.step = 6

LEMMA PromotesParts ==
  ASSUME ProgressInv, TypeInv', ~ Disturbed, NEW p, NEW k, Promotes(p, k),
         Sits(dir', job.saved, job.att, k), Worthy(job.saved, job.att, k),
         dir'["promotion"] = IF p \in BeforeJournal \cup {"sync drop"}
                               THEN Absent ELSE Journal(job.saved, job.att),
         dir'["final"] = dir["final"], views' \subseteq views \cup {dir'},
         \A n \in OutputNames : dir'[n].kind = "bundle" => \E m \in OutputNames : dir'[n] = dir[m],
         Interrupted(dir') => dir'["promotion"] # Absent
  PROVE  ProgressParts' /\ Calm
<1>1. job.phase \notin WritePhases /\ dir["final"] = Absent
  BY PromotingFacts DEF Promotes
<1>2. p \notin WritePhases /\ p \notin {"idle", "begin", "clean partial", "clean checkpoint"}
  BY PhasesApart DEF Promotes
<1>3. PairsSettled'
  BY <1>1, PairsKept DEF Promotes
<1>4. Worthy(job.saved, job.att, k)'
  BY DEF Promotes, Worthy, Good, Firm
<1>5. PromotingOK'
  <2>1. Worthy(job'.saved, job'.att, k) /\ Reached' = k
    BY DEF Promotes
  <2>2. ~ job.reenter => content'[job'.att].items > 0
    BY DEF Promotes, ProgressInv, ProgressParts, PromotingOK
  <2> QED
    BY <1>4, <2>1, <2>2 DEF PromotingOK, Promotes, Worthy
<1>6. DestinationOK' /\ BeginOK'
  BY <1>1, <1>2 DEF DestinationOK, BeginOK, Promotes
<1>7. ASSUME Interrupted(dir') PROVE PromotionOK(dir)'
  <2>1. PICK s, a : s = job.saved /\ a = job.att
    OBVIOUS
  <2>2. dir'["promotion"] = Journal(s, a)
    BY <1>7, <2>1
  <2>3. Worthy(s, a, k)'
    BY <1>4, <2>1 DEF Worthy, Promotes
  <2>4. InPromotion(dir, s, a, k)'
    BY <2>1, <2>2, <2>3 DEF InPromotion
  <2>5. job'.phase \notin WritePhases /\ k \in PromotionSteps
    BY <1>2 DEF Promotes
  <2> QED
    BY <2>4, <2>5, PromotionHereNext
<1> QED
  BY <1>2, <1>3, <1>5, <1>6, <1>7, RestsKeep DEF Rests, Promotes, PowerMayFail

\* A step that only synchronizes the directory.
LEMMA PromotesInPlace ==
  ASSUME ProgressInv, TypeInv', ~ Disturbed, NEW p, NEW k, Promotes(p, k), SyncDirectory,
         k = Reached,
         p \in BeforeJournal \cup {"sync drop"} <=> job.phase \in BeforeJournal \cup {"sync drop"}
  PROVE  ProgressParts' /\ Advances
<1>1. /\ dir' = dir /\ views' \subseteq views /\ dir \in views
      /\ Sits(dir, job.saved, job.att, k) /\ Worthy(job.saved, job.att, k)
      /\ dir["promotion"] = IF job.phase \in BeforeJournal \cup {"sync drop"}
                              THEN Absent ELSE Journal(job.saved, job.att)
  BY PromotingFacts DEF SyncDirectory, Promotes
<1>2. Interrupted(dir) => dir["promotion"] # Absent
  <2>1. ASSUME job.phase \in BeforeJournal \cup {"sync drop"}
        PROVE  Reached \in {0, 6}
    BY <2>1 DEF ProgressInv, ProgressParts, PromotingOK, Reached, BeforeJournal, Promotes
  <2>2. CASE job.phase \in BeforeJournal \cup {"sync drop"}
    BY <1>1, <2>1, <2>2, SitsEnds
  <2>3. CASE job.phase \notin BeforeJournal \cup {"sync drop"}
    BY <1>1, <2>3, JournalFields
  <2> QED
    BY <2>2, <2>3
<1>3. ProgressParts' /\ Calm
  BY <1>1, <1>2, PromotesParts
<1>4. \A d \in views : Worth(d) <= Worth(d)'
  BY <1>3, OldViews DEF ProgressInv, ProgressParts
<1>5. Worth(dir) <= Worth(dir)'
  BY <1>1, <1>4
<1> QED
  BY <1>1, <1>3, <1>5 DEF Advances

\* What the journal is worth once it has its name.
LEMMA JournalWorth ==
  ASSUME NEW s, NEW a, dir["promotion"] = Journal(s, a)
  PROVE  Interrupted(dir) /\ Worth(dir) = content[a].items
  BY FileFacts DEF Interrupted, Worth

LEMMA JournalWorthNext ==
  (\A s, a : dir["promotion"] = Journal(s, a) => Interrupted(dir) /\ Worth(dir) = content[a].items)'
<1>1. \A s, a : dir["promotion"] = Journal(s, a) =>
                  Interrupted(dir) /\ Worth(dir) = content[a].items
  BY JournalWorth
<1> QED
  BY <1>1, PTL

LEMMA StageJournalStep ==
  ASSUME ProgressInv, TypeInv', ~ Disturbed, StageJournal
  PROVE  ProgressParts' /\ Advances
<1>1. job.phase = "journal" /\ Goto("publish journal") /\ SyncDirectory
      /\ content' = content /\ harm' = harm
  BY DEF StageJournal, At
<1>2. job.phase \in PromotionPhases /\ job.phase \in BeforeJournal
      /\ "publish journal" \in PromotionPhases /\ "publish journal" \in BeforeJournal
  BY <1>1 DEF PromotionPhases, BeforeJournal
<1>3. /\ job'.phase = "publish journal" /\ job'.att = job.att /\ job'.saved = job.saved
      /\ job'.reenter = job.reenter /\ job'.step = job.step
  BY <1>1 DEF Goto, ProgressInv, TypeInv, TypeOK, JobOK, Job
<1>4. job.step = 0 /\ Reached = 0 /\ Reached' = 0 /\ 0 \in PromotionSteps
  BY <1>1, <1>2, <1>3 DEF ProgressInv, ProgressParts, PromotingOK, Reached, PromotionSteps
<1>5. Promotes("publish journal", 0)
  BY <1>1, <1>2, <1>3, <1>4 DEF Promotes
<1> QED
  BY <1>1, <1>2, <1>4, <1>5, PromotesInPlace

LEMMA PublishJournalStep ==
  ASSUME ProgressInv, TypeInv', ~ Disturbed, PublishJournal
  PROVE  ProgressParts' /\ Advances
<1>1. job.phase = "publish journal" /\ Goto("sync journal")
      /\ dir' = Place("promotion", Journal(job.saved, job.att)) /\ views' = views \cup {dir'}
      /\ content' = content /\ harm' = harm /\ dir["promotion"] = Absent
  BY DEF PublishJournal, At, Relink
<1>2. job.phase \in PromotionPhases /\ job.phase \in BeforeJournal
      /\ "sync journal" \in PromotionPhases /\ "sync journal" \notin BeforeJournal
  BY <1>1 DEF PromotionPhases, BeforeJournal
<1>3. /\ job'.phase = "sync journal" /\ job'.att = job.att /\ job'.saved = job.saved
      /\ job'.reenter = job.reenter /\ job'.step = job.step
  BY <1>1 DEF Goto, ProgressInv, TypeInv, TypeOK, JobOK, Job
<1>4. job.step = 0 /\ Reached = 0 /\ Reached' = 0 /\ 0 \in PromotionSteps
  BY <1>1, <1>2, <1>3 DEF ProgressInv, ProgressParts, PromotingOK, Reached, PromotionSteps
<1>5. Promotes("sync journal", 0)
  BY <1>1, <1>2, <1>3, <1>4 DEF Promotes
<1>6. /\ Sits(dir, job.saved, job.att, 0) /\ Worthy(job.saved, job.att, 0)
      /\ job.phase \notin WritePhases /\ job.att \in Attempts /\ job.saved \in Attempts
  BY <1>2, <1>4, PromotingFacts
<1>7. \A m \in Names : dir'[m] = IF m = "promotion" THEN Journal(job.saved, job.att) ELSE dir[m]
  BY <1>1, PlaceAt, TheNames DEF ProgressInv
<1>8. Sits(dir', job.saved, job.att, 0) /\ dir'["final"] = dir["final"]
      /\ dir'["promotion"] = Journal(job.saved, job.att)
      /\ dir'["partial"] = dir["partial"] /\ dir'["resume"] = dir["resume"]
  BY <1>6, <1>7, TheNames DEF Sits
<1>9. dir'["promotion"] # Absent
  BY <1>8, FileFacts
<1>10. ProgressParts' /\ Calm
  BY <1>1, <1>2, <1>5, <1>6, <1>8, <1>9, PromotesParts DEF OutputNames
<1>11. Worth(dir) <= Worth(dir)'
  <2>1. PICK s \in Attempts, a \in Attempts : s = job.saved /\ a = job.att
    BY <1>6
  <2>2. ~ Interrupted(dir)
    BY <1>1, <1>6, SitsEnds
  <2>3. Leads(s)
    BY <1>6, <2>1, <2>2 DEF Leads, Sits, Worthy
  <2>4. Worth(dir) = content[s].items
    BY <2>3, LeadWorth
  <2>5. Worth(dir)' = content'[a].items
    BY <1>8, <2>1, JournalWorthNext
  <2>6. Worth(dir)' = content[a].items
    BY <1>1, <2>5
  <2>7. content[a].items >= content[s].items /\ content[a].items \in Nat /\ content[s].items \in Nat
    BY <1>6, <2>1, ItemsType DEF Worthy, ProgressInv, TypeInv, TypeOK
  <2> QED
    BY <2>4, <2>6, <2>7
<1> QED
  BY <1>1, <1>8, <1>10, <1>11 DEF Advances

LEMMA SyncJournalStep ==
  ASSUME ProgressInv, TypeInv', ~ Disturbed, SyncJournal
  PROVE  ProgressParts' /\ Advances
<1> DEFINE p == PromotionPhase(job.step)
<1>1. job.phase = "sync journal" /\ Goto(p) /\ SyncDirectory
      /\ content' = content /\ harm' = harm
  BY DEF SyncJournal, At
<1>2. job.phase \in PromotionPhases /\ job.phase \notin BeforeJournal \cup {"sync drop"}
  BY <1>1 DEF PromotionPhases, BeforeJournal
<1>3. p \in {"move", "remove", "drop journal"}
  BY DEF PromotionPhase
<1>4. p \in PromotionPhases /\ p \notin BeforeJournal \cup {"sync drop"}
  BY <1>3 DEF PromotionPhases, BeforeJournal
<1>5. /\ job'.phase = p /\ job'.att = job.att /\ job'.saved = job.saved
      /\ job'.reenter = job.reenter /\ job'.step = job.step
  BY <1>1 DEF Goto, ProgressInv, TypeInv, TypeOK, JobOK, Job
<1>6. Reached = job.step /\ Reached' = job.step /\ Reached \in PromotionSteps
  BY <1>1, <1>2, <1>3, <1>5, PromotingFacts DEF Reached
<1> HIDE DEF p
<1>7. p = PromotionPhase(job'.step)
  BY <1>5 DEF p
<1>8. Promotes(p, job.step)
  BY <1>1, <1>2, <1>4, <1>5, <1>6, <1>7 DEF Promotes
<1> QED
  BY <1>1, <1>2, <1>4, <1>6, <1>8, PromotesInPlace

LEMMA SyncTransitionStep ==
  ASSUME ProgressInv, TypeInv', ~ Disturbed, SyncTransition
  PROVE  ProgressParts' /\ Advances
<1> DEFINE p == PromotionPhase(NextStep)
<1>1. job.phase \in {"sync move", "sync remove"} /\ SyncDirectory
      /\ content' = content /\ harm' = harm
      /\ job' = [job EXCEPT !.phase = p, !.step = NextStep]
  BY DEF SyncTransition, At
<1>2. job.phase \in PromotionPhases /\ job.phase \notin BeforeJournal \cup {"sync drop"}
  BY <1>1 DEF PromotionPhases, BeforeJournal
<1>3. p \in {"move", "remove", "drop journal"}
  BY DEF PromotionPhase
<1>4. p \in PromotionPhases /\ p \notin BeforeJournal \cup {"sync drop"}
  BY <1>3 DEF PromotionPhases, BeforeJournal
<1>5. /\ job'.phase = p /\ job'.att = job.att /\ job'.saved = job.saved
      /\ job'.reenter = job.reenter /\ job'.step = NextStep
  BY <1>1 DEF ProgressInv, TypeInv, TypeOK, JobOK, Job
<1>6. Reached = NextStep /\ Reached' = NextStep /\ Reached \in PromotionSteps
  BY <1>1, <1>2, <1>3, <1>5, PromotingFacts DEF Reached
<1> HIDE DEF p
<1>7. p = PromotionPhase(job'.step)
  BY <1>5 DEF p
<1>8. Promotes(p, NextStep)
  BY <1>1, <1>2, <1>4, <1>5, <1>6, <1>7 DEF Promotes
<1> QED
  BY <1>1, <1>2, <1>4, <1>6, <1>8, PromotesInPlace

LEMMA WorthyOn ==
  ASSUME NEW s, NEW a, NEW k \in 0 .. 5, Worthy(s, a, k), NEW j, j = k + 1
  PROVE  Worthy(s, a, j) /\ j \in 1 .. 6
<1>1. j \in 1 .. 6 /\ (j < 5 => k < 5)
  OBVIOUS
<1> QED
  BY <1>1 DEF Worthy

\* A transition of the promotion: the journal is worth the same before and after.
LEMMA PromotesOn ==
  ASSUME ProgressInv, TypeInv', ~ Disturbed, NEW k \in 0 .. 5, Reached = k, NEW j, j = k + 1,
         NEW p, Promotes(p, j),
         job.phase \notin BeforeJournal \cup {"sync drop"},
         p \notin BeforeJournal \cup {"sync drop"},
         Sits(dir', job.saved, job.att, j),
         \A n \in {"promotion", "final"} : dir'[n] = dir[n], views' \subseteq views \cup {dir'},
         \A n \in OutputNames : dir'[n].kind = "bundle" => \E m \in OutputNames : dir'[n] = dir[m]
  PROVE  ProgressParts' /\ Advances
<1>1. /\ dir["promotion"] = Journal(job.saved, job.att)
      /\ Worthy(job.saved, job.att, k)
      /\ job.att \in Attempts /\ job.saved \in Attempts
  BY PromotingFacts DEF Promotes
<1>2. dir'["promotion"] = Journal(job.saved, job.att) /\ dir'["final"] = dir["final"]
  BY <1>1
<1>3. Worthy(job.saved, job.att, j)
  BY <1>1, WorthyOn
<1>4. dir'["promotion"] # Absent
  BY <1>2, JournalFields
<1>5. ProgressParts' /\ Calm
  BY <1>2, <1>3, <1>4, PromotesParts
<1>6. Worth(dir) <= Worth(dir)'
  <2>1. PICK s \in Attempts, a \in Attempts : s = job.saved /\ a = job.att
    BY <1>1
  <2>2. Worth(dir) = content[a].items
    BY <1>1, <2>1, JournalWorth
  <2>3. Worth(dir)' = content'[a].items
    BY <1>2, <2>1, JournalWorthNext
  <2>4. content[a].items \in Nat /\ content' = content
    BY ItemsType DEF ProgressInv, TypeInv, TypeOK, Promotes
  <2>5. Worth(dir)' = Worth(dir) /\ Worth(dir) \in Nat
    BY <2>2, <2>3, <2>4
  <2> QED
    BY <2>5, NoLess
<1> QED
  BY <1>2, <1>5, <1>6 DEF Advances

LEMMA SitsMoved ==
  ASSUME NEW s, NEW a, NEW k \in 0 .. 3, Sits(dir, s, a, k),
         NEW from, from = MoveFrom[k + 1], NEW to, to = MoveTo[k + 1],
         \A m \in Names :
           dir'[m] = IF m = from THEN Absent ELSE IF m = to THEN dir[from] ELSE dir[m]
  PROVE  /\ Sits(dir', s, a, k + 1)
         /\ \A n \in {"promotion", "final"} : dir'[n] = dir[n]
         /\ \A n \in OutputNames :
              dir'[n].kind = "bundle" => \E m \in OutputNames : dir'[n] = dir[m]
<1>1. CASE k = 0
  <2>1. from = "partial" /\ to = "previous"
    BY <1>1 DEF MoveFrom, MoveTo
  <2> QED
    BY <1>1, <2>1, FileFacts, TheNames DEF Sits, OutputNames
<1>2. CASE k = 1
  <2>1. from = "partial.checkpoint" /\ to = "previous.checkpoint"
    BY <1>2 DEF MoveFrom, MoveTo
  <2> QED
    BY <1>2, <2>1, FileFacts, TheNames DEF Sits, OutputNames
<1>3. CASE k = 2
  <2>1. from = "resume" /\ to = "partial"
    BY <1>3 DEF MoveFrom, MoveTo
  <2> QED
    BY <1>3, <2>1, FileFacts, TheNames DEF Sits, OutputNames
<1>4. CASE k = 3
  <2>1. from = "resume.checkpoint" /\ to = "partial.checkpoint"
    BY <1>4 DEF MoveFrom, MoveTo
  <2> QED
    BY <1>4, <2>1, FileFacts, TheNames DEF Sits, OutputNames
<1> QED
  BY <1>1, <1>2, <1>3, <1>4

LEMMA SitsRemoved ==
  ASSUME NEW s, NEW a, NEW k \in 4 .. 5, Sits(dir, s, a, k), NEW n, n = Removed[k - 3],
         \A m \in Names : dir'[m] = IF m = n THEN Absent ELSE dir[m]
  PROVE  /\ Sits(dir', s, a, k + 1)
         /\ \A m \in {"promotion", "final"} : dir'[m] = dir[m]
         /\ \A m \in OutputNames : dir'[m] = dir[m]
<1>1. CASE k = 4
  <2>1. n = "previous"
    BY <1>1 DEF Removed
  <2> QED
    BY <1>1, <2>1, TheNames DEF Sits, OutputNames
<1>2. CASE k = 5
  <2>1. n = "previous.checkpoint"
    BY <1>2 DEF Removed
  <2> QED
    BY <1>2, <2>1, TheNames DEF Sits, OutputNames
<1> QED
  BY <1>1, <1>2

LEMMA MoveStep ==
  ASSUME ProgressInv, TypeInv', ~ Disturbed, Move
  PROVE  ProgressParts' /\ Advances
<1>1. job.phase = "move" /\ Goto("sync move") /\ content' = content /\ harm' = harm
  BY DEF Move, At
<1>2. job.phase \in PromotionPhases /\ job.phase \notin BeforeJournal \cup {"sync drop"}
      /\ "sync move" \in PromotionPhases /\ "sync move" \notin BeforeJournal \cup {"sync drop"}
  BY <1>1 DEF PromotionPhases, BeforeJournal
<1>3. /\ job'.phase = "sync move" /\ job'.att = job.att /\ job'.saved = job.saved
      /\ job'.reenter = job.reenter /\ job'.step = job.step
  BY <1>1 DEF Goto, ProgressInv, TypeInv, TypeOK, JobOK, Job
<1>4. PICK k \in 0 .. 3 : k = job.step
  BY <1>1 DEF ProgressInv, TypeInv, StepOK
<1>5. Reached = k /\ Reached' = k + 1 /\ NextStep = k + 1
  BY <1>1, <1>3, <1>4 DEF Reached, NextStep
<1>6. PICK j \in PromotionSteps : j = k + 1
  BY DEF PromotionSteps
<1>7. Promotes("sync move", j)
  BY <1>1, <1>2, <1>3, <1>5, <1>6 DEF Promotes
<1>8. PICK from, to : from = MoveFrom[k + 1] /\ to = MoveTo[k + 1] /\ Relink(Rename(from, to))
  BY <1>5 DEF Move
<1>9. from \in Names /\ to \in Names
  <2>1. k \in {0, 1, 2, 3}
    OBVIOUS
  <2> QED
    BY <1>8, <2>1, TheNames DEF MoveFrom, MoveTo
<1>10. dir' = Rename(from, to) /\ views' = views \cup {dir'}
  BY <1>8 DEF Relink
<1>11. \A m \in Names :
         dir'[m] = IF m = from THEN Absent ELSE IF m = to THEN dir[from] ELSE dir[m]
  BY <1>9, <1>10, RenameAt DEF ProgressInv
<1>12. Sits(dir, job.saved, job.att, k)
  BY <1>2, <1>5, PromotingFacts
<1>13. /\ Sits(dir', job.saved, job.att, k + 1)
       /\ \A n \in {"promotion", "final"} : dir'[n] = dir[n]
       /\ \A n \in OutputNames :
            dir'[n].kind = "bundle" => \E m \in OutputNames : dir'[n] = dir[m]
  BY <1>8, <1>11, <1>12, SitsMoved
<1>14. Sits(dir', job.saved, job.att, j) /\ k \in 0 .. 5
  BY <1>6, <1>13
<1> QED
  BY <1>2, <1>5, <1>6, <1>7, <1>10, <1>13, <1>14, PromotesOn, Zenon

LEMMA RemoveStep ==
  ASSUME ProgressInv, TypeInv', ~ Disturbed, Remove
  PROVE  ProgressParts' /\ Advances
<1>1. job.phase = "remove" /\ Goto("sync remove") /\ content' = content /\ harm' = harm
  BY DEF Remove, At
<1>2. job.phase \in PromotionPhases /\ job.phase \notin BeforeJournal \cup {"sync drop"}
      /\ "sync remove" \in PromotionPhases /\ "sync remove" \notin BeforeJournal \cup {"sync drop"}
  BY <1>1 DEF PromotionPhases, BeforeJournal
<1>3. /\ job'.phase = "sync remove" /\ job'.att = job.att /\ job'.saved = job.saved
      /\ job'.reenter = job.reenter /\ job'.step = job.step
  BY <1>1 DEF Goto, ProgressInv, TypeInv, TypeOK, JobOK, Job
<1>4. PICK k \in 4 .. 5 : k = job.step
  BY <1>1 DEF ProgressInv, TypeInv, StepOK
<1>5. Reached = k /\ Reached' = k + 1
  BY <1>1, <1>3, <1>4 DEF Reached, NextStep
<1>6. PICK j \in PromotionSteps : j = k + 1
  BY DEF PromotionSteps
<1>7. Promotes("sync remove", j)
  BY <1>1, <1>2, <1>3, <1>5, <1>6 DEF Promotes
<1>8. PICK n : n = Removed[k - 3] /\ Relink(Place(n, Absent))
  BY <1>4 DEF Remove
<1>9. n \in Names
  <2>1. k \in {4, 5}
    OBVIOUS
  <2> QED
    BY <1>8, <2>1, TheNames DEF Removed
<1>10. dir' = Place(n, Absent) /\ views' = views \cup {dir'}
  BY <1>8 DEF Relink
<1>11. \A m \in Names : dir'[m] = IF m = n THEN Absent ELSE dir[m]
  BY <1>9, <1>10, PlaceAt DEF ProgressInv
<1>12. Sits(dir, job.saved, job.att, k)
  BY <1>2, <1>5, PromotingFacts
<1>13. /\ Sits(dir', job.saved, job.att, k + 1)
       /\ \A m \in {"promotion", "final"} : dir'[m] = dir[m]
       /\ \A m \in OutputNames : dir'[m] = dir[m]
  BY <1>8, <1>11, <1>12, SitsRemoved
<1>14. \A m \in OutputNames : dir'[m].kind = "bundle" => \E o \in OutputNames : dir'[m] = dir[o]
  BY <1>13
<1>15. Sits(dir', job.saved, job.att, j) /\ k \in 0 .. 5
  BY <1>6, <1>13
<1> QED
  BY <1>2, <1>5, <1>6, <1>7, <1>10, <1>13, <1>14, <1>15, PromotesOn, Zenon

LEMMA DropJournalStep ==
  ASSUME ProgressInv, TypeInv', ~ Disturbed, DropJournal
  PROVE  ProgressParts' /\ Advances
<1>1. job.phase = "drop journal" /\ Goto("sync drop") /\ dir' = Place("promotion", Absent)
      /\ views' = views \cup {dir'} /\ content' = content /\ harm' = harm
  BY DEF DropJournal, At, Relink
<1>2. job.phase \in PromotionPhases /\ job.phase \notin BeforeJournal \cup {"sync drop"}
      /\ "sync drop" \in PromotionPhases /\ "sync drop" \notin BeforeJournal
      /\ job.phase \notin WritePhases
  BY <1>1 DEF PromotionPhases, BeforeJournal, WritePhases
<1>3. /\ job'.phase = "sync drop" /\ job'.att = job.att /\ job'.saved = job.saved
      /\ job'.reenter = job.reenter /\ job'.step = job.step
  BY <1>1 DEF Goto, ProgressInv, TypeInv, TypeOK, JobOK, Job
<1>4. Reached = job.step /\ Reached' = job.step /\ job.step \in PromotionSteps
  BY <1>1, <1>2, <1>3, PromotingFacts DEF Reached
<1>5. job.phase = PromotionPhase(job.step)
  BY <1>1, <1>2 DEF ProgressInv, ProgressParts, PromotingOK
<1>6. job.step = 6
  <2>1. PICK k \in 0 .. 6 : k = job.step
    BY <1>4 DEF PromotionSteps
  <2>2. PromotionPhase(k) = "drop journal"
    BY <1>1, <1>5, <2>1
  <2>3. ~ (k < 4) /\ ~ (k < 6)
    BY <2>2 DEF PromotionPhase
  <2> QED
    BY <2>1, <2>3
<1>7. Promotes("sync drop", 6)
  BY <1>1, <1>2, <1>3, <1>4, <1>6 DEF Promotes
<1>8. /\ Sits(dir, job.saved, job.att, 6) /\ Worthy(job.saved, job.att, 6)
      /\ dir["promotion"] = Journal(job.saved, job.att)
      /\ job.att \in Attempts /\ job.saved \in Attempts
  BY <1>2, <1>4, <1>6, PromotingFacts
<1>9. \A m \in Names : dir'[m] = IF m = "promotion" THEN Absent ELSE dir[m]
  BY <1>1, PlaceAt, TheNames DEF ProgressInv
<1>10. Sits(dir', job.saved, job.att, 6) /\ dir'["final"] = dir["final"]
      /\ dir'["promotion"] = Absent
      /\ dir'["partial"] = dir["partial"] /\ dir'["resume"] = dir["resume"]
  BY <1>8, <1>9, TheNames DEF Sits
<1>11. ~ Interrupted(dir')
  BY <1>10, SitsEnds
<1>12. ProgressParts' /\ Calm
  BY <1>1, <1>7, <1>8, <1>10, <1>11, PromotesParts DEF OutputNames
<1>13. Worth(dir) <= Worth(dir)'
  <2>1. PICK s \in Attempts, a \in Attempts : s = job.saved /\ a = job.att
    BY <1>8
  <2>2. Worth(dir) = content[a].items
    BY <1>8, <2>1, JournalWorth
  <2>3. dir'["partial"] = Bundle(a) /\ dir'["partial.checkpoint"] = Checkpoint(a)
    BY <1>10, <2>1 DEF Sits
  <2>4. Good(a)' /\ Firm(a)'
    BY <1>1, <1>8, <2>1 DEF Worthy, Good, Firm
  <2>5. job'.phase \notin WritePhases
    BY <1>3 DEF WritePhases
  <2>6. Leads(a)'
    BY <1>11, <2>3, <2>4, <2>5 DEF Leads
  <2>7. Worth(dir)' = content'[a].items
    BY <2>6, LeadWorthNext
  <2>8. content[a].items \in Nat
    BY ItemsType DEF ProgressInv, TypeInv, TypeOK
  <2>9. Worth(dir)' = Worth(dir) /\ Worth(dir) \in Nat
    BY <1>1, <2>2, <2>7, <2>8
  <2> QED
    BY <2>9, NoLess
<1> QED
  BY <1>1, <1>10, <1>12, <1>13 DEF Advances

LEMMA SyncDropStep ==
  ASSUME ProgressInv, TypeInv', ~ Disturbed, SyncDrop
  PROVE  ProgressParts' /\ Advances /\ TellsTruth
<1>1. job.phase = "sync drop" /\ content' = content /\ harm' = harm /\ dir' = dir
      /\ views' = {dir'} /\ dir \in views
  BY DEF SyncDrop, At, SyncDirectory, ProgressInv, TypeInv, TypeOK, StorageOK
<1>2. job.phase \in PromotionPhases /\ job.phase \notin WritePhases
  BY <1>1 DEF PromotionPhases, WritePhases
<1>3. Reached = 6 /\ (~ job.reenter => content[job.att].items > 0)
  BY <1>1, <1>2 DEF Reached, ProgressInv, ProgressParts, PromotingOK
<1>4. /\ Sits(dir, job.saved, job.att, 6) /\ Worthy(job.saved, job.att, 6)
      /\ dir["promotion"] = Absent /\ dir["final"] = Absent
      /\ job.att \in Attempts
  BY <1>1, <1>2, <1>3, PromotingFacts
<1>5. ~ Interrupted(dir)
  BY <1>4, SitsEnds
<1>6. PairsSettled'
  BY <1>1, <1>2, PairsKept
<1>7. CASE job.reenter
  <2>1. job' = Resting("begin") /\ told' = told
    BY <1>7 DEF SyncDrop
  <2>2. job'.phase = "begin"
    BY <2>1 DEF Resting
  <2>3. job'.phase \notin WritePhases /\ PromotingOK' /\ DestinationOK' /\ BeginOK'
    <3>1. dir["resume"] = Absent
      BY <1>4 DEF Sits
    <3> QED
      BY <1>1, <1>4, <1>5, <2>2, <3>1, PhasesApart DEF PromotingOK, DestinationOK, BeginOK
  <2>4. ProgressParts' /\ Advances
    BY <1>1, <1>6, <2>3, RestsInPlace DEF Rests, PowerMayFail
  <2> QED
    BY <2>1, <2>4 DEF TellsTruth
<1>8. CASE ~ job.reenter
  <2>1. job' = Idle /\ Paused
    BY <1>8 DEF SyncDrop
  <2>2. job'.phase = "idle"
    BY <2>1 DEF Idle, Resting
  <2>3. PromotingOK' /\ DestinationOK' /\ BeginOK' /\ job'.phase \notin WritePhases
    BY <2>2, IdleParts
  <2>4. ProgressParts' /\ Advances
    BY <1>1, <1>6, <2>3, RestsInPlace DEF Rests, PowerMayFail
  <2>5. PICK a \in Attempts : a = job.att
    BY <1>4
  <2>6. dir["partial"] = Bundle(a) /\ dir["partial.checkpoint"] = Checkpoint(a)
    BY <1>4, <2>5 DEF Sits
  <2>7. Good(a)' /\ Firm(a)'
    BY <1>1, <1>4, <2>5 DEF Worthy, Good, Firm
  <2>8. Leads(a)'
    BY <1>1, <1>5, <2>3, <2>6, <2>7 DEF Leads
  <2>9. content[a].items > 0
    BY <1>3, <1>8, <2>5
  <2>10. TellsTruth
    BY <1>1, <1>4, <2>1, <2>5, <2>8, <2>9, PausedIsTrue DEF ProgressInv
  <2> QED
    BY <2>4, <2>10
<1> QED
  BY <1>7, <1>8

(***************************************************************************)
(* The calls                                                               *)
(***************************************************************************)
LEMMA CallBegins ==
  ASSUME ProgressInv, TypeInv', ~ Disturbed, NEW r \in BOOLEAN, NEW a \in FreeAttempts, NEW s,
         s # a, job' = Writing(r, a, s), content' = [content EXCEPT ![a] = Blank],
         UNCHANGED <<storage, harm>>, job.phase \notin WritePhases,
         ~ Interrupted(dir), dir["final"] = Absent, dir["resume"] = Absent,
         r => /\ dir["partial"] = Bundle(s) /\ dir["partial.checkpoint"] = Checkpoint(s)
              /\ Good(s) /\ Firm(s) /\ s \in Attempts
  PROVE  ProgressParts' /\ Advances
<1>1. /\ job'.phase = "create" /\ job'.att = a /\ job'.resume = r /\ job'.saved = s
      /\ job'.step = 0
  BY DEF Writing
<1>2. dir' = dir /\ views' = views /\ harm' = harm /\ dir \in views /\ dir \in Directory
  BY DEF storage, ProgressInv, TypeInv, TypeOK, StorageOK
<1>3. a \in Attempts /\ \A d \in views : \A n \in Names : d[n].att # a /\ d[n].saved # a
  BY FreeFacts
<1>4. /\ content'[a] = Blank
      /\ \A b \in Attempts \ {a} : content'[b] = content[b]
  BY <1>3 DEF ProgressInv, TypeInv, TypeOK, ContentOK
<1>5. Calm
  BY <1>1, <1>2, <1>4 DEF Calm, PowerMayFail, Alike
<1>6. \A d \in views : Worth(d) <= Worth(d)' /\ (Interrupted(d) => PromotionOK(d)')
  BY <1>5, OldViews DEF ProgressInv, ProgressParts
<1>7. PromotionsOK'
  BY <1>2, <1>6 DEF PromotionsOK
<1>8. PairsSettled'
  <2> SUFFICES ASSUME harm.kill = 0, NEW n \in OutputNames, dir[n].kind = "bundle"
               PROVE  /\ content'[dir[n].att].body # "volatile"
                      /\ content'[dir[n].att].note # "volatile"
    BY <1>2 DEF PairsSettled, SettledPair
  <2>1. n \in Names
    BY TheNames DEF OutputNames
  <2>2. dir[n].att \in Attempts \ {a}
    BY <1>2, <1>3, <2>1, FilesOfAttempts
  <2>3. content[dir[n].att].body # "volatile" /\ content[dir[n].att].note # "volatile"
    BY DEF ProgressInv, ProgressParts, PairsSettled, SettledPair
  <2> QED
    BY <1>4, <2>2, <2>3
<1>9. CapturedOK'
  <2>1. Mine' = Blank
    BY <1>1, <1>4 DEF Mine
  <2>2. ~ Blank.sealed
    BY DEF Blank
  <2>3. Captured("create", Mine', Before')
    BY <2>1, <2>2 DEF Captured, CheckpointPhases, NotePhases
  <2> QED
    BY <1>1, <2>3 DEF CapturedOK
<1>10. WritingOK'
  <2>1. r => Good(s)' /\ Firm(s)'
    BY <1>2, <1>4 DEF Good, Firm
  <2>2. "create" \notin NotePhases \cup {"write checkpoint"}
    BY DEF NotePhases
  <2> QED
    BY <1>1, <1>2, <2>1, <2>2 DEF WritingOK
<1>11. PromotingOK' /\ DestinationOK' /\ BeginOK'
  BY <1>1, <1>2, PhasesApart DEF PromotingOK, DestinationOK, BeginOK, WritePhases
<1>12. Worth(dir) <= Worth(dir)'
  BY <1>2, <1>6
<1> QED
  BY <1>2, <1>5, <1>7, <1>8, <1>9, <1>10, <1>11, <1>12 DEF ProgressParts, Advances

LEMMA RetryFinds ==
  ASSUME Advice = "retry"
  PROVE  ~ Interrupted(dir) /\ dir["resume"] = Absent
<1>1. ~ Verifies(dir)
  BY DEF Advice
<1>2. ~ (Authentic(dir, Current) \/ Interrupted(dir))
  BY <1>1 DEF Advice
<1>3. ~ \E n \in {"partial", "partial.checkpoint", "resume", "resume.checkpoint", "final"} :
          dir[n] # Absent
  BY <1>1, <1>2 DEF Advice
<1> QED
  BY <1>2, <1>3

LEMMA StartFreshStep ==
  ASSUME ProgressInv, TypeInv', ~ Disturbed, FollowsAdvice, StartFresh
  PROVE  ProgressParts' /\ Advances
<1>1. PICK a \in FreeAttempts :
        job' = Writing(FALSE, a, NoAttempt) /\ content' = [content EXCEPT ![a] = Blank]
  BY NewAreFree DEF StartFresh
<1>2. job.phase = "idle" /\ dir["final"] = Absent /\ Advice = "retry"
      /\ UNCHANGED <<storage, harm>>
  BY DEF StartFresh, MayCall, At
<1>3. ~ Interrupted(dir) /\ dir["resume"] = Absent
  BY <1>2, RetryFinds
<1>4. NoAttempt # a /\ job.phase \notin WritePhases
  BY <1>2, AttemptsAssumption, FreeFacts, PhasesApart
<1> QED
  BY <1>1, <1>2, <1>3, <1>4, CallBegins

\* A Resume that goes on finds no promotion and a free destination.
LEMMA EnteringFacts ==
  ASSUME ProgressInv, Entering
  PROVE  ~ Interrupted(dir) /\ dir["final"] = Absent /\ job.phase \notin WritePhases
<1>1. CASE At("begin")
  BY <1>1, PhasesApart DEF At, ProgressInv, ProgressParts, BeginOK, DestinationOK
<1>2. CASE MayCall /\ ~ Interrupted(dir)
  BY <1>2, PhasesApart DEF MayCall, At
<1> QED
  BY <1>1, <1>2 DEF Entering

\* What a Resume authenticates is synchronized, when nothing was killed.
LEMMA IntactIsFirm ==
  ASSUME ProgressInv, job.phase \notin WritePhases, NEW pair \in {Current, Resumed},
         Intact(dir, pair)
  PROVE  LET a == dir[pair[1]].att IN
         /\ a \in Attempts /\ Good(a) /\ Firm(a)
         /\ dir[pair[1]] = Bundle(a) /\ dir[pair[2]] = Checkpoint(a)
<1> DEFINE a == dir[pair[1]].att
<1>1. pair[1] \in OutputNames /\ pair[1] \in Names
  BY TheNames DEF Current, Resumed, OutputNames
<1>2. dir[pair[1]].kind = "bundle" /\ dir \in Directory /\ ContentOK
  BY DEF Intact, ProgressInv, TypeInv, TypeOK, StorageOK
<1>3. a \in Attempts /\ dir[pair[1]] = Bundle(a)
  BY <1>1, <1>2, FilesOfAttempts
<1>4. dir[pair[2]] = Checkpoint(a) /\ Good(a)
  BY DEF Intact, Good
<1>5. SettledPair(pair[1]) \/ harm.kill # 0
  BY <1>1 DEF ProgressInv, ProgressParts, PairsSettled
<1>6. content[a].body \in {"volatile", "durable", "torn"}
      /\ content[a].note \in {"none", "volatile", "durable", "torn"}
  BY <1>2, <1>3 DEF ContentOK, Content
<1>7. Firm(a)
  BY <1>2, <1>4, <1>5, <1>6 DEF Firm, Good, SettledPair
<1> QED
  BY <1>3, <1>4, <1>7

LEMMA StartResumeStep ==
  ASSUME ProgressInv, TypeInv', ~ Disturbed, StartResume
  PROVE  ProgressParts' /\ Advances
<1>1. PICK a \in FreeAttempts :
        /\ job' = Writing(TRUE, a, dir["partial"].att)
        /\ content' = [content EXCEPT ![a] = Blank]
  BY NewAreFree DEF StartResume
<1>2. ~ Interrupted(dir) /\ dir["final"] = Absent /\ job.phase \notin WritePhases
      /\ UNCHANGED <<storage, harm>>
  BY EnteringFacts DEF StartResume
<1>3. PICK s : s = dir["partial"].att
  OBVIOUS
<1>4. Intact(dir, Current) /\ dir["resume"] = Absent
  BY DEF StartResume, Resumable, Authentic
<1>5. /\ s \in Attempts /\ Good(s) /\ Firm(s)
      /\ dir["partial"] = Bundle(s) /\ dir["partial.checkpoint"] = Checkpoint(s)
  BY <1>2, <1>3, <1>4, IntactIsFirm DEF Current
<1>6. s # a
  BY <1>3, FreeFacts, TheNames DEF ProgressInv, TypeInv, TypeOK, StorageOK
<1>7. job' = Writing(TRUE, a, s)
  BY <1>1, <1>3
<1> QED
  BY <1>1, <1>2, <1>4, <1>5, <1>6, <1>7, CallBegins

LEMMA PromotionBegins ==
  ASSUME ProgressInv, TypeInv', ~ Disturbed, NEW s, NEW a, NEW k \in PromotionSteps, NEW p,
         p \in {"journal", PromotionPhase(k)}, job' = Promoting(p, a, s, k),
         UNCHANGED <<storage, content, harm>>, job.phase \notin WritePhases,
         Sits(dir, s, a, k), Worthy(s, a, k), dir["final"] = Absent,
         dir["promotion"] = IF p = "journal" THEN Absent ELSE Journal(s, a),
         p = "journal" => k = 0
  PROVE  ProgressParts' /\ Advances
<1>1. /\ job'.phase = p /\ job'.att = a /\ job'.saved = s /\ job'.step = k /\ job'.reenter
  BY DEF Promoting
<1>2. dir' = dir /\ views' = views /\ harm' = harm /\ content' = content
  BY DEF storage
<1>3. PromotionPhase(k) \in {"move", "remove", "drop journal"}
  BY DEF PromotionPhase
<1>4. p \in {"journal", "move", "remove", "drop journal"} /\ p \in PromotionPhases
  BY <1>3 DEF PromotionPhases
<1>5. Reached' = k
  BY <1>1, <1>4 DEF Reached
<1>6. Worthy(s, a, k)'
  BY <1>2 DEF Worthy, Good, Firm
<1>7. PromotingOK'
  <2>1. p \in {"move", "remove", "drop journal"} => p = PromotionPhase(k)
    OBVIOUS
  <2>2. p \in BeforeJournal \cup {"sync drop"} <=> p = "journal"
    BY <1>4 DEF BeforeJournal
  <2>3. Sits(dir', s, a, k) /\ dir'["promotion"] = dir["promotion"]
    BY <1>2
  <2> QED
    BY <1>1, <1>4, <1>5, <1>6, <2>1, <2>2, <2>3 DEF PromotingOK, BeforeJournal, Worthy
<1>8. DestinationOK' /\ BeginOK' /\ job'.phase \notin WritePhases
  BY <1>1, <1>2, <1>4, PhasesApart DEF DestinationOK, BeginOK
<1>9. PairsSettled'
  BY <1>2, PairsKept
<1> QED
  BY <1>2, <1>7, <1>8, <1>9, RestsInPlace DEF Rests, PowerMayFail

LEMMA PromoteResumedStep ==
  ASSUME ProgressInv, TypeInv', ~ Disturbed, PromoteResumed
  PROVE  ProgressParts' /\ Advances
<1>1. ~ Interrupted(dir) /\ dir["final"] = Absent /\ job.phase \notin WritePhases
      /\ UNCHANGED <<storage, content, harm>>
  BY EnteringFacts DEF PromoteResumed
<1>2. PICK s, a : s = dir["partial"].att /\ a = dir["resume"].att
  OBVIOUS
<1>3. Intact(dir, Current) /\ Intact(dir, Resumed) /\ NoOlder(dir, Resumed, Current)
  BY DEF PromoteResumed, Promotable, Authentic
<1>4. /\ s \in Attempts /\ Good(s) /\ Firm(s)
      /\ dir["partial"] = Bundle(s) /\ dir["partial.checkpoint"] = Checkpoint(s)
  BY <1>1, <1>2, <1>3, IntactIsFirm DEF Current
<1>5. /\ a \in Attempts /\ Good(a) /\ Firm(a)
      /\ dir["resume"] = Bundle(a) /\ dir["resume.checkpoint"] = Checkpoint(a)
  BY <1>1, <1>2, <1>3, IntactIsFirm DEF Resumed
<1>6. content[a].items >= content[s].items
  BY <1>2, <1>3 DEF NoOlder, ItemsOf, Current, Resumed
<1>7. Sits(dir, s, a, 0) /\ Worthy(s, a, 0) /\ dir["promotion"] = Absent
  BY <1>1, <1>4, <1>5, <1>6 DEF Sits, Worthy, Interrupted
<1>8. job' = Promoting("journal", a, s, 0) /\ 0 \in PromotionSteps
  BY <1>2 DEF PromoteResumed, PromotionSteps
<1> QED
  BY <1>1, <1>7, <1>8, PromotionBegins

LEMMA ReconcilePromotionStep ==
  ASSUME ProgressInv, TypeInv', ~ Disturbed, ReconcilePromotion
  PROVE  ProgressParts' /\ Advances
<1>1. job.phase = "idle" /\ dir["final"] = Absent /\ Interrupted(dir)
      /\ UNCHANGED <<storage, content, harm>>
  BY DEF ReconcilePromotion, MayCall, At
<1>2. PICK j \in PromotionSteps :
        /\ Continues(dir, j)
        /\ job' = Promoting(
                    IF dir["promotion"] = Absent THEN "journal" ELSE PromotionPhase(j),
                    dir[AdvancedPair(j)[1]].att,
                    IF SavedPairRemains(j) THEN dir[SavedPair(j)[1]].att
                                           ELSE dir["promotion"].saved,
                    j)
  BY DEF ReconcilePromotion, Reconcilable
<1>3. PICK s, a : s = dir["promotion"].saved /\ a = dir["promotion"].att
  OBVIOUS
<1>4. PICK k \in PromotionSteps : InPromotion(dir, s, a, k)
  <2>1. PromotionOK(dir)
    BY <1>1 DEF ProgressInv, ProgressParts, PromotionsOK, TypeInv, TypeOK, StorageOK
  <2> QED
    BY <1>3, <2>1 DEF PromotionOK
<1>5. /\ j = k /\ dir[AdvancedPair(k)[1]].att = a
      /\ k < 5 => dir[SavedPair(k)[1]].att = s
  BY <1>2, <1>4, PromotionStarts
<1>6. /\ dir["promotion"] = Journal(s, a) /\ Sits(dir, s, a, k) /\ Worthy(s, a, k)
  BY <1>4 DEF InPromotion
<1>7. dir["promotion"] # Absent
  BY <1>6, JournalFields
<1>8. job' = Promoting(PromotionPhase(k), a, s, k)
  BY <1>2, <1>3, <1>5, <1>7 DEF SavedPairRemains
<1>9. PromotionPhase(k) # "journal" /\ job.phase \notin WritePhases
  BY <1>1, PhasesApart DEF PromotionPhase
<1> QED
  BY <1>1, <1>6, <1>8, <1>9, PromotionBegins

(***************************************************************************)
(* Errors and the environment                                              *)
(***************************************************************************)
LEMMA UnwindStep ==
  ASSUME ProgressInv, TypeInv', ~ Disturbed, Unwind,
         harm'.kill = harm.kill, harm'.power = harm.power
  PROVE  ProgressParts' /\ Advances
<1>1. job'.phase = "idle" /\ content' = content
  BY DEF Unwind, Idle, Resting
<1>2. PromotingOK' /\ DestinationOK' /\ BeginOK' /\ job'.phase \notin WritePhases
  BY <1>1, IdleParts
<1>3. Rests
  BY <1>1, <1>2 DEF Rests, PowerMayFail
<1>4. dir \in views /\ dir \in Directory
  BY DEF ProgressInv, TypeInv, TypeOK, StorageOK
<1>5. CASE job.phase \in WritePhases /\ OwnsOutput
  <2>1. dir' = Place(Out, Absent) /\ views' = views \cup {dir'}
    BY <1>5 DEF Unwind
  <2>2. \A m \in Names : dir'[m] = IF m = Out THEN Absent ELSE dir[m]
    BY <2>1, OutName, PlaceAt DEF ProgressInv
  <2>3. /\ ~ Interrupted(dir) /\ job.saved # job.att
        /\ (~ job.resume => dir["resume"] = Absent)
        /\ (job.resume => /\ dir["partial"] = Bundle(job.saved)
                          /\ dir["partial.checkpoint"] = Checkpoint(job.saved)
                          /\ Good(job.saved) /\ Firm(job.saved))
    BY <1>5 DEF ProgressInv, ProgressParts, WritingOK
  <2>4. ~ Interrupted(dir') /\ dir'["final"] = dir["final"]
    BY <2>2, <2>3, TheNames DEF Interrupted, Out
  <2>5. PairsSettled'
    <3>1. \A n \in OutputNames : dir'[n].kind = "bundle" => dir'[n] = dir[n]
      BY <2>2, FileFacts, TheNames DEF OutputNames
    <3>2. Bundle(job.att) # Absent /\ (job.resume => Bundle(job.saved) # Bundle(job.att))
      BY <2>3, FileFacts
    <3>3. dir'["partial"] # Bundle(job.att) /\ dir'["resume"] # Bundle(job.att)
      BY <2>2, <2>3, <3>2, TheNames DEF Out
    <3>4. \A n \in OutputNames : dir'[n] # Bundle(job.att)
      BY <3>3 DEF OutputNames
    <3> QED
      BY <1>1, <3>1, <3>4, PairsKept
  <2>6. ProgressParts' /\ Calm
    BY <1>2, <1>3, <2>1, <2>4, <2>5, RestsKeep
  <2>7. Worth(dir) = 0 \/ Worth(dir) <= Worth(dir)'
    <3>1. CASE ~ job.resume
      <4>1. dir["partial"] = Bundle(job.att)
        BY <1>5, <3>1 DEF OwnsOutput, Out
      <4>2. dir["partial"].att = job.att
        BY <4>1, FileFacts
      <4> QED
        BY <1>5, <2>3, <4>2, NothingWorth DEF Unreported, Current
    <3>2. CASE job.resume
      <4>1. PICK s \in Attempts : s = job.saved
        BY <1>5, <3>2, WritingFacts
      <4>2. Leads(s)
        BY <2>3, <3>2, <4>1 DEF Leads
      <4>3. dir'["partial"] = Bundle(s) /\ dir'["partial.checkpoint"] = Checkpoint(s)
        BY <2>2, <2>3, <3>2, <4>1, TheNames DEF Out
      <4>4. Good(s)' /\ Firm(s)'
        BY <1>1, <2>3, <3>2, <4>1 DEF Good, Firm
      <4>5. Leads(s)'
        BY <1>2, <2>4, <4>3, <4>4 DEF Leads
      <4>6. Worth(dir) = content[s].items
        BY <4>2, LeadWorth
      <4>7. Worth(dir)' = content'[s].items
        BY <4>5, LeadWorthNext
      <4>8. content[s].items \in Nat
        BY ItemsType DEF ProgressInv, TypeInv, TypeOK
      <4>9. Worth(dir)' = Worth(dir) /\ Worth(dir) \in Nat
        BY <1>1, <4>6, <4>7, <4>8
      <4> QED
        BY <4>9, NoLess
    <3> QED
      BY <3>1, <3>2
  <2> QED
    BY <2>1, <2>4, <2>6, <2>7 DEF Advances
<1>6. CASE ~ (job.phase \in WritePhases /\ OwnsOutput)
  <2>1. dir' = dir /\ views' = views
    BY <1>6 DEF Unwind
  <2>2. ASSUME job.phase \in WritePhases, NEW n \in OutputNames
        PROVE  dir[n] # Bundle(job.att)
    <3>1. dir[Out] # Bundle(job.att)
      BY <1>6, <2>2 DEF OwnsOutput
    <3>2. /\ job.saved # job.att
          /\ (~ job.resume => dir["resume"] = Absent)
          /\ (job.resume => dir["partial"] = Bundle(job.saved))
      BY <2>2 DEF ProgressInv, ProgressParts, WritingOK
    <3>3. Bundle(job.att) # Absent /\ (job.resume => Bundle(job.saved) # Bundle(job.att))
      BY <3>2, FileFacts
    <3>4. dir["partial"] # Bundle(job.att) /\ dir["resume"] # Bundle(job.att)
      BY <3>1, <3>2, <3>3 DEF Out
    <3> QED
      BY <3>4 DEF OutputNames
  <2>3. PairsSettled'
    BY <1>1, <2>1, <2>2, PairsKept
  <2> QED
    BY <1>2, <1>3, <2>1, <2>3, RestsInPlace
<1> QED
  BY <1>5, <1>6

LEMMA KillStep ==
  ASSUME ProgressInv, TypeInv', ~ Disturbed, Kill
  PROVE  ProgressParts' /\ Advances
<1>1. job'.phase = "idle" /\ content' = content /\ dir' = dir /\ views' = views
  BY DEF Kill, storage, Idle, Resting
<1>2. harm'.kill # 0
  <2>1. harm.kill \in Nat /\ harm'.kill = harm.kill + 1
    BY BoundsAssumption DEF Kill, ProgressInv, TypeInv, TypeOK, HarmOK
  <2> QED
    BY <2>1
<1>3. PairsSettled'
  BY <1>2 DEF PairsSettled
<1>4. PromotingOK' /\ DestinationOK' /\ BeginOK' /\ job'.phase \notin WritePhases
  BY <1>1, IdleParts
<1>5. Rests
  BY <1>1, <1>2, <1>4 DEF Rests, PowerMayFail
<1> QED
  BY <1>1, <1>3, <1>4, <1>5, RestsInPlace

(***************************************************************************)
(* Power loss                                                              *)
(***************************************************************************)
\* What a power loss leaves in the files.
LEMMA SurvivorsFacts ==
  ASSUME TypeInv, PowerLoss, NEW a \in Attempts
  PROVE  /\ content'[a].items = content[a].items
         /\ content'[a].noted = content[a].noted
         /\ content'[a].sealed <=> content[a].sealed
         /\ content'[a].body # "volatile" /\ content'[a].note # "volatile"
         /\ content[a].body = "durable" => content'[a].body = "durable"
         /\ content[a].note = "durable" => content'[a].note = "durable"
<1>1. PICK bodies, notes : content' = Survivors(bodies, notes)
  BY Zenon DEF PowerLoss
<1>2. content[a] \in Content
  BY DEF TypeInv, TypeOK, ContentOK
<1>3. content'[a] = [content[a] EXCEPT !.body = Settled(@, a, bodies),
                                       !.note = Settled(@, a, notes)]
  BY <1>1 DEF Survivors
<1> DEFINE b == Settled(content[a].body, a, bodies)
           n == Settled(content[a].note, a, notes)
<1>4. content'[a] = [content[a] EXCEPT !.body = b, !.note = n]
  BY <1>3, Zenon
<1>5. /\ b # "volatile" /\ n # "volatile"
      /\ content[a].body = "durable" => b = "durable"
      /\ content[a].note = "durable" => n = "durable"
  BY DEF Settled
<1> HIDE DEF b, n
<1>6. /\ content'[a].items = content[a].items
      /\ content'[a].noted = content[a].noted
      /\ content'[a].sealed = content[a].sealed
      /\ content'[a].body = b /\ content'[a].note = n
  BY <1>2, <1>4 DEF Content
<1> QED
  BY <1>5, <1>6

\* The power comes back on a directory that was possible, worth what it was.
Recovers ==
  \E d \in views : /\ dir' = d /\ views' = {d} /\ PowerMayFail
                   /\ Worth(d) <= Worth(d)'

LEMMA PowerLossStep ==
  ASSUME ProgressInv, TypeInv', ~ Disturbed, ~ Disturbed', PowerLoss
  PROVE  ProgressParts' /\ Recovers
<1>1. PICK d \in views : dir' = d /\ views' = {d}
  BY DEF PowerLoss
<1>2. /\ harm.kill = 0 /\ harm'.kill = 0 /\ PowerMayFail
  <2>1. harm.power \in Nat /\ harm'.power = harm.power + 1 /\ harm'.kill = harm.kill
        /\ harm'.kill \in Nat
    BY BoundsAssumption DEF PowerLoss, ProgressInv, TypeInv, TypeOK, HarmOK
  <2>2. harm'.power > 0 /\ ~ (harm'.kill > 0)
    BY <2>1 DEF Disturbed
  <2> QED
    BY <2>1, <2>2 DEF PowerLoss, PowerMayFail
<1>3. job'.phase = "idle"
  BY DEF PowerLoss, Idle, Resting
<1>4. PromotingOK' /\ DestinationOK' /\ BeginOK' /\ job'.phase \notin WritePhases
  BY <1>3, IdleParts
<1>5. d \in Directory /\ TypeInv
  BY DEF ProgressInv, TypeInv, TypeOK, StorageOK
<1>6. \A a \in Attempts : Good(a) /\ Firm(a) =>
        Good(a)' /\ Firm(a)' /\ content'[a].items = content[a].items
  <2> SUFFICES ASSUME NEW a \in Attempts, Good(a), Firm(a)
               PROVE  Good(a)' /\ Firm(a)' /\ content'[a].items = content[a].items
    OBVIOUS
  <2>1. content[a].body = "durable" /\ content[a].note = "durable"
    BY <1>2 DEF Firm
  <2>2. /\ content'[a].items = content[a].items
        /\ content'[a].noted = content[a].noted
        /\ content'[a].sealed <=> content[a].sealed
        /\ content'[a].body = "durable" /\ content'[a].note = "durable"
    BY <1>5, <2>1, SurvivorsFacts
  <2> QED
    BY <2>2 DEF Good, Firm
<1>7. PairsSettled'
  <2> SUFFICES ASSUME NEW n \in OutputNames, d[n].kind = "bundle"
               PROVE  content'[d[n].att].body # "volatile" /\ content'[d[n].att].note # "volatile"
    BY <1>1 DEF PairsSettled, SettledPair
  <2>1. d[n].att \in Attempts
    BY <1>5, FilesOfAttempts, TheNames DEF OutputNames
  <2> QED
    BY <1>5, <2>1, SurvivorsFacts
<1>8. CASE Interrupted(d)
  <2>1. PICK s, a : s = d["promotion"].saved /\ a = d["promotion"].att
    OBVIOUS
  <2>2. PICK k \in PromotionSteps : InPromotion(d, s, a, k)
    BY <1>8, <2>1 DEF ProgressInv, ProgressParts, PromotionsOK, PromotionOK
  <2>3. Worthy(s, a, k) /\ s \in Attempts /\ a \in Attempts
    BY <2>2 DEF InPromotion, Worthy
  <2>4. content'[a].items = content[a].items /\ Worthy(s, a, k)'
    BY <1>6, <2>3 DEF Worthy
  <2>5. InPromotion(dir, s, a, k)'
    BY <1>1, <2>2, <2>4 DEF InPromotion
  <2>6. PromotionOK(dir)'
    BY <1>4, <2>5, PromotionHereNext
  <2>7. Worth(d) = content[a].items /\ Worth(d)' = content'[a].items
    BY <1>8, <2>1 DEF Worth
  <2>8. content[a].items \in Nat
    BY <1>5, <2>3, ItemsType DEF TypeInv, TypeOK
  <2>9. Worth(d)' = Worth(d) /\ Worth(d) \in Nat
    BY <2>4, <2>7, <2>8
  <2>10. Worth(d) <= Worth(d)'
    BY <2>9, NoLess
  <2> QED
    BY <1>1, <1>2, <1>4, <1>7, <2>6, <2>10
       DEF ProgressParts, PromotionsOK, WritingOK, CapturedOK, Recovers
<1>9. CASE ~ Interrupted(d)
  <2>1. PromotionsOK'
    BY <1>1, <1>9 DEF PromotionsOK
  <2>2. Worth(d) \in 0 .. ItemCount
    BY KeptIsWorth DEF ProgressInv, ProgressParts
  <2>3. CASE Endures(d, Current) /\ ~ Unreported(d, Current)
    <3>1. PICK a \in Attempts : a = d["partial"].att
      BY <1>5, <2>3, FilesOfAttempts, TheNames DEF Endures, Intact, Current
    <3>2. /\ d["partial"].kind = "bundle" /\ d["partial.checkpoint"] = Checkpoint(a)
          /\ content[a].noted = content[a].items /\ ~ content[a].sealed
          /\ content[a].body = "durable" /\ content[a].note = "durable"
      BY <1>2, <2>3, <3>1 DEF Endures, Intact, Current
    <3>3. /\ content'[a].items = content[a].items
          /\ content'[a].noted = content'[a].items /\ ~ content'[a].sealed
          /\ content'[a].body = "durable" /\ content'[a].note = "durable"
      BY <1>5, <3>2, SurvivorsFacts
    <3>4. Endures(d, Current)'
      BY <3>1, <3>2, <3>3 DEF Endures, Intact, Current
    <3>5. ~ Unreported(d, Current)'
      BY <1>4 DEF Unreported
    <3>6. Worth(d) = content[a].items /\ Worth(d)' = content'[a].items
      BY <1>9, <2>3, <3>1, <3>4, <3>5 DEF Worth, ItemsOf, Current
    <3>7. content[a].items \in Nat
      BY <1>5, ItemsType DEF TypeInv, TypeOK
    <3>8. Worth(d)' = Worth(d) /\ Worth(d) \in Nat
      BY <3>3, <3>6, <3>7
    <3>9. Worth(d) <= Worth(d)'
      BY <3>8, NoLess
    <3> QED
      BY <1>1, <1>2, <1>4, <1>7, <2>1, <3>9 DEF ProgressParts, WritingOK, CapturedOK, Recovers
  <2>4. CASE ~ (Endures(d, Current) /\ ~ Unreported(d, Current))
    <3>1. Worth(d) = 0
      BY <1>9, <2>4 DEF Worth
    <3>2. Worth(d)' >= 0
      <4>1. CASE Endures(d, Current)'
        <5>1. d["partial"].att \in Attempts
          BY <1>5, <4>1, FilesOfAttempts, TheNames DEF Endures, Intact, Current
        <5>2. content'[d["partial"].att].items \in 0 .. ItemCount
          BY <5>1 DEF TypeInv, TypeOK, ContentOK, Content
        <5>3. ItemsOf(d, Current)' \in 0 .. ItemCount
          BY <5>2 DEF ItemsOf, Current
        <5> QED
          BY <1>9, <5>3, ItemCountAssumption DEF Worth
      <4> QED
        BY <1>9, <4>1 DEF Worth
    <3>3. Worth(d) <= Worth(d)'
      BY <3>1, <3>2
    <3> QED
      BY <1>1, <1>2, <1>4, <1>7, <2>1, <3>3 DEF ProgressParts, WritingOK, CapturedOK, Recovers
  <2> QED
    BY <2>3, <2>4
<1> QED
  BY <1>8, <1>9

\* An edit of the source takes nothing from what was written.
LEMMA EditSourceStep ==
  ASSUME ProgressInv, TypeInv', ~ Disturbed, EditSource
  PROVE  ProgressParts' /\ TellsTruth /\ Advances
<1>1. /\ dir' = dir /\ views' = views /\ job' = job /\ told' = told
      /\ dir \in views /\ dir \in Directory /\ JobOK
  BY DEF EditSource, storage, ProgressInv, TypeInv, TypeOK, StorageOK
<1>2. harm'.kill = harm.kill /\ harm'.power = harm.power
  BY SourceHarm DEF EditSource, ProgressInv, TypeInv, TypeOK
<1>3. \A a \in Attempts : Alike(content'[a], content[a])
  BY EditFacts DEF ProgressInv, TypeInv, TypeOK
<1>4. \A a \in Attempts : (Good(a)' <=> Good(a)) /\ (Firm(a)' <=> Firm(a))
  BY <1>2, <1>3 DEF Good, Firm, Alike
<1>5. Calm
  BY <1>1, <1>2, <1>3 DEF Calm, PowerMayFail
<1>6. \A d \in views : Worth(d) <= Worth(d)' /\ (Interrupted(d) => PromotionOK(d)')
  BY <1>5, OldViews DEF ProgressInv, ProgressParts
<1>7. PromotionsOK'
  BY <1>1, <1>6 DEF PromotionsOK
<1>8. PairsSettled'
  <2>1. \A n \in OutputNames : dir[n].kind = "bundle" => dir[n].att \in Attempts
    BY <1>1, FilesOfAttempts, TheNames DEF OutputNames
  <2> QED
    BY <1>1, <1>2, <1>3, <2>1 DEF ProgressInv, ProgressParts, PairsSettled, SettledPair, Alike
<1>9. WritingOK'
  <2>1. job.phase \in WritePhases /\ job.resume => job.saved \in Attempts
    BY <1>1, PhasesApart DEF JobOK
  <2>2. job.phase \in WritePhases /\ job.resume => Good(job.saved)' /\ Firm(job.saved)'
    <3>1. ASSUME job.phase \in WritePhases, job.resume
          PROVE  Good(job.saved)' /\ Firm(job.saved)'
      <4>1. PICK s \in Attempts : s = job.saved
        BY <2>1, <3>1
      <4>2. Good(s) /\ Firm(s)
        BY <3>1, <4>1 DEF ProgressInv, ProgressParts, WritingOK
      <4>3. Good(s)' /\ Firm(s)'
        BY <1>4, <4>2
      <4> QED
        BY <1>1, <4>1, <4>3 DEF Good, Firm
    <3> QED
      BY <3>1
  <2> QED
    BY <1>1, <2>2 DEF ProgressInv, ProgressParts, WritingOK, Out
<1>10. CapturedOK'
  <2>1. ASSUME job.phase \in WritePhases PROVE Captured(job.phase, Mine', Before')
    <3>1. job.att \in Attempts /\ (job.resume => job.saved \in Attempts)
      BY <1>1, <2>1, PhasesApart DEF JobOK
    <3>2. Alike(Mine', Mine) /\ Before' = Before
      BY <1>1, <1>3, <3>1 DEF Mine, Before, Alike
    <3>3. Captured(job.phase, Mine, Before)
      BY <2>1 DEF ProgressInv, ProgressParts, CapturedOK
    <3> QED
      BY <3>2, <3>3 DEF Captured, Alike
  <2> QED
    BY <1>1, <2>1 DEF CapturedOK
<1>11. PromotingOK'
  <2>1. ASSUME job.phase \in PromotionPhases
        PROVE  /\ Worthy(job.saved, job.att, Reached)'
               /\ content'[job.att].items = content[job.att].items
    <3>1. Worthy(job.saved, job.att, Reached) /\ Reached' = Reached
      BY <1>1, <2>1 DEF ProgressInv, ProgressParts, PromotingOK, Reached, NextStep
    <3>2. PICK s \in Attempts, a \in Attempts : s = job.saved /\ a = job.att
      BY <3>1 DEF Worthy
    <3>3. Worthy(s, a, Reached)
      BY <3>1, <3>2
    <3>4. content'[a].items = content[a].items /\ content'[s].items = content[s].items
      BY <1>3 DEF Alike
    <3>5. Worthy(s, a, Reached)'
      BY <1>4, <3>1, <3>3, <3>4 DEF Worthy
    <3> QED
      BY <1>1, <3>2, <3>4, <3>5 DEF Worthy, Good, Firm
  <2>2. Reached' = Reached
    BY <1>1 DEF Reached, NextStep
  <2> QED
    BY <1>1, <2>1, <2>2 DEF ProgressInv, ProgressParts, PromotingOK
<1>12. DestinationOK' /\ BeginOK'
  BY <1>1 DEF ProgressInv, ProgressParts, DestinationOK, BeginOK
<1> QED
  BY <1>1, <1>5, <1>6, <1>7, <1>8, <1>9, <1>10, <1>11, <1>12
     DEF ProgressParts, Advances, TellsTruth

LEMMA ProgressInit == Init => ProgressParts
<1> SUFFICES ASSUME Init PROVE ProgressParts
  OBVIOUS
<1>1. job.phase = "idle" /\ views = {dir} /\ \A n \in Names : dir[n] = Absent
  BY DEF Init, Idle, Resting
<1>2. ~ Interrupted(dir)
  BY <1>1, TheNames DEF Interrupted
<1>3. PairsSettled
  BY <1>1, FileFacts, TheNames DEF PairsSettled, SettledPair, OutputNames
<1> QED
  BY <1>1, <1>2, <1>3, PhasesApart
     DEF ProgressParts, PromotionsOK, WritingOK, CapturedOK, PromotingOK, DestinationOK, BeginOK

LEMMA ProgressStays ==
  ASSUME ProgressParts, UNCHANGED vars
  PROVE  ProgressParts'
<1>1. dir' = dir /\ views' = views /\ content' = content /\ job' = job /\ harm' = harm
  BY DEF vars, storage
<1>2. PromotionsOK'
  BY <1>1 DEF ProgressParts, PromotionsOK, PromotionOK, InPromotion, Worthy, Good, Firm
<1>3. PairsSettled'
  BY <1>1 DEF ProgressParts, PairsSettled, SettledPair
<1>4. WritingOK'
  BY <1>1 DEF ProgressParts, WritingOK, Out, Good, Firm
<1>5. CapturedOK'
  BY <1>1 DEF ProgressParts, CapturedOK, Mine, Before
<1>6. PromotingOK'
  BY <1>1 DEF ProgressParts, PromotingOK, Reached, NextStep, Worthy, Good, Firm
<1>7. DestinationOK' /\ BeginOK'
  BY <1>1 DEF ProgressParts, DestinationOK, BeginOK
<1> QED
  BY <1>2, <1>3, <1>4, <1>5, <1>6, <1>7 DEF ProgressParts

\* What is disturbed stays so.
LEMMA StaysDisturbed ==
  ASSUME TypeInv, [Next]_vars, Disturbed
  PROVE  Disturbed'
<1>1. harm.kill \in Nat /\ harm.power \in Nat /\ harm.foreign \in Nat /\ harm.fault \in Nat
  BY BoundsAssumption DEF TypeInv, TypeOK, HarmOK
<1>2. harm'.kill >= harm.kill /\ harm'.power >= harm.power /\ harm'.foreign >= harm.foreign
  <2>1. CASE harm' = harm
    BY <1>1, <2>1
  <2>2. CASE Fault
    <3>1. harm' = [harm EXCEPT !.fault = @ + 1]
      BY <2>2 DEF Fault
    <3>2. harm'.kill = harm.kill /\ harm'.power = harm.power /\ harm'.foreign = harm.foreign
      BY <3>1 DEF TypeInv, TypeOK, HarmOK
    <3> QED
      BY <1>1, <3>2
  <2>3. CASE Kill
    BY <1>1, <2>3 DEF Kill, TypeInv, TypeOK, HarmOK
  <2>4. CASE PowerLoss
    BY <1>1, <2>4 DEF PowerLoss, TypeInv, TypeOK, HarmOK
  <2>5. CASE PutForeign
    BY <1>1, <2>5 DEF PutForeign, TypeInv, TypeOK, HarmOK
  <2>6. ASSUME UNCHANGED vars \/ StartFresh \/ Resume \/ Refuse PROVE harm' = harm
    BY <2>6 DEF vars, StartFresh, Resume, ReconcilePromotion, PromoteResumed, StartResume, Refuse
  <2>7. ASSUME WriteBundle PROVE harm' = harm
    BY <2>7 DEF WriteBundle, CreatePartial, RekeyPrefix, StageItem, FillStage, DropStage,
         AppendItem, FinishItems, SyncPartial, CreateCheckpoint, WriteCheckpoint, SyncCheckpoint,
         SyncCheckpointDirectory, SealBundle, Publish, SyncFinal, CleanPartial, CleanCheckpoint
  <2>8. ASSUME Promote PROVE harm' = harm
    BY <2>8 DEF Promote, StageJournal, PublishJournal, SyncJournal, Move, Remove,
         SyncTransition, DropJournal, SyncDrop
  <2>9. CASE MissItem \/ MissObservation \/ EditSource
    <3>1. harm'.kill = harm.kill /\ harm'.power = harm.power /\ harm'.foreign = harm.foreign
      BY <2>9, SourceHarm DEF MissItem, MissObservation, EditSource, TypeInv, TypeOK
    <3> QED
      BY <1>1, <3>1
  <2> QED
    BY <2>1, <2>2, <2>3, <2>4, <2>5, <2>6, <2>7, <2>8, <2>9 DEF Next, Environment
<1>3. harm'.kill \in Nat /\ harm'.power \in Nat /\ harm'.foreign \in Nat
  <2>1. TypeInv'
    BY TypeStep
  <2> QED
    BY <2>1, BoundsAssumption DEF TypeInv, TypeOK, HarmOK
<1>4. CASE harm.foreign > 0
  <2>1. harm'.foreign > 0
    BY <1>1, <1>2, <1>3, <1>4
  <2> QED
    BY <2>1 DEF Disturbed
<1>5. CASE harm.kill > 0 /\ harm.power > 0
  <2>1. harm'.kill > 0 /\ harm'.power > 0
    BY <1>1, <1>2, <1>3, <1>5
  <2> QED
    BY <2>1 DEF Disturbed
<1> QED
  BY <1>4, <1>5 DEF Disturbed

\* Every step of a Pack that is not disturbed.
LEMMA UndisturbedStep ==
  ASSUME ProgressInv, TypeInv', ~ Disturbed, ~ Disturbed', FollowsAdvice, Next
  PROVE  ProgressParts' /\ TellsTruth /\ (Advances \/ Recovers)
<1>1. CASE StartFresh \/ Resume
  BY <1>1, StartFreshStep, ReconcilePromotionStep, PromoteResumedStep, StartResumeStep
     DEF Resume, TellsTruth, StartFresh, ReconcilePromotion, PromoteResumed, StartResume
<1>2. CASE WriteBundle
  <2>1. CASE \/ RekeyPrefix \/ StageItem \/ FillStage \/ DropStage \/ AppendItem
             \/ FinishItems \/ SyncPartial \/ WriteCheckpoint \/ SyncCheckpoint \/ SealBundle
    <3>1. told' = told
      BY <2>1 DEF RekeyPrefix, StageItem, FillStage, DropStage, AppendItem, FinishItems,
                  SyncPartial, WriteCheckpoint, SyncCheckpoint, SealBundle
    <3> QED
      BY <2>1, <3>1, WriteInPlaceStep DEF TellsTruth
  <2>2. CASE CreatePartial \/ CreateCheckpoint \/ Publish \/ CleanPartial
    <3>1. told' = told
      BY <2>2 DEF CreatePartial, CreateCheckpoint, Publish, CleanPartial
    <3> QED
      BY <2>2, <3>1, CreatePartialStep, CreateCheckpointStep, PublishStep, CleanPartialStep
         DEF TellsTruth
  <2>3. CASE SyncCheckpointDirectory \/ SyncFinal \/ CleanCheckpoint
    BY <2>3, SyncCheckpointDirectoryStep, SyncFinalStep, CleanCheckpointStep
  <2> QED
    BY <1>2, <2>1, <2>2, <2>3 DEF WriteBundle
<1>3. CASE Promote
  <2>1. CASE SyncDrop
    BY <2>1, SyncDropStep
  <2>2. CASE \/ StageJournal \/ PublishJournal \/ SyncJournal \/ Move \/ Remove
             \/ SyncTransition \/ DropJournal
    <3>1. told' = told
      BY <2>2 DEF StageJournal, PublishJournal, SyncJournal, Move, Remove, SyncTransition,
                  DropJournal
    <3> QED
      BY <2>2, <3>1, StageJournalStep, PublishJournalStep, SyncJournalStep, MoveStep, RemoveStep,
         SyncTransitionStep, DropJournalStep DEF TellsTruth
  <2> QED
    BY <1>3, <2>1, <2>2 DEF Promote
<1>4. CASE Refuse \/ Fault
  <2>1. Unwind /\ told' = told
    BY <1>4 DEF Refuse, Fault, Unwind
  <2>2. harm'.kill = harm.kill /\ harm'.power = harm.power
    BY <1>4 DEF Refuse, Fault, ProgressInv, TypeInv, TypeOK, HarmOK
  <2> QED
    BY <2>1, <2>2, UnwindStep DEF TellsTruth
<1>5. CASE Kill
  BY <1>5, KillStep DEF Kill, TellsTruth
<1>6. CASE PowerLoss
  BY <1>6, PowerLossStep DEF PowerLoss, TellsTruth
<1>7. CASE PutForeign
  <2>1. harm.foreign \in Nat /\ harm'.foreign = harm.foreign + 1
    BY <1>7, BoundsAssumption DEF PutForeign, ProgressInv, TypeInv, TypeOK, HarmOK
  <2>2. harm'.foreign > 0
    BY <2>1
  <2> QED
    BY <2>2 DEF Disturbed
<1>8. CASE MissItem \/ MissObservation
  <2>1. told' = told
    BY <1>8 DEF MissItem, MissObservation
  <2> QED
    BY <1>8, <2>1, WriteInPlaceStep DEF TellsTruth
<1>9. CASE EditSource
  BY <1>9, EditSourceStep
<1> QED
  BY <1>1, <1>2, <1>3, <1>4, <1>5, <1>6, <1>7, <1>8, <1>9 DEF Next, Environment

LEMMA ProgressStep ==
  FollowsAdvice /\ TypeInv /\ CompletionInv /\ (Disturbed \/ ProgressParts) /\ [Next]_vars
    => (Disturbed \/ ProgressParts)'
<1> SUFFICES ASSUME FollowsAdvice, TypeInv, CompletionInv, Disturbed \/ ProgressParts,
                    [Next]_vars, ~ Disturbed'
             PROVE  ProgressParts'
  OBVIOUS
<1>1. ~ Disturbed /\ ProgressParts /\ TypeInv'
  BY StaysDisturbed, TypeStep
<1>2. CASE UNCHANGED vars
  BY <1>1, <1>2, ProgressStays
<1>3. CASE Next
  BY <1>1, <1>3, UndisturbedStep DEF ProgressInv
<1> QED
  BY <1>2, <1>3

(***************************************************************************)
(* What is held                                                            *)
(***************************************************************************)
LEMMA KeptFacts ==
  TypeInv /\ PromotionsOK /\ ~ Disturbed =>
    /\ Kept \in Nat /\ Kept \in 0 .. ItemCount
    /\ \E d \in Outcomes : Kept = Worth(d)
    /\ \A d \in Outcomes : Kept <= Worth(d)
    /\ Outcomes \subseteq views /\ dir \in Outcomes
<1> SUFFICES ASSUME TypeInv, PromotionsOK, ~ Disturbed
             PROVE  /\ Kept \in Nat /\ Kept \in 0 .. ItemCount
                    /\ \E d \in Outcomes : Kept = Worth(d)
                    /\ \A d \in Outcomes : Kept <= Worth(d)
                    /\ Outcomes \subseteq views /\ dir \in Outcomes
  OBVIOUS
<1>1. Outcomes \subseteq views /\ dir \in Outcomes
  BY DEF Outcomes, TypeInv, TypeOK, StorageOK
<1>2. \A d \in Outcomes : KeptIn(d) = Worth(d) /\ Worth(d) \in 0 .. ItemCount
  BY <1>1, Valued
<1> DEFINE S == {KeptIn(d) : d \in Outcomes}
<1>3. S \in SUBSET Nat /\ S # {}
  BY <1>1, <1>2, ItemCountAssumption
<1> HIDE DEF S
<1>4. Min(S) \in S /\ \A x \in S : Min(S) <= x
  BY <1>3, MinFacts
<1>5. PICK d \in Outcomes : Kept = KeptIn(d)
  BY <1>4 DEF Kept, S
<1>6. \A e \in Outcomes : Kept <= KeptIn(e)
  BY <1>4 DEF Kept, S
<1>7. Kept = Worth(d) /\ \A e \in Outcomes : Kept <= Worth(e)
  BY <1>2, <1>5, <1>6
<1>8. Kept \in Nat /\ Kept \in 0 .. ItemCount
  BY <1>2, <1>7, ItemCountAssumption
<1> QED
  BY <1>1, <1>7, <1>8

LEMMA KeptFactsNext ==
  TypeInv' /\ PromotionsOK' /\ ~ Disturbed' =>
    (/\ Kept \in Nat /\ Kept \in 0 .. ItemCount
     /\ \E d \in Outcomes : Kept = Worth(d)
     /\ \A d \in Outcomes : Kept <= Worth(d)
     /\ Outcomes \subseteq views /\ dir \in Outcomes)'
  BY KeptFacts, PTL

\* No power loss to come finds a directory that it could not find before, but
\* the one that the step leaves.
LEMMA NewOutcomes ==
  ASSUME Advances
  PROVE  Outcomes' \subseteq Outcomes \cup {dir'}
  BY DEF Advances, Calm, Outcomes

LEMMA InTurn ==
  ASSUME NEW h \in Nat, NEW w \in 0 .. ItemCount, NEW g \in Nat, h <= w, w = 0 \/ w <= g
  PROVE  h <= g
<1>1. w \in Nat
  BY ItemCountAssumption
<1> QED
  BY <1>1

LEMMA KeptGrows ==
  ASSUME ProgressInv, TypeInv', ProgressParts', ~ Disturbed, ~ Disturbed',
         Advances \/ Recovers, ~ Published
  PROVE  Kept <= Kept'
<1>1. /\ Kept \in Nat /\ \A d \in Outcomes : Kept <= Worth(d)
      /\ Outcomes \subseteq views /\ dir \in Outcomes
  BY KeptFacts DEF ProgressInv, ProgressParts
<1>2. PICK d \in Outcomes' : Kept' = Worth(d)'
  BY KeptFactsNext DEF ProgressParts
<1>3. Kept' \in Nat
  BY KeptFactsNext DEF ProgressParts
<1>4. \A e \in Outcomes : Worth(e) \in 0 .. ItemCount
  BY <1>1, Valued DEF ProgressInv, ProgressParts
<1>5. CASE Advances
  <2>1. CASE d \in Outcomes
    <3>1. d \in views /\ Calm
      BY <1>1, <1>5, <2>1 DEF Advances
    <3>2. Worth(d) <= Worth(d)'
      BY <3>1, OldViews DEF ProgressInv, ProgressParts
    <3>3. Kept <= Worth(d) /\ Worth(d) \in 0 .. ItemCount
      BY <1>1, <1>4, <2>1
    <3> QED
      BY <1>1, <1>2, <1>3, <3>2, <3>3, InTurn
  <2>2. CASE d = dir'
    <3>1. Kept <= Worth(dir) /\ Worth(dir) \in 0 .. ItemCount
      BY <1>1, <1>4
    <3>2. Kept' = Worth(dir)'
      BY <1>2, <2>2
    <3>3. Worth(dir) = 0 \/ Worth(dir) <= Worth(dir)'
      BY <1>5 DEF Advances
    <3>4. CASE Worth(dir) = 0
      BY <1>1, <1>3, <3>1, <3>4, InTurn
    <3>5. CASE Worth(dir) <= Worth(dir)'
      BY <1>1, <1>3, <3>1, <3>2, <3>5, InTurn
    <3> QED
      BY <3>3, <3>4, <3>5
  <2> QED
    BY <1>2, <1>5, <2>1, <2>2, NewOutcomes
<1>6. CASE Recovers
  <2>1. PICK e \in views : dir' = e /\ views' = {e} /\ PowerMayFail /\ Worth(e) <= Worth(e)'
    BY <1>6 DEF Recovers
  <2>2. e \in Outcomes /\ d = e
    BY <1>2, <2>1 DEF Outcomes
  <2>3. Kept <= Worth(e) /\ Worth(e) \in 0 .. ItemCount /\ Kept' = Worth(e)'
    BY <1>1, <1>2, <1>4, <2>2
  <2> QED
    BY <1>1, <1>3, <2>1, <2>3, InTurn
<1> QED
  BY <1>5, <1>6

LEMMA PublishedOf ==
  (/\ \A d \in Outcomes : d["final"].kind = "bundle"
   /\ Outcomes \subseteq views
   /\ (\A d \in views : FinalOK(d)))
    => Published
<1> SUFFICES ASSUME \A d \in Outcomes : d["final"].kind = "bundle",
                    Outcomes \subseteq views, \A d \in views : FinalOK(d),
                    NEW d \in Outcomes
             PROVE  Verifies(d)
  BY DEF Published
<1> QED
  BY BundleVerifies

LEMMA PublishedOfNext ==
  (/\ \A d \in Outcomes' : d["final"].kind = "bundle"
   /\ Outcomes' \subseteq views'
   /\ (\A d \in views' : FinalOK(d)'))
    => Published'
<1>1. ((/\ \A d \in Outcomes : d["final"].kind = "bundle"
        /\ Outcomes \subseteq views
        /\ (\A d \in views : FinalOK(d)))
         => Published)'
  BY PublishedOf, PTL
<1> QED
  BY <1>1

\* What was published stays so.
LEMMA PublishedStays ==
  ASSUME ProgressInv, CompletionInv', TypeInv', Advances \/ Recovers, Published
  PROVE  Published'
<1>1. \A d \in Outcomes : d["final"].kind = "bundle"
  BY DEF Published, Verifies
<1>2. dir \in Outcomes /\ dir \in views /\ dir' \in views'
  BY DEF Outcomes, ProgressInv, TypeInv, TypeOK, StorageOK
<1>3. \A d \in Outcomes' : d["final"].kind = "bundle"
  <2>1. CASE Advances
    <3>1. dir'["final"].kind = "bundle"
      BY <1>1, <1>2, <2>1 DEF Advances
    <3> QED
      BY <1>1, <2>1, <3>1, NewOutcomes
  <2>2. CASE Recovers
    <3>1. PICK e \in views : dir' = e /\ views' = {e} /\ PowerMayFail
      BY <2>2 DEF Recovers
    <3>2. e \in Outcomes /\ Outcomes' = {e}
      BY <3>1 DEF Outcomes
    <3> QED
      BY <1>1, <3>2
  <2> QED
    BY <2>1, <2>2
<1>4. Outcomes' \subseteq views'
  BY <1>2 DEF Outcomes
<1>5. \A d \in views' : FinalOK(d)'
  BY DEF CompletionInv, NoFalseCompletion
<1> QED
  BY <1>3, <1>4, <1>5, PublishedOfNext

(***************************************************************************)
(* The source                                                              *)
(***************************************************************************)
ObservedPhases == {"create checkpoint", "write checkpoint", "sync checkpoint",
                   "sync checkpoint directory"}

\* What a call at phase p, a Resume if r, has observed of the items in c.
Observing(p, r, c) ==
  /\ p = "create" => c.items = 0
  /\ p \in {"item", "stage", "append", "sync partial"} => 1 .. c.items \subseteq c.seen
  /\ p \in {"stage", "append"} => (c.items + 1) \in c.seen
  /\ p \in ObservedPhases => c.seen = Items
  /\ r /\ p \notin {"create", "rekey"} => c.seen = Items

\* Nothing that a checkpoint records of the source is missing or outdated.
Recent(c) == c.stale = {} /\ (c.note # "none" => c.seen = Items)

\* While the source is let alone, every saved pair is fresh.
SourcesOK ==
  harm.source = 0 =>
    /\ \A a \in Attempts : Recent(content[a])
    /\ job.phase \in WritePhases => Observing(job.phase, job.resume, Mine)

\* A step that changes no content and does not go on writing.
LEMMA SourcesRest ==
  ASSUME SourcesOK, content' = content, harm'.source = 0 => harm.source = 0,
         job'.phase \notin WritePhases
  PROVE  SourcesOK'
  BY DEF SourcesOK, Recent

\* A step that writes c, or nothing.
LEMMA SourcesWrite ==
  ASSUME TypeInv, SourcesOK, harm'.source = 0 => harm.source = 0,
         job.phase \in WritePhases, job'.att = job.att, job'.resume = job.resume,
         NEW c, Write(c) \/ (content' = content /\ c = Mine),
         harm.source = 0 =>
           /\ Recent(c)
           /\ job'.phase \in WritePhases => Observing(job'.phase, job.resume, c)
  PROVE  SourcesOK'
<1>1. job.att \in Attempts /\ ContentOK
  BY DEF TypeInv, TypeOK, JobOK
<1>2. Mine' = c /\ \A a \in Attempts : content'[a] = IF a = job.att THEN c ELSE content[a]
  BY <1>1 DEF Write, ContentOK, Mine
<1>3. ASSUME harm'.source = 0
      PROVE  /\ \A a \in Attempts : Recent(content'[a])
             /\ job'.phase \in WritePhases => Observing(job'.phase, job.resume, Mine')
  BY <1>2, <1>3 DEF SourcesOK
<1> QED
  BY <1>3 DEF SourcesOK, Recent, Observing

LEMMA SourcesStart ==
  ASSUME TypeInv, SourcesOK, NEW a \in Attempts, content' = [content EXCEPT ![a] = Blank],
         harm' = harm, job'.phase = "create", job'.att = a
  PROVE  SourcesOK'
<1>1. ContentOK
  BY DEF TypeInv, TypeOK
<1>2. Mine' = Blank /\ \A b \in Attempts : content'[b] = IF b = a THEN Blank ELSE content[b]
  BY <1>1 DEF Mine, ContentOK
<1>3. Recent(Blank) /\ \A r : Observing("create", r, Blank)
  BY DEF Recent, Observing, Blank, ObservedPhases
<1>4. ASSUME harm'.source = 0
      PROVE  /\ \A b \in Attempts : Recent(content'[b])
             /\ Observing("create", job'.resume, Mine')
  BY <1>2, <1>3, <1>4 DEF SourcesOK
<1> QED
  BY <1>4 DEF SourcesOK, Recent, Observing

\* What the running attempt knows of the source.
LEMMA SourcesMine ==
  ASSUME TypeInv, SourcesOK, harm.source = 0, job.phase \in WritePhases
  PROVE  /\ Recent(Mine) /\ Observing(job.phase, job.resume, Mine)
         /\ Mine \in Content /\ Mine.items \in Nat /\ Mine.seen \subseteq Items
<1>1. job.att \in Attempts /\ ContentOK
  BY DEF TypeInv, TypeOK, JobOK
<1>2. Mine \in Content /\ Mine.items \in Nat
  BY <1>1, MineType, ItemsType DEF Mine
<1> QED
  BY <1>1, <1>2 DEF SourcesOK, Mine, Content

LEMMA UpTo ==
  ASSUME NEW n \in Nat, NEW S, 1 .. n \subseteq S, (n + 1) \in S
  PROVE  1 .. (n + 1) \subseteq S
<1>1. ASSUME NEW i \in 1 .. (n + 1) PROVE i \in 1 .. n \/ i = n + 1
  OBVIOUS
<1> QED
  BY <1>1

LEMMA TheRest ==
  ASSUME NEW n \in 0 .. ItemCount, NEW S \in SUBSET Items, 1 .. n \subseteq S
  PROVE  S \cup ((n + 1) .. ItemCount) = Items
<1>1. ASSUME NEW i \in Items PROVE i \in 1 .. n \/ i \in (n + 1) .. ItemCount
  BY ItemCountAssumption DEF Items
<1>2. (n + 1) .. ItemCount \subseteq Items
  BY ItemCountAssumption DEF Items
<1> QED
  BY <1>1, <1>2

LEMMA SourcesWritten ==
  ASSUME ProgressInv, TypeInv', SourcesOK, WriteBundle
  PROVE  SourcesOK'
<1>1. TypeInv /\ job \in Job /\ ContentOK
  BY DEF ProgressInv, TypeInv, TypeOK, JobOK
<1>2. harm' = harm
  BY DEF WriteBundle, CreatePartial, RekeyPrefix, StageItem, FillStage, DropStage, AppendItem,
         FinishItems, SyncPartial, CreateCheckpoint, WriteCheckpoint, SyncCheckpoint,
         SyncCheckpointDirectory, SealBundle, Publish, SyncFinal, CleanPartial, CleanCheckpoint
<1>3. ASSUME NEW p, Goto(p)
      PROVE  job'.phase = p /\ job'.att = job.att /\ job'.resume = job.resume
  BY <1>1, <1>3 DEF Goto, Job
<1> DEFINE Known == /\ Recent(Mine) /\ Observing(job.phase, job.resume, Mine)
                    /\ Mine \in Content /\ Mine.items \in Nat /\ Mine.seen \subseteq Items
<1>4. job.phase \in WritePhases /\ harm.source = 0 => Known
  BY <1>1, SourcesMine
<1>5. CASE CreatePartial
  <2>1. job.phase = "create" /\ content' = content
        /\ Goto(IF job.resume THEN "rekey" ELSE "item")
    BY <1>5 DEF CreatePartial, At
  <2>2. job.phase \in WritePhases
    BY <2>1 DEF WritePhases
  <2>3. ASSUME harm.source = 0 PROVE Observing(job'.phase, job.resume, Mine)
    <3>1. job'.phase = IF job.resume THEN "rekey" ELSE "item"
      BY <1>3, <2>1
    <3>2. Mine.items = 0
      BY <1>4, <2>1, <2>2, <2>3 DEF Observing
    <3>3. 1 .. Mine.items = {}
      BY <3>2
    <3>4. CASE job.resume
      BY <3>1, <3>4 DEF Observing, ObservedPhases
    <3>5. CASE ~ job.resume
      BY <3>1, <3>3, <3>5 DEF Observing, ObservedPhases
    <3> QED
      BY <3>4, <3>5
  <2> QED
    BY <1>1, <1>2, <1>3, <1>4, <2>1, <2>2, <2>3, SourcesWrite
<1>6. CASE RekeyPrefix
  <2> DEFINE c == [Mine EXCEPT !.items = content[job.saved].items,
                               !.seen = content[job.saved].seen,
                               !.stale = content[job.saved].stale]
  <2>1. job.phase = "rekey" /\ job.resume /\ Write(c) /\ Goto("item")
    BY <1>1, <1>6 DEF RekeyPrefix, At, TypeInv, StepOK
  <2>2. job.phase \in WritePhases
    BY <2>1 DEF WritePhases
  <2>3. PICK s \in Attempts : s = job.saved
    BY <2>1, <2>2, WritingFacts
  <2>4. Good(s)
    BY <2>1, <2>2, <2>3 DEF ProgressInv, ProgressParts, WritingOK
  <2>5. harm.source = 0 => content[s].seen = Items /\ content[s].stale = {}
    BY <2>4 DEF Good, SourcesOK, Recent
  <2>6. content[s].items \in 0 .. ItemCount
    BY <1>1, ItemsType
  <2>7. ASSUME harm.source = 0 PROVE c.seen = Items /\ c.stale = {} /\ c.items = content[s].items
    BY <1>4, <2>2, <2>3, <2>5, <2>7 DEF Content
  <2>8. 1 .. content[s].items \subseteq Items
    BY <2>6, ItemCountAssumption DEF Items
  <2> HIDE DEF c
  <2>9. harm.source = 0 => Recent(c) /\ Observing("item", job.resume, c)
    BY <2>7, <2>8 DEF Recent, Observing, ObservedPhases
  <2> QED
    BY <1>1, <1>2, <1>3, <2>1, <2>2, <2>9, SourcesWrite
<1>7. CASE StageItem
  <2> DEFINE c == [Mine EXCEPT !.seen = @ \cup {Item}, !.stale = @ \ {Item}]
  <2>1. job.phase = "item" /\ Write(c) /\ Goto("stage") /\ Mine.items < ItemCount
    BY <1>7 DEF StageItem, At
  <2>2. job.phase \in WritePhases
    BY <2>1 DEF WritePhases
  <2>3. Item \in Items
    BY <1>1, <2>1, <2>2, ItemType
  <2>4. ASSUME harm.source = 0
        PROVE  /\ c.seen = Mine.seen \cup {Item} /\ c.stale = {} /\ c.items = Mine.items
               /\ c.note = Mine.note
    BY <1>4, <2>2, <2>4 DEF Content, Recent
  <2> HIDE DEF c
  <2>5. harm.source = 0 => Recent(c)
    BY <1>4, <2>2, <2>3, <2>4 DEF Recent
  <2>6. harm.source = 0 => Observing("stage", job.resume, c)
    BY <1>4, <2>1, <2>2, <2>3, <2>4 DEF Observing, ObservedPhases, Item
  <2> QED
    BY <1>1, <1>2, <1>3, <2>1, <2>2, <2>5, <2>6, SourcesWrite
<1>8. CASE FillStage
  <2>1. job.phase = "stage" /\ content' = content /\ Goto("append")
    BY <1>8 DEF FillStage, At
  <2>2. job.phase \in WritePhases
    BY <2>1 DEF WritePhases
  <2>3. harm.source = 0 => Observing("append", job.resume, Mine)
    BY <1>4, <2>1, <2>2 DEF Observing, ObservedPhases
  <2> QED
    BY <1>1, <1>2, <1>3, <1>4, <2>1, <2>2, <2>3, SourcesWrite
<1>9. CASE DropStage
  <2>1. job.phase = "stage" /\ Item \in Mine.stale /\ NextTry
    BY <1>9 DEF DropStage, At
  <2>2. job.phase \in WritePhases
    BY <2>1 DEF WritePhases
  <2>3. harm.source # 0
    BY <1>4, <2>1, <2>2 DEF Recent
  <2> QED
    BY <1>2, <2>3 DEF SourcesOK
<1>10. CASE AppendItem
  <2> DEFINE c == [Mine EXCEPT !.items = @ + 1]
  <2>1. job.phase = "append" /\ Write(c) /\ Recorded
    BY <1>10 DEF AppendItem, At
  <2>2. job.phase \in WritePhases
    BY <2>1 DEF WritePhases
  <2>3. job'.phase \in {"sync partial", "item"} /\ job'.att = job.att /\ job'.resume = job.resume
    BY <1>1, <2>1, <2>2, RecordedType DEF TypeInv, TypeOK
  <2>4. ASSUME harm.source = 0
        PROVE  /\ c.seen = Mine.seen /\ c.stale = {} /\ c.items = Mine.items + 1
               /\ c.note = Mine.note
    BY <1>4, <2>2, <2>4 DEF Content, Recent
  <2> HIDE DEF c
  <2>5. ASSUME harm.source = 0 PROVE 1 .. c.items \subseteq c.seen
    <3>1. 1 .. Mine.items \subseteq Mine.seen /\ (Mine.items + 1) \in Mine.seen
      BY <1>4, <2>1, <2>2, <2>5 DEF Observing
    <3>2. 1 .. (Mine.items + 1) \subseteq Mine.seen
      BY <1>4, <2>2, <2>5, <3>1, UpTo
    <3> QED
      BY <2>4, <2>5, <3>2
  <2>6. harm.source = 0 => Recent(c)
    BY <1>4, <2>2, <2>4 DEF Recent
  <2>7. ASSUME harm.source = 0 PROVE Observing(job'.phase, job.resume, c)
    <3>1. job.resume => c.seen = Items
      BY <1>4, <2>1, <2>2, <2>4, <2>7 DEF Observing
    <3> QED
      BY <2>3, <2>5, <2>7, <3>1 DEF Observing, ObservedPhases
  <2> QED
    BY <1>1, <1>2, <2>1, <2>2, <2>3, <2>6, <2>7, SourcesWrite
<1>11. CASE FinishItems
  <2>1. job.phase = "item" /\ content' = content /\ Goto("seal")
    BY <1>11 DEF FinishItems, At
  <2>2. job.phase \in WritePhases
    BY <2>1 DEF WritePhases
  <2>3. harm.source = 0 => Observing("seal", job.resume, Mine)
    BY <1>4, <2>1, <2>2 DEF Observing, ObservedPhases
  <2> QED
    BY <1>1, <1>2, <1>3, <1>4, <2>1, <2>2, <2>3, SourcesWrite
<1>12. CASE SyncPartial
  <2> DEFINE c == [Mine EXCEPT !.body = "durable", !.seen = Observed]
  <2>1. job.phase = "sync partial" /\ Write(c) /\ Goto("create checkpoint")
    BY <1>12 DEF SyncPartial, At
  <2>2. job.phase \in WritePhases
    BY <2>1 DEF WritePhases
  <2>3. ASSUME harm.source = 0 PROVE Observed = Items
    <3>1. 1 .. Mine.items \subseteq Mine.seen /\ (job.resume => Mine.seen = Items)
      BY <1>4, <2>1, <2>2, <2>3 DEF Observing
    <3>2. Mine.items \in 0 .. ItemCount /\ Mine.seen \in SUBSET Items
      BY <1>4, <2>2, <2>3 DEF Content
    <3>3. Mine.seen \cup ((Mine.items + 1) .. ItemCount) = Items
      BY <3>1, <3>2, TheRest
    <3> QED
      BY <3>1, <3>3 DEF Observed, Item
  <2>4. ASSUME harm.source = 0
        PROVE  c.seen = Items /\ c.stale = {}
    BY <1>4, <2>2, <2>3, <2>4 DEF Content, Recent
  <2> HIDE DEF c
  <2>5. harm.source = 0 => Recent(c) /\ Observing("create checkpoint", job.resume, c)
    BY <2>4 DEF Recent, Observing
  <2> QED
    BY <1>1, <1>2, <1>3, <2>1, <2>2, <2>5, SourcesWrite
<1>13. CASE CreateCheckpoint
  <2>1. job.phase = "create checkpoint" /\ content' = content /\ Goto("write checkpoint")
    BY <1>13 DEF CreateCheckpoint, At
  <2>2. job.phase \in WritePhases
    BY <2>1 DEF WritePhases
  <2>3. harm.source = 0 => Observing("write checkpoint", job.resume, Mine)
    BY <1>4, <2>1, <2>2 DEF Observing, ObservedPhases
  <2> QED
    BY <1>1, <1>2, <1>3, <1>4, <2>1, <2>2, <2>3, SourcesWrite
<1>14. CASE WriteCheckpoint
  <2> DEFINE c == [Mine EXCEPT !.noted = Mine.items, !.note = "volatile"]
  <2>1. job.phase = "write checkpoint" /\ Write(c) /\ Goto("sync checkpoint")
    BY <1>14 DEF WriteCheckpoint, At
  <2>2. job.phase \in WritePhases
    BY <2>1 DEF WritePhases
  <2>3. ASSUME harm.source = 0 PROVE Mine.seen = Items /\ Mine \in Content /\ Mine.stale = {}
    BY <1>4, <2>1, <2>2, <2>3 DEF Observing, ObservedPhases, Recent
  <2>4. ASSUME harm.source = 0 PROVE c.seen = Items /\ c.stale = {}
    BY <2>3, <2>4 DEF Content
  <2> HIDE DEF c
  <2>5. harm.source = 0 => Recent(c) /\ Observing("sync checkpoint", job.resume, c)
    BY <2>4 DEF Recent, Observing
  <2> QED
    BY <1>1, <1>2, <1>3, <2>1, <2>2, <2>5, SourcesWrite
<1>15. CASE SyncCheckpoint
  <2> DEFINE c == [Mine EXCEPT !.note = "durable"]
  <2>1. job.phase = "sync checkpoint" /\ Write(c) /\ Goto("sync checkpoint directory")
    BY <1>15 DEF SyncCheckpoint, At
  <2>2. job.phase \in WritePhases
    BY <2>1 DEF WritePhases
  <2>3. ASSUME harm.source = 0 PROVE Mine.seen = Items /\ Mine \in Content /\ Mine.stale = {}
    BY <1>4, <2>1, <2>2, <2>3 DEF Observing, ObservedPhases, Recent
  <2>4. ASSUME harm.source = 0 PROVE c.seen = Items /\ c.stale = {}
    BY <2>3, <2>4 DEF Content
  <2> HIDE DEF c
  <2>5. harm.source = 0 => Recent(c) /\ Observing("sync checkpoint directory", job.resume, c)
    BY <2>4 DEF Recent, Observing
  <2> QED
    BY <1>1, <1>2, <1>3, <2>1, <2>2, <2>5, SourcesWrite
<1>16. CASE SealBundle
  <2> DEFINE c == [Mine EXCEPT !.sealed = TRUE, !.body = "durable"]
  <2>1. job.phase = "seal" /\ Write(c) /\ Goto("publish")
    BY <1>16 DEF SealBundle, At
  <2>2. job.phase \in WritePhases
    BY <2>1 DEF WritePhases
  <2>3. ASSUME harm.source = 0
        PROVE  c.seen = Mine.seen /\ c.stale = Mine.stale /\ c.note = Mine.note
    BY <1>4, <2>2, <2>3 DEF Content
  <2> HIDE DEF c
  <2>4. harm.source = 0 => Recent(c)
    BY <1>4, <2>2, <2>3 DEF Recent
  <2>5. harm.source = 0 => Observing("publish", job.resume, c)
    BY <1>4, <2>1, <2>2, <2>3 DEF Observing, ObservedPhases
  <2> QED
    BY <1>1, <1>2, <1>3, <2>1, <2>2, <2>4, <2>5, SourcesWrite
<1>17. CASE Publish
  <2>1. job.phase = "publish" /\ content' = content /\ Goto("sync final")
    BY <1>17 DEF Publish, At
  <2>2. job.phase \in WritePhases
    BY <2>1 DEF WritePhases
  <2>3. harm.source = 0 => Observing("sync final", job.resume, Mine)
    BY <1>4, <2>1, <2>2 DEF Observing, ObservedPhases
  <2> QED
    BY <1>1, <1>2, <1>3, <1>4, <2>1, <2>2, <2>3, SourcesWrite
<1>18. CASE SyncCheckpointDirectory \/ SyncFinal \/ CleanPartial \/ CleanCheckpoint
  <2>1. content' = content
    BY <1>18 DEF SyncCheckpointDirectory, SyncFinal, CleanPartial, CleanCheckpoint
  <2>2. job' = Idle \/ Goto("journal") \/ Goto("clean partial") \/ Goto("clean checkpoint")
    BY <1>18 DEF SyncCheckpointDirectory, SyncFinal, CleanPartial, CleanCheckpoint
  <2>3. job'.phase \in {"idle", "journal", "clean partial", "clean checkpoint"}
    <3>1. job' = Idle => job'.phase = "idle"
      BY DEF Idle, Resting
    <3> QED
      BY <1>3, <2>2, <3>1
  <2> QED
    BY <1>2, <2>1, <2>3, SourcesRest DEF WritePhases
<1> QED
  BY <1>5, <1>6, <1>7, <1>8, <1>9, <1>10, <1>11, <1>12, <1>13, <1>14, <1>15, <1>16, <1>17,
     <1>18 DEF WriteBundle

LEMMA SourcesStep ==
  ASSUME ProgressInv, TypeInv', SourcesOK, Next
  PROVE  SourcesOK'
<1>1. TypeInv /\ ContentOK /\ HarmOK
  BY DEF ProgressInv, TypeInv, TypeOK
<1>2. CASE StartFresh \/ StartResume
  <2>1. PICK a \in FreeAttempts :
          /\ content' = [content EXCEPT ![a] = Blank]
          /\ \E r, s : job' = Writing(r, a, s)
    BY <1>2, NewAreFree DEF StartFresh, StartResume
  <2>2. job'.phase = "create" /\ job'.att = a /\ a \in Attempts
    BY <2>1, FreeFacts DEF Writing
  <2> QED
    BY <1>1, <1>2, <2>1, <2>2, SourcesStart DEF StartFresh, StartResume
<1>3. CASE ReconcilePromotion \/ PromoteResumed
  <2>1. content' = content /\ harm' = harm
    BY <1>3 DEF ReconcilePromotion, PromoteResumed
  <2>2. PICK p, a, s, k : job' = Promoting(p, a, s, k) /\ p \in {"journal", PromotionPhase(k)}
    BY <1>3 DEF ReconcilePromotion, PromoteResumed
  <2>3. job'.phase \in {"journal", "move", "remove", "drop journal"}
    <3>1. job'.phase = p
      BY <2>2 DEF Promoting
    <3>2. PromotionPhase(k) \in {"move", "remove", "drop journal"}
      BY DEF PromotionPhase
    <3> QED
      BY <2>2, <3>1, <3>2
  <2> QED
    BY <2>1, <2>3, SourcesRest DEF WritePhases
<1>4. CASE Promote
  <2>1. content' = content /\ harm' = harm
    BY <1>4 DEF Promote, StageJournal, PublishJournal, SyncJournal, Move, Remove,
                SyncTransition, DropJournal, SyncDrop
  <2>2. job'.phase \in {"idle", "begin"} \cup PromotionPhases
    BY <1>1, <1>4, PromotePhases
  <2> QED
    BY <2>1, <2>2, SourcesRest, PhasesApart
<1>5. CASE Refuse \/ Fault \/ Kill
  <2>1. content' = content /\ job' = Idle
    BY <1>5 DEF Refuse, Fault, Kill, Unwind
  <2>2. harm'.source = harm.source
    BY <1>1, <1>5 DEF Refuse, Fault, Kill, HarmOK
  <2> QED
    BY <2>1, <2>2, SourcesRest, PhasesApart DEF Idle, Resting
<1>6. CASE PowerLoss
  <2>1. PICK bodies, notes : content' = Survivors(bodies, notes)
    BY <1>6, Zenon DEF PowerLoss
  <2>2. harm'.source = harm.source /\ job'.phase \notin WritePhases
    BY <1>1, <1>6, PhasesApart DEF PowerLoss, HarmOK, Idle, Resting
  <2>3. ASSUME NEW a \in Attempts, Recent(content[a]) PROVE Recent(content'[a])
    <3> DEFINE b == Settled(content[a].body, a, bodies)
    <3> DEFINE n == Settled(content[a].note, a, notes)
    <3>1. content'[a] = [content[a] EXCEPT !.body = Settled(@, a, bodies),
                                           !.note = Settled(@, a, notes)]
      BY <2>1 DEF Survivors
    <3>2. content'[a] = [content[a] EXCEPT !.body = b, !.note = n]
      BY <3>1, Zenon
    <3>3. content[a].note = "none" => n = "none"
      BY DEF Settled
    <3> HIDE DEF b, n
    <3>4. content[a] \in Content
      BY <1>1 DEF ContentOK
    <3>5. /\ content'[a].seen = content[a].seen /\ content'[a].stale = content[a].stale
          /\ content'[a].note = n
      BY <3>2, <3>4 DEF Content
    <3> QED
      BY <2>3, <3>3, <3>5 DEF Recent
  <2>4. harm.source = 0 => \A a \in Attempts : Recent(content'[a])
    BY <2>3 DEF SourcesOK
  <2> QED
    BY <2>2, <2>4 DEF SourcesOK, Recent
<1>7. CASE PutForeign
  <2>1. content' = content /\ job' = job /\ harm'.source = harm.source
    BY <1>1, <1>7 DEF PutForeign, HarmOK
  <2> QED
    BY <2>1 DEF SourcesOK, Recent, Observing, Mine
<1>8. CASE MissItem \/ MissObservation \/ EditSource
  <2>1. harm'.source > 0
    BY <1>1, <1>8, SourceHarm DEF MissItem, MissObservation, EditSource
  <2> QED
    BY <2>1 DEF SourcesOK
<1> QED
  BY <1>2, <1>3, <1>4, <1>5, <1>6, <1>7, <1>8, SourcesWritten DEF Next, Resume, Environment

LEMMA SourcesInit == Init => SourcesOK
  BY DEF Init, SourcesOK, Recent, Blank, Idle, Resting, WritePhases

(***************************************************************************)
(* The next Resume is accepted                                             *)
(***************************************************************************)
\* A readable pair that is not stale authenticates.
LEMMA FreshUnlessStale ==
  ASSUME TypeInv, SourcesOK, ~ Stale, NEW pair, pair[1] \in {"partial", "resume", "previous"},
         Intact(dir, pair)
  PROVE  Authentic(dir, pair)
<1>1. pair[1] \in Names /\ dir \in Directory /\ harm.source \in Nat
  BY BoundsAssumption DEF TypeInv, TypeOK, StorageOK, HarmOK, Names, ProgressNames
<1>2. PICK a : a = dir[pair[1]].att
  OBVIOUS
<1>3. dir[pair[1]].kind = "bundle" /\ content[a].note \in {"volatile", "durable"}
  BY <1>2 DEF Intact
<1>4. a \in Attempts
  BY <1>1, <1>2, <1>3, FilesOfAttempts
<1>5. CASE harm.source = 0
  BY <1>2, <1>3, <1>4, <1>5 DEF SourcesOK, Recent, Authentic, Fresh
<1>6. CASE harm.source > 0
  BY <1>2, <1>3, <1>6 DEF Stale, Authentic
<1> QED
  BY <1>1, <1>5, <1>6

LEMMA PairNames ==
  ASSUME NEW k \in PromotionSteps
  PROVE  /\ AdvancedPair(k)[1] \in {"partial", "resume", "previous"}
         /\ SavedPair(k)[1] \in {"partial", "resume", "previous"}
  BY DEF AdvancedPair, SavedPair

\* No finished ".resume" pair waits where no Resume takes it over.
Clear == \/ Interrupted(dir)
         \/ dir["resume"] = Absent
         \/ job.phase \in BeforeJournal
         \/ dir["final"] # Absent

\* Progress that is saved there is accepted.
LEMMA AtRest ==
  ProgressInv /\ SourcesOK /\ ~ Stale /\ Worth(dir) # 0 /\ Clear => Ready
<1> SUFFICES ASSUME ProgressInv, SourcesOK, ~ Stale, Worth(dir) # 0, Clear, dir["final"] = Absent
             PROVE  Accepted(dir)
  BY DEF Ready
<1>1. TypeInv /\ dir \in views
  BY DEF ProgressInv, TypeInv, TypeOK, StorageOK
<1>2. CASE Interrupted(dir)
  <2>1. PICK s, a : \E k \in PromotionSteps : InPromotion(dir, s, a, k)
    BY <1>1, <1>2 DEF ProgressInv, ProgressParts, PromotionsOK, PromotionOK
  <2>2. PICK k \in PromotionSteps : Continues(dir, k)
    BY <2>1, PromotionStarts
  <2>3. Intact(dir, AdvancedPair(k)) /\ (SavedPairRemains(k) => Intact(dir, SavedPair(k)))
    BY <2>2 DEF Continues
  <2>4. Authentic(dir, AdvancedPair(k)) /\ (SavedPairRemains(k) => Authentic(dir, SavedPair(k)))
    BY <1>1, <2>3, PairNames, FreshUnlessStale
  <2> QED
    BY <1>2, <2>2, <2>4 DEF Accepted, Reconcilable
<1>3. CASE ~ Interrupted(dir) /\ dir["resume"] = Absent
  <2>1. Intact(dir, Current)
    BY <1>3 DEF Worth, Endures
  <2>2. Authentic(dir, Current)
    BY <1>1, <2>1, FreshUnlessStale DEF Current
  <2> QED
    BY <1>3, <2>2 DEF Accepted, Resumable
<1>4. CASE ~ Interrupted(dir) /\ job.phase \in BeforeJournal
  <2>1. /\ Reached = 0 /\ job.phase \in PromotionPhases
        /\ Sits(dir, job.saved, job.att, Reached) /\ Worthy(job.saved, job.att, Reached)
    <3>1. job.phase \in PromotionPhases /\ job.phase \notin {"sync move", "sync remove"}
      BY <1>4 DEF BeforeJournal, PromotionPhases
    <3> QED
      BY <1>4, <3>1 DEF ProgressInv, ProgressParts, PromotingOK, Reached
  <2>2. /\ dir["partial"] = Bundle(job.saved) /\ dir["partial.checkpoint"] = Checkpoint(job.saved)
        /\ dir["resume"] = Bundle(job.att) /\ dir["resume.checkpoint"] = Checkpoint(job.att)
    BY <2>1 DEF Sits
  <2>3. /\ Good(job.saved) /\ Good(job.att)
        /\ content[job.att].items >= content[job.saved].items
    BY <2>1 DEF Worthy
  <2>4. /\ Intact(dir, Current) /\ ItemsOf(dir, Current) = content[job.saved].items
        /\ Intact(dir, Resumed) /\ ItemsOf(dir, Resumed) = content[job.att].items
    BY <2>2, <2>3, IntactPair DEF Current, Resumed
  <2>5. Authentic(dir, Current) /\ Authentic(dir, Resumed)
    BY <1>1, <2>4, FreshUnlessStale DEF Current, Resumed
  <2>6. dir["resume"] # Absent /\ NoOlder(dir, Resumed, Current)
    BY <2>2, <2>3, <2>4, FileFacts DEF NoOlder
  <2> QED
    BY <1>4, <2>5, <2>6 DEF Accepted, Promotable
<1> QED
  BY <1>2, <1>3, <1>4 DEF Clear

LEMMA AtRestNext ==
  (ProgressInv /\ SourcesOK /\ ~ Stale /\ Worth(dir) # 0 /\ Clear)' => Ready'
  BY AtRest, PTL

\* A running call is either writing the ".resume" pair or has nothing there.
LEMMA BusyIsClear ==
  ProgressInv /\ job.phase # "idle" => Clear \/ Capturing
<1> SUFFICES ASSUME ProgressInv, job.phase # "idle" PROVE Clear \/ Capturing
  OBVIOUS
<1>1. dir \in views /\ job.phase \in Phases
  BY DEF ProgressInv, TypeInv, TypeOK, StorageOK, JobOK, Job
<1>2. CASE job.phase = "begin"
  BY <1>2 DEF ProgressInv, ProgressParts, BeginOK, Clear
<1>3. CASE job.phase \in {"clean partial", "clean checkpoint"}
  <2>1. dir["final"].kind = "bundle"
    BY <1>1, <1>3 DEF ProgressInv, ProgressParts, DestinationOK
  <2> QED
    BY <2>1, FileFacts DEF Clear
<1>4. CASE job.phase \in WritePhases
  BY <1>4 DEF ProgressInv, ProgressParts, WritingOK, Clear, Capturing
<1>5. CASE job.phase \in PromotionPhases
  <2>1. CASE job.phase \in BeforeJournal
    BY <2>1 DEF Clear
  <2>2. CASE job.phase = "sync drop"
    <3>1. Reached = 6 /\ Sits(dir, job.saved, job.att, Reached)
      BY <1>5, <2>2 DEF ProgressInv, ProgressParts, PromotingOK, Reached
    <3> QED
      BY <3>1 DEF Sits, Clear
  <2>3. CASE job.phase \notin BeforeJournal \cup {"sync drop"}
    <3>1. dir["promotion"] = Journal(job.saved, job.att)
      BY <1>5, <2>3 DEF ProgressInv, ProgressParts, PromotingOK
    <3> QED
      BY <3>1, FileFacts DEF Interrupted, Clear
  <2> QED
    BY <2>1, <2>2, <2>3
<1> QED
  BY <1>1, <1>2, <1>3, <1>4, <1>5 DEF Phases

LEMMA BusyIsClearNext ==
  (ProgressInv /\ job.phase # "idle")' => Clear' \/ Capturing'
  BY BusyIsClear, PTL

\* The steps by which a call ends with a report.
Ends == \/ SyncCheckpointDirectory /\ ~ job.resume
        \/ SyncDrop /\ ~ job.reenter
        \/ SyncFinal /\ ~ job.resume
        \/ CleanCheckpoint

LEMMA EndsClear ==
  ASSUME ProgressInv, Ends
  PROVE  Clear'
<1>1. dir \in views /\ dir \in Directory
  BY DEF ProgressInv, TypeInv, TypeOK, StorageOK
<1>2. CASE SyncCheckpointDirectory /\ ~ job.resume
  <2>1. job.phase \in WritePhases /\ dir' = dir
    BY <1>2 DEF SyncCheckpointDirectory, SyncDirectory, At, WritePhases
  <2>2. dir["resume"] = Absent
    BY <1>2, <2>1 DEF ProgressInv, ProgressParts, WritingOK
  <2> QED
    BY <2>1, <2>2 DEF Clear
<1>3. CASE SyncDrop /\ ~ job.reenter
  <2>1. job.phase = "sync drop" /\ job.phase \in PromotionPhases /\ dir' = dir
    BY <1>3 DEF SyncDrop, SyncDirectory, At, PromotionPhases
  <2>2. Reached = 6 /\ Sits(dir, job.saved, job.att, Reached)
    BY <2>1 DEF ProgressInv, ProgressParts, PromotingOK, Reached
  <2>3. dir["resume"] = Absent
    BY <2>2 DEF Sits
  <2> QED
    BY <2>1, <2>3 DEF Clear
<1>4. CASE SyncFinal /\ ~ job.resume
  <2>1. job.phase = "sync final" /\ job.phase \in WritePhases /\ dir' = dir
    BY <1>4 DEF SyncFinal, SyncDirectory, At, WritePhases
  <2>2. dir["final"] = Bundle(job.att)
    BY <2>1 DEF ProgressInv, ProgressParts, WritingOK
  <2> QED
    BY <2>1, <2>2, FileFacts DEF Clear
<1>5. CASE CleanCheckpoint
  <2>1. dir["final"].kind = "bundle"
    BY <1>1, <1>5 DEF CleanCheckpoint, At, ProgressInv, ProgressParts, DestinationOK
  <2>2. dir' = dir \/ dir' = Place("partial.checkpoint", Absent)
    BY <1>5 DEF CleanCheckpoint, Clean, Relink, storage
  <2>3. dir'["final"] = dir["final"]
    BY <1>1, <2>2 DEF Place, Directory, Names, ProgressNames
  <2> QED
    BY <2>1, <2>3, FileFacts DEF Clear
<1> QED
  BY <1>2, <1>3, <1>4, <1>5 DEF Ends

LEMMA ToldEnds ==
  ASSUME Next, told' # told
  PROVE  Ends
<1>1. ~ (StartFresh \/ Resume \/ Refuse \/ Environment)
  BY DEF StartFresh, Resume, ReconcilePromotion, PromoteResumed, StartResume, Refuse, Unwind,
         Environment, Fault, Kill, PowerLoss, PutForeign, MissItem, MissObservation, EditSource
<1>2. ~ \/ CreatePartial \/ RekeyPrefix \/ StageItem \/ FillStage \/ DropStage \/ AppendItem
        \/ FinishItems \/ SyncPartial \/ CreateCheckpoint \/ WriteCheckpoint \/ SyncCheckpoint
        \/ SealBundle \/ Publish \/ CleanPartial
  BY DEF CreatePartial, RekeyPrefix, StageItem, FillStage, DropStage, AppendItem, FinishItems,
         SyncPartial, CreateCheckpoint, WriteCheckpoint, SyncCheckpoint, SealBundle, Publish,
         CleanPartial
<1>3. ~ \/ StageJournal \/ PublishJournal \/ SyncJournal \/ Move \/ Remove \/ SyncTransition
        \/ DropJournal
  BY DEF StageJournal, PublishJournal, SyncJournal, Move, Remove, SyncTransition, DropJournal
<1>4. CASE SyncCheckpointDirectory
  BY <1>4 DEF SyncCheckpointDirectory, Ends
<1>5. CASE SyncFinal
  BY <1>5 DEF SyncFinal, Ends
<1>6. CASE SyncDrop
  BY <1>6 DEF SyncDrop, Ends
<1>7. CASE CleanCheckpoint
  BY <1>7 DEF Ends
<1> QED
  BY <1>1, <1>2, <1>3, <1>4, <1>5, <1>6, <1>7 DEF Next, WriteBundle, Promote

\* A step that leaves the directory and what was written as they are.
Idles == UNCHANGED <<dir, content>> /\ ~ Capturing

LEMMA UnwindEnds ==
  ASSUME ProgressInv, Unwind
  PROVE  Clear' \/ Idles
<1>1. dir \in Directory /\ content' = content
  BY DEF Unwind, ProgressInv, TypeInv, TypeOK, StorageOK
<1>2. CASE job.phase \notin WritePhases
  BY <1>1, <1>2 DEF Unwind, Idles, Capturing
<1>3. CASE job.phase \in WritePhases
  <2>1. CASE OwnsOutput
    <3>1. dir' = Place(Out, Absent)
      BY <1>3, <2>1 DEF Unwind
    <3>2. dir'["resume"] = IF Out = "resume" THEN Absent ELSE dir["resume"]
      BY <1>1, <3>1 DEF Place, Directory, Names, ProgressNames
    <3>3. Out = "resume" \/ dir["resume"] = Absent
      BY <1>3 DEF Out, ProgressInv, ProgressParts, WritingOK
    <3> QED
      BY <3>2, <3>3 DEF Clear
  <2>2. CASE ~ OwnsOutput
    <3>1. dir' = dir
      BY <2>2 DEF Unwind
    <3>2. job.phase \in {"create", "sync final"}
      BY <1>3, <2>2 DEF OwnsOutput, ProgressInv, ProgressParts, WritingOK
    <3>3. dir["resume"] = Absent
      BY <1>3, <3>2 DEF Out, ProgressInv, ProgressParts, WritingOK
    <3> QED
      BY <3>1, <3>3 DEF Clear
  <2> QED
    BY <2>1, <2>2
<1> QED
  BY <1>2, <1>3

LEMMA KillEnds ==
  ASSUME ProgressInv, Kill
  PROVE  Promise!Stranded \/ Idles
<1>1. harm.kill \in Nat /\ harm'.kill = harm.kill + 1
  BY BoundsAssumption DEF Kill, ProgressInv, TypeInv, TypeOK, HarmOK
<1>2. harm'.kill > harm.kill
  BY <1>1
<1> QED
  BY <1>2 DEF Kill, storage, Idles, Promise!Stranded

LEMMA PowerLossEnds ==
  ASSUME ProgressInv, PowerLoss
  PROVE  Promise!Stranded
<1>1. harm.power \in Nat /\ harm'.power = harm.power + 1
  BY BoundsAssumption DEF PowerLoss, ProgressInv, TypeInv, TypeOK, HarmOK
<1>2. harm'.power > harm.power
  BY <1>1
<1> QED
  BY <1>2 DEF Promise!Stranded

\* How a call ends, or what happens when none runs.
LEMMA IdleStep ==
  ASSUME ProgressInv, Next, job'.phase = "idle", ~ Disturbed'
  PROVE  Clear' \/ Promise!Stranded \/ Idles \/ (EditSource /\ ~ Capturing)
<1>1. job \in Job /\ TypeInv
  BY DEF ProgressInv, TypeInv, TypeOK, JobOK
<1>2. ASSUME NEW p, Goto(p) PROVE p = "idle"
  BY <1>1, <1>2 DEF Goto, Job
<1>3. CASE StartFresh \/ Resume
  <2>1. CASE StartFresh \/ StartResume
    BY <2>1 DEF StartFresh, StartResume, Writing
  <2>2. CASE ReconcilePromotion \/ PromoteResumed
    <3>1. PICK p, a, s, k : job' = Promoting(p, a, s, k) /\ p \in {"journal", PromotionPhase(k)}
      BY <2>2 DEF ReconcilePromotion, PromoteResumed
    <3>2. job'.phase = p /\ PromotionPhase(k) # "idle"
      BY <3>1 DEF Promoting, PromotionPhase
    <3> QED
      BY <3>1, <3>2
  <2> QED
    BY <1>3, <2>1, <2>2 DEF Resume
<1>4. CASE Refuse \/ Fault
  BY <1>4, UnwindEnds DEF Refuse, Fault
<1>5. CASE Kill
  BY <1>5, KillEnds
<1>6. CASE PowerLoss
  BY <1>6, PowerLossEnds
<1>7. CASE PutForeign
  <2>1. harm.foreign \in Nat /\ harm'.foreign = harm.foreign + 1
    BY <1>1, <1>7, BoundsAssumption DEF PutForeign, TypeInv, TypeOK, HarmOK
  <2>2. harm'.foreign > 0
    BY <2>1
  <2> QED
    BY <2>2 DEF Disturbed
<1>8. CASE EditSource
  BY <1>8, PhasesApart DEF EditSource, Capturing
<1>9. ASSUME Recorded \/ NextTry PROVE FALSE
  <2>1. CASE Recorded
    <3>1. PICK stop \in BOOLEAN :
            job' = [job EXCEPT !.phase = IF stop THEN "sync partial" ELSE "item", !.try = 0]
      BY <2>1 DEF Recorded
    <3>2. job'.phase = IF stop THEN "sync partial" ELSE "item"
      BY <1>1, <3>1 DEF Job
    <3> QED
      BY <3>2
  <2>2. CASE ~ Recorded
    <3>1. job' = [job EXCEPT !.phase = "item", !.try = @ + 1]
      BY <1>9, <2>2 DEF NextTry
    <3> QED
      BY <1>1, <3>1 DEF Job
  <2> QED
    BY <2>1, <2>2
<1>10. CASE MissItem \/ MissObservation \/ DropStage \/ AppendItem
  BY <1>9, <1>10 DEF MissItem, MissObservation, DropStage, AppendItem, At
<1>11. CASE WriteBundle /\ ~ DropStage /\ ~ AppendItem
  <2>1. CASE SyncCheckpointDirectory \/ SyncFinal \/ CleanCheckpoint
    <3>1. Ends
      BY <1>2, <2>1 DEF SyncCheckpointDirectory, SyncFinal, Ends
    <3> QED
      BY <3>1, EndsClear
  <2>2. CASE ~ (SyncCheckpointDirectory \/ SyncFinal \/ CleanCheckpoint)
    <3>1. \E p \in WritePhases \cup {"clean checkpoint"} : Goto(p)
      BY <1>11, <2>2 DEF WriteBundle, CreatePartial, RekeyPrefix, StageItem, FillStage,
           FinishItems, SyncPartial, CreateCheckpoint, WriteCheckpoint, SyncCheckpoint,
           SealBundle, Publish, CleanPartial, WritePhases
    <3> QED
      BY <1>2, <3>1, PhasesApart
  <2> QED
    BY <2>1, <2>2
<1>12. CASE Promote
  <2>1. CASE SyncDrop
    <3>1. job' = Resting("begin") => job'.phase = "begin"
      BY DEF Resting
    <3>2. ~ job.reenter
      BY <2>1, <3>1 DEF SyncDrop
    <3>3. Ends
      BY <2>1, <3>2 DEF Ends
    <3> QED
      BY <3>3, EndsClear
  <2>2. CASE SyncTransition
    <3>1. job'.phase = PromotionPhase(NextStep)
      BY <1>1, <2>2 DEF SyncTransition, Job
    <3> QED
      BY <3>1 DEF PromotionPhase
  <2>3. CASE ~ SyncDrop /\ ~ SyncTransition
    <3>1. \E p \in PromotionPhases : Goto(p)
      <4>1. PromotionPhase(job.step) \in PromotionPhases
        BY DEF PromotionPhase, PromotionPhases
      <4>2. {"publish journal", "sync journal", "sync move", "sync remove", "sync drop"}
              \subseteq PromotionPhases
        BY DEF PromotionPhases
      <4> QED
        BY <1>12, <2>3, <4>1, <4>2 DEF Promote, StageJournal, PublishJournal, SyncJournal, Move,
             Remove, DropJournal
    <3> QED
      BY <1>2, <3>1, PhasesApart
  <2> QED
    BY <2>1, <2>2, <2>3
<1> QED
  BY <1>3, <1>4, <1>5, <1>6, <1>7, <1>8, <1>10, <1>11, <1>12 DEF Next, WriteBundle, Environment

\* What is accepted stays so while nothing changes, and an edit of the source
\* makes it stale at most.
LEMMA IntactSame ==
  ASSUME TypeInv, dir' = dir, \A a \in Attempts : Alike(content'[a], content[a]),
         NEW pair, pair[1] \in Names
  PROVE  /\ Intact(dir, pair)' <=> Intact(dir, pair)
         /\ Intact(dir, pair) => ItemsOf(dir, pair)' = ItemsOf(dir, pair)
<1>1. dir \in Directory
  BY DEF TypeInv, TypeOK, StorageOK
<1>2. PICK a : a = dir[pair[1]].att
  OBVIOUS
<1>3. CASE dir[pair[1]].kind = "bundle"
  <2>1. Alike(content'[a], content[a])
    BY <1>1, <1>2, <1>3, FilesOfAttempts
  <2> QED
    BY <1>2, <2>1 DEF Intact, ItemsOf, Alike
<1>4. CASE dir[pair[1]].kind # "bundle"
  BY <1>4 DEF Intact
<1> QED
  BY <1>3, <1>4

LEMMA FreshUnlessStaleNext ==
  ASSUME TypeInv', SourcesOK', ~ Stale', NEW pair, pair[1] \in {"partial", "resume", "previous"},
         Intact(dir, pair)'
  PROVE  Authentic(dir, pair)'
<1>1. pair[1] \in Names /\ dir' \in Directory /\ harm'.source \in Nat
  BY BoundsAssumption DEF TypeInv, TypeOK, StorageOK, HarmOK, Names, ProgressNames
<1>2. PICK a : a = dir'[pair[1]].att
  OBVIOUS
<1>3. dir'[pair[1]].kind = "bundle" /\ content'[a].note \in {"volatile", "durable"}
  BY <1>2 DEF Intact
<1>4. a \in Attempts
  BY <1>1, <1>2, <1>3, FilesOfAttempts
<1>5. CASE harm'.source = 0
  BY <1>2, <1>3, <1>4, <1>5 DEF SourcesOK, Recent, Authentic, Fresh
<1>6. CASE harm'.source > 0
  BY <1>2, <1>3, <1>6 DEF Stale, Authentic
<1> QED
  BY <1>1, <1>5, <1>6

LEMMA ReadyStays ==
  ASSUME TypeInv, TypeInv', SourcesOK', ~ Stale', Ready, dir' = dir,
         \A a \in Attempts : Alike(content'[a], content[a])
  PROVE  Ready'
<1> SUFFICES ASSUME dir["final"] = Absent, Accepted(dir) PROVE Accepted(dir)'
  BY DEF Ready
<1>1. ASSUME NEW pair, pair[1] \in {"partial", "resume", "previous"}, Intact(dir, pair)
      PROVE  Authentic(dir, pair)' /\ ItemsOf(dir, pair)' = ItemsOf(dir, pair)
  <2>1. pair[1] \in Names
    BY <1>1 DEF Names, ProgressNames
  <2> QED
    BY <1>1, <2>1, IntactSame, FreshUnlessStaleNext
<1>2. CASE Interrupted(dir)
  <2>1. PICK k \in PromotionSteps : Reconcilable(dir, k)
    BY <1>2 DEF Accepted
  <2>2. /\ IsLayout(k, dir) /\ Intact(dir, AdvancedPair(k))
        /\ SavedPairRemains(k) => /\ Intact(dir, SavedPair(k))
                                  /\ NoOlder(dir, AdvancedPair(k), SavedPair(k))
        /\ dir["promotion"] # Absent => JournalMatches(dir, k)
    BY <2>1 DEF Reconcilable, Continues
  <2>3. Authentic(dir, AdvancedPair(k))'
        /\ ItemsOf(dir, AdvancedPair(k))' = ItemsOf(dir, AdvancedPair(k))
    BY <1>1, <2>2, PairNames
  <2>4. SavedPairRemains(k) => /\ Authentic(dir, SavedPair(k))'
                               /\ ItemsOf(dir, SavedPair(k))' = ItemsOf(dir, SavedPair(k))
    BY <1>1, <2>2, PairNames
  <2>5. SavedPairRemains(k) => NoOlder(dir, AdvancedPair(k), SavedPair(k))'
    BY <2>2, <2>3, <2>4 DEF NoOlder
  <2>6. IsLayout(k, dir') /\ (dir'["promotion"] # Absent => JournalMatches(dir', k))
    BY <2>2
  <2>7. Reconcilable(dir, k)'
    BY <2>3, <2>4, <2>5, <2>6 DEF Reconcilable, Continues, Authentic
  <2> QED
    BY <1>2, <2>7 DEF Accepted
<1>3. CASE ~ Interrupted(dir) /\ Promotable(dir)
  <2>1. Intact(dir, Current) /\ Intact(dir, Resumed) /\ NoOlder(dir, Resumed, Current)
        /\ dir["resume"] # Absent
    BY <1>3 DEF Promotable, Authentic
  <2>2. /\ Authentic(dir, Current)' /\ Authentic(dir, Resumed)'
        /\ ItemsOf(dir, Current)' = ItemsOf(dir, Current)
        /\ ItemsOf(dir, Resumed)' = ItemsOf(dir, Resumed)
    BY <1>1, <2>1 DEF Current, Resumed
  <2>3. NoOlder(dir, Resumed, Current)'
    BY <2>1, <2>2 DEF NoOlder
  <2>4. Promotable(dir)'
    BY <2>1, <2>2, <2>3 DEF Promotable
  <2> QED
    BY <1>3, <2>4 DEF Accepted
<1>4. CASE ~ Interrupted(dir) /\ Resumable(dir)
  <2>1. Intact(dir, Current) /\ dir["resume"] = Absent
    BY <1>4 DEF Resumable, Authentic
  <2>2. Authentic(dir, Current)'
    BY <1>1, <2>1 DEF Current
  <2> QED
    BY <1>4, <2>1, <2>2 DEF Accepted, Resumable
<1> QED
  BY <1>2, <1>3, <1>4 DEF Accepted

\* The next Resume is taken away by a loss that strands the owner, if at all.
LEMMA StepReady ==
  ASSUME ProgressInv, ProgressInv', SourcesOK', ~ Disturbed', Next
  PROVE  Promise!Ready
<1> SUFFICES ASSUME Kept' # 0, ~ Capturing', ~ Stale', ~ Promise!Stranded, Capturing \/ Ready
             PROVE  Ready'
  BY DEF Promise!Ready
<1>1. Worth(dir)' # 0
  <2>1. Kept' \in Nat /\ dir' \in Outcomes' /\ \A d \in Outcomes' : Kept' <= Worth(d)'
    BY KeptFactsNext DEF ProgressInv, ProgressParts
  <2>2. Kept' <= Worth(dir)'
    BY <2>1
  <2> QED
    BY <2>1, <2>2
<1>2. CASE Clear'
  BY <1>1, <1>2, AtRestNext
<1>3. CASE ~ Clear'
  <2>1. job'.phase = "idle"
    BY <1>3, BusyIsClearNext
  <2>2. Idles \/ (EditSource /\ ~ Capturing)
    BY <1>3, <2>1, IdleStep
  <2>3. Ready /\ TypeInv /\ TypeInv' /\ ContentOK
    BY <2>2 DEF Idles, ProgressInv, TypeInv, TypeOK
  <2>4. dir' = dir
    BY <2>2 DEF Idles, EditSource, storage
  <2>5. \A a \in Attempts : Alike(content'[a], content[a])
    <3>1. CASE Idles
      BY <3>1 DEF Idles, Alike
    <3>2. CASE EditSource
      BY <2>3, <3>2, EditFacts
    <3> QED
      BY <2>2, <3>1, <3>2
  <2> QED
    BY <2>3, <2>4, <2>5, ReadyStays
<1> QED
  BY <1>2, <1>3

\* Whoever is told of saved progress can resume it.
LEMMA ToldReady ==
  ASSUME ProgressInv, ProgressInv', SourcesOK', ~ Disturbed', Next,
         told' # told, Kept' # 0
  PROVE  Ready' \/ Stale'
<1>1. Clear'
  BY ToldEnds, EndsClear
<1>2. Worth(dir)' # 0
  <2>1. Kept' \in Nat /\ dir' \in Outcomes' /\ \A d \in Outcomes' : Kept' <= Worth(d)'
    BY KeptFactsNext DEF ProgressInv, ProgressParts
  <2>2. Kept' <= Worth(dir)'
    BY <2>1
  <2> QED
    BY <2>1, <2>2
<1> QED
  BY <1>1, <1>2, AtRestNext

(***************************************************************************)
(* The refinement                                                          *)
(***************************************************************************)
\* What a report says is so, of the promise.
LEMMA ReportHolds ==
  ASSUME ProgressInv, CompletionInv', TypeInv', ProgressParts', ~ Disturbed', TellsTruth
  PROVE  \/ told' = told
         \/ told' = Promise!Complete /\ Published'
         \/ /\ \E n \in 1 .. Kept' : told' = [state |-> "paused", items |-> n]
            /\ ~ Published'
<1>1. /\ Kept' \in Nat /\ \E d \in Outcomes' : Kept' = Worth(d)'
      /\ Outcomes' \subseteq views' /\ dir' \in Outcomes'
  BY KeptFactsNext DEF ProgressParts
<1>2. CASE /\ told' = [state |-> "complete", items |-> ItemCount]
           /\ \A d \in views' : d["final"].kind = "bundle"
  <2>1. \A d \in views' : FinalOK(d)'
    BY DEF CompletionInv, NoFalseCompletion
  <2>2. Published'
    BY <1>1, <1>2, <2>1, PublishedOfNext
  <2> QED
    BY <1>2, <2>2 DEF Promise!Complete
<1>3. CASE /\ \E n \in 1 .. ItemCount : /\ told' = [state |-> "paused", items |-> n]
                                        /\ n <= Worth(dir)'
           /\ views' = {dir'} /\ dir'["final"] = Absent
  <2>1. Kept' = Worth(dir)'
    BY <1>1, <1>3
  <2>2. PICK n \in 1 .. ItemCount : told' = [state |-> "paused", items |-> n] /\ n <= Worth(dir)'
    BY <1>3
  <2>3. n \in 1 .. Kept'
    BY <1>1, <2>1, <2>2, ItemCountAssumption
  <2>4. dir'["final"].kind # "bundle"
    BY <1>3, FileFacts
  <2>5. ~ Published'
    BY <1>1, <2>4 DEF Published, Verifies
  <2> QED
    BY <2>2, <2>3, <2>5
<1> QED
  BY <1>2, <1>3 DEF TellsTruth

\* A step between two states that nobody has disturbed is one of the promise.
LEMMA UndisturbedKeepsPromise ==
  ASSUME ProgressInv, CompletionInv', TypeInv', ProgressParts', SourcesOK', Next,
         ~ Disturbed, ~ Disturbed', TellsTruth, Advances \/ Recovers
  PROVE  Promise!Next
<1>0. ProgressInv' /\ Promise!Ready
  <2>1. ProgressInv'
    BY DEF ProgressInv
  <2> QED
    BY <2>1, StepReady
<1>1. Kept \in Nat /\ Kept' \in Nat /\ Kept' \in 0 .. ItemCount
  BY KeptFacts, KeptFactsNext DEF ProgressInv, ProgressParts
<1>2. \/ told' = told
      \/ told' = Promise!Complete /\ Published'
      \/ /\ \E n \in 1 .. Kept' : told' = [state |-> "paused", items |-> n]
         /\ ~ Published'
  BY ReportHolds
<1>3. Published \in BOOLEAN /\ Published' \in BOOLEAN
  BY DEF Published
<1>4. CASE Published
  <2>1. Published'
    BY <1>4, PublishedStays
  <2>2. Published' <=> Published
    BY <1>4, <2>1
  <2>3. Promise!Supersede
    BY <1>1, <1>2, <1>3, <1>4, <2>1, <2>2 DEF Promise!Supersede
  <2> QED
    BY <1>0, <2>3 DEF Promise!Next
<1>5. CASE ~ Published
  <2>1. Kept <= Kept'
    BY <1>5, KeptGrows
  <2>2. Kept' \in Kept .. ItemCount
    BY <1>1, <2>1, ItemCountAssumption
  <2>3. CASE Published'
    <3>1. Promise!Publish
      BY <1>2, <1>5, <2>2, <2>3 DEF Promise!Publish
    <3> QED
      BY <1>0, <3>1 DEF Promise!Next
  <2>4. CASE ~ Published' /\ told' = told
    <3>1. Promise!Save
      BY <1>3, <1>5, <2>2, <2>4 DEF Promise!Save
    <3> QED
      BY <1>0, <3>1 DEF Promise!Next
  <2>5. CASE /\ ~ Published' /\ told' # told
             /\ \E n \in 1 .. Kept' : told' = [state |-> "paused", items |-> n]
    <3>1. Kept' # 0
      BY <1>1, <2>5
    <3>2. Ready' \/ Stale'
      BY <1>0, <2>5, <3>1, ToldReady
    <3>3. Promise!ReportPaused
      BY <1>3, <1>5, <2>2, <2>5, <3>2 DEF Promise!ReportPaused
    <3> QED
      BY <1>0, <3>3 DEF Promise!Next
  <2> QED
    BY <1>2, <2>3, <2>4, <2>5
<1> QED
  BY <1>4, <1>5

LEMMA PromiseStays ==
  ASSUME UNCHANGED vars
  PROVE  UNCHANGED Promise!vars
<1>1. dir' = dir /\ views' = views /\ content' = content /\ job' = job /\ harm' = harm
      /\ told' = told
  BY DEF vars, storage
<1>2. Outcomes' = Outcomes
  BY <1>1 DEF Outcomes, PowerMayFail
<1>3. ASSUME NEW d PROVE KeptIn(d)' = KeptIn(d)
  <2>1. \A pair : /\ Intact(d, pair)' <=> Intact(d, pair)
                  /\ ItemsOf(d, pair)' = ItemsOf(d, pair)
                  /\ Unreported(d, pair)' <=> Unreported(d, pair)
    BY <1>1 DEF Intact, ItemsOf, Unreported
  <2>2. \A pair : Endures(d, pair)' <=> Endures(d, pair)
    BY <1>1, <2>1 DEF Endures, PowerMayFail
  <2>3. Newest(d)' = Newest(d)
    <3>1. \A k : Continues(d, k)' <=> Continues(d, k)
      BY <1>1, <2>1 DEF Continues, IsLayout, NoOlder, ItemsOf, JournalMatches, AdvancedPair,
                        SavedPair, SavedPairRemains
    <3> QED
      BY <3>1 DEF Newest, Interrupted
  <2> QED
    BY <2>1, <2>2, <2>3 DEF KeptIn
<1>4. Kept' = Kept
  BY <1>2, <1>3 DEF Kept
<1>5. Published' = Published
  BY <1>1, <1>2 DEF Published, Verifies, Complete
<1>6. Disturbed' = Disturbed
  BY <1>1 DEF Disturbed
<1>7. Ready' = Ready
  <2>1. \A pair : /\ Intact(dir, pair)' <=> Intact(dir, pair)
                  /\ Authentic(dir, pair)' <=> Authentic(dir, pair)
                  /\ ItemsOf(dir, pair)' = ItemsOf(dir, pair)
    BY <1>1 DEF Authentic, Intact, Fresh, ItemsOf
  <2>2. \A k : Reconcilable(dir, k)' <=> Reconcilable(dir, k)
    BY <1>1, <2>1 DEF Reconcilable, Continues, IsLayout, NoOlder, JournalMatches
  <2>3. Promotable(dir)' = Promotable(dir) /\ Resumable(dir)' = Resumable(dir)
    BY <1>1, <2>1 DEF Promotable, Resumable, NoOlder
  <2> QED
    BY <1>1, <2>2, <2>3 DEF Ready, Accepted
<1>8. Stale' = Stale /\ Capturing' = Capturing
  BY <1>1 DEF Stale, Fresh, Capturing
<1> QED
  BY <1>1, <1>4, <1>5, <1>6, <1>7, <1>8 DEF Promise!vars

\* What holds of a Pack that nothing has disturbed, the source included.
SavedInv == ProgressParts /\ SourcesOK

LEMMA SavedStep ==
  FollowsAdvice /\ TypeInv /\ CompletionInv /\ (Disturbed \/ SavedInv) /\ [Next]_vars
    => (Disturbed \/ SavedInv)'
<1> SUFFICES ASSUME FollowsAdvice, TypeInv, CompletionInv, Disturbed \/ SavedInv,
                    [Next]_vars, ~ Disturbed'
             PROVE  SavedInv'
  OBVIOUS
<1>1. ~ Disturbed /\ ProgressParts /\ SourcesOK /\ TypeInv'
  BY StaysDisturbed, TypeStep DEF SavedInv
<1>2. ProgressParts'
  BY <1>1, ProgressStep
<1>3. CASE UNCHANGED vars
  <2>1. content' = content /\ job' = job /\ harm' = harm
    BY <1>3 DEF vars
  <2> QED
    BY <1>1, <1>2, <2>1 DEF SavedInv, SourcesOK, Recent, Observing, Mine
<1>4. CASE Next
  <2>1. SourcesOK'
    BY <1>1, <1>4, SourcesStep DEF ProgressInv
  <2> QED
    BY <1>2, <2>1 DEF SavedInv
<1> QED
  BY <1>3, <1>4

LEMMA StepKeepsPromise ==
  FollowsAdvice /\ TypeInv /\ CompletionInv /\ (Disturbed \/ SavedInv) /\ [Next]_vars
    => [Promise!Next]_(Promise!vars)
<1> SUFFICES ASSUME FollowsAdvice, TypeInv, CompletionInv, Disturbed \/ SavedInv,
                    [Next]_vars
             PROVE  [Promise!Next]_(Promise!vars)
  OBVIOUS
<1>1. CASE UNCHANGED vars
  BY <1>1, PromiseStays
<1>2. CASE Disturbed'
  BY <1>2 DEF Promise!Next
<1>3. CASE Next /\ ~ Disturbed'
  <2>1. ~ Disturbed /\ ProgressParts /\ SourcesOK /\ TypeInv' /\ CompletionInv'
    BY <1>3, StaysDisturbed, TypeStep, CompletionStep DEF SavedInv
  <2>2. ProgressInv
    BY <2>1 DEF ProgressInv
  <2>3. ProgressParts' /\ TellsTruth /\ (Advances \/ Recovers)
    BY <1>3, <2>1, <2>2, UndisturbedStep
  <2>4. SourcesOK'
    BY <1>3, <2>1, <2>2, SourcesStep
  <2>5. Promise!Next
    BY <1>3, <2>1, <2>2, <2>3, <2>4, UndisturbedKeepsPromise
  <2> QED
    BY <2>5
<1> QED
  BY <1>1, <1>2, <1>3

LEMMA PromiseInitially == Init => Promise!Init
<1> SUFFICES ASSUME Init PROVE Promise!Init
  OBVIOUS
<1>1. TypeInv /\ ProgressParts
  BY TypeInit, ProgressInit
<1>2. views = {dir} /\ dir["partial"] = Absent /\ dir["final"] = Absent /\ ~ Interrupted(dir)
      /\ told = Promise!None
  BY TheNames DEF Init, Interrupted, Promise!None
<1>3. ~ Disturbed
  BY DEF Init, Disturbed
<1>4. Worth(dir) = 0
  BY <1>2, FileFacts, NothingWorth
<1>5. Kept = 0 /\ dir \in Outcomes
  BY <1>1, <1>2, <1>3, <1>4, KeptFacts DEF ProgressParts
<1>6. ~ Published
  BY <1>2, <1>5, FileFacts DEF Published, Verifies
<1>7. ~ Ready
  <2>1. dir["final"] = Absent /\ dir["partial"].kind # "bundle"
    BY <1>2, FileFacts
  <2>2. ~ Intact(dir, Current)
    BY <2>1 DEF Intact, Current
  <2> QED
    BY <1>2, <2>1, <2>2 DEF Ready, Accepted, Promotable, Resumable, Authentic
<1> QED
  BY <1>2, <1>3, <1>5, <1>6, <1>7 DEF Promise!Init

\* For an owner who packs afresh only when told to: the progress saved never
\* shrinks before a complete Bundle is published to stay; the next Resume is
\* accepted, once no Resume is capturing, unless an observation of the source is
\* missing or outdated, or a power loss or a termination of a capturing Resume
\* has stranded the progress; a Paused report has saved what it reports, in a
\* state that is accepted or stale; and a Complete report has published
\* (BundleEngine::pack, write_bundle, promote_resume, reconcile_promotion).
THEOREM PackKeepsItsPromise ==
  ASSUME FollowsAdvice
  PROVE  Spec => KeepsPromise
<1>1. Init => Promise!Init
  BY PromiseInitially
<1>2. TypeInv /\ CompletionInv /\ (Disturbed \/ SavedInv) /\ [Next]_vars
        => [Promise!Next]_(Promise!vars)
  BY StepKeepsPromise
<1>3. TypeInv /\ CompletionInv /\ (Disturbed \/ SavedInv) /\ [Next]_vars
        => (Disturbed \/ SavedInv)'
  BY SavedStep
<1>4. Init => SavedInv
  BY ProgressInit, SourcesInit DEF SavedInv
<1> QED
  BY <1>1, <1>2, <1>3, <1>4, TypeInit, TypeStep, CompletionInit, CompletionStep, PTL
     DEF Spec, KeepsPromise, Promise!Spec
==============================================================================
