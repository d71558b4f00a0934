----------------------------- MODULE PackResume ------------------------------
(***************************************************************************)
(* Pack, pause, Resume and checkpoint promotion of BundleEngine::pack, over *)
(* a directory that can lose what was never synchronized.                  *)
(*                                                                         *)
(* One Pack runs at a time, as one call of the library.  Between any two   *)
(* storage transitions of that call the storage may refuse, the process    *)
(* may be killed, the machine may lose power, or a source file may be      *)
(* edited; afterwards the owner may call Pack again, fresh or as a Resume. *)
(***************************************************************************)
EXTENDS PackDirectory

CONSTANTS
  MaxFaults,        \* storage refusals in a behaviour
  MaxKills,         \* process terminations in a behaviour
  MaxPowerLosses,   \* power losses in a behaviour
  MaxForeign,       \* files that some other program puts under our names
  MaxChanges,       \* edits of the source and observations of it that fail
  MaxHarms,         \* all of these together
  CaptureAttempts,  \* times that an unstable item is read (3 in the code)
  FollowsAdvice     \* the owner packs afresh only when told to retry

ASSUME FollowsAdviceAssumption == FollowsAdvice \in BOOLEAN
ASSUME BoundsAssumption ==
  /\ MaxFaults \in Nat
  /\ MaxKills \in Nat
  /\ MaxPowerLosses \in Nat
  /\ MaxForeign \in Nat
  /\ MaxChanges \in Nat
  /\ MaxHarms \in Nat
  /\ CaptureAttempts \in Nat \ {0}

VARIABLES
  dir,      \* the directory as the running system sees it
  views,    \* the directories a power loss may leave, dir among them
  stages,   \* <<output name, item, try>>: encrypted staging files that exist
  unsynced, \* staging files made or removed since the directory was synchronized
  content,  \* what the Bundle and checkpoint file of each attempt hold
  job,      \* the local state of the running call
  told,     \* the last PackReport that a call returned
  harm      \* how many faults, kills, power losses, foreign files and changes
            \* of the source occurred

storage == <<dir, views, stages, unsynced>>
vars == <<storage, content, job, told, harm>>

(***************************************************************************)
(* Types                                                                   *)
(***************************************************************************)
Items == 1 .. ItemCount

Tries == 0 .. CaptureAttempts - 1

\* "volatile" bytes are written and not synchronized: readable until a power
\* loss, which may leave them "torn".
Content == [items  : 0 .. ItemCount,   \* items captured in the Bundle file
            sealed : BOOLEAN,          \* Manifest, Index and Completion written
            body   : {"volatile", "durable", "torn"},
            seen   : SUBSET Items,     \* items with a recorded observation
            stale  : SUBSET Items,     \* those edited since they were observed
            noted  : 0 .. ItemCount,   \* items the checkpoint counts
            note   : {"none", "volatile", "durable", "torn"}]

Blank == [items |-> 0, sealed |-> FALSE, body |-> "volatile", seen |-> {},
          stale |-> {}, noted |-> 0, note |-> "none"]

WritePhases == {"create", "rekey", "item", "stage", "append", "sync partial",
                "create checkpoint", "write checkpoint", "sync checkpoint",
                "sync checkpoint directory", "seal", "publish", "sync final"}

PromotionPhases == {"journal", "publish journal", "sync journal",
                    "move", "sync move", "remove", "sync remove",
                    "drop journal", "sync drop"}

Phases == {"idle", "begin", "clean partial", "clean checkpoint"}
            \cup WritePhases \cup PromotionPhases

Job == [phase   : Phases,
        resume  : BOOLEAN,        \* writes the ".resume" pair
        att     : MaybeAttempt,   \* this attempt; the advanced one in a promotion
        saved   : MaybeAttempt,   \* the pair this Resume started from
        step    : PromotionSteps, \* promotion transitions done
        try     : Tries,          \* readings of this item that came to nothing
        reenter : BOOLEAN]        \* a promotion that precedes the Resume proper

\* No call, or one that has just finished an older promotion.
Resting(p) ==
  [phase |-> p, resume |-> FALSE, att |-> NoAttempt, saved |-> NoAttempt,
   step |-> 0, try |-> 0, reenter |-> FALSE]

Idle == Resting("idle")

\* A call that writes a pair, and one that first continues a promotion.
Writing(resume, a, s) ==
  [phase |-> "create", resume |-> resume, att |-> a, saved |-> s, step |-> 0,
   try |-> 0, reenter |-> FALSE]

Promoting(p, a, s, k) ==
  [phase |-> p, resume |-> TRUE, att |-> a, saved |-> s, step |-> k,
   try |-> 0, reenter |-> TRUE]

Report == [state : {"none", "paused", "complete"}, items : 0 .. ItemCount]

StorageOK ==
  /\ dir \in Directory
  /\ views \in SUBSET Directory
  /\ dir \in views
  /\ stages \in SUBSET (OutputNames \X Items \X Tries)
  /\ unsynced \in SUBSET (OutputNames \X Items \X Tries)

ContentOK == content \in [Attempts -> Content]

JobOK ==
  /\ job \in Job
  /\ job.phase \in WritePhases \cup PromotionPhases => job.att \in Attempts
  /\ job.phase \in PromotionPhases => job.saved \in Attempts
  /\ job.resume /\ job.phase # "idle" => job.saved \in Attempts

HarmOK == harm \in [fault : 0 .. MaxFaults, kill : 0 .. MaxKills,
                    power : 0 .. MaxPowerLosses, foreign : 0 .. MaxForeign,
                    source : 0 .. MaxChanges]

\* Every variable has its type, and a running call knows its attempt and the
\* pair that it started from.
TypeOK == StorageOK /\ ContentOK /\ JobOK /\ told \in Report /\ HarmOK

(***************************************************************************)
(* Storage                                                                 *)
(***************************************************************************)
Place(n, f) == [dir EXCEPT ![n] = f]

Rename(from, to) == [dir EXCEPT ![to] = dir[from], ![from] = Absent]

\* A change of the directory that no power loss is sure to keep.
Relink(d) == /\ dir' = d
             /\ views' = views \cup {d}
             /\ UNCHANGED <<stages, unsynced>>

SyncDirectory == /\ views' = {dir}
                 /\ unsynced' = {}
                 /\ UNCHANGED <<dir, stages>>

Mentions(d, a) == \E n \in Names : a \in {d[n].att, d[n].saved}

FreeAttempts == {a \in Attempts : /\ a \notin {job.att, job.saved}
                                  /\ \A d \in views : ~ Mentions(d, a)}

\* Which of the free identifiers an attempt takes makes no difference.
NewAttempts == IF FreeAttempts = {} THEN {} ELSE {CHOOSE a \in FreeAttempts : TRUE}

(***************************************************************************)
(* Authentication of a saved pair                                          *)
(***************************************************************************)
\* The Bundle file and the checkpoint decrypt under the same key, and the
\* checkpoint records the length and hash of what the file holds.
Intact(d, pair) ==
  LET a == d[pair[1]].att IN
  /\ d[pair[1]].kind = "bundle"
  /\ d[pair[2]] = Checkpoint(a)
  /\ content[a].body # "torn"
  /\ content[a].note \in {"volatile", "durable"}
  /\ content[a].noted = content[a].items
  /\ ~ content[a].sealed

\* An observation was recorded of every item, and every source file still
\* shows it.
Fresh(a) == content[a].seen = Items /\ content[a].stale = {}

Authentic(d, pair) == Intact(d, pair) /\ Fresh(d[pair[1]].att)

ItemsOf(d, pair) == content[d[pair[1]].att].items

NoOlder(d, advanced, saved) == ItemsOf(d, advanced) >= ItemsOf(d, saved)

Current == <<"partial", "partial.checkpoint">>
Resumed == <<"resume", "resume.checkpoint">>

Interrupted(d) ==
  \E n \in {"previous", "previous.checkpoint", "promotion"} : d[n] # Absent

\* The journal of layout k authenticates under the advanced pair and names the
\* artifacts found.
JournalMatches(d, k) ==
  /\ d["promotion"].kind = "journal"
  /\ d["promotion"].att = d[AdvancedPair(k)[1]].att
  /\ SavedPairRemains(k) => d["promotion"].saved = d[SavedPair(k)[1]].att

\* Layout k is one that a promotion of readable pairs leaves.
Continues(d, k) ==
  /\ IsLayout(k, d)
  /\ Intact(d, AdvancedPair(k))
  /\ SavedPairRemains(k) => /\ Intact(d, SavedPair(k))
                            /\ NoOlder(d, AdvancedPair(k), SavedPair(k))
  /\ d["promotion"] # Absent => JournalMatches(d, k)

\* reconcile_interrupted_pack_promotion accepts layout k.
Reconcilable(d, k) ==
  /\ Continues(d, k)
  /\ Authentic(d, AdvancedPair(k))
  /\ SavedPairRemains(k) => Authentic(d, SavedPair(k))

\* A finished ".resume" pair that no promotion has touched yet.
Promotable(d) ==
  /\ d["resume"] # Absent
  /\ Authentic(d, Current)
  /\ Authentic(d, Resumed)
  /\ NoOlder(d, Resumed, Current)

Resumable(d) == d["resume"] = Absent /\ Authentic(d, Current)

(***************************************************************************)
(* The advice after a failed call                                          *)
(***************************************************************************)
Complete(a) == /\ content[a].sealed
               /\ content[a].body # "torn"
               /\ content[a].items = ItemCount

Verifies(d) == d["final"].kind = "bundle" /\ Complete(d["final"].att)

Advice ==
  CASE Verifies(dir) -> "verify-published-bundle"
    [] ~ Verifies(dir) /\ (Authentic(dir, Current) \/ Interrupted(dir))
         -> "resume-after-revalidation"
    [] ~ Verifies(dir) /\ ~ Authentic(dir, Current) /\ ~ Interrupted(dir)
         /\ \E n \in {"partial", "partial.checkpoint", "resume",
                      "resume.checkpoint", "final"} : dir[n] # Absent
         -> "restart-at-new-destination"
    [] OTHER -> "retry"

(***************************************************************************)
(* The calls                                                               *)
(***************************************************************************)
Out == IF job.resume THEN "resume" ELSE "partial"

\* There is room for another of the harms.
MoreHarms == harm.fault + harm.kill + harm.power + harm.foreign + harm.source < MaxHarms

Goto(p) == job' = [job EXCEPT !.phase = p]

At(p) == job.phase = p

Write(change) == content' = [content EXCEPT ![job.att] = change]

Mine == content[job.att]

\* Which step of the promotion follows when k transitions are done.
PromotionPhase(k) == IF k < 4 THEN "move" ELSE IF k < 6 THEN "remove" ELSE "drop journal"

\* A call of Pack, past validation: the destination name is free.
MayCall == At("idle") /\ dir["final"] = Absent

StartFresh ==
  /\ MayCall
  /\ FollowsAdvice => Advice = "retry"
  /\ dir["partial"] = Absent
  /\ \E a \in NewAttempts :
       /\ job' = Writing(FALSE, a, NoAttempt)
       /\ content' = [content EXCEPT ![a] = Blank]
  /\ UNCHANGED <<storage, told, harm>>

\* Resume finds an interrupted promotion and continues it.
ReconcilePromotion ==
  /\ MayCall
  /\ Interrupted(dir)
  /\ \E k \in PromotionSteps :
       /\ Reconcilable(dir, k)
       /\ job' = Promoting(
                   IF dir["promotion"] = Absent THEN "journal" ELSE PromotionPhase(k),
                   dir[AdvancedPair(k)[1]].att,
                   IF SavedPairRemains(k) THEN dir[SavedPair(k)[1]].att
                                          ELSE dir["promotion"].saved,
                   k)
  /\ UNCHANGED <<storage, content, told, harm>>

\* The rest of a Resume runs after the reconciliation, or at once.
Entering == At("begin") \/ (MayCall /\ ~ Interrupted(dir))

PromoteResumed ==
  /\ Entering
  /\ Promotable(dir)
  /\ job' = Promoting("journal", dir["resume"].att, dir["partial"].att, 0)
  /\ UNCHANGED <<storage, content, told, harm>>

\* Mutant: the pair that the Resume started from is not remembered.
StartResumeUnsaved ==
  /\ Entering
  /\ Resumable(dir)
  /\ \E a \in NewAttempts :
       /\ job' = Writing(TRUE, a, NoAttempt)
       /\ content' = [content EXCEPT ![a] = Blank]
  /\ UNCHANGED <<storage, told, harm>>

StartResume ==
  /\ Entering
  /\ Resumable(dir)
  /\ \E a \in NewAttempts :
       /\ job' = Writing(TRUE, a, dir["partial"].att)
       /\ content' = [content EXCEPT ![a] = Blank]
  /\ UNCHANGED <<storage, told, harm>>

(***************************************************************************)
(* write_bundle                                                            *)
(***************************************************************************)
CreatePartial ==
  /\ At("create")
  /\ dir[Out] = Absent
  /\ Relink(Place(Out, Bundle(job.att)))
  /\ Goto(IF job.resume THEN "rekey" ELSE "item")
  /\ UNCHANGED <<content, told, harm>>

\* Mutant: the saved observations are not taken over.
RekeyPrefixUnobserved ==
  /\ At("rekey")
  /\ Write([Mine EXCEPT !.items = content[job.saved].items])
  /\ Goto("item")
  /\ UNCHANGED <<storage, told, harm>>

\* The saved prefix is re-encrypted under the key of this attempt, and the
\* saved observations are taken over.
RekeyPrefix ==
  /\ At("rekey")
  /\ Write([Mine EXCEPT !.items = content[job.saved].items,
                        !.seen = content[job.saved].seen,
                        !.stale = content[job.saved].stale])
  /\ Goto("item")
  /\ UNCHANGED <<storage, told, harm>>

Item == Mine.items + 1

NextItem == <<Out, Item, job.try>>

\* The source is observed and the stage of this try created.
StageItem ==
  /\ At("item")
  /\ Mine.items < ItemCount
  /\ NextItem \notin stages
  /\ stages' = stages \cup {NextItem}
  /\ unsynced' = unsynced \cup {NextItem}
  /\ Write([Mine EXCEPT !.seen = @ \cup {Item}, !.stale = @ \ {Item}])
  /\ Goto("stage")
  /\ UNCHANGED <<dir, views, told, harm>>

\* An item is recorded.  A requested stop is honoured here, after a complete
\* Migration Item.
Recorded == \E stop \in BOOLEAN :
  job' = [job EXCEPT !.phase = IF stop THEN "sync partial" ELSE "item", !.try = 0]

\* The try came to nothing.  After the last one the item is recorded as
\* Unverified, with no observation, and the capture goes on.
NextTry ==
  IF job.try + 1 < CaptureAttempts
    THEN /\ job' = [job EXCEPT !.phase = "item", !.try = @ + 1]
         /\ UNCHANGED content
    ELSE /\ Recorded
         /\ Write([Mine EXCEPT !.items = @ + 1, !.seen = @ \ {Item},
                               !.stale = @ \ {Item}])

\* The source cannot be observed or opened.
MissItem ==
  /\ At("item")
  /\ Mine.items < ItemCount
  /\ harm.source < MaxChanges
  /\ MoreHarms
  /\ harm' = [harm EXCEPT !.source = @ + 1]
  /\ NextTry
  /\ UNCHANGED <<storage, told>>

\* The item is encrypted into its stage, and the source observed again is what
\* it was before.
FillStage ==
  /\ At("stage")
  /\ Item \notin Mine.stale
  /\ Goto("append")
  /\ UNCHANGED <<storage, content, told, harm>>

\* The item changed while it was read, or cannot be observed again.  The stage is
\* removed if the storage lets it go.
DropStage ==
  /\ At("stage")
  /\ Item \in Mine.stale
  /\ stages' \in {stages, stages \ {NextItem}}
  /\ unsynced' = unsynced \cup {NextItem}
  /\ NextTry
  /\ UNCHANGED <<dir, views, told, harm>>

\* The stage is copied to the Bundle and removed.
AppendItem ==
  /\ At("append")
  /\ stages' = stages \ {NextItem}
  /\ unsynced' = unsynced \cup {NextItem}
  /\ Write([Mine EXCEPT !.items = @ + 1])
  /\ Recorded
  /\ UNCHANGED <<dir, views, told, harm>>

FinishItems ==
  /\ At("item")
  /\ Mine.items = ItemCount
  /\ Goto("seal")
  /\ UNCHANGED <<storage, content, told, harm>>

(***************************************************************************)
(* write_pack_checkpoint                                                   *)
(***************************************************************************)
OwnsOutput == dir[Out] = Bundle(job.att)

\* A fresh Pack observes the items that it has not captured, for the checkpoint;
\* a Resume has taken over an observation of each.
Observed == IF job.resume THEN Mine.seen ELSE Mine.seen \cup (Item .. ItemCount)

SyncPartial ==
  /\ At("sync partial")
  /\ OwnsOutput
  /\ Write([Mine EXCEPT !.body = "durable", !.seen = Observed])
  /\ Goto("create checkpoint")
  /\ UNCHANGED <<storage, told, harm>>

\* An observation fails: of the item that was read, which then counts as changed,
\* or one of those for the checkpoint, and none is recorded.
MissObservation ==
  /\ harm.source < MaxChanges
  /\ MoreHarms
  /\ harm' = [harm EXCEPT !.source = @ + 1]
  /\ \/ At("stage") /\ Write([Mine EXCEPT !.stale = @ \cup {Item}])
     \/ /\ At("create checkpoint") /\ ~ job.resume
        /\ \E i \in (Item .. ItemCount) \cap Mine.seen :
             Write([Mine EXCEPT !.seen = @ \ {i}, !.stale = @ \ {i}])
  /\ UNCHANGED <<storage, job, told>>

CreateCheckpoint ==
  /\ At("create checkpoint")
  /\ dir[CheckpointOf(Out)] = Absent
  /\ Relink(Place(CheckpointOf(Out), Checkpoint(job.att)))
  /\ Goto("write checkpoint")
  /\ UNCHANGED <<content, told, harm>>

WriteCheckpoint ==
  /\ At("write checkpoint")
  /\ Write([Mine EXCEPT !.noted = Mine.items, !.note = "volatile"])
  /\ Goto("sync checkpoint")
  /\ UNCHANGED <<storage, told, harm>>

\* Mutant: the checkpoint is not synchronized.
SyncCheckpointForgotten ==
  /\ At("sync checkpoint")
  /\ Goto("sync checkpoint directory")
  /\ UNCHANGED <<storage, content, told, harm>>

SyncCheckpoint ==
  /\ At("sync checkpoint")
  /\ Write([Mine EXCEPT !.note = "durable"])
  /\ Goto("sync checkpoint directory")
  /\ UNCHANGED <<storage, told, harm>>

Paused == told' = [state |-> "paused", items |-> Mine.items]

\* A fresh Pack now reports Paused; a Resume promotes its pair first.
SyncCheckpointDirectory ==
  /\ At("sync checkpoint directory")
  /\ SyncDirectory
  /\ IF job.resume THEN Goto("journal") /\ UNCHANGED told
                   ELSE job' = Idle /\ Paused
  /\ UNCHANGED <<content, harm>>

(***************************************************************************)
(* Promotion of the ".resume" pair                                         *)
(***************************************************************************)
\* The journal is written under a unique staging name that no one reads; the
\* file and the directory are synchronized before it is linked here, so its
\* bytes are never seen torn.
MayStageJournal == ~ job.reenter => Authentic(dir, Resumed)

StageJournal ==
  /\ At("journal")
  /\ MayStageJournal
  /\ SyncDirectory
  /\ Goto("publish journal")
  /\ UNCHANGED <<content, told, harm>>

PublishJournal ==
  /\ At("publish journal")
  /\ dir["promotion"] = Absent
  /\ Relink(Place("promotion", Journal(job.saved, job.att)))
  /\ Goto("sync journal")
  /\ UNCHANGED <<content, told, harm>>

SyncJournal ==
  /\ At("sync journal")
  /\ SyncDirectory
  /\ Goto(PromotionPhase(job.step))
  /\ UNCHANGED <<content, told, harm>>

NextStep == job.step + 1

MayMove ==
  /\ dir[MoveFrom[NextStep]] = Expected(NextStep, job.saved, job.att)
  /\ dir[MoveTo[NextStep]] = Absent
  /\ job.step = 0 => /\ dir["previous"] = Absent
                     /\ dir["previous.checkpoint"] = Absent

Move ==
  /\ At("move")
  /\ MayMove
  /\ Relink(Rename(MoveFrom[NextStep], MoveTo[NextStep]))
  /\ Goto("sync move")
  /\ UNCHANGED <<content, told, harm>>

MayRemove ==
  dir[Removed[job.step - 3]] = Expected(NextStep, job.saved, job.att)

Remove ==
  /\ At("remove")
  /\ MayRemove
  /\ Relink(Place(Removed[job.step - 3], Absent))
  /\ Goto("sync remove")
  /\ UNCHANGED <<content, told, harm>>

SyncTransition ==
  /\ At("sync move") \/ At("sync remove")
  /\ SyncDirectory
  /\ job' = [job EXCEPT !.phase = PromotionPhase(NextStep), !.step = NextStep]
  /\ UNCHANGED <<content, told, harm>>

MayDropJournal == dir["promotion"] = Journal(job.saved, job.att)

\* Mutant: the journal of a finished promotion stays.
DropJournalForgotten ==
  /\ At("drop journal")
  /\ MayDropJournal
  /\ Goto("sync drop")
  /\ UNCHANGED <<storage, content, told, harm>>

DropJournal ==
  /\ At("drop journal")
  /\ MayDropJournal
  /\ Relink(Place("promotion", Absent))
  /\ Goto("sync drop")
  /\ UNCHANGED <<content, told, harm>>

\* The promotion of a pause reports it; one found on entry goes on to Resume.
SyncDrop ==
  /\ At("sync drop")
  /\ SyncDirectory
  /\ IF job.reenter THEN /\ job' = Resting("begin")
                         /\ UNCHANGED told
                    ELSE job' = Idle /\ Paused
  /\ UNCHANGED <<content, harm>>

(***************************************************************************)
(* Completion                                                              *)
(***************************************************************************)
\* Mutant: the completed partial is not synchronized before publication.
SealBundleUnsynced ==
  /\ At("seal")
  /\ Write([Mine EXCEPT !.sealed = TRUE])
  /\ Goto("publish")
  /\ UNCHANGED <<storage, told, harm>>

\* Manifest, Index and Completion are appended and the file synchronized.
SealBundle ==
  /\ At("seal")
  /\ Write([Mine EXCEPT !.sealed = TRUE, !.body = "durable"])
  /\ Goto("publish")
  /\ UNCHANGED <<storage, told, harm>>

\* Mutant: the partial is published without checking whose it is.
MayPublishAnything == dir[Out] # Absent /\ dir["final"] = Absent

MayPublish == OwnsOutput /\ dir["final"] = Absent

Publish ==
  /\ At("publish")
  /\ MayPublish
  /\ Relink(Rename(Out, "final"))
  /\ Goto("sync final")
  /\ UNCHANGED <<content, told, harm>>

Completed == told' = [state |-> "complete", items |-> ItemCount]

SyncFinal ==
  /\ At("sync final")
  /\ SyncDirectory
  /\ IF job.resume THEN Goto("clean partial") /\ UNCHANGED told
                   ELSE job' = Idle /\ Completed
  /\ UNCHANGED <<content, harm>>

\* Best-effort removal of the saved pair, when it still is the saved pair: a
\* removal that the storage refuses is ignored.
Clean(n, f) == (dir[n] = f /\ Relink(Place(n, Absent))) \/ UNCHANGED storage

CleanPartial ==
  /\ At("clean partial")
  /\ Clean("partial", Bundle(job.saved))
  /\ Goto("clean checkpoint")
  /\ UNCHANGED <<content, told, harm>>

CleanCheckpoint ==
  /\ At("clean checkpoint")
  /\ Clean("partial.checkpoint", Checkpoint(job.saved))
  /\ job' = Idle
  /\ Completed
  /\ UNCHANGED <<content, harm>>

(***************************************************************************)
(* Errors                                                                  *)
(***************************************************************************)
\* The conditions under which the code itself refuses the next step.
Refused ==
  \/ At("begin") /\ ~ Promotable(dir) /\ ~ Resumable(dir)
  \/ At("create") /\ dir[Out] # Absent
  \/ At("item") /\ Mine.items < ItemCount /\ NextItem \in stages
  \/ At("sync partial") /\ ~ OwnsOutput
  \/ At("create checkpoint") /\ dir[CheckpointOf(Out)] # Absent
  \/ At("journal") /\ ~ MayStageJournal
  \/ At("publish journal") /\ dir["promotion"] # Absent
  \/ At("move") /\ ~ MayMove
  \/ At("remove") /\ ~ MayRemove
  \/ At("drop journal") /\ ~ MayDropJournal
  \/ At("publish") /\ ~ MayPublish

\* An error of write_bundle removes the partial that this attempt created, if
\* the name still links it; a failed capture removes its stage.  Nothing else
\* is cleaned up, and nothing is synchronized.
Unwind ==
  /\ IF job.phase \in WritePhases /\ OwnsOutput
       THEN dir' = Place(Out, Absent) /\ views' = views \cup {dir'}
       ELSE UNCHANGED <<dir, views>>
  /\ IF At("stage")
       THEN stages' = stages \ {NextItem} /\ unsynced' = unsynced \cup {NextItem}
       ELSE UNCHANGED <<stages, unsynced>>
  /\ job' = Idle
  /\ UNCHANGED <<content, told>>

Refuse == Refused /\ Unwind /\ UNCHANGED harm

\* The storage refuses a transition, or reading the source fails.
Fault ==
  /\ job.phase \notin {"idle", "clean partial", "clean checkpoint"}
  /\ ~ Refused
  /\ harm.fault < MaxFaults
  /\ MoreHarms
  /\ harm' = [harm EXCEPT !.fault = @ + 1]
  /\ Unwind

(***************************************************************************)
(* The environment                                                         *)
(***************************************************************************)
Kill ==
  /\ ~ At("idle")
  /\ harm.kill < MaxKills
  /\ MoreHarms
  /\ harm' = [harm EXCEPT !.kill = @ + 1]
  /\ job' = Idle
  /\ UNCHANGED <<storage, content, told>>

\* What is left of a file of attempt a, if the loss tears those of torn.
Settled(state, a, torn) ==
  IF state # "volatile" THEN state ELSE IF a \in torn THEN "torn" ELSE "durable"

Survivors(bodies, notes) ==
  [a \in Attempts |-> [content[a] EXCEPT !.body = Settled(@, a, bodies),
                                         !.note = Settled(@, a, notes)]]

\* The directory falls back to one that existed since its last
\* synchronization, and every file that was not synchronized may be torn.
PowerLoss ==
  /\ harm.power < MaxPowerLosses
  /\ MoreHarms
  /\ harm' = [harm EXCEPT !.power = @ + 1]
  /\ \E d \in views :
       /\ dir' = d
       /\ views' = {d}
       /\ LET Linked == {a \in Attempts : Mentions(d, a)} IN
            \E bodies \in SUBSET {a \in Linked : content[a].body = "volatile"},
               notes  \in SUBSET {a \in Linked : content[a].note = "volatile"} :
              content' = Survivors(bodies, notes)
  /\ \E kept \in SUBSET unsynced : stages' = (stages \ unsynced) \cup kept
  /\ unsynced' = {}
  /\ job' = Idle
  /\ UNCHANGED told

\* Another program links a file of its own under one of our names.
PutForeign ==
  /\ harm.foreign < MaxForeign
  /\ MoreHarms
  /\ harm' = [harm EXCEPT !.foreign = @ + 1]
  /\ \E n \in Names : /\ n = "final" => dir[n] = Absent
                      /\ Relink(Place(n, Foreign))
  /\ UNCHANGED <<content, job, told>>

\* A source file is edited: no observation of it made so far matches again.
Edited(c, i) == [c EXCEPT !.stale = @ \cup ({i} \cap c.seen)]

EditSource ==
  /\ harm.source < MaxChanges
  /\ MoreHarms
  /\ harm' = [harm EXCEPT !.source = @ + 1]
  /\ \E i \in Items :
       content' = [a \in Attempts |-> Edited(content[a], i)]
  /\ content' # content
  /\ UNCHANGED <<storage, job, told>>

(***************************************************************************)
(* The specification                                                       *)
(***************************************************************************)
Init ==
  /\ dir = [n \in Names |-> Absent]
  /\ views = {dir}
  /\ stages = {}
  /\ unsynced = {}
  /\ content = [a \in Attempts |-> Blank]
  /\ job = Idle
  /\ told = [state |-> "none", items |-> 0]
  /\ harm = [fault |-> 0, kill |-> 0, power |-> 0, foreign |-> 0,
             source |-> 0]

Resume == ReconcilePromotion \/ PromoteResumed \/ StartResume

WriteBundle == \/ CreatePartial \/ RekeyPrefix
               \/ StageItem \/ FillStage \/ DropStage \/ AppendItem \/ FinishItems
               \/ SyncPartial \/ CreateCheckpoint \/ WriteCheckpoint
               \/ SyncCheckpoint \/ SyncCheckpointDirectory
               \/ SealBundle \/ Publish \/ SyncFinal
               \/ CleanPartial \/ CleanCheckpoint

Promote == \/ StageJournal \/ PublishJournal \/ SyncJournal
           \/ Move \/ Remove \/ SyncTransition
           \/ DropJournal \/ SyncDrop

Environment == \/ Fault \/ Kill \/ PowerLoss \/ PutForeign
               \/ MissItem \/ MissObservation \/ EditSource

Next == StartFresh \/ Resume \/ WriteBundle \/ Promote \/ Refuse \/ Environment

Spec == Init /\ [][Next]_vars

(***************************************************************************)
(* Safety                                                                  *)
(***************************************************************************)
\* The destination name never links anything but a file of the owner or a
\* sealed Bundle of every item, synchronized before it was renamed there:
\* not now, and not after any power loss.  (write_bundle synchronizes the
\* partial, checks its identity and renames without overwrite.)
FinalOK(d) ==
  \/ d["final"] \in {Absent, Foreign}
  \/ /\ d["final"].kind = "bundle"
     /\ content[d["final"].att].sealed
     /\ content[d["final"].att].body = "durable"
     /\ content[d["final"].att].items = ItemCount

NoFalseCompletion == \A d \in views : FinalOK(d)

CodeStep == harm'.power = harm.power /\ harm'.foreign = harm.foreign

\* No step of Pack moves, replaces or removes a file that another program put
\* under one of Pack's names: every rename is exclusive and every move and
\* removal first checks the identity it recorded.
ForeignUntouched ==
  [][CodeStep => \A n \in Names : dir[n] = Foreign => dir'[n] = Foreign]_vars
=============================================================================
