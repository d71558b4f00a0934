-------------------------- MODULE RestoreTransaction --------------------------
(***************************************************************************)
(* RestoreEngine::restore: materialization in a private staging directory, *)
(* publication of the top-level entries by exclusive renames, the journal  *)
(* of that publication, its rollback by a Resume, and the final cleanup.   *)
(*                                                                         *)
(* Each restorer is a process that runs one call after another on the same *)
(* destination and the same sealed Bundle.  Every file operation of a call *)
(* is a step, so that other calls, faults, terminations and power losses   *)
(* fall between any two of them.                                           *)
(***************************************************************************)
EXTENDS Integers, FiniteSets

CONSTANTS
  Restorers,       \* processes that call Restore on the destination
  Dirs,            \* identities of control and staging directories
  NoDir,           \* nothing has this name
  Foreign,         \* what some other program put under one of our names
  EntryCount,      \* top-level entries of the authenticated Plan
  MaxFaults,       \* storage refusals in a behaviour
  MaxKills,        \* process terminations in a behaviour
  MaxPowerLosses,  \* power losses in a behaviour
  MaxForeign,      \* files that other programs put at the destination
  MaxPauses        \* cancellations that a call honours

ASSUME DirsAssumption == NoDir \notin Dirs /\ Foreign \notin Dirs /\ NoDir # Foreign
ASSUME EntryCountAssumption == EntryCount \in Nat \ {0}
ASSUME LimitsAssumption ==
  /\ MaxFaults \in Nat
  /\ MaxKills \in Nat
  /\ MaxPowerLosses \in Nat
  /\ MaxForeign \in Nat
  /\ MaxPauses \in Nat

VARIABLES
  tree,   \* the destination as the running system sees it
  views,  \* the destinations a power loss may leave, tree among them
  body,   \* what the files staged in each staging directory hold
  final,  \* the entries staged in each directory that have their final mode
  job,    \* the local state of the call of each restorer
  told,   \* the last RestoreReport of each restorer
  harm    \* how many faults, kills, power losses, foreign files and pauses

vars == <<tree, views, body, final, job, told, harm>>

(***************************************************************************)
(* Types                                                                   *)
(***************************************************************************)
Entries == 0 .. EntryCount - 1

MaybeDir == Dirs \cup {NoDir}

\* An entry is identified by the staging directory in which it was created.
Item == MaybeDir \cup {Foreign}

NoIntent == -1

Journal == [phase     : {"none", "materializing", "staged", "publishing", "rolling-back"},
            published : 0 .. EntryCount,
            intent    : NoIntent .. EntryCount - 1]

Entry(phase, published, intent) ==
  [phase |-> phase, published |-> published, intent |-> intent]

NoJournal == Entry("none", 0, NoIntent)

Tree == [control : MaybeDir,           \* .iniza-restore
         staging : MaybeDir,           \* .iniza-restore/staging
         journal : Journal,            \* .iniza-restore/journal.json
         partial : Journal,            \* .iniza-restore/journal.json.partial
         staged  : [Entries -> Item],  \* the entries in staging
         dest    : [Entries -> Item]]  \* the entries at the destination

Nothing == [e \in Entries |-> NoDir]

Empty == [control |-> NoDir, staging |-> NoDir, journal |-> NoJournal,
          partial |-> NoJournal, staged |-> Nothing, dest |-> Nothing]

\* Steps of a call, in the order of the code.
Phases ==
  {"idle", "discard", "sync discard", "reconcile", "roll", "unmove", "sync unmove",
   "reset", "sync reset", "control", "sync control", "staging", "sync staging",
   "write", "rename", "sync journal", "fill", "stream", "finish", "validate", "staged",
   "preflight", "move", "check", "sync move", "advance", "finalize", "recheck",
   "drop staging", "sync drop staging", "drop journal", "sync drop journal",
   "drop control", "sync drop control", "cleanup", "sync cleanup"}

Job == [phase  : Phases,
        next   : Phases,             \* where the call goes on after a journal write
        entry  : Journal,            \* the journal being written
        resume : BOOLEAN,
        keep   : BOOLEAN,            \* preserve_recovery_state
        seen   : Journal,            \* the journal that the Resume authenticated
        ctl    : MaybeDir,           \* the control directory it holds open
        stg    : MaybeDir,           \* the staging directory it holds open
        i      : 0 .. EntryCount,    \* the entry at work, or those still published
        valid  : [Entries -> Item]]  \* identities recorded by validation

Idle == [phase |-> "idle", next |-> "idle", entry |-> NoJournal, resume |-> FALSE,
         keep |-> FALSE, seen |-> NoJournal, ctl |-> NoDir, stg |-> NoDir, i |-> 0,
         valid |-> Nothing]

Harms == {"fault", "kill", "power", "foreign", "pause"}

Limit(h) == CASE h = "fault" -> MaxFaults
              [] h = "kill" -> MaxKills
              [] h = "power" -> MaxPowerLosses
              [] h = "foreign" -> MaxForeign
              [] OTHER -> MaxPauses

\* Every variable has its type, and nothing is inside a directory that is gone.
TypeOK ==
  /\ tree \in views
  /\ \A t \in views : /\ t \in Tree
                      /\ t.control = NoDir =>
                           t.staging = NoDir /\ t.journal = NoJournal /\ t.partial = NoJournal
                      /\ t.staging = NoDir => t.staged = Nothing
  /\ body \in [Dirs -> {"empty", "volatile", "durable", "torn"}]
  /\ final \in [Dirs -> SUBSET Entries]
  /\ job \in [Restorers -> Job]
  /\ told \in [Restorers -> {"none", "paused", "complete", "failed"}]
  /\ \A h \in Harms : harm[h] \in 0 .. Limit(h)

(***************************************************************************)
(* Storage                                                                 *)
(***************************************************************************)
\* A change of a directory that no power loss is sure to keep.
Relink(t) == tree' = t /\ views' = views \cup {t}

\* Changes of directories reach the disk in order, so the synchronization of
\* the directory changed last keeps them all.
Sync == views' = {tree} /\ UNCHANGED tree

InUse(t, d) == \/ d \in {t.control, t.staging}
               \/ \E e \in Entries : d \in {t.staged[e], t.dest[e]}

Holds(j, d) == d \in {j.ctl, j.stg} \/ \E e \in Entries : j.valid[e] = d

FreeDirs == {d \in Dirs : /\ \A t \in views : ~ InUse(t, d)
                          /\ \A p \in Restorers : ~ Holds(job[p], d)}

\* Which of the free identities a new directory takes makes no difference.
NewDirs == IF FreeDirs = {} THEN {} ELSE {CHOOSE d \in FreeDirs : TRUE}

Visible(t) == {e \in Entries : t.dest[e] # NoDir}

Restored(t) == {e \in Entries : t.dest[e] \in Dirs}

First(n) == {e \in Entries : e < n}

\* The bytes match the authenticated Manifest.
Genuine(item) == item \in Dirs /\ body[item] \in {"volatile", "durable"}

(***************************************************************************)
(* What a call accepts                                                     *)
(***************************************************************************)
FreshAccepted(t) == t.control = NoDir /\ Visible(t) = {}

StateIsValid(journal) ==
  CASE journal.phase \in {"materializing", "staged"} ->
         journal.published = 0 /\ journal.intent = NoIntent
    [] journal.phase = "publishing" ->
         journal.intent \in {NoIntent, journal.published} \cap (NoIntent .. EntryCount - 1)
    [] journal.phase = "rolling-back" ->
         journal.published > 0 /\ journal.intent = journal.published - 1
    [] OTHER -> FALSE

RequiredVisible(journal) ==
  First(IF journal.phase = "rolling-back" THEN journal.published - 1 ELSE journal.published)

AllowedVisible(journal) ==
  First(IF journal.phase = "publishing" /\ journal.intent # NoIntent
          THEN journal.published + 1 ELSE journal.published)

ResumeAccepted(t) ==
  /\ t.control # NoDir
  /\ t.staging # NoDir
  /\ StateIsValid(t.journal)
  /\ RequiredVisible(t.journal) \subseteq Visible(t)
  /\ Visible(t) \subseteq AllowedVisible(t.journal)
  /\ \A e \in Visible(t) : Genuine(t.dest[e])

\* The entry of an outstanding intent is on exactly one side.
OnOneSide(t, e) == (t.dest[e] = NoDir) # (t.staged[e] = NoDir)

Reconcilable(t, journal) == journal.intent # NoIntent => OnOneSide(t, journal.intent)

\* How many entries are published once the intent is reconciled.
Settled(t, journal) ==
  CASE journal.intent = NoIntent -> journal.published
    [] journal.intent # NoIntent /\ t.dest[journal.intent] # NoDir -> journal.intent + 1
    [] OTHER -> journal.intent

(***************************************************************************)
(* Steps of a call                                                         *)
(***************************************************************************)
At(p, phase) == job[p].phase = phase

Become(p, j) == job' = [job EXCEPT ![p] = j]

Goto(p, phase) == Become(p, [job[p] EXCEPT !.phase = phase])

\* The call writes the journal and goes on at phase next.
Recording(j, entry, next) ==
  [j EXCEPT !.phase = "write", !.entry = entry, !.next = next]

Held(j) == tree.control = j.ctl

Live(j) == Held(j) /\ tree.staging = j.stg

AllStaged(j) == Live(j) /\ \A e \in Entries : tree.staged[e] = j.stg

\* Mutant: an entry is published over whatever has its name.
MayPublishOver(j) == Live(j) /\ tree.staged[j.i] # NoDir

MayPublish(j) == Live(j) /\ tree.staged[j.i] # NoDir /\ tree.dest[j.i] = NoDir

\* The conditions under which the code takes its next step; otherwise it
\* returns an error.
Ready(p) ==
  LET j == job[p]
      Is(phases) == j.phase \in phases
  IN  /\ Is({"discard"}) => Held(j) /\ tree.partial # NoJournal
      /\ Is({"reconcile"}) => Held(j) /\ tree.staging # NoDir /\ Reconcilable(tree, j.seen)
      /\ Is({"roll"}) /\ j.i > 0 =>
           ~ (Live(j) /\ tree.staged[j.i - 1] # NoDir) /\ tree.dest[j.i - 1] # NoDir
      /\ Is({"unmove"}) =>
           Live(j) /\ tree.staged[j.i - 1] = NoDir /\ tree.dest[j.i - 1] # NoDir
      /\ Is({"reset"}) => Held(j) /\ tree.staging # NoDir
      /\ Is({"control"}) => tree.control = NoDir
      /\ Is({"staging"}) => Held(j) /\ tree.staging = NoDir
      /\ Is({"write"}) => Held(j) /\ tree.partial = NoJournal
      /\ Is({"rename"}) => Held(j) /\ tree.partial # NoJournal
      /\ Is({"fill"}) => Live(j) /\ tree.staged = Nothing
      /\ Is({"stream", "finish", "validate", "staged"}) => AllStaged(j)
      /\ Is({"preflight"}) => AllStaged(j) /\ Visible(tree) = {}
      /\ Is({"move"}) => MayPublish(j)
      /\ Is({"check"}) => Genuine(tree.dest[j.i]) /\ j.i \notin final[tree.dest[j.i]]
      /\ Is({"finalize"}) => tree.dest[j.i] = j.valid[j.i] /\ j.i \notin final[j.valid[j.i]]
      /\ Is({"recheck"}) => tree.control # NoDir /\ tree.dest = j.valid
      /\ Is({"drop staging"}) => Held(j) /\ tree.staging # NoDir /\ tree.staged = Nothing
      /\ Is({"drop journal"}) => Held(j) /\ tree.journal # NoJournal
      /\ Is({"drop control"}) => /\ tree.control # NoDir
                                 /\ tree.staging = NoDir
                                 /\ tree.journal = NoJournal
                                 /\ tree.partial = NoJournal

Does(p, phase) == At(p, phase) /\ Ready(p)

OnlyTree == UNCHANGED <<body, final, told, harm>>

(***************************************************************************)
(* The calls                                                               *)
(***************************************************************************)
\* A new Restore accepts an absent or empty destination only.
Fresh(p) ==
  /\ At(p, "idle")
  /\ FreshAccepted(tree)
  /\ Goto(p, "control")
  /\ UNCHANGED <<tree, views>> /\ OnlyTree

\* Mutant: an interrupted partial journal stays.
AfterResumeAlways == "reconcile"

AfterResume == IF tree.partial = NoJournal THEN "reconcile" ELSE "discard"

\* A Resume authenticates what it finds and takes the final mode back from
\* every visible entry.
Resume(p) ==
  /\ At(p, "idle")
  /\ ResumeAccepted(tree)
  /\ Become(p, [Idle EXCEPT
                  !.phase = AfterResume, !.resume = TRUE,
                  !.seen = tree.journal, !.ctl = tree.control])
  /\ final' = [d \in Dirs |-> final[d] \ {e \in Visible(tree) : tree.dest[e] = d}]
  /\ UNCHANGED <<tree, views, body, told, harm>>

DiscardPartial(p) ==
  /\ Does(p, "discard")
  /\ Relink([tree EXCEPT !.partial = NoJournal])
  /\ Goto(p, "sync discard") /\ OnlyTree

(***************************************************************************)
(* reconcile_interrupted_publication                                       *)
(***************************************************************************)
Reconcile(p) ==
  /\ Does(p, "reconcile")
  /\ LET n == Settled(tree, job[p].seen)
         j == [job[p] EXCEPT !.phase = "roll", !.stg = tree.staging, !.i = n]
     IN  Become(p, IF job[p].seen.intent = NoIntent
                     THEN j
                     ELSE Recording(j, Entry("publishing", n, NoIntent), "roll"))
  /\ UNCHANGED <<tree, views>> /\ OnlyTree

\* Published entries go back to staging, the last one first.
Roll(p) ==
  /\ Does(p, "roll")
  /\ LET j == job[p] IN
       Become(p, IF j.i = 0
                   THEN [j EXCEPT !.phase = "reset"]
                   ELSE Recording(j, Entry("rolling-back", j.i, j.i - 1), "unmove"))
  /\ UNCHANGED <<tree, views>> /\ OnlyTree

Unmove(p) ==
  /\ Does(p, "unmove")
  /\ LET e == job[p].i - 1 IN
       Relink([tree EXCEPT !.staged[e] = tree.dest[e], !.dest[e] = NoDir])
  /\ Goto(p, "sync unmove") /\ OnlyTree

SyncUnmove(p) ==
  /\ Does(p, "sync unmove")
  /\ Sync
  /\ LET n == job[p].i - 1 IN
       Become(p, Recording([job[p] EXCEPT !.i = n], Entry("publishing", n, NoIntent), "roll"))
  /\ OnlyTree

\* remove_dir_all removes the entries of staging one by one, then staging.
EmptyStaging(p) ==
  /\ Does(p, "reset") \/ At(p, "cleanup")
  /\ \E e \in Entries : /\ tree.staged[e] # NoDir
                        /\ Relink([tree EXCEPT !.staged[e] = NoDir])
  /\ UNCHANGED job /\ OnlyTree

\* The old staging goes; a new one is filled from the Bundle.
ResetStaging(p) ==
  /\ Does(p, "reset")
  /\ tree.staged = Nothing
  /\ Relink([tree EXCEPT !.staging = NoDir])
  /\ Goto(p, "sync reset") /\ OnlyTree

(***************************************************************************)
(* restore_transaction                                                     *)
(***************************************************************************)
MakeControl(p) ==
  /\ Does(p, "control")
  /\ \E d \in NewDirs :
       /\ Relink([tree EXCEPT !.control = d])
       /\ Become(p, [job[p] EXCEPT !.ctl = d, !.phase = "sync control"])
  /\ OnlyTree

MakeStaging(p) ==
  /\ Does(p, "staging")
  /\ \E d \in NewDirs :
       /\ Relink([tree EXCEPT !.staging = d])
       /\ Become(p, [job[p] EXCEPT !.stg = d, !.phase = "sync staging"])
       /\ body' = [body EXCEPT ![d] = "empty"]
       /\ final' = [final EXCEPT ![d] = {}]
  /\ UNCHANGED <<told, harm>>

SyncStaging(p) ==
  /\ Does(p, "sync staging")
  /\ Sync
  /\ Become(p, Recording(job[p], Entry("materializing", 0, NoIntent), "fill"))
  /\ OnlyTree

\* The other synchronizations between two steps.
SyncNext ==
  [phase \in {"sync discard", "sync reset", "sync control",
              "sync drop staging", "sync drop journal"} |->
     CASE phase = "sync discard"      -> "reconcile"
       [] phase = "sync reset"        -> "sync control"
       [] phase = "sync control"      -> "staging"
       [] phase = "sync drop staging" -> "drop journal"
       [] phase = "sync drop journal" -> "drop control"]

SyncStep(p) ==
  /\ job[p].phase \in DOMAIN SyncNext
  /\ Sync
  /\ Goto(p, SyncNext[job[p].phase])
  /\ OnlyTree

\* write_authenticated_journal: the replacement is written and synchronized
\* under its own name, renamed over the journal, and the directory synchronized.
WritePartial(p) ==
  /\ Does(p, "write")
  /\ Relink([tree EXCEPT !.partial = job[p].entry])
  /\ Goto(p, "rename") /\ OnlyTree

RenamePartial(p) ==
  /\ Does(p, "rename")
  /\ Relink([tree EXCEPT !.journal = tree.partial, !.partial = NoJournal])
  /\ Goto(p, "sync journal") /\ OnlyTree

\* From the first durable intent on, an error keeps the recovery state.
SyncJournal(p) ==
  /\ Does(p, "sync journal")
  /\ Sync
  /\ Become(p, [job[p] EXCEPT !.phase = job[p].next,
                              !.keep = @ \/ job[p].next = "move"])
  /\ OnlyTree

Fill(p) ==
  /\ Does(p, "fill")
  /\ Relink([tree EXCEPT !.staged = [e \in Entries |-> job[p].stg]])
  /\ Goto(p, "stream") /\ OnlyTree

Stream(p) ==
  /\ Does(p, "stream")
  /\ body' = [body EXCEPT ![job[p].stg] = "volatile"]
  /\ Goto(p, "finish")
  /\ UNCHANGED <<tree, views, final, told, harm>>

\* Mutant: the staged files are not synchronized.
FinishUnsynced(p) ==
  /\ Does(p, "finish")
  /\ Goto(p, "validate")
  /\ UNCHANGED <<tree, views, body, final, told, harm>>

\* StagedFileSink::finish synchronizes every staged file.
Finish(p) ==
  /\ Does(p, "finish")
  /\ body' = [body EXCEPT ![job[p].stg] = "durable"]
  /\ Goto(p, "validate")
  /\ UNCHANGED <<tree, views, final, told, harm>>

ValidateStaging(p) ==
  /\ Does(p, "validate")
  /\ Become(p, Recording(job[p], Entry("staged", 0, NoIntent), "staged"))
  /\ UNCHANGED <<tree, views>> /\ OnlyTree

\* A cancellation is honoured when staging is complete.
Pause(p) ==
  /\ harm["pause"] < MaxPauses
  /\ harm' = [harm EXCEPT !["pause"] = @ + 1]
  /\ told' = [told EXCEPT ![p] = "paused"]
  /\ Become(p, Idle)
  /\ UNCHANGED <<tree, views, body, final>>

Staged(p) ==
  /\ Does(p, "staged")
  /\ \/ Pause(p)
     \/ Goto(p, "preflight") /\ UNCHANGED <<tree, views>> /\ OnlyTree

\* Mutant: entries are published without an intent in the journal.
NextEntryUnannounced(j, e) == [j EXCEPT !.i = e, !.phase = "move", !.keep = TRUE]

\* Mutant: the journal announces the entry after the one that is moved.
NextEntryAhead(j, e) ==
  Recording([j EXCEPT !.i = e], Entry("publishing", e + 1, e + 1), "move")

\* A durable authenticated intent precedes each move.
NextEntry(j, e) == Recording([j EXCEPT !.i = e], Entry("publishing", e, e), "move")

Preflight(p) ==
  /\ Does(p, "preflight")
  /\ Become(p, NextEntry(job[p], 0))
  /\ UNCHANGED <<tree, views>> /\ OnlyTree

Move(p) ==
  /\ Does(p, "move")
  /\ LET e == job[p].i IN
       Relink([tree EXCEPT !.dest[e] = tree.staged[e], !.staged[e] = NoDir])
  /\ Goto(p, "check") /\ OnlyTree

\* The moved entry is authenticated again, and its identity recorded.
Check(p) ==
  /\ Does(p, "check")
  /\ LET e == job[p].i IN
       Become(p, [job[p] EXCEPT !.valid[e] = tree.dest[e], !.phase = "sync move"])
  /\ UNCHANGED <<tree, views>> /\ OnlyTree

SyncMove(p) ==
  /\ Does(p, "sync move")
  /\ Sync
  /\ Become(p, Recording(job[p], Entry("publishing", job[p].i + 1, NoIntent), "advance"))
  /\ OnlyTree

\* A cancellation is honoured after every publication checkpoint.
Advance(p) ==
  /\ Does(p, "advance")
  /\ \/ Pause(p)
     \/ /\ Become(p, IF job[p].i + 1 < EntryCount
                       THEN NextEntry(job[p], job[p].i + 1)
                       ELSE [job[p] EXCEPT !.i = 0, !.phase = "finalize"])
        /\ UNCHANGED <<tree, views>> /\ OnlyTree

\* Mutant: the last entry keeps its restrictive mode.
FinalizedButLast(p) ==
  LET e == job[p].i IN
  IF e + 1 < EntryCount THEN [final EXCEPT ![job[p].valid[e]] = @ \cup {e}] ELSE final

Finalized(p) == LET e == job[p].i IN [final EXCEPT ![job[p].valid[e]] = @ \cup {e}]

\* Each entry gets its reviewed final mode, through the validated identity.
Finalize(p) ==
  /\ Does(p, "finalize")
  /\ final' = Finalized(p)
  /\ Become(p, IF job[p].i + 1 < EntryCount
                 THEN [job[p] EXCEPT !.i = @ + 1]
                 ELSE [job[p] EXCEPT !.phase = "recheck"])
  /\ UNCHANGED <<tree, views, body, told, harm>>

Recheck(p) ==
  /\ Does(p, "recheck")
  /\ Goto(p, "drop staging")
  /\ UNCHANGED <<tree, views>> /\ OnlyTree

DropStaging(p) ==
  /\ Does(p, "drop staging")
  /\ Relink([tree EXCEPT !.staging = NoDir, !.staged = Nothing])
  /\ Goto(p, "sync drop staging") /\ OnlyTree

DropJournal(p) ==
  /\ Does(p, "drop journal")
  /\ Relink([tree EXCEPT !.journal = NoJournal])
  /\ Goto(p, "sync drop journal") /\ OnlyTree

DropControl(p) ==
  /\ Does(p, "drop control")
  /\ Relink([tree EXCEPT !.control = NoDir])
  /\ Goto(p, "sync drop control") /\ OnlyTree

\* Mutant: the removal of the control directory is not synchronized.
CompleteUnsynced(p) ==
  /\ Does(p, "sync drop control")
  /\ Become(p, Idle)
  /\ told' = [told EXCEPT ![p] = "complete"]
  /\ UNCHANGED <<tree, views, body, final, harm>>

Complete(p) ==
  /\ Does(p, "sync drop control")
  /\ Sync
  /\ Become(p, Idle)
  /\ told' = [told EXCEPT ![p] = "complete"]
  /\ UNCHANGED <<body, final, harm>>

(***************************************************************************)
(* Errors                                                                  *)
(***************************************************************************)
\* Mutant: a failed new Restore always removes its transaction.
CleansAlways(j) == ~ j.resume

\* A failed new Restore removes its transaction, unless publication began.
Cleans(j) == ~ j.resume /\ ~ j.keep

Fail(p) ==
  /\ IF Cleans(job[p])
       THEN Become(p, [Idle EXCEPT !.phase = "cleanup"]) /\ UNCHANGED told
       ELSE Become(p, Idle) /\ told' = [told EXCEPT ![p] = "failed"]
  /\ UNCHANGED <<tree, views, body, final>>

Refuse(p) == ~ Ready(p) /\ Fail(p) /\ UNCHANGED harm

Fault(p) ==
  /\ job[p].phase \notin {"idle", "cleanup", "sync cleanup"}
  /\ Ready(p)
  /\ harm["fault"] < MaxFaults
  /\ harm' = [harm EXCEPT !["fault"] = @ + 1]
  /\ Fail(p)

\* cleanup_failed_restore removes the control directory by its name.
CleanInside(p) ==
  /\ At(p, "cleanup")
  /\ \/ tree.journal # NoJournal /\ Relink([tree EXCEPT !.journal = NoJournal])
     \/ tree.partial # NoJournal /\ Relink([tree EXCEPT !.partial = NoJournal])
     \/ /\ tree.staging # NoDir
        /\ tree.staged = Nothing
        /\ Relink([tree EXCEPT !.staging = NoDir])
  /\ UNCHANGED job /\ OnlyTree

CleanControl(p) ==
  /\ At(p, "cleanup")
  /\ tree.journal = NoJournal /\ tree.partial = NoJournal /\ tree.staging = NoDir
  /\ Relink([tree EXCEPT !.control = NoDir])
  /\ Goto(p, "sync cleanup") /\ OnlyTree

SyncCleanup(p) ==
  /\ At(p, "sync cleanup")
  /\ Sync
  /\ Become(p, Idle)
  /\ told' = [told EXCEPT ![p] = "failed"]
  /\ UNCHANGED <<body, final, harm>>

(***************************************************************************)
(* The environment                                                         *)
(***************************************************************************)
Kill(p) ==
  /\ ~ At(p, "idle")
  /\ harm["kill"] < MaxKills
  /\ harm' = [harm EXCEPT !["kill"] = @ + 1]
  /\ Become(p, Idle)
  /\ UNCHANGED <<tree, views, body, final, told>>

PowerLoss ==
  /\ harm["power"] < MaxPowerLosses
  /\ harm' = [harm EXCEPT !["power"] = @ + 1]
  /\ \E t \in views : tree' = t /\ views' = {t}
  /\ \E torn \in SUBSET {d \in Dirs : body[d] = "volatile"} :
       body' = [d \in Dirs |-> CASE body[d] # "volatile" -> body[d]
                                 [] d \in torn -> "torn"
                                 [] OTHER -> "durable"]
  /\ job' = [p \in Restorers |-> Idle]
  /\ UNCHANGED <<final, told>>

\* Another program creates or replaces a file at the destination.
PutForeign ==
  /\ harm["foreign"] < MaxForeign
  /\ harm' = [harm EXCEPT !["foreign"] = @ + 1]
  /\ \E e \in Entries : Relink([tree EXCEPT !.dest[e] = Foreign])
  /\ UNCHANGED <<body, final, job, told>>

(***************************************************************************)
(* The specification                                                       *)
(***************************************************************************)
Init ==
  /\ tree = Empty
  /\ views = {Empty}
  /\ body = [d \in Dirs |-> "empty"]
  /\ final = [d \in Dirs |-> {}]
  /\ job = [p \in Restorers |-> Idle]
  /\ told = [p \in Restorers |-> "none"]
  /\ harm = [h \in Harms |-> 0]

Rollback(p) == DiscardPartial(p) \/ Reconcile(p) \/ Roll(p) \/ Unmove(p) \/ SyncUnmove(p)
                 \/ EmptyStaging(p) \/ ResetStaging(p)

Materialize(p) == MakeControl(p) \/ MakeStaging(p) \/ SyncStaging(p) \/ SyncStep(p)
                    \/ WritePartial(p) \/ RenamePartial(p) \/ SyncJournal(p)
                    \/ Fill(p) \/ Stream(p) \/ Finish(p) \/ ValidateStaging(p)

Publish(p) == Staged(p) \/ Preflight(p) \/ Move(p) \/ Check(p) \/ SyncMove(p) \/ Advance(p)

Conclude(p) == Finalize(p) \/ Recheck(p) \/ DropStaging(p) \/ DropJournal(p)
                \/ DropControl(p) \/ Complete(p)

Cleanup(p) == CleanInside(p) \/ CleanControl(p) \/ SyncCleanup(p)

Run(p) == Rollback(p) \/ Materialize(p) \/ Publish(p) \/ Conclude(p) \/ Refuse(p) \/ Cleanup(p)

Next == \/ \E p \in Restorers : Fresh(p) \/ Resume(p) \/ Run(p) \/ Fault(p) \/ Kill(p)
        \/ PowerLoss
        \/ PutForeign

Spec == Init /\ [][Next]_vars

(***************************************************************************)
(* Progress                                                                *)
(***************************************************************************)
\* The library runs its call to the end, and the owner resumes what Resume
\* accepts.
FairSpec == Spec /\ \A p \in Restorers : WF_vars(Run(p)) /\ WF_vars(Resume(p))

AtRest == \A p \in Restorers : At(p, "idle")

CanResume(t) == ResumeAccepted(t) /\ Reconcilable(t, t.journal)

\* A transaction with a journal ends, or comes to rest where no Resume can
\* continue it.
TransactionEnds ==
  tree.journal # NoJournal ~> tree.journal = NoJournal \/ (AtRest /\ ~ CanResume(tree))

(***************************************************************************)
(* Safety                                                                  *)
(***************************************************************************)
Reports(p, state) == told'[p] = state /\ told'[p] # told[p]

\* Whatever is visible at the destination was written completely and
\* synchronized: no termination, power loss or other call exposes a file that
\* is still being materialized (StagedFileSink::finish, validate_staged_items).
VisibleIsComplete ==
  \A t \in views : \A e \in Visible(t) : t.dest[e] # Foreign => body[t.dest[e]] = "durable"

\* A Restore that reports Complete leaves every entry at the destination, and
\* its transaction control is gone, also after a power loss
\* (restore_transaction).
CompleteIsTrue ==
  [][\A p \in Restorers : Reports(p, "complete") =>
       \A t \in views' : t.control # job[p].ctl /\ \A e \in Entries : t.dest[e] # NoDir]_vars

\* A Restore that reports Complete has given every entry its final mode, even
\* when an earlier attempt had and a Resume took it back (normalize_resume_modes
\* and finalize_validated_items).
ModesAreFinal ==
  [][\A p \in Restorers : Reports(p, "complete") =>
       \A e \in Entries : tree.dest[e] # Foreign => e \in final[tree.dest[e]]]_vars

\* While entries are visible and none of them is another program's, a transaction
\* that still has its journal and staging is one that Resume accepts and can
\* reconcile, whatever a termination or a power loss leaves (the write-ahead intents
\* of publish_staged_entries and reconcile_interrupted_publication).
JournalAccounts ==
  \A t \in views :
    /\ Visible(t) # {} /\ Visible(t) = Restored(t)
    /\ t.staging # NoDir /\ t.journal # NoJournal
    => CanResume(t)

\* Once an entry is published, no failure removes the journal: only the call that
\* completes does (preserve_recovery_state).
PublicationRetained ==
  [][(Restored(tree) # {} /\ tree.journal # NoJournal /\ tree'.journal = NoJournal) =>
       \E p \in Restorers : At(p, "drop journal")]_vars

CodeStep == harm'["power"] = harm["power"]

Touched(e) == tree.dest[e] = Foreign /\ tree'.dest[e] # Foreign

\* No publication overwrites a file that another program put at the
\* destination, and no cleanup removes it (exclusive_rename,
\* cleanup_failed_restore).
PublicationIsExclusive ==
  [][CodeStep => \A e \in Entries : Touched(e) => \E p \in Restorers : At(p, "unmove")]_vars

(***************************************************************************)
(* What the documentation says                                             *)
(***************************************************************************)
\* After a publication intent becomes durable, every interruption retains the
\* journal and staging for an explicit Resume.
InterruptionIsResumable ==
  AtRest /\ tree.control # NoDir /\ Visible(tree) # {} => CanResume(tree)
=============================================================================
