# Formal model of Iniza

Iniza is a local-first tool that moves the data of a machine to another one: a
reviewed Plan selects Migration Items, Pack writes them into an encrypted
Bundle, Verify and Verified Copy check it, Restore materializes it, two recovery
methods keep the secrets that open it, and several smaller engines keep the
evidence that all of it happened. The library under `src/src/` is synchronous:
every engine runs on the thread of its caller, and what makes it hard is what
its calls leave behind when they stop in the middle, and what the files, the
Project, the vault and the remotes do between two of their steps.

This directory holds TLA+ models of the parts of that library that keep state
on disk, in memory, or at a remote, the TLC configurations that check them, and
proofs that TLAPS checks. `tlc -config X.cfg M` runs one configuration,
`tlapm M.tla` checks one proof module.

## 1. Inventory

| Part | Source | State it keeps | Operations | What is hard | What makes it correct | Model |
|---|---|---|---|---|---|---|
| Bundle Pack and Resume | `bundle.rs` 870-1101, 1595-3412 | `<dest>`, `.partial`, its checkpoint, `.partial.resume` and its checkpoint, the `.previous` pair, the promotion journal, item stages | `pack`, `pack` with Resume, `advise_failed_pack`, cancellation | about thirty storage transitions, each of which may be the last; a promotion is six of them; other programs share the directory; the source is edited while it is read and between the calls | saved progress is not lost and the next Resume accepts it, Complete means a durable sealed Bundle, nothing foreign is touched, an interrupted promotion is finished | modelled |
| Inspect and Verify | `bundle.rs` 1128-1201, 3840-4105 | none | `inspect`, `verify` | authentication of every record | accepts exactly sealed Bundles | partly: its verdict is used by every other model |
| Verified Copy | `bundle.rs` 1206-1498 | the copy, its `.partial` and `.partial.resume` | `copy_verified` | interruption, the approved replacement of a saved prefix, files exchanged under it | only an identical, verified copy gets a receipt, saved bytes go only after it | modelled |
| Restore transaction | `restore.rs`, `restore_fs.rs` | the destination, `.iniza-restore` with `staging`, `journal.json`, `journal.json.partial` | `restore`, `restore` with Resume, cancellation | write-ahead intents, rollback, cleanup, concurrent calls and programs | only complete content is visible, an interruption can be resumed, Complete is true | modelled |
| Readiness Evidence | `readiness_evidence.rs` | a directory of immutable chained records and candidates | `initialize`, `record_receipt`, `prepare/confirm/withdraw_attestation`, `status` | many callers, fail-closed candidates, durability of what was read; a status examines artifacts one after the other | history never shrinks, failed records never count; Complete Evidence is about one recoverable Bundle | modelled |
| Push Plan | `push_plan.rs` | the plan document, the approval, one result log per execution; the remote | `draft`, `approve`, `execute` | the Project and the remote move between observation and effect, answers are lost | the log accounts for what was published, success is proven | modelled |
| Project Capsule | `project_capsule.rs` | the review, the attempt and retained Bundles, the capsule, the expectation, the rehearsal receipt | `review`, `capture`, `compare`, `rehearse` | the Project changes while it is walked; retries; publication and retention of attempts | a capsule is the Project at one moment, and what was rehearsed is what was observed | partly |
| Vaultwarden recovery | `vaultwarden_recovery.rs` | a note at an external service | `inspect_installation`, `preflight`, `store_and_rehearse`, `load` | the client, its login and the note change between two commands; answers are lost | the note that is reported opens the Bundle | modelled |
| Offline recovery | `offline_recovery.rs`, `stored_recovery_method.rs` | a restricted document | `write`, `rehearse`, `load` | termination between creation and content; another program's file under the name | the document opens the Bundle | modelled |
| Migration workflow | `migration_workflow.rs` | the slot of a paused Pack, secrets in memory | `capture`, its Pause and Resume | several threads share one slot; each method can fail after the other stands | a complete capture can be recovered both ways; a paused Pack can be resumed | modelled |
| Plan and approval | `lib.rs`, `plan_engine.rs`, `plan_document.rs`, `plan_comparison.rs` | the Plan document | create, approve, renew, compare | a stale approval | approval binds exact content | partly: as part of Readiness |
| Project audit | `project_audit.rs` | none | audit | subprocess limits | read-only | partly: the audit that Push and Readiness hold |
| Protection candidates, Not Protected report | `protection_candidates.rs`, `not_protected_report.rs` | none | scan, render | none kept between calls | completeness of the scan | not modelled |
| Platform metadata | `platform_metadata.rs` | attributes of files | capture, apply | system calls | round trip | not modelled |
| Synthetic rehearsal, IZ1, CLI | `synthetic_migration_rehearsal.rs`, `iz1.rs`, `main.rs` | none of their own | - | - | - | not modelled |

Parts interact through the file system and by values. Pack and Restore read
the same Plan; Restore and Verified Copy open what Pack has published; Readiness
Evidence is given the reports of the other engines and examines the artifacts
they name; Push Plan takes the report of a Project audit and compares it with a
new observation; Project Capsule runs Pack and Restore inside; the Migration
workflow runs Pack, Offline recovery, Vaultwarden recovery and Verify in one
call. No part calls another one back, except that Restore pulls
authenticated content through a sink. The points where things meet are thus
the directories, the vault and the remote, and these are the state of the models.

`PROJECT.json` lists every hazard found in this survey at its line, with the
properties that would catch it, or why none does.

## 2. Modules

| Module | What it models |
|---|---|
| `PackDirectory` | names and files of a Pack's progress artifacts; the recognised layouts of a promotion |
| `PackResume` | `BundleEngine::pack` with every storage transition and every observation of the source; faults, kills, power losses, foreign files, edits of the source |
| `PackPromise` | abstract: what Pack promises the owner |
| `PackKeepsPromise` | the refinement mapping from `PackResume` to `PackPromise`, fairness and progress |
| `RestoreTransaction` | `RestoreEngine::restore` by several processes on one destination |
| `EvidenceStore` | the Readiness Evidence store by several callers |
| `ReadinessStatus` | `ReadinessEvidenceEngine::status` over the latest receipts, the attestations and the artifacts |
| `PushExecution` | Push Plans, their execution, the Project and the remote |
| `PushPromise` | abstract: the ledger that an execution promises |
| `PushKeepsPromise` | the refinement mapping from `PushExecution` to `PushPromise` |
| `ProjectCapsule` | review, capture, comparison and rehearsal of a Project that changes |
| `RecoveryWorld` | what the next four share: the Bundles at the callers' paths, the running calls, changes and faults |
| `OfflineRecovery` | the recovery document: `write`, `rehearse`, `load` |
| `VaultwardenRecovery` | the note: installation, preflight, `store_and_rehearse`, `load` |
| `VerifiedCopy` | `copy_verified` |
| `MigrationWorkflow` | composes the three over `RecoveryWorld`: `capture` by several threads, then a copy with a stored method |
| `PackResumeProofs`, `RestoreTransactionProofs`, `EvidenceStoreProofs`, `ReadinessStatusProofs`, `PushExecutionProofs`, `ProjectCapsuleProofs`, `MigrationProofs`, `CopyProofs` | theorems |
| `MCEvidenceStore`, `MCPushExecution`, `MCMigrationWorkflow` | symmetry sets and definitions for TLC; the other modules are checked as they are |

### Conventions

*Storage.* A model has the directory as the running system sees it (`dir`,
`tree`) and `views`, the directories a power loss may leave. A change adds a
view, a synchronization of the directory leaves only the current one, and a
power loss picks any view. File bytes are `volatile` until the file is
synchronized; a power loss may leave volatile bytes `torn`. That is weaker than
any local file system the tool supports, except that views are prefixes of
the sequence of changes: changes of directories reach the disk in order.

*A call* is a program counter (`job.phase`, `call[c].phase`) and its local
variables. One action is one storage transition, command or read of the code, with
the checks that precede it in its guard. An action whose guard fails because the
code itself refuses is taken by `Refuse`, or ends the call with `Fail`, which does
what the code's error path does. `Fault` is a refusal by the storage at the same
point. `Kill` and `Restart` forget the call.

*The world.* Where a model is about things that change under a call, they change
between any two steps: `ReplaceBundle`, `ReplaceDocument`, `EditNote`, `ChangeVault`
(Migration), `Edit` (Capsule), `MoveLocal`, `MoveRemote` (Push). A property about them speaks of
what nobody touched since it was last authenticated (`touched`, `moved`), because
nothing else can be promised of a file that somebody exchanges.

*Budgets.* `MaxFaults`, `MaxKills`, `MaxPowerLosses`, `MaxForeign`, `MaxPauses`,
`MaxMoves`, `MaxMishaps` and `MaxChanges` bound how often the environment misbehaves, `MaxHarms`
how often it does so in Pack altogether;
`CaptureAttempts` is the code's own bound on the readings of an unstable source file (3).
Calls by the owner are not bounded, except in `ReadinessStatus`, where `MaxSteps`
counts the operations since the store was filled. Pools of identities (`Attempts`, `Dirs`,
`Digests`, `Executors`, `Plans`) and counters of them (`MaxBundles`, `MaxNotes`,
`MaxReceipts`, `MaxAttestations`) bound what exists at one time; in `PackResume` and
`RestoreTransaction` an identity that nothing mentions is reused. Runs set
`CHECK_DEADLOCK FALSE`, `readiness` excepted: when the pools and budgets are used up
the owner may simply do nothing more, as with a destination that Resume refuses.

### Pack (`PackDirectory`, `PackResume`)

Every attempt draws a new data encryption key, so an attempt stands for the
key, and `(kind, attempt)` for device and inode of a file. `content[a]` holds how
many items the Bundle file of attempt `a` has, whether it is sealed, what the
checkpoint counts, of which items an observation is recorded (`seen`) and which of these
no longer match the source (`stale`). The actions follow `pack`: `StartFresh`,
`ReconcilePromotion`, `PromoteResumed`, `StartResume` choose the branch at the entry;
`CreatePartial` .. `SyncFinal` are `write_bundle`; `StageItem`, `FillStage`, `DropStage`,
`AppendItem` and `MissItem` are `capture_regular_file`; `SyncPartial` ..
`SyncCheckpointDirectory` are `write_pack_checkpoint`; `StageJournal` .. `SyncDrop` are
`write_pack_promotion_journal` and `continue_pack_checkpoint_promotion`; `Unwind`
is the error path.

*The source.* `EditSource` edits one file between any two steps; every observation of it made
so far then is stale, in every pair. `capture_regular_file` observes, reads and
observes again. A file that differs, or cannot be observed (`MissItem`, `MissObservation`), costs a try;
after `CaptureAttempts` of them the item is recorded as Unverified, without an
observation, and the capture goes on (`NextTry`). A fresh Pack that pauses observes the items
it has not captured, and records none for one that cannot be observed (`Observed`,
`MissObservation`); a Resume takes the saved observations over (`RekeyPrefix`).
`authenticate_pack_checkpoint_at` is `Authentic`: the bytes are what the checkpoint records
(`Intact`), and every item has an observation that the source still shows (`Fresh`). So
every Resume refuses a pair of which either is not so, and so does a promotion in
progress once a file is edited; a call that is told so has no other way on than to restart.

*The promise.* `PackKeepsPromise` maps to `PackPromise` how many items are `Kept`: what the pair
that a Resume would look for (`Newest`: the saved one, or the advanced one of an
interrupted promotion) holds, in whichever directory a power loss leaves. Whether the next
call is `Ready` to resume is kept apart: `Accepted` is the conjunction of the code's
own conditions, `Promotable`, `Resumable` and `Reconcilable`. The promise lets an owner lose
readiness in three ways only: a pair is `Stale` (an item was not observed, or a file was
edited), power was lost, or a Resume was terminated while it captured, which is the
state of `pack_resume_refused` below; what was lost so need not come back. A call that ends by itself, whether
it reports Paused, is refused or fails, leaves what the next Resume accepts.

Abstractions: Migration Items are regular files with one stage per try; a read that fails
once the file is open is a `Fault` (the code returns the error); the stop of a cancellation
is a choice where an item is recorded, and `TerminateImmediately` is `Kill`; a check and the
transition right after it are one step, which ADR 0008 (37-41) accepts for
programs that do not cooperate; a file edited back to the very observation that was
recorded (length, times and identity) is not distinguished from one that stays edited;
the journal's staging name is unique and never
read, so the file is not kept. `FollowsAdvice` says whether the owner
packs afresh only when `advise_failed_pack` says Retry.

### Restore (`RestoreTransaction`)

`tree` is the destination with its control directory, journal and both sides
(staged, published) of each top-level entry; an entry is identified by the
staging directory in which it was created. `job.valid` holds the identities that
`validate_published_entries` recorded. `Ready` collects the conditions of the
code's checks per step.

Abstractions: an absent and an empty destination are one state; substitution of
the destination path itself, names outside the Plan, the mode of the root and
extended attributes are left out; there is one mode per top-level entry, given
before the final recheck as the code does for files (directories get theirs
after it); mode changes are durable at once, since each is followed by
`sync_all`; validation and mode normalization of a Resume are one step; writing
and synchronizing `journal.json.partial` are one step; the two synchronizations
after a move are one step.

### Readiness Evidence (`EvidenceStore`, `ReadinessStatus`)

In `EvidenceStore`, `dir` has records and candidates, `content` the fields of each record, `body` its
durability. Reading is one step although the code enumerates the directory (2571): records
never change, and the candidate rule refuses what is being published. All receipts are of one kind, the Plan and store
identity are fixed. Two records get equal digests only if they are
receipts or withdrawals with equal fields in the same second, because a claim
and an initialization carry random identities. The store's name in its parent
is taken to be durable once the store was synchronized. Reviews live in the memory of
the caller and die with it.

`ReadinessStatus` takes such a store as the latest receipt of each kind (with its
generation) and the set of standing attestations, and models what `status` concludes.
Each examination of an artifact is a step; the world may change once during a
status. The initial states are all stores with every receipt, or all but one of
`MayLack`; from there the owner records, attests, confirms a review that was prepared
earlier, withdraws, re-plans, audits and loads from Vaultwarden. `word` is a history
variable: for every claim, whether the owner reviewed it and then gave her word for it since
its latest receipt was recorded. No action reads it; `CompleteIsOwnersWord` compares
what a status concludes with it. Left out: coverage that the
Plan leaves unresolved (it always ends in an incomplete status), a second Project, and
rendering.

### Push Plan (`PushExecution`)

`local` and `remote` are the references, `was` the objects a remote reference
has ever had, `log[e]` the lines of the result log with how many are
synchronized, `pushed[e]` the actions for which this execution really moved the
remote. git is modelled from how the code calls it: `push local:remote` by name,
without force, so `Lands` pushes what the local reference has *then* and needs it
to be a descendant. Lost answers (`PushUnanswered`) may have landed. Each action
publishes its own reference and all are alike; drafting is one step; documents
are immutable; the report is the summary line of the log.

`PushPromise` reduces it to a ledger: how many actions are recorded, which were
published, whether it is closed. A step of the promise begins a ledger, publishes
the action after the recorded ones, or adds one entry; nothing takes an
entry back. The mapping reads the ledger off the synchronized prefix of the log.

### Project Capsule (`ProjectCapsule`)

The Project is a function from paths, in the order in which every walk visits them,
to versions and executable modes. `source` changes between any two reads; `job.seen`,
`job.body`, `job.held` and `job.post` are what the first observation, the Pack and the
second observation found, path by path. An edit gives a path a new version; an *undo*
gives it an older one, and is counted apart, since two equal observations prove
something only if nothing was undone between them. Names (`Destination`, one attempt and
one retained name per retry) and their links follow the storage convention.

Abstractions: one version stands for what a path, a git reference or the index
holds; Pack and Restore inside a capsule are a walk of their own, without the
storage transitions that `PackResume` and `RestoreTransaction` check; the support
report (locks, portability, LFS objects, hooks) is left out.

### Recovery and migration (`RecoveryWorld` .. `MigrationWorkflow`)

A Pack is numbered, and its number stands for the Bundle, for its identity and for
both Recovery Secrets. A document or a note holds two numbers: the secret, and the
Bundle identity written beside it; they differ only when somebody edited it.
`call[c]` has what one `capture` keeps in local variables, `paused` the slot that the
threads share, which is emptied when a Resume begins and filled when a Pack pauses.

Pack is one step with the outcomes that `PackPromise` allows: complete, paused with a
partial Bundle, or failed with or without one. Modelling assumptions: the session a
process was started with (`BW_SESSION`) is good for one login, so a change of the vault
closes it until a restart; the client and the vault change only after something has
observed them, and notes are edited only while a call or a report names them, since no
earlier change can be told from a different start; captures come before copies. Power
losses are left out of the document and the copy: each is synchronized before anything
relies on it, and the storage of both is one file. What the code decides by looking at a file's
identity and then does by name is two steps: a failed document is looked at
(`AbandonDocument`) and then removed (`RemoveFailed`), and so is the saved partial of a copy
(`LookAtSaved`, `RemoveSaved`); the destination is opened and authenticated before that
(`ReopenCompleted`), and looked at once more for the receipt (`ReturnReceipt`). `moved` holds the
files that others changed after the destination was opened, the saved partial after it was
looked at. Left out too: the encoding of the
document, validation of names, digests and permissions.

## 3. What is checked

| Run | Instance | Shows |
|---|---|---|
| `pack` | 2 items, 3 attempts, 2 tries for each item; 1 fault, 1 kill, 1 power loss, 1 foreign file, 2 edits or missed observations of the source, at most 3 of all these in one history; the owner follows the advice; fair (893,127 states) | `KeepsPromise`: Pack refines `PackPromise`; readiness is lost only as the promise says. `NoFalseCompletion`: the requested name has only a sealed, synchronized Bundle. `ForeignUntouched`. `PromotionFinishes`: an interrupted promotion ends, unless the source no longer matches it |
| `restore` | 1 restorer, 2 entries, 3 staging directories; 1 fault, 1 kill, 1 power loss, 1 foreign file, 1 pause; fair | `VisibleIsComplete`, `JournalAccounts` (an interruption can be resumed), `CompleteIsTrue`, `ModesAreFinal`, `PublicationRetained`, `PublicationIsExclusive`, `TransactionEnds` |
| `evidence_stands` | 2 callers, 4 records; 1 fault, 1 kill, 1 power loss | `HistoryStands`, `RecordedIsDurable`, `FailedNeverCurrent`, `AttestationsCohere` |
| `readiness` | 3 claims, 3 Bundles, 2 generations of receipts, 4 attestations, 3 steps | `CompleteIsRecoverable`: Complete Evidence is about one Bundle in three places, restored, opened by both methods. `CompleteIsOwnersWord`: the owner reviewed every required claim and confirmed it afterwards, since its latest receipt. `CompleteProjectIsSafe` (764,761 states) |
| `push_publishes` | 2 executions, 2 actions, 3 objects; 1 move, 1 mishap | `KeepsLedger`: the durable log refines `PushPromise`. `PublishedIsLogged`, `SuccessIsProven`, `CompleteIsTrue` |
| `capsule` | 3 paths (a database, its export, an executable), 2 attempts, 2 Bundles; 2 changes, 1 fault, 1 power loss | `SnapshotIsConsistent`, `RecommendedIsWhole`, `RestorableIsWhole`, `SealedStayLinked` |
| `migration` | 2 callers, 2 servers, 3 Bundles, 3 notes, copies of 2 blocks; 2 changes, 1 fault | `CompleteIsRecoverable`: a complete capture is recoverable both ways. `OfflineStandsFirst`: no note before the document opens the Bundle. `PausedIsKept`. `CopyIsWhole`, `ReceiptIsTrue`: what was published, and what a receipt names, is whole. `SavedPartialIsKept` (1.7 million states) |

Why these bounds: two items, entries or actions are the least for which something is
saved while something is outstanding, for which a rollback has an order and a
last action differs from the first. One of each harm in one run lets every pair of them
fall into one history, and `MaxHarms` = 3 of `pack` any three (a fault, then a kill in the
recovery from it, then a power loss; or an edit, a kill and a fault). Three
attempts are a saved pair, an advanced one and one that is being written; three staging
directories the same of Restore. Four records are the store, a receipt,
a claim and a withdrawal. Three objects with a fork allow a reference to be
ahead, diverged or absent. Three paths are the least for which a walk is before one
change and behind another; two changes the least for a value that is seen, replaced
and seen again. Three Bundles are the older one, a paused one and one that was packed
anew. Three steps of `readiness` are a review, what supersedes it, and the confirmation, and a
change of the world can fall inside the status after them. Two tries, two changes and a Resume
reach an item that is captured at its second reading, one that is given up, an observation that is
missed only for the checkpoint, and a file that is edited after a pause. More harms together, and
the code's three tries, are left to the proof.

The storage transitions of one call are exhausted in every run; what is small is the
number of interruptions, and the proofs of section 4 do not depend on it.

Mutants in the modules (definitions introduced as `Mutant:`) are the
plausible bugs that each property is known to catch, such as a forgotten
synchronization, a cleanup that removes by name, a status that trusts an old review or a
result log whose directory is not kept.

Symmetry is used only in runs without liveness.

### Fairness

`PackKeepsPromise!FairSpec` assumes weak fairness of the steps of a running call and
of `ReconcilePromotion`; `RestoreTransaction!FairSpec` of the steps of a call
and of `Resume`. A library call runs to its end on its caller's thread unless
it is killed, and kills are bounded. Fairness of the resuming call is an
assumption on the owner, whom `advise_failed_pack` and the Restore report tell
to resume; no fairness is assumed of faults, kills, pauses or of a fresh call.
`TransactionEnds` allows a transaction to rest where Resume refuses: that is
the code's design when foreign content is found. `PromotionFinishes` allows the same of a promotion
whose source was edited, which Resume refuses to continue (`bundle.rs:2144-2153`).

### Where the program disagrees with its documents

| Run | What happens |
|---|---|
| `pack_resume_refused` | A Resume that is killed before its first checkpoint leaves `.partial.resume`. Every later Resume tries to authenticate it (`bundle.rs:928`) and fails, although the saved pair authenticates |
| `restore_gap` | Complete removes staging before the journal (`restore.rs:1374`). A kill between the two leaves a transaction that Resume refuses, because it requires staging |
| `evidence_fork` | Two callers that read the same chain both publish its next sequence (`readiness_evidence.rs:954`); both succeed and the store is unreadable afterwards |
| `push_stale` | git pushes the reference by name (`push_plan.rs:924`): a commit made after the observation is published without review |
| `capsule_stale_plan` | The Plan of a capture is computed before its first observation (`project_capsule.rs:1387`): a file created in between is in both observations and in the expectation, and not in the Bundle, and the capture is verified |

Observed in the models without a run of their own. *Pack and Restore:*

- A failure while an item stage is copied (`bundle.rs:3391`) leaves the stage.
  The advice is Retry, and the retry is refused by that stage.
- A Pack that reports Paused may have recorded no observation of an item: of one that it gave up as
  Unverified (`bundle.rs:3414`), or that it failed to observe once for the checkpoint (`3071`). Every
  Resume then refuses the pair (`2134`), although no source file changes any more. It is one of the three
  ways in which `PackPromise` lets readiness go (`Stale`).
- A source that changes during a promotion stops it: the next Resume refuses both pairs, and as
  `advise_failed_pack` takes the layout for one to resume, it says so again.
- A Resume promotes a `.resume` checkpoint that it could read but never
  synchronized (`bundle.rs:932`); a later power loss can tear it when the saved pair
  is gone. `Disturbed` therefore excepts a power loss together with a kill from
  `KeepsPromise`, besides foreign files; `NoFalseCompletion` and `ForeignUntouched` hold with all.
- A fresh Pack during an interrupted promotion finds `.partial` free
  (`bundle.rs:976`) and makes the layout ambiguous. `FollowsAdvice` excludes it.
- A new Restore that fails to create the control directory because another call
  has just created it removes it in its cleanup (`restore.rs:299`).
- A concurrent Resume moves an entry back after another call's last recheck
  (`restore.rs:2378`), and that call reports Complete. With two restorers
  on one destination TLC violates `CompleteIsTrue`, `ModesAreFinal`, `JournalAccounts` and
  `PublicationRetained`, also with a single entry and no power loss for the first two; they
  are therefore properties of one restorer at a time, no run covers this hazard (an entry that is rolled
  back under a report is absent and not torn, so `VisibleIsComplete` holds), and `VisibleAreComplete`,
  `PublicationsAreExclusive` and `TypeCorrect` are proved of any number.
- The same move takes a file that has replaced a validated entry into staging,
  where it is deleted; `PublicationIsExclusive` excepts that step.

*Evidence and readiness:*

- A candidate left by a termination blocks every later operation
  (`readiness_evidence.rs:2586`); the documents say so. The limit of the store is not checked
  before a record is added (2575).
- New files under an approved root are noticed neither by the revalidation of the source
  (`bundle.rs:1147`) nor by the capsule evidence, as `DOGFOOD.md:14` says; the conclusion about Vaultwarden
  rests on the caller's earlier load; a restored directory is known by device
  and inode only; of a Project that needed no push the remote is read and not compared
  (`DOGFOOD.md:78`).

*Push and Project Capsule:*

- The expiry of a Push Plan is checked once, before the first action (`push_plan.rs:832`).
- A capture that has published its Bundle can still fail while it reads the modes
  (`project_capsule.rs:1421`); a failed capture leaves attempt names that refuse the
  next one (1394); a database export can change after it was validated (2169).

*Recovery and migration:*

- A failed document is looked at by device and inode, and then removed by name
  (`offline_recovery.rs:599-604`): a document that another program put there in between is
  removed. ADR 0011 (48) asks for the removal "when it remains safe to do so", which nothing but the
  look can tell. The saved partial of a copy is removed the same way (`bundle.rs:1440-1445`), so
  `SavedPartialIsKept` excepts what others put there after the look.
- The identifier of a created note is dropped with the error when its rehearsal or a
  later load fails (`migration_workflow.rs:315-320`, `336-342`), and a lost answer to the
  creation leaves a note nobody can name (`vaultwarden_recovery.rs:390-461`).
- A failure after Pack is complete loses the secrets, which were only in memory; a new
  capture is refused because the Bundle exists.
- A Resume that fails after its Bundle was published puts the paused Pack back
  (`migration_workflow.rs:257-262`), and the engine refuses every other capture until the process
  restarts.
- A termination between the creation of the document and its content leaves a file
  that refuses the next capture (`offline_recovery.rs:296` has the failure of reading its identity).
- A copy that is interrupted twice has `.partial` and `.partial.resume`, and every
  later call is refused (`bundle.rs:1257`). Publication renames whatever has the partial name;
  the reopening detects it, no receipt is returned, and the foreign file stays published.
  A destination that others replace after it was reopened is in the receipt all the same, and the saved
  partial is removed; `ReceiptIsTrue` and `SavedPartialIsKept` except it. A load for a copy takes any
  Bundle that the stored secret opens.

## 4. What is proved

Every theorem is about `Spec` for every value of the constants: any number of items,
entries, callers, Bundles, actions or paths, and any number of harms. Each proof module finds an
inductive invariant, shows it action by action, and derives the properties that the runs check.

**Pack** (`PackResumeProofs`), the first three for any owner (`FollowsAdvice` either way):

- `TypeCorrect`. `TypeOK` is not inductive: appending an item
  must not exceed the Plan, and a promotion must not count past its six
  transitions. `StepOK` says what each phase knows of that (a call that stages
  an item has one left, a move is transition 1 to 4, a removal 5 or 6, only a
  Resume re-encrypts a prefix), and `TypeInv == TypeOK /\ StepOK` is inductive.
- `CompletionIsTrue`: `Spec => []NoFalseCompletion`: in every directory a power loss
  may leave, the requested name links nothing of Pack's but a sealed, synchronized
  Bundle of every item. It is not inductive: publication renames what
  `OwnsOutput` finds, and a writer changes the content of its attempt. `CompletionInv`
  adds that a call about to publish holds a finished Bundle, and that no view has
  the Bundle of a call that is still writing under the requested name; the
  choice from `FreeAttempts` establishes the latter.
- `ForeignIsUntouched`: `Spec => ForeignUntouched`. Every step changes names only
  by a rename to a free name or by a removal or move of an identity that was
  checked, and no such identity is foreign; `TypeInv` says which transition a
  promotion is at.
- `PackKeepsItsPromise`: `FollowsAdvice` implies `Spec => KeepsPromise`, the refinement of
  `PackPromise`. The hypothesis is needed: an owner who packs afresh during an interrupted
  promotion makes its layout ambiguous (section 3), and what was saved is not found again. The
  promise ends when it is `Disturbed`, which is never undone (`StaysDisturbed`); until then
  `SavedInv`, which is `ProgressParts` and `SourcesOK`, is inductive. `ProgressParts` says of

  - every view with an interrupted promotion (`PromotionOK`): its journal names a saved and an
    advanced attempt, after some number k of the six transitions the names hold exactly what k leaves
    (`Sits`), and both pairs are readable (`Good`), durable unless a termination let
    them through (`Firm`), and the advanced one has no fewer items (`Worthy`);
  - a call that writes (`WritingOK`, `CapturedOK`): its pair is in its output names, a resumed pair
    stands beside it, and at each phase what it has captured is no less than what it
    resumed;
  - a call that promotes (`PromotingOK`): the same of its own k, with the journal gone
    only before the first transition and after the last;
  - the destination (`DestinationOK`): free until the call publishes, and in every view the Bundle's
    when a call cleans up what the Bundle supersedes.

  `SourcesOK` says that while no source file was edited and no observation missed, every pair with a
  checkpoint has a current observation of every item, and so has the call that writes one of all it
  has captured.

  Under it, what the next Resume keeps of a view is one number (`HeldIsWorth`): the items
  of the advanced pair while a promotion is interrupted, else those of the saved pair if it is
  durable. Each action then either `Advances` (no view but the new directory is added, no older
  view loses what it holds, and the new directory holds no less than the old one unless the Bundle is
  published) or `Recovers` (a power loss picks one of the views), and `TellsTruth` in what it
  reports. `HeldGrows` and `PublishedStays` lift this from a directory to all that a power loss may
  leave. That the next Resume is accepted is an argument of its own: a directory is `Clear` when no finished
  `.resume` pair waits where no Resume takes it over, and progress saved in a clear one is accepted
  unless it is stale (`AtRest`). A running call that does not capture is clear (`BusyIsClear`), and
  one that captures becomes so by its report or by the unwinding of its error path (`IdleStep`); only a
  termination or a power loss skips that (`StepReady`), and a call that reports Paused has
  promoted (`ToldReady`). `StepKeepsPromise` names the step of `PackPromise`. TLC checked
  the invariants on small instances before the proof.

**Restore** (`RestoreTransactionProofs`), the first three for any number of concurrent restorers:

- `TypeCorrect`, from what each phase holds (`Holding`).
- `VisibleAreComplete`. `FullInv` says that in every view a published file is
  synchronized, and a staged one is, or is still in the staging directory that has its name; that
  a call which publishes has a synchronized staging directory, a call which fills one has
  not, and no two calls fill the same one. A staging directory belongs to the call that
  made it, by its fresh identity, until its files are synchronized; a Resume that finds it
  later finds it synchronized or refuses.
- `PublicationsAreExclusive`, which needs of the invariant only which phase removes what.
- `JournalsAccount`, `PublicationsAreRetained`, `CompletesAreTrue`, `ModesAreFinalAtEnd`, with the
  hypothesis `Restorers = {r}`: any number of calls one after the other, interrupted anywhere, and other
  programs beside them. Two restorers at a time violate all four (section 3). `AccountInv`
  says of every view that its journal accounts for every entry (`ViewsAccounted`), and stays
  while one is restored (`Retained`), and of the call what it stands on at each phase
  (`Stands`: which entries are published and which are staged when it is at its i-th), that the journal it
  is writing announces the move it makes next and already fits the entries (`Writes`), that it
  keeps the recovery state once an entry is restored (`Keeps`), and which entries it has
  validated and finalized (`Moded`). The argument is that of a write-ahead log: an intent
  is durable before its move, so whichever of the two journals and whichever side
  of the one entry in transit a power loss leaves, they fit; every other entry is on the side
  that the count says.

**Readiness Evidence** (`EvidenceStoreProofs`), for any number of callers:

- `TypeCorrect`.
- `RecordedAreDurable`, `HistoryAlwaysStands`. A record is linked before the store is
  synchronized, so a power loss may take a linked record away. `DurableInv` says that a view
  lacks only records whose candidate is still there (`Lacking`); a candidate refuses every
  reading, so what a reading has shown is in every view (`Shown`). A call removes its candidate only when
  its record is in every view (`Placed`).
- `FailedAreNeverCurrent`: a record without its candidate was reported as recorded
  (`Reports`), in every view.
- `AttestationsAlwaysCohere`. `ChainInv` says that what readings have shown is one coherent
  chain, and that whatever was drawn from any of them refers into it and has the next
  sequence; a readable store that extends it is a chain too. That a chain has no gap is shown with the
  least number that is missing.

**Readiness status** (`ReadinessStatusProofs`), for any claims, Bundles, receipts and attestations:

- `TypeCorrect`, with the finiteness of the standing attestations.
- `CompletesAreRecoverable`. `ExaminedOK` says of every examination since the Bundle was
  opened that it tied its artifact to that Bundle, unless that artifact is the one
  that moved meanwhile.
- `CompletesAreOwnersWord`. `WordOK` says that an attestation which stands about the
  latest receipt of its claim was given since that receipt (its review is of a generation, and the
  generation of the receipt has grown with every newer one), and that a review in hand of the
  latest receipt is remembered as one; `StatedOK` says that what the status concluded of the
  attestations still is so while it runs. A review that was superseded and then confirmed is
  where the two differ.
- `CompleteProjectsAreSafe`: `ProjectOK` says the same of the capsule that both receipts are
  about, and of what is retained or published.

**Push Plan** (`PushExecutionProofs`), for any number of executions of any Push Plans:

- `TypeCorrect`, `PublishedAreLogged`, `SuccessesAreProven`, `CompletesAreTrue`, from
  `PushInv`: a call is at the action after those that its log calls succeeded, goes on only
  when all of its log is synchronized, and publishes only when the log's directory
  is; a document is immutable once it is drafted, so what was proven stays what it proposes.
- `ExecutionsKeepLedgers`: `Spec => KeepsLedger`, the refinement of `PushPromise`. Besides
  `PushInv` it needs that at most one line is not synchronized, and only the header
  before the directory is (`LedgerOK`); then a synchronization, or a power loss that happens
  to leave a line, is at most one entry (`AdvanceEnters`), and every step of `Next` is a step of
  the promise or a stutter (`StepKeepsPromise`).

**Project Capsule** (`ProjectCapsuleProofs`), for any Project and retry policy:

- `TypeCorrect`; `SealedAreLinked` (publication links before it removes, so every view that
  had a name of a sealed attempt keeps one); `RestorablesAreWhole`.
- `SnapshotsAreConsistent`, `RecommendedAreWhole`: the argument of a double collect. While
  nothing is undone, versions only grow; so on every path what was seen first, what the
  path held when the first observation ended, what was packed and what was seen last are in this order
  (`Ordered`), and when the first and the last are equal all of them are.

**Recovery and migration** (`MigrationProofs`, `CopyProofs`), for any number of callers, servers and notes:

- `PausedAreKept`: the lock on the slot and the numbers of the partial Bundles (`SlotInv`):
  no two Packs have one number, so the context in the slot is that of the saved partial
  Bundle, or with the one call that resumes it.
- `CompleteAreRecoverable`: for every phase of a capture, `Witnessed` says which artifacts it
  has authenticated and what they hold if nobody has touched them since; `Reported` says the same of a
  report.
- `OfflineAlwaysFirst`: a Bundle that Pack may still publish is `Unseen`, at no path, in no
  note and with no other call, so what a note opens was published once, at one caller's path,
  and that caller's document was rehearsed before (`PublishedOnce`, `DocumentFirst`).
- `CopiesAreWhole`, `SavedPartialsAreKept`, `ReceiptsAreTrue` (`CopyProofs`), for copies of any length.
  `FilesInv`: what a copy is about to publish was authenticated or is another program's by now
  (`Authenticated`); the saved partial file that it remembers is the one that it compared, because
  any other has a newer identity (`Versioned`, `RemembersSaved`). `ReceiptInv`: from the reopening to
  the receipt the destination is whole, or others have moved it (`CopyStands`); a partial that is to be
  removed is the one compared, or others have moved it since it was looked at (`LookedAt`); until a copy
  has its receipt there is none (`NoReceiptYet`).
- `TypeCorrect` (`CopyProofs`): a call that fetches or copies runs alone (`OneCopy`), so the
  one state of a copy is that call's.

The assumptions are those the modules name: the "no value" constants are not members of their sets,
counts are natural numbers, histories of objects are reflexive. TLC evaluates them in the runs.

Only model-checked: the liveness properties (`PromotionFinishes`, `TransactionEnds`), because the
prover has neither ENABLED nor the rules of fairness. Every other property of a passing run is stated
by a theorem, Restore's last four under one restorer and `KeepsPromise` under
`FollowsAdvice`, as the runs have it.

## 5. Not modelled, and why

Record framing, encryption, encodings, path and name validation, the
inventory of directories, platform metadata, subprocess limits and rendering:
their difficulty is in data, which tests with known answers reach. The
protection candidates, the reports and the command line keep nothing between calls; the
synthetic rehearsal is a script that calls the other engines; IZ1 is a
single-file prototype format that is only read. Of the Project audit and of Plan
approval only what other parts rely on later is modelled: a held audit that the
Project outlives, and an approval that a change ends. The hazards without a
property are listed in `PROJECT.json` with their reasons; most are the observations above, where the code's
answer is to refuse and leave the decision to the owner.

## 6. What is left

1. Renewal and three-way comparison of Plans.
2. What two restorers on one destination may still rely on, beyond complete and exclusive
   publication.
