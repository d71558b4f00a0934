---------------------------- MODULE EvidenceStore ----------------------------
(***************************************************************************)
(* The Readiness Evidence store: a directory of immutable records, each of *)
(* which names the digest of the one before it.  A record is written under *)
(* a candidate name, synchronized, linked under its own name, and the      *)
(* candidate is removed; a candidate that stays makes every reading fail.  *)
(*                                                                         *)
(* A caller is a process that runs one ReadinessEvidenceEngine operation   *)
(* after another.  Reading the store is one step (records never change);   *)
(* every file operation of publish_record is a step of its own.            *)
(***************************************************************************)
EXTENDS Integers, FiniteSets

CONSTANTS
  Callers,         \* processes that use the store
  Digests,         \* digests of records
  NoDigest,        \* no record
  MaxRecords,      \* MAX_RECORDS
  MaxFaults,       \* storage refusals in a behaviour
  MaxKills,        \* process terminations in a behaviour
  MaxPowerLosses   \* power losses in a behaviour

ASSUME DigestsAssumption == NoDigest \notin Digests
ASSUME LimitsAssumption ==
  /\ MaxRecords \in Nat
  /\ MaxFaults \in Nat
  /\ MaxKills \in Nat
  /\ MaxPowerLosses \in Nat

VARIABLES
  dir,      \* the store as the running system sees it
  views,    \* the stores a power loss may leave, dir among them
  content,  \* what each digest is the digest of
  body,     \* whether the bytes of each linked record are on the disk
  job,      \* the local state of the call of each caller
  reviews,  \* what the attestations that each caller has prepared refer to
  seen,     \* the records of all successful readings
  told,     \* the records whose calls reported success, and failure
  harm      \* how many faults, kills and power losses there were

storage == <<dir, views>>
vars == <<dir, views, content, body, job, reviews, seen, told, harm>>

(***************************************************************************)
(* Types                                                                   *)
(***************************************************************************)
MaybeDigest == Digests \cup {NoDigest}

Kinds == {"none", "store", "receipt", "claim", "withdrawal"}

\* StoredRecordContent: of is the receipt an attestation refers to, or the
\* attestation a withdrawal names.  All receipts are of one kind, and the Plan
\* and the store identity are fixed.
Content == [kind : Kinds, seq : Nat, previous : MaybeDigest, of : MaybeDigest]

Blank == [kind |-> "none", seq |-> 0, previous |-> NoDigest, of |-> NoDigest]

Store == [made : BOOLEAN, candidates : SUBSET Digests, records : SUBSET Digests]

NoStore == [made |-> FALSE, candidates |-> {}, records |-> {}]

\* Transitions of publish_record, in the order of the code.
Phases == {"idle", "secure", "create", "write", "sync", "publish", "sync store", "remove"}

Job == [phase     : Phases,
        record    : MaybeDigest,   \* the record being published
        first     : BOOLEAN,       \* the call initializes the store
        candidate : {"empty", "volatile", "durable"}]

Idle == [phase |-> "idle", record |-> NoDigest, first |-> FALSE, candidate |-> "empty"]

TypeOK ==
  /\ dir \in views
  /\ \A v \in views : v \in Store /\ (v = NoStore \/ v.made)
  /\ content \in [Digests -> Content]
  /\ body \in [Digests -> {"none", "volatile", "durable", "torn"}]
  /\ job \in [Callers -> Job]
  /\ reviews \in [Callers -> SUBSET MaybeDigest]
  /\ seen \subseteq Digests
  /\ told.recorded \subseteq Digests /\ told.failed \subseteq Digests
  /\ harm.fault \in 0 .. MaxFaults
  /\ harm.kill \in 0 .. MaxKills
  /\ harm.power \in 0 .. MaxPowerLosses

(***************************************************************************)
(* read_validated_records                                                  *)
(***************************************************************************)
\* The record continues the one before it, or initializes the store.
Continues(d, records) ==
  LET c == content[d] IN
  IF c.kind = "store"
    THEN c.seq = 0
    ELSE /\ c.previous \in records
         /\ c.seq = content[c.previous].seq + 1

\* Records are enumerated in the order of their names, which is that of their
\* sequences; two records of one sequence cannot both continue the chain.
Chained(records) ==
  /\ \A d \in records : Continues(d, records)
  /\ \A d, e \in records : content[d].seq = content[e].seq => d = e

\* Mutant: a candidate that stays does not block the reader.
ReadableOverCandidates(v) ==
  /\ v.records # {}
  /\ Cardinality(v.records) <= MaxRecords
  /\ \A d \in v.records : body[d] # "torn"
  /\ Chained(v.records)

Readable(v) ==
  /\ v.candidates = {}
  /\ v.records # {}
  /\ Cardinality(v.records) <= MaxRecords
  /\ \A d \in v.records : body[d] # "torn"
  /\ Chained(v.records)

Last(records) ==
  CHOOSE d \in records : \A e \in records : content[e].seq <= content[d].seq

Receipts(records) == {d \in records : content[d].kind = "receipt"}

\* Mutant: a withdrawn attestation is still active.
WithdrawnForgotten(records) == {}

\* active_attestation_status
Withdrawn(records) == {content[d].of : d \in {e \in records : content[e].kind = "withdrawal"}}

Active(records) == {d \in records : content[d].kind = "claim"} \ Withdrawn(records)

(***************************************************************************)
(* Steps of a call                                                         *)
(***************************************************************************)
At(p, phase) == job[p].phase = phase

Become(p, j) == job' = [job EXCEPT ![p] = j]

Goto(p, phase) == Become(p, [job[p] EXCEPT !.phase = phase])

Mine(p) == job[p].record

\* A change of the directory that no power loss is sure to keep.
Relink(s) == dir' = s /\ views' = views \cup {s}

\* Every successful reading is remembered.
Read == Readable(dir) /\ seen' = seen \cup dir.records

\* A record draws its digest from its content.  Two records are equal only if
\* nothing random is in them: a receipt, or a withdrawal, of the same second.
Digest(c) ==
  {d \in Digests : \/ content[d] = Blank
                   \/ content[d] = c /\ c.kind \in {"receipt", "withdrawal"}}

Begin(p, c, first) ==
  \E d \in Digest(c) :
    /\ content' = [content EXCEPT ![d] = c]
    /\ Become(p, [Idle EXCEPT !.phase = "create", !.record = d, !.first = first])

\* The call reads the store and goes on to publish a record after the last.
Append(p, kind, of) ==
  /\ Read
  /\ LET last == Last(dir.records) IN
       Begin(p, [kind |-> kind, seq |-> content[last].seq + 1, previous |-> last, of |-> of],
             FALSE)
  /\ UNCHANGED <<storage, body, reviews, told, harm>>

(***************************************************************************)
(* The operations                                                          *)
(***************************************************************************)
\* The directory is created, then restricted; both precede the first record.
Initialize(p) ==
  /\ At(p, "idle")
  /\ ~ dir.made
  /\ Relink([dir EXCEPT !.made = TRUE])
  /\ Become(p, [Idle EXCEPT !.phase = "secure", !.first = TRUE])
  /\ UNCHANGED <<content, body, reviews, seen, told, harm>>

Secure(p) ==
  /\ At(p, "secure")
  /\ Begin(p, [Blank EXCEPT !.kind = "store"], TRUE)
  /\ UNCHANGED <<storage, body, reviews, seen, told, harm>>

RecordReceipt(p) == At(p, "idle") /\ Append(p, "receipt", NoDigest)

\* The review refers to the latest receipt, or to none if its claim is about
\* no operation of Iniza.
PrepareAttestation(p) ==
  /\ At(p, "idle")
  /\ Read
  /\ LET receipts == Receipts(dir.records) IN
       \E r \in {NoDigest} \cup (IF receipts = {} THEN {} ELSE {Last(receipts)}) :
         reviews' = [reviews EXCEPT ![p] = @ \cup {r}]
  /\ UNCHANGED <<storage, content, body, job, told, harm>>

ConfirmAttestation(p) ==
  /\ At(p, "idle")
  /\ \E r \in reviews[p] : Append(p, "claim", r)

WithdrawAttestation(p) ==
  /\ At(p, "idle")
  /\ \E a \in Active(dir.records) : Append(p, "withdrawal", a)

Status(p) ==
  /\ At(p, "idle")
  /\ Read
  /\ UNCHANGED <<storage, content, body, job, reviews, told, harm>>

(***************************************************************************)
(* publish_record                                                          *)
(***************************************************************************)
\* Candidate and record are created exclusively, in a store that exists.
Ready(p) ==
  /\ At(p, "create") => dir.made /\ Mine(p) \notin dir.candidates
  /\ At(p, "publish") => Mine(p) \in dir.candidates /\ Mine(p) \notin dir.records
  /\ At(p, "remove") => Mine(p) \in dir.candidates

Does(p, phase) == At(p, phase) /\ Ready(p)

OnlyStorage == UNCHANGED <<content, body, reviews, seen, told, harm>>

CreateCandidate(p) ==
  /\ Does(p, "create")
  /\ Relink([dir EXCEPT !.candidates = @ \cup {Mine(p)}])
  /\ Goto(p, "write") /\ OnlyStorage

WriteCandidate(p) ==
  /\ Does(p, "write")
  /\ Become(p, [job[p] EXCEPT !.phase = "sync", !.candidate = "volatile"])
  /\ UNCHANGED storage /\ OnlyStorage

\* Mutant: the candidate is not synchronized.
SyncCandidateForgotten(p) ==
  /\ Does(p, "sync")
  /\ Goto(p, "publish")
  /\ UNCHANGED storage /\ OnlyStorage

SyncCandidate(p) ==
  /\ Does(p, "sync")
  /\ Become(p, [job[p] EXCEPT !.phase = "publish", !.candidate = "durable"])
  /\ UNCHANGED storage /\ OnlyStorage

PublishRecord(p) ==
  /\ Does(p, "publish")
  /\ Relink([dir EXCEPT !.records = @ \cup {Mine(p)}])
  /\ body' = [body EXCEPT ![Mine(p)] = job[p].candidate]
  /\ Goto(p, "sync store")
  /\ UNCHANGED <<content, reviews, seen, told, harm>>

\* The store's own name in its parent is taken to be kept by this, too.
SyncStore(p) ==
  /\ Does(p, "sync store")
  /\ views' = {dir}
  /\ Goto(p, "remove")
  /\ UNCHANGED dir /\ OnlyStorage

RemoveCandidate(p) ==
  /\ Does(p, "remove")
  /\ Relink([dir EXCEPT !.candidates = @ \ {Mine(p)}])
  /\ Become(p, Idle)
  /\ told' = [told EXCEPT !.recorded = @ \cup {Mine(p)}]
  /\ UNCHANGED <<content, body, reviews, seen, harm>>

(***************************************************************************)
(* Errors                                                                  *)
(***************************************************************************)
\* Mutant: a failed initialization removes the directory and not what is in it.
LeftBehindOrphaned(p) == IF job[p].first THEN [dir EXCEPT !.made = FALSE] ELSE dir

\* Mutant: a failed call removes its candidate.
LeftBehindTidied(p) == [dir EXCEPT !.candidates = @ \ {Mine(p)}]

\* A failed initialization removes the directory if nothing is in it; nothing
\* else is cleaned up.
LeftBehind(p) ==
  IF job[p].first /\ ~ At(p, "secure") /\ dir.candidates \cup dir.records = {}
    THEN NoStore ELSE dir

Fail(p) ==
  /\ Relink(LeftBehind(p))
  /\ Become(p, Idle)
  /\ told' = [told EXCEPT !.failed = @ \cup ({Mine(p)} \ {NoDigest})]
  /\ UNCHANGED <<content, body, reviews, seen>>

Refuse(p) == ~ Ready(p) /\ Fail(p) /\ UNCHANGED harm

Fault(p) ==
  /\ ~ At(p, "idle") /\ Ready(p)
  /\ harm.fault < MaxFaults
  /\ harm' = [harm EXCEPT !.fault = @ + 1]
  /\ Fail(p)

(***************************************************************************)
(* The environment                                                         *)
(***************************************************************************)
Kill(p) ==
  /\ ~ At(p, "idle")
  /\ harm.kill < MaxKills
  /\ harm' = [harm EXCEPT !.kill = @ + 1]
  /\ Become(p, Idle)
  /\ reviews' = [reviews EXCEPT ![p] = {}]
  /\ UNCHANGED <<storage, content, body, seen, told>>

\* The directory falls back to one that existed since it was last synchronized,
\* and any record that was never synchronized may be torn.
PowerLoss ==
  /\ harm.power < MaxPowerLosses
  /\ harm' = [harm EXCEPT !.power = @ + 1]
  /\ \E v \in views : dir' = v /\ views' = {v}
  /\ \E torn \in SUBSET {d \in Digests : body[d] = "volatile"} :
       body' = [d \in Digests |-> CASE body[d] # "volatile" -> body[d]
                                    [] d \in torn -> "torn"
                                    [] OTHER -> "durable"]
  /\ job' = [p \in Callers |-> Idle]
  /\ reviews' = [p \in Callers |-> {}]
  /\ UNCHANGED <<content, seen, told>>

(***************************************************************************)
(* The specification                                                       *)
(***************************************************************************)
Init ==
  /\ dir = NoStore
  /\ views = {NoStore}
  /\ content = [d \in Digests |-> Blank]
  /\ body = [d \in Digests |-> "none"]
  /\ job = [p \in Callers |-> Idle]
  /\ reviews = [p \in Callers |-> {}]
  /\ seen = {}
  /\ told = [recorded |-> {}, failed |-> {}]
  /\ harm = [fault |-> 0, kill |-> 0, power |-> 0]

Operate(p) == \/ Initialize(p) \/ RecordReceipt(p) \/ Status(p)
              \/ PrepareAttestation(p) \/ ConfirmAttestation(p) \/ WithdrawAttestation(p)

Publish(p) == \/ Secure(p)
              \/ CreateCandidate(p) \/ WriteCandidate(p) \/ SyncCandidate(p)
              \/ PublishRecord(p) \/ SyncStore(p) \/ RemoveCandidate(p)

Next == \/ \E p \in Callers : Operate(p) \/ Publish(p) \/ Refuse(p) \/ Fault(p) \/ Kill(p)
        \/ PowerLoss

Spec == Init /\ [][Next]_vars

(***************************************************************************)
(* Safety                                                                  *)
(***************************************************************************)
\* What a successful reading has shown stays part of every later reading, also
\* after a power loss: a record cannot be read before it is durable, because
\* its candidate blocks the reader until the directory is synchronized
\* (publish_record, read_validated_records).
HistoryStands == \A v \in views : Readable(v) => seen \subseteq v.records

\* A record whose call reported success is on the disk for good
\* (record_receipt, confirm_attestation, withdraw_attestation).
RecordedIsDurable ==
  \A d \in told.recorded : /\ body[d] = "durable"
                           /\ \A v \in views : d \in v.records

\* A record whose call reported failure never becomes current evidence,
\* whichever transition failed, also after a power loss, unless an equal
\* record was reported as recorded (publish_record leaves the candidate).
FailedNeverCurrent ==
  \A v \in views : Readable(v) => v.records \cap (told.failed \ told.recorded) = {}

\* In every readable store a claim refers to an earlier receipt, and a
\* withdrawal to an earlier claim that no other withdrawal names, so that
\* active_attestation_status accepts the records of any interleaving.
AttestationsCohere ==
  \A v \in views : Readable(v) =>
    \A d \in v.records :
      /\ content[d].kind = "claim" => content[d].of \in Receipts(v.records) \cup {NoDigest}
      /\ content[d].kind = "withdrawal" =>
           /\ content[d].of \in v.records
           /\ content[content[d].of].kind = "claim"
           /\ content[content[d].of].seq < content[d].seq
           /\ \A e \in v.records :
                content[e].kind = "withdrawal" /\ content[e].of = content[d].of => e = d

(***************************************************************************)
(* What the documentation says                                             *)
(***************************************************************************)
\* Every record contains a monotonically increasing sequence.
SequenceIncreases ==
  \A d, e \in dir.records : content[d].seq = content[e].seq => d = e
=============================================================================
