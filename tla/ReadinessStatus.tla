---------------------------- MODULE ReadinessStatus ----------------------------
(***************************************************************************)
(* ReadinessEvidenceEngine::status: what the owner's receipts and          *)
(* attestations are worth now.                                             *)
(*                                                                         *)
(* The store is the one of EvidenceStore, seen from its readers: of every  *)
(* kind of receipt only the latest counts, so that is what is kept here.   *)
(* A status reads the receipts and then examines the artifacts one after   *)
(* the other, and an artifact, the source, the Project or its remote may   *)
(* change between any two of these examinations.                           *)
(***************************************************************************)
EXTENDS Integers, FiniteSets

CONSTANTS
  Claims,         \* the claims that the owner attests, ClaimKinds or some of them
  MayLack,        \* the receipts of which the store may lack one at first
  MaxBundles,     \* Bundles, those of the Plan and those of the Project
  MaxReceipts,    \* receipts of a kind
  MaxAttestations,\* attestations confirmed in a behaviour
  MaxSteps        \* operations of the owner and changes of the world

\* What each claim is about: the kind of its receipt, or nothing.
About == [report_reviewed        |-> "report",
          service_confirmed      |-> "vaultwarden",
          device_access          |-> "vaultwarden",
          multi_factor           |-> "vaultwarden",
          build_completed        |-> "rehearsal",
          second_environment     |-> "restore",
          backup_validated       |-> "nothing",
          retained               |-> "capture"]

ClaimKinds == DOMAIN About

ASSUME ClaimsAssumption == Claims \subseteq ClaimKinds
ASSUME ReadinessBounds ==
  /\ MaxBundles \in Nat \ {0, 1} /\ MaxReceipts \in Nat \ {0}
  /\ MaxAttestations \in Nat /\ Cardinality(Claims) <= MaxAttestations
  /\ MaxSteps \in Nat

VARIABLES
  plan,        \* the Plan the owner has, the store is bound to HeaderPlan
  world,       \* the source, the artifacts, the Project and its remote
  bundles,     \* what each Bundle was packed of
  hand,        \* the report of the owner's last operation, not yet recorded
  loaded,      \* the Bundle whose secret was loaded from Vaultwarden
  audit,       \* the audit of the Project that the owner has
  receipts,    \* the latest receipt of each kind
  review,      \* the attestation the owner is reviewing
  active,      \* the attestations that were confirmed and not withdrawn
  word,        \* what the owner did about each claim since its latest receipt
  job,         \* the running status
  steps

vars == <<plan, world, bundles, hand, loaded, audit, receipts, review, active, word, job,
          steps>>

owned == <<plan, bundles, hand, loaded, audit, receipts, review, active, word>>

(***************************************************************************)
(* Types                                                                   *)
(***************************************************************************)
Ids     == 1 .. MaxBundles
Nothing == 0
Plans   == 1 .. 2
HeaderPlan == 1

Versions == 0 .. MaxSteps

Copies == {"external", "icloud"}
Kinds  == Copies \cup {"bundle", "offline", "vaultwarden", "report", "restore",
                       "capture", "rehearsal", "push"}

ASSUME LackAssumption == MayLack \subseteq Kinds

\* Places hold a Bundle, the secret of one, or what was restored of one.
Places == Copies \cup {"bundle", "document", "note", "restored", "capsule"}

\* What may change while a status is running.
Things == Places \cup {"source", "local", "remote", "dirty"}

World == [at     : [Places -> 0 .. MaxBundles],
          source : Versions,
          local  : Versions,      \* the Project's branch
          known  : Versions,      \* the remote's branch as last seen
          remote : Versions,
          dirty  : BOOLEAN]       \* the Project has state that only it has

Packed == [plan : Plans, version : Versions]

\* bundle is the identity of a Bundle; mark is the digest of the file for a
\* verification and the published version for a push; sound is the report's own
\* verdict: a durable copy, a verified capture, a complete push.
Receipt == [gen : 0 .. MaxReceipts, bundle : 0 .. MaxBundles, mark : Nat,
            sound : BOOLEAN]

NoReceipt == [gen |-> 0, bundle |-> Nothing, mark |-> 0, sound |-> FALSE]

Report == [kind : Kinds \cup {"nothing"}, bundle : 0 .. MaxBundles, mark : Nat,
           sound : BOOLEAN]

NoReport == [kind |-> "nothing", bundle |-> Nothing, mark |-> 0, sound |-> FALSE]

Review == [claim : Claims \cup {"nothing"}, gen : 0 .. MaxReceipts]

NoReview == [claim |-> "nothing", gen |-> 0]

Attestation == [id : 1 .. MaxAttestations, claim : Claims, gen : 0 .. MaxReceipts]

Checks == Copies \cup {"plan", "report", "bundle", "offline", "vaultwarden", "restore",
                       "attested", "restorable", "synchronized"}

Conclusions == {"unknown", "missing", "invalidated", "current"}

Phases == {"idle", "bundle", "source", "offline", "copies", "vaultwarden", "restore",
           "capsule", "publication", "report"}

Job == [phase  : Phases,
        secret : 0 .. MaxBundles,           \* the Bundle whose secret was given
        found  : [Checks -> Conclusions],
        moved  : Things \cup {"nothing"}]   \* what changed since the status began

Idle == [phase |-> "idle", secret |-> Nothing, found |-> [c \in Checks |-> "unknown"],
         moved |-> "nothing"]

\* Every variable has its type; only verified captures and restorable
\* rehearsals were recorded, and no attestation has the identifier of another.
TypeOK ==
  /\ plan \in [hash : Plans, approved : BOOLEAN]
  /\ world \in World
  /\ bundles \in [Ids -> Packed]
  /\ hand \in Report
  /\ loaded \in 0 .. MaxBundles
  /\ audit \in [local : Versions, ahead : BOOLEAN, dirty : BOOLEAN]
  /\ receipts \in [Kinds -> Receipt]
  /\ \A k \in {"capture", "rehearsal"} : receipts[k].gen # 0 => receipts[k].sound
  /\ review \in Review
  /\ active \subseteq Attestation
  /\ \A a, b \in active : a.id = b.id => a = b
  /\ word \in [Claims -> {"none", "reviewed", "given"}]
  /\ job \in Job
  /\ steps \in Versions

(***************************************************************************)
(* Operations of the owner                                                 *)
(***************************************************************************)
Step == steps < MaxSteps /\ steps' = steps + 1

\* The owner works between two statuses; the world does not wait.
Owner == job.phase = "idle" /\ Step

Have(report) == hand' = report

Of(kind, bundle) == [kind |-> kind, bundle |-> bundle, mark |-> 0, sound |-> TRUE]

Place(p, bundle) == world' = [world EXCEPT !.at[p] = bundle]

Unused(id) == /\ \A p \in Places : world.at[p] # id
              /\ \A k \in Kinds : receipts[k].bundle # id
              /\ id # loaded /\ id # hand.bundle

\* A Bundle is packed of the approved Plan; its destination must be free, so the
\* owner took the old one away.
PackBundle ==
  /\ Owner /\ plan.approved
  /\ \E id \in Ids :
       /\ Unused(id)
       /\ bundles' = [bundles EXCEPT ![id] = [plan |-> plan.hash,
                                              version |-> world.source]]
       /\ Place("bundle", id)
  /\ UNCHANGED <<plan, hand, loaded, audit, receipts, review, active, word, job>>

VerifyBundle ==
  /\ Owner /\ world.at["bundle"] # Nothing
  /\ Have(Of("bundle", world.at["bundle"]))
  /\ UNCHANGED <<plan, world, bundles, loaded, audit, receipts, review, active, word, job>>

\* OfflineRecoveryEngine: the document of the Bundle is written and rehearsed.
RehearseOffline ==
  /\ Owner /\ world.at["bundle"] # Nothing
  /\ Place("document", world.at["bundle"])
  /\ Have(Of("offline", world.at["bundle"]))
  /\ UNCHANGED <<plan, bundles, loaded, audit, receipts, review, active, word, job>>

\* The note of the Bundle is stored, loaded again and rehearsed.
RehearseVaultwarden ==
  /\ Owner /\ world.at["bundle"] # Nothing
  /\ Place("note", world.at["bundle"])
  /\ loaded' = world.at["bundle"]
  /\ Have(Of("vaultwarden", world.at["bundle"]))
  /\ UNCHANGED <<plan, bundles, audit, receipts, review, active, word, job>>

\* A copy may end up verified without being durable.
CopyBundle(place) ==
  /\ Owner /\ world.at["bundle"] # Nothing
  /\ Place(place, world.at["bundle"])
  /\ \E durable \in BOOLEAN : Have([Of(place, world.at["bundle"]) EXCEPT !.sound = durable])
  /\ UNCHANGED <<plan, bundles, loaded, audit, receipts, review, active, word, job>>

RestoreBundle ==
  /\ Owner /\ world.at["bundle"] # Nothing
  /\ Place("restored", world.at["bundle"])
  /\ Have(Of("restore", world.at["bundle"]))
  /\ UNCHANGED <<plan, bundles, loaded, audit, receipts, review, active, word, job>>

\* A capture that found the Project changing is not verified.
CaptureProject ==
  /\ Owner /\ plan.approved
  /\ \E id \in Ids, verified \in BOOLEAN :
       /\ Unused(id)
       /\ bundles' = [bundles EXCEPT ![id] = [plan |-> plan.hash,
                                              version |-> world.local]]
       /\ Place("capsule", id)
       /\ Have([Of("capture", id) EXCEPT !.sound = verified])
  /\ UNCHANGED <<plan, loaded, audit, receipts, review, active, word, job>>

RehearseProject ==
  /\ Owner /\ world.at["capsule"] # Nothing
  /\ \E restorable \in BOOLEAN :
       Have([Of("rehearsal", world.at["capsule"]) EXCEPT !.sound = restorable])
  /\ UNCHANGED <<plan, world, bundles, loaded, audit, receipts, review, active, word, job>>

\* The audit sees the branch, whether it is ahead of the remote as last seen,
\* and whether the Project has state of its own.
AuditProject ==
  /\ Owner
  /\ audit' = [local |-> world.local, ahead |-> world.local # world.known,
               dirty |-> world.dirty]
  /\ UNCHANGED <<plan, world, bundles, hand, loaded, receipts, review, active, word, job>>

\* A Push Plan publishes the branch, or is Partial.
PushProject ==
  /\ Owner /\ plan.approved
  /\ \E complete \in BOOLEAN :
       /\ world' = IF complete THEN [world EXCEPT !.remote = world.local,
                                                  !.known  = world.local]
                               ELSE world
       /\ Have([kind |-> "push", bundle |-> Nothing, mark |-> world.local,
                sound |-> complete])
  /\ UNCHANGED <<plan, bundles, loaded, audit, receipts, review, active, word, job>>

\* The owner revises the Plan, approves it, or takes the old one again.
ChangePlan ==
  /\ Owner
  /\ \E p \in [hash : Plans, approved : BOOLEAN] : p # plan /\ plan' = p
  /\ UNCHANGED <<world, bundles, hand, loaded, audit, receipts, review, active, word, job>>

(***************************************************************************)
(* Receipts                                                                *)
(***************************************************************************)
\* The store is bound to one Plan, which must be approved and unchanged.
PlanIsCurrent == plan.approved /\ plan.hash = HeaderPlan

\* Mutant: any report becomes evidence.
RecordableAlways(report) == TRUE

\* Only a verified capture and a restorable rehearsal become evidence, and a
\* verification and a capture must be of a Bundle of the Plan.  A copy that is
\* not durable and a push that is not complete are recorded as such.
Recordable(report) ==
  /\ report.kind \in {"capture", "rehearsal"} => report.sound
  /\ report.kind \in {"bundle", "capture"} => bundles[report.bundle].plan = plan.hash

Recorded(kind, bundle, mark, sound) ==
  /\ receipts' = [receipts EXCEPT ![kind] = [gen    |-> @.gen + 1,
                                             bundle |-> bundle,
                                             mark   |-> mark,
                                             sound  |-> sound]]
  /\ word' = [claim \in Claims |-> IF About[claim] = kind THEN "none" ELSE word[claim]]

\* record_receipt.  The digest of a verified Bundle is read now, from whatever
\* is at its path.
RecordReceipt ==
  /\ Owner /\ PlanIsCurrent
  /\ hand.kind # "nothing" /\ Recordable(hand)
  /\ receipts[hand.kind].gen < MaxReceipts
  /\ hand.kind = "bundle" => world.at["bundle"] # Nothing
  /\ Recorded(hand.kind, hand.bundle,
              IF hand.kind = "bundle" THEN world.at["bundle"] ELSE hand.mark, hand.sound)
  /\ Have(NoReport)
  /\ UNCHANGED <<plan, world, bundles, loaded, audit, review, active, job>>

\* The owner may forget a report or a review.  Neither says anything to a
\* status, so it is enough to begin a status without them.
Forget ==
  /\ job.phase = "idle"
  /\ Have(NoReport) /\ review' = NoReview
  /\ UNCHANGED <<plan, world, bundles, loaded, audit, receipts, active, word, job, steps>>

\* The Not Protected report is made of the Plan itself.
RecordNotProtected ==
  /\ Owner /\ PlanIsCurrent
  /\ receipts["report"].gen < MaxReceipts
  /\ Recorded("report", Nothing, 0, TRUE)
  /\ UNCHANGED <<plan, world, bundles, hand, loaded, audit, review, active, job>>

(***************************************************************************)
(* Attestations                                                            *)
(***************************************************************************)
\* latest_evidence_reference
Latest(claim) == IF About[claim] = "nothing" THEN 0 ELSE receipts[About[claim]].gen

\* A claim about a receipt refers to the latest one, which there must be.
PrepareAttestation ==
  /\ Owner /\ PlanIsCurrent
  /\ \E claim \in Claims :
       /\ About[claim] # "nothing" => Latest(claim) # 0
       /\ review' = [claim |-> claim, gen |-> Latest(claim)]
       /\ word' = [word EXCEPT ![claim] = IF @ = "none" THEN "reviewed" ELSE @]
  /\ UNCHANGED <<plan, world, bundles, hand, loaded, audit, receipts, active, job>>

\* Mutant: the attestation refers to the receipt that is the latest by now.
ConfirmedOfLatest(id) == [id |-> id, claim |-> review.claim, gen |-> Latest(review.claim)]

\* The attestation refers to what the owner reviewed.
Confirmed(id) == [id |-> id, claim |-> review.claim, gen |-> review.gen]

\* The confirmation compares the review with itself and not with the receipts,
\* of which there may be newer ones by now.
ConfirmAttestation ==
  /\ Owner /\ PlanIsCurrent
  /\ review.claim # "nothing"
  /\ \E id \in 1 .. MaxAttestations :
       /\ \A a \in active : a.id # id
       /\ \A lower \in 1 .. id - 1 : \E a \in active : a.id = lower
       /\ active' = active \cup {Confirmed(id)}
  /\ word' = [word EXCEPT ![review.claim] = IF @ = "reviewed" THEN "given" ELSE @]
  /\ UNCHANGED <<plan, world, bundles, hand, loaded, audit, receipts, review, job>>

WithdrawAttestation ==
  /\ Owner /\ PlanIsCurrent
  /\ \E a \in active : active' = active \ {a}
  /\ UNCHANGED <<plan, world, bundles, hand, loaded, audit, receipts, review, word, job>>

\* owner_attestation_references_current_evidence
ReferencesCurrentEvidence(a) == a.gen = Latest(a.claim)

Stated(claim) == {a \in active : a.claim = claim /\ ReferencesCurrentEvidence(a)}

Required == Claims \ {"retained"}

\* Every required claim is stated once: none is missing or contradictory.
Attested == \A claim \in Required : Cardinality(Stated(claim)) = 1

(***************************************************************************)
(* Status                                                                  *)
(***************************************************************************)
\* The conclusion about a receipt: there is none, it does not hold, it holds.
\* Without a current Plan nothing that was recorded holds.
Conclude(kind, holds) ==
  IF receipts[kind].gen = 0 THEN "missing"
  ELSE IF PlanIsCurrent /\ holds THEN "current" ELSE "invalidated"

\* The secret of the request opens the Bundle in a place.
Opens(p) == world.at[p] # Nothing /\ world.at[p] = job.secret

Bundled(kind) == receipts[kind].bundle

\* The identity and the digest of the Bundle are the recorded ones.
BundleHolds == /\ Opens("bundle")
               /\ bundles[world.at["bundle"]].plan = plan.hash
               /\ Bundled("bundle") = world.at["bundle"]
               /\ receipts["bundle"].mark = world.at["bundle"]

\* Mutant: the source is not compared with the Bundle.
SourceUnread == world.at["bundle"] # Nothing

\* revalidate_current_source: every selected item still is what was packed.
SourceUnchanged == /\ Opens("bundle")
                   /\ bundles[world.at["bundle"]].version = world.source

\* The document opens the Bundle, and it is the recorded one.
OfflineHolds == /\ world.at["document"] = world.at["bundle"]
                /\ world.at["bundle"] # Nothing
                /\ Bundled("offline") = world.at["bundle"]

CopyHolds(p) == /\ Opens("bundle") /\ Opens(p)
                /\ Bundled(p) = world.at[p]
                /\ receipts[p].sound

\* The note is the one that the caller loaded earlier.
VaultwardenHolds == /\ loaded = world.at["bundle"]
                    /\ world.at["bundle"] # Nothing
                    /\ Bundled("vaultwarden") = loaded

\* Of the restored directory only its identity is read.
RestoreHolds == /\ Opens("bundle")
                /\ Bundled("restore") = world.at["bundle"]
                /\ world.at["restored"] = Bundled("restore")

\* The capsule of the last expectation was captured and rehearsed.
CapsuleHolds ==
  /\ world.at["capsule"] # Nothing
  /\ Bundled("capture") = world.at["capsule"]
  /\ Bundled("rehearsal") = world.at["capsule"]

Restorable == IF receipts["rehearsal"].gen = 0 THEN "missing"
                                                ELSE Conclude("capture", CapsuleHolds)

\* A Project with state of its own is retained in its capsule by a decision of
\* the owner about that very capsule.
Retention ==
  IF /\ job.found["restorable"] = "current"
     /\ receipts["capture"].gen # 0
     /\ "retained" \in Claims /\ Stated("retained") # {}
  THEN "current" ELSE "missing"

\* The Project still is as it was audited.
AuditIsCurrent == audit.local = world.local /\ audit.dirty = world.dirty

\* A Project that was never pushed must have nothing unpublished; what is on the
\* remote is then not compared.
AlreadySynchronized == IF audit.ahead THEN "missing"
                       ELSE IF AuditIsCurrent THEN "current" ELSE "invalidated"

\* Mutant: the remote is not read again.
StillAuditedOnly == receipts["push"].sound /\ AuditIsCurrent
                      /\ receipts["push"].mark = world.local

\* Both ends of what was published still are what was published.
StillPublished == /\ receipts["push"].sound
                  /\ AuditIsCurrent
                  /\ receipts["push"].mark = world.local
                  /\ receipts["push"].mark = world.remote

Synchronized ==
  IF audit.dirty THEN Retention
  ELSE IF receipts["push"].gen = 0 THEN AlreadySynchronized
  ELSE IF PlanIsCurrent /\ StillPublished THEN "current" ELSE "invalidated"

Find(phase, next, checks, conclusion(_)) ==
  /\ job.phase = phase
  /\ job' = [job EXCEPT !.phase = next,
                        !.found = [c \in Checks |-> IF c \in checks THEN conclusion(c)
                                                                    ELSE @[c]]]
  /\ UNCHANGED <<world, steps>> /\ UNCHANGED owned

\* What is concluded of the Plan and the store alone.
OfStore(c) ==
  CASE c = "plan"     -> IF PlanIsCurrent THEN "current" ELSE "invalidated"
    [] c = "report"   -> Conclude("report", TRUE)
    [] c = "attested" -> IF Attested THEN "current" ELSE "missing"

BeginStatus ==
  /\ job.phase = "idle" /\ hand = NoReport /\ review = NoReview
  /\ \E secret \in {world.at["document"], loaded} :
       job' = [Idle EXCEPT !.phase = "bundle", !.secret = secret,
                           !.found = [c \in Checks |->
                              IF c \in {"plan", "report", "attested"} THEN OfStore(c)
                                                                      ELSE @[c]]]
  /\ UNCHANGED <<world, steps>> /\ UNCHANGED owned

CheckBundle == Find("bundle", "source", {"bundle"}, LAMBDA c : Conclude("bundle", BundleHolds))

CheckSource ==
  Find("source", "offline", {"bundle"},
       LAMBDA c : IF job.found["bundle"] = "current" /\ ~ SourceUnchanged
                    THEN "invalidated" ELSE job.found["bundle"])

CheckOffline == Find("offline", "copies", {"offline"},
                     LAMBDA c : Conclude("offline", OfflineHolds))

CheckCopies == Find("copies", "vaultwarden", Copies,
                    LAMBDA c : Conclude(c, CopyHolds(c)))

CheckVaultwarden == Find("vaultwarden", "restore", {"vaultwarden"},
                         LAMBDA c : Conclude("vaultwarden", VaultwardenHolds))

CheckRestore == Find("restore", "capsule", {"restore"},
                     LAMBDA c : Conclude("restore", RestoreHolds))

CheckCapsule == Find("capsule", "publication", {"restorable"}, LAMBDA c : Restorable)

CheckPublication == Find("publication", "report", {"synchronized"}, LAMBDA c : Synchronized)

\* CompleteEvidence, or BlockingGaps.
Complete(found) == \A c \in Checks : found[c] = "current"

EndStatus ==
  /\ job.phase = "report"
  /\ job' = Idle
  /\ UNCHANGED <<world, steps>> /\ UNCHANGED owned

(***************************************************************************)
(* The world                                                               *)
(***************************************************************************)
\* One thing at most changes during a status.
Moves(thing) ==
  /\ Step
  /\ job.moved = "nothing"
  /\ job' = IF job.phase = "idle" THEN job ELSE [job EXCEPT !.moved = thing]
  /\ UNCHANGED owned

Edit == Moves("source") /\ world' = [world EXCEPT !.source = steps + 1]

\* An artifact is lost or damaged.
Lose(p) == Moves(p) /\ world.at[p] # Nothing /\ Place(p, Nothing)

Commit == Moves("local") /\ world' = [world EXCEPT !.local = steps + 1]

Clean == Moves("dirty") /\ world' = [world EXCEPT !.dirty = ~ @]

RemoteMoves == Moves("remote") /\ world' = [world EXCEPT !.remote = steps + 1]

(***************************************************************************)
(* The specification                                                       *)
(***************************************************************************)
MainBundle    == 1
CapsuleBundle == 2

\* The owner did every operation once and recorded every receipt, but one at
\* most; the Project has state of its own, was pushed, or had nothing to push.
Situations == {"retained", "pushed", "published"}

FirstReceipt(k, missing, situation) ==
  IF k = missing \/ (k = "push" /\ situation # "pushed") THEN NoReceipt
  ELSE [gen    |-> 1,
        bundle |-> IF k \in {"report", "push"} THEN Nothing
                   ELSE IF k \in {"capture", "rehearsal"} THEN CapsuleBundle
                   ELSE MainBundle,
        mark   |-> IF k = "bundle" THEN MainBundle ELSE 0,
        sound  |-> TRUE]

Numbering == CHOOSE id \in [Claims -> 1 .. Cardinality(Claims)] :
               \A c, d \in Claims : id[c] = id[d] => c = d

Init ==
  /\ plan = [hash |-> HeaderPlan, approved |-> TRUE]
  /\ \E situation \in Situations, missing \in MayLack \cup {"nothing"} :
       /\ world = [at |-> [p \in Places |-> IF p = "capsule" THEN CapsuleBundle
                                                             ELSE MainBundle],
                   source |-> 0, local |-> 0, known |-> 0, remote |-> 0,
                   dirty |-> situation = "retained"]
       /\ audit = [local |-> 0, ahead |-> FALSE, dirty |-> situation = "retained"]
       /\ receipts = [k \in Kinds |-> FirstReceipt(k, missing, situation)]
  /\ bundles = [id \in Ids |-> [plan |-> HeaderPlan, version |-> 0]]
  /\ hand = NoReport
  /\ loaded = MainBundle
  /\ review = NoReview
  /\ active = {[id |-> Numbering[c], claim |-> c, gen |-> Latest(c)] : c \in Claims}
  /\ word = [c \in Claims |-> "given"]
  /\ job = Idle
  /\ steps = 0

Preparing == \/ PackBundle \/ VerifyBundle \/ RehearseOffline \/ RehearseVaultwarden
             \/ \E p \in Copies : CopyBundle(p)
             \/ RestoreBundle \/ CaptureProject \/ RehearseProject
             \/ AuditProject \/ PushProject \/ ChangePlan

Recording == \/ RecordReceipt \/ Forget \/ RecordNotProtected
             \/ PrepareAttestation \/ ConfirmAttestation \/ WithdrawAttestation

Examining == \/ BeginStatus \/ CheckBundle \/ CheckSource \/ CheckOffline \/ CheckCopies
             \/ CheckVaultwarden \/ CheckRestore \/ CheckCapsule \/ CheckPublication
             \/ EndStatus

Changing == Edit \/ Commit \/ Clean \/ RemoteMoves \/ \E p \in Places : Lose(p)

Next == Preparing \/ Recording \/ Examining \/ Changing

Spec == Init /\ [][Next]_vars

(***************************************************************************)
(* Safety                                                                  *)
(***************************************************************************)
ReportsComplete == job.phase = "report" /\ Complete(job.found)

\* It did not change since the status began.
Still(thing) == job.moved # thing

\* CompleteEvidence means that one and the same Bundle has the source as it is
\* now, lies in three places, was restored, and is opened by the secret of the
\* document and by the one loaded from Vaultwarden, although each of these was
\* recorded and is examined on its own, and one of them may be lost while the
\* others are still examined (status).
CompleteIsRecoverable ==
  ReportsComplete =>
    LET b == receipts["bundle"].bundle IN
      /\ b # Nothing /\ bundles[b].plan = HeaderPlan /\ loaded = b
      /\ Still("source") => bundles[b].version = world.source
      /\ \A p \in Copies \cup {"bundle", "document", "restored"} :
           Still(p) => world.at[p] = b

\* CompleteEvidence rests on the owner's word about the very receipts that count
\* now: once a receipt was recorded, every claim about its kind was reviewed and
\* then confirmed again, although a review prepared before it may still be
\* confirmed after it, and the claim of retention as well where it is needed.
CompleteIsOwnersWord ==
  ReportsComplete =>
    \A claim \in Required \cup {c \in Claims : c = "retained" /\ audit.dirty} :
      word[claim] = "given"

\* The Project is retained in its present capsule by the owner's word, or is
\* clean and as it was pushed, or as it was audited if it was never pushed.
Retained == \E a \in active : a.claim = "retained" /\ a.gen = receipts["capture"].gen

Published ==
  /\ Still("dirty") => ~ world.dirty
  /\ Still("local") /\ Still("remote") =>
       world.local = IF receipts["push"].gen = 0 THEN audit.local ELSE world.remote

\* CompleteEvidence means that the rehearsed capsule of the Project is there, and
\* that what the Project has is on the remote if it was pushed and retained in
\* that capsule if it was not (requires_capsule_only_decision,
\* revalidate_synchronized_project).
CompleteProjectIsSafe ==
  ReportsComplete =>
    /\ Still("capsule") => world.at["capsule"] = receipts["rehearsal"].bundle
    /\ receipts["capture"].bundle = receipts["rehearsal"].bundle
    /\ Retained \/ Published
=============================================================================
