------------------------ MODULE ReadinessStatusProofs ------------------------
(***************************************************************************)
(* Theorems of ReadinessStatus, for any claims, any number of Bundles,     *)
(* receipts and attestations, and any number of steps of the owner and of  *)
(* the world.                                                              *)
(***************************************************************************)
EXTENDS ReadinessStatus, FiniteSetTheorems, TLAPS

(***************************************************************************)
(* Types                                                                   *)
(***************************************************************************)
LEMMA Constants ==
  /\ MaxBundles \in Nat /\ 2 \in Ids /\ 1 \in Ids /\ 0 \in 0 .. MaxBundles
  /\ Ids \subseteq 0 .. MaxBundles
  /\ 0 \in 0 .. MaxReceipts /\ 1 \in 0 .. MaxReceipts /\ MaxReceipts \in Nat
  /\ MaxSteps \in Nat /\ 0 \in Versions /\ MaxAttestations \in Nat
  BY ReadinessBounds DEF Ids, Versions

LEMMA FiniteClaims == IsFiniteSet(Claims)
<1> DEFINE All == {"report_reviewed", "service_confirmed", "device_access", "multi_factor",
                   "build_completed", "second_environment", "backup_validated", "retained"}
<1>1. IsFiniteSet(All)
  <2>1. IsFiniteSet({})
    BY FS_EmptySet
  <2>2. IsFiniteSet({"retained"})
    BY FS_Singleton
  <2>3. IsFiniteSet({"retained"} \cup {"backup_validated"})
    BY <2>2, FS_AddElement
  <2>4. IsFiniteSet(({"retained"} \cup {"backup_validated"}) \cup {"second_environment"})
    BY <2>3, FS_AddElement
  <2>5. IsFiniteSet((({"retained"} \cup {"backup_validated"}) \cup {"second_environment"})
                      \cup {"build_completed"})
    BY <2>4, FS_AddElement
  <2>6. IsFiniteSet({"report_reviewed"} \cup {"service_confirmed"})
    BY FS_Singleton, FS_AddElement
  <2>7. IsFiniteSet(({"report_reviewed"} \cup {"service_confirmed"}) \cup {"device_access"})
    BY <2>6, FS_AddElement
  <2>8. IsFiniteSet((({"report_reviewed"} \cup {"service_confirmed"}) \cup {"device_access"})
                      \cup {"multi_factor"})
    BY <2>7, FS_AddElement
  <2> DEFINE Low  == (({"retained"} \cup {"backup_validated"}) \cup {"second_environment"})
                       \cup {"build_completed"}
             High == (({"report_reviewed"} \cup {"service_confirmed"}) \cup {"device_access"})
                       \cup {"multi_factor"}
  <2>9. IsFiniteSet(Low) /\ IsFiniteSet(High)
    BY <2>5, <2>8
  <2>10. All = Low \cup High
    OBVIOUS
  <2> HIDE DEF Low, High, All
  <2> QED
    BY <2>9, <2>10, FS_Union
<1>2. Claims \subseteq All
  BY ClaimsAssumption DEF ClaimKinds, About
<1> QED
  BY <1>1, <1>2, FS_Subset

\* The attestations of the beginning have identifiers of their own.
LEMMA NumberingFacts ==
  /\ Cardinality(Claims) \in Nat
  /\ Numbering \in [Claims -> 1 .. Cardinality(Claims)]
  /\ \A c, d \in Claims : Numbering[c] = Numbering[d] => c = d
<1>1. Cardinality(Claims) \in Nat /\ ExistsBijection(1 .. Cardinality(Claims), Claims)
  BY FiniteClaims, FS_CardinalityType
<1>2. PICK f \in Bijection(1 .. Cardinality(Claims), Claims) : TRUE
  BY <1>1 DEF ExistsBijection
<1> DEFINE n == Cardinality(Claims)
           id == [c \in Claims |-> CHOOSE i \in 1 .. n : f[i] = c]
<1>3. \A c \in Claims : id[c] \in 1 .. n /\ f[id[c]] = c
  <2>1. \A c \in Claims : \E i \in 1 .. n : f[i] = c
    BY <1>2 DEF Bijection, Surjection
  <2> QED
    BY <2>1
<1>4. \A c, d \in Claims : id[c] = id[d] => c = d
  BY <1>3
<1>5. id \in [Claims -> 1 .. n]
  BY <1>3
<1>6. \E g \in [Claims -> 1 .. n] : \A c, d \in Claims : g[c] = g[d] => c = d
  BY <1>4, <1>5
<1> QED
  BY <1>1, <1>6 DEF Numbering

LEMMA IdleTyped == Idle \in Job /\ Idle.phase = "idle" /\ Idle.moved = "nothing"
  BY Constants DEF Idle, Job, Phases, Conclusions, Nothing

LEMMA LatestTyped ==
  ASSUME receipts \in [Kinds -> Receipt], NEW claim \in Claims
  PROVE  Latest(claim) \in 0 .. MaxReceipts
<1>1. claim \in ClaimKinds
  BY ClaimsAssumption
<1>2. About[claim] \in Kinds \cup {"nothing"}
  BY <1>1 DEF ClaimKinds, About, Kinds, Copies
<1>3. CASE About[claim] = "nothing"
  BY <1>3, Constants DEF Latest
<1>4. CASE About[claim] # "nothing"
  BY <1>2, <1>4 DEF Latest, Receipt
<1> QED
  BY <1>3, <1>4

\* The status has finitely many attestations to look at.
StatusTyped == TypeOK /\ IsFiniteSet(active)

LEMMA InitTyped ==
  ASSUME Init PROVE StatusTyped
<1>1. PICK situation \in Situations, missing \in MayLack \cup {"nothing"} :
        /\ world = [at |-> [p \in Places |-> IF p = "capsule" THEN CapsuleBundle
                                                              ELSE MainBundle],
                    source |-> 0, local |-> 0, known |-> 0, remote |-> 0,
                    dirty |-> situation = "retained"]
        /\ audit = [local |-> 0, ahead |-> FALSE, dirty |-> situation = "retained"]
        /\ receipts = [k \in Kinds |-> FirstReceipt(k, missing, situation)]
  BY DEF Init
<1>2. world \in World
  BY <1>1, Constants DEF World, CapsuleBundle, MainBundle, Ids
<1>3. audit \in [local : Versions, ahead : BOOLEAN, dirty : BOOLEAN]
  BY <1>1, Constants
<1>4. ASSUME NEW k \in Kinds
      PROVE  /\ FirstReceipt(k, missing, situation) \in Receipt
             /\ FirstReceipt(k, missing, situation).gen # 0
                  => FirstReceipt(k, missing, situation).sound
  BY Constants DEF FirstReceipt, NoReceipt, Receipt, Nothing, CapsuleBundle, MainBundle, Ids
<1>5. receipts \in [Kinds -> Receipt]
  BY <1>1, <1>4
<1>6. \A k \in {"capture", "rehearsal"} : receipts[k].gen # 0 => receipts[k].sound
  <2>1. {"capture", "rehearsal"} \subseteq Kinds
    BY DEF Kinds
  <2> QED
    BY <1>1, <1>4, <2>1
<1>7. plan \in [hash : Plans, approved : BOOLEAN] /\ bundles \in [Ids -> Packed]
  BY Constants DEF Init, Plans, HeaderPlan, Packed
<1>8. /\ hand \in Report /\ loaded \in 0 .. MaxBundles /\ review \in Review /\ steps \in Versions
      /\ word \in [Claims -> {"none", "reviewed", "given"}]
  BY Constants DEF Init, NoReport, Report, MainBundle, Ids, NoReview, Review, Nothing
<1> DEFINE attested(c) == [id |-> Numbering[c], claim |-> c, gen |-> Latest(c)]
<1>9. active = {attested(c) : c \in Claims}
  BY DEF Init
<1>10. active \subseteq Attestation
  <2>1. \A c \in Claims : Numbering[c] \in 1 .. MaxAttestations
    BY NumberingFacts, ReadinessBounds
  <2> QED
    BY <1>5, <1>9, <2>1, LatestTyped DEF Attestation
<1>11. \A a, b \in active : a.id = b.id => a = b
  BY <1>9, NumberingFacts
<1>12. IsFiniteSet(active)
  <2> DEFINE image == [c \in Claims |-> attested(c)]
  <2>1. image \in Surjection(Claims, active)
    BY <1>9 DEF Surjection
  <2> QED
    BY <2>1, FiniteClaims, FS_Surjection
<1>13. job \in Job
  BY IdleTyped DEF Init
<1> QED
  BY <1>2, <1>3, <1>5, <1>6, <1>7, <1>8, <1>10, <1>11, <1>12, <1>13 DEF TypeOK, StatusTyped

LEMMA PlaceTyped ==
  ASSUME world \in World, NEW p \in Places, NEW b \in 0 .. MaxBundles, Place(p, b)
  PROVE  world' \in World
  BY DEF World, Place

LEMMA OfTyped ==
  ASSUME NEW k \in Kinds, NEW b \in 0 .. MaxBundles, NEW s \in BOOLEAN
  PROVE  Of(k, b) \in Report /\ [Of(k, b) EXCEPT !.sound = s] \in Report
  BY DEF Of, Report

LEMMA StepTyped ==
  ASSUME steps \in Versions, Step
  PROVE  steps' \in Versions /\ steps' = steps + 1 /\ steps \in Nat
  BY Constants DEF Step, Versions

\* What the owner prepares leaves the store and the running status alone.
LEMMA PreparingTyped ==
  ASSUME StatusTyped, Preparing
  PROVE  StatusTyped'
<1>1. /\ world \in World /\ bundles \in [Ids -> Packed] /\ steps \in Versions
      /\ plan \in [hash : Plans, approved : BOOLEAN]
  BY DEF StatusTyped, TypeOK
<1>2. /\ world.at["bundle"] \in 0 .. MaxBundles /\ world.at["capsule"] \in 0 .. MaxBundles
      /\ world.source \in Versions /\ world.local \in Versions /\ world.known \in Versions
      /\ world.dirty \in BOOLEAN /\ plan.hash \in Plans
  BY <1>1 DEF World, Places
<1>3. steps' \in Versions /\ UNCHANGED <<receipts, review, active, word, job>>
  BY <1>1, StepTyped
  DEF Preparing, PackBundle, VerifyBundle, RehearseOffline, RehearseVaultwarden, CopyBundle,
      RestoreBundle, CaptureProject, RehearseProject, AuditProject, PushProject, ChangePlan, Owner
<1>4. ASSUME world' \in World, bundles' \in [Ids -> Packed], hand' \in Report,
             loaded' \in 0 .. MaxBundles, plan' \in [hash : Plans, approved : BOOLEAN],
             audit' \in [local : Versions, ahead : BOOLEAN, dirty : BOOLEAN]
      PROVE  StatusTyped'
  BY <1>3, <1>4 DEF StatusTyped, TypeOK
<1>5. /\ hand \in Report /\ loaded \in 0 .. MaxBundles
      /\ audit \in [local : Versions, ahead : BOOLEAN, dirty : BOOLEAN]
  BY DEF StatusTyped, TypeOK
<1>6. CASE PackBundle
  <2>1. PICK id \in Ids : /\ bundles' = [bundles EXCEPT ![id] = [plan |-> plan.hash,
                                                                 version |-> world.source]]
                          /\ Place("bundle", id)
    BY <1>6 DEF PackBundle
  <2>2. world' \in World
    BY <1>1, <2>1, Constants, PlaceTyped DEF Places
  <2>3. bundles' \in [Ids -> Packed]
    BY <1>1, <1>2, <2>1 DEF Packed
  <2> QED
    BY <1>1, <1>4, <1>5, <1>6, <2>2, <2>3 DEF PackBundle
<1>7. CASE VerifyBundle
  <2>1. hand' \in Report
    BY <1>2, <1>7, OfTyped DEF VerifyBundle, Have, Kinds
  <2> QED
    BY <1>1, <1>4, <1>5, <1>7, <2>1 DEF VerifyBundle
<1>8. CASE RehearseOffline
  <2>1. hand' \in Report
    BY <1>2, <1>8, OfTyped DEF RehearseOffline, Have, Kinds
  <2>2. world' \in World
    BY <1>1, <1>2, <1>8, PlaceTyped DEF RehearseOffline, Places
  <2> QED
    BY <1>1, <1>4, <1>5, <1>8, <2>1, <2>2 DEF RehearseOffline
<1>9. CASE RehearseVaultwarden
  <2>1. hand' \in Report
    BY <1>2, <1>9, OfTyped DEF RehearseVaultwarden, Have, Kinds
  <2>2. world' \in World
    BY <1>1, <1>2, <1>9, PlaceTyped DEF RehearseVaultwarden, Places
  <2> QED
    BY <1>1, <1>2, <1>4, <1>5, <1>9, <2>1, <2>2 DEF RehearseVaultwarden
<1>10. ASSUME NEW p \in Copies, CopyBundle(p)
       PROVE  StatusTyped'
  <2>1. hand' \in Report
    BY <1>2, <1>10, OfTyped DEF CopyBundle, Have, Kinds
  <2>2. world' \in World
    BY <1>1, <1>2, <1>10, PlaceTyped DEF CopyBundle, Places
  <2> QED
    BY <1>1, <1>4, <1>5, <1>10, <2>1, <2>2 DEF CopyBundle
<1>11. CASE RestoreBundle
  <2>1. hand' \in Report
    BY <1>2, <1>11, OfTyped DEF RestoreBundle, Have, Kinds
  <2>2. world' \in World
    BY <1>1, <1>2, <1>11, PlaceTyped DEF RestoreBundle, Places
  <2> QED
    BY <1>1, <1>4, <1>5, <1>11, <2>1, <2>2 DEF RestoreBundle
<1>12. CASE CaptureProject
  <2>1. PICK id \in Ids, verified \in BOOLEAN :
          /\ bundles' = [bundles EXCEPT ![id] = [plan |-> plan.hash, version |-> world.local]]
          /\ Place("capsule", id)
          /\ Have([Of("capture", id) EXCEPT !.sound = verified])
    BY <1>12 DEF CaptureProject
  <2>2. world' \in World
    BY <1>1, <2>1, Constants, PlaceTyped DEF Places
  <2>3. bundles' \in [Ids -> Packed]
    BY <1>1, <1>2, <2>1 DEF Packed
  <2>4. hand' \in Report
    BY <2>1, OfTyped, Constants DEF Have, Kinds
  <2> QED
    BY <1>1, <1>4, <1>5, <1>12, <2>2, <2>3, <2>4 DEF CaptureProject
<1>13. CASE RehearseProject
  <2>1. hand' \in Report
    <3>1. PICK restorable \in BOOLEAN :
            hand' = [Of("rehearsal", world.at["capsule"]) EXCEPT !.sound = restorable]
      BY <1>13 DEF RehearseProject, Have
    <3>2. "rehearsal" \in Kinds
      BY DEF Kinds
    <3> QED
      BY <1>2, <3>1, <3>2, OfTyped
  <2> QED
    BY <1>1, <1>4, <1>5, <1>13, <2>1 DEF RehearseProject
<1>14. CASE AuditProject
  <2>1. audit' \in [local : Versions, ahead : BOOLEAN, dirty : BOOLEAN]
    BY <1>2, <1>14 DEF AuditProject
  <2> QED
    BY <1>1, <1>4, <1>5, <1>14, <2>1 DEF AuditProject
<1>15. CASE PushProject
  <2>1. PICK complete \in BOOLEAN :
          /\ world' = IF complete THEN [world EXCEPT !.remote = world.local,
                                                     !.known  = world.local]
                                  ELSE world
          /\ hand' = [kind |-> "push", bundle |-> Nothing, mark |-> world.local,
                      sound |-> complete]
    BY <1>15 DEF PushProject, Have
  <2>2. world' \in World
    BY <1>1, <1>2, <2>1 DEF World
  <2>3. hand' \in Report
    BY <1>2, <2>1, Constants DEF Report, Kinds, Nothing, Versions
  <2> QED
    BY <1>1, <1>4, <1>5, <1>15, <2>2, <2>3 DEF PushProject
<1>16. CASE ChangePlan
  BY <1>1, <1>4, <1>5, <1>16 DEF ChangePlan
<1> QED
  BY <1>6, <1>7, <1>8, <1>9, <1>10, <1>11, <1>12, <1>13, <1>14, <1>15, <1>16 DEF Preparing

\* A receipt replaces the one before it.
LEMMA RecordedTyped ==
  ASSUME TypeOK, NEW kind \in Kinds, NEW b \in 0 .. MaxBundles, NEW m \in Nat,
         NEW s \in BOOLEAN, receipts[kind].gen < MaxReceipts,
         kind \in {"capture", "rehearsal"} => s, Recorded(kind, b, m, s)
  PROVE  /\ receipts' \in [Kinds -> Receipt] /\ word' \in [Claims -> {"none", "reviewed", "given"}]
         /\ \A k \in {"capture", "rehearsal"} : receipts'[k].gen # 0 => receipts'[k].sound
<1>1. /\ receipts \in [Kinds -> Receipt]
      /\ \A k \in {"capture", "rehearsal"} : receipts[k].gen # 0 => receipts[k].sound
      /\ {"capture", "rehearsal"} \subseteq Kinds
  BY DEF TypeOK, Kinds
<1> DEFINE r == [gen |-> receipts[kind].gen + 1, bundle |-> b, mark |-> m, sound |-> s]
<1>2. /\ receipts' = [receipts EXCEPT ![kind] = r]
      /\ word' \in [Claims -> {"none", "reviewed", "given"}]
  BY DEF Recorded, TypeOK
<1>3. r \in Receipt /\ r.sound = s
  BY <1>1, Constants DEF Receipt
<1> HIDE DEF r
<1> QED
  BY <1>1, <1>2, <1>3

LEMMA RecordingTyped ==
  ASSUME StatusTyped, Recording
  PROVE  StatusTyped'
<1>1. /\ world \in World /\ steps \in Versions /\ hand \in Report /\ review \in Review
      /\ receipts \in [Kinds -> Receipt] /\ active \subseteq Attestation
      /\ \A a, b \in active : a.id = b.id => a = b
      /\ \A k \in {"capture", "rehearsal"} : receipts[k].gen # 0 => receipts[k].sound
      /\ IsFiniteSet(active) /\ TypeOK /\ word \in [Claims -> {"none", "reviewed", "given"}]
  BY DEF StatusTyped, TypeOK
<1>2. /\ UNCHANGED <<plan, world, bundles, loaded, audit, job>>
      /\ steps' \in Versions
  BY <1>1, StepTyped
  DEF Recording, RecordReceipt, Forget, RecordNotProtected, PrepareAttestation,
      ConfirmAttestation, WithdrawAttestation, Owner
<1>3. ASSUME hand' \in Report, review' \in Review, receipts' \in [Kinds -> Receipt],
             \A k \in {"capture", "rehearsal"} : receipts'[k].gen # 0 => receipts'[k].sound,
             active' \subseteq Attestation, \A a, b \in active' : a.id = b.id => a = b,
             IsFiniteSet(active'), word' \in [Claims -> {"none", "reviewed", "given"}]
      PROVE  StatusTyped'
  BY <1>2, <1>3 DEF StatusTyped, TypeOK
<1>4. NoReport \in Report /\ NoReview \in Review
  BY Constants DEF NoReport, Report, NoReview, Review, Nothing
<1>5. CASE RecordReceipt
  <2> DEFINE m == IF hand.kind = "bundle" THEN world.at["bundle"] ELSE hand.mark
  <2>1. /\ hand.kind \in Kinds /\ hand.bundle \in 0 .. MaxBundles /\ hand.mark \in Nat
        /\ hand.sound \in BOOLEAN
    BY <1>1, <1>5 DEF RecordReceipt, Report
  <2>2. m \in Nat
    BY <1>1, <2>1, Constants DEF World, Places
  <2>3. /\ Recorded(hand.kind, hand.bundle, m, hand.sound)
        /\ receipts[hand.kind].gen < MaxReceipts
        /\ hand.kind \in {"capture", "rehearsal"} => hand.sound
        /\ hand' = NoReport /\ UNCHANGED <<review, active>>
    BY <1>5 DEF RecordReceipt, Recordable, Have
  <2> HIDE DEF m
  <2>4. /\ receipts' \in [Kinds -> Receipt] /\ word' \in [Claims -> {"none", "reviewed", "given"}]
        /\ \A k \in {"capture", "rehearsal"} : receipts'[k].gen # 0 => receipts'[k].sound
    BY <1>1, <2>1, <2>2, <2>3, RecordedTyped
  <2> QED
    BY <1>1, <1>3, <1>4, <2>3, <2>4
<1>6. CASE Forget
  BY <1>1, <1>3, <1>4, <1>6 DEF Forget, Have
<1>7. CASE RecordNotProtected
  <2>1. /\ Recorded("report", Nothing, 0, TRUE) /\ receipts["report"].gen < MaxReceipts
        /\ UNCHANGED <<hand, review, active>>
    BY <1>7 DEF RecordNotProtected
  <2>2. "report" \in Kinds /\ Nothing \in 0 .. MaxBundles
    BY Constants DEF Kinds, Nothing
  <2>3. /\ receipts' \in [Kinds -> Receipt] /\ word' \in [Claims -> {"none", "reviewed", "given"}]
        /\ \A k \in {"capture", "rehearsal"} : receipts'[k].gen # 0 => receipts'[k].sound
    BY <1>1, <2>1, <2>2, RecordedTyped
  <2> QED
    BY <1>1, <1>3, <2>1, <2>3
<1>8. CASE PrepareAttestation
  <2>1. PICK claim \in Claims :
          /\ review' = [claim |-> claim, gen |-> Latest(claim)]
          /\ word' = [word EXCEPT ![claim] = IF @ = "none" THEN "reviewed" ELSE @]
    BY <1>8 DEF PrepareAttestation
  <2>2. review' \in Review /\ word' \in [Claims -> {"none", "reviewed", "given"}]
    BY <1>1, <2>1, LatestTyped DEF Review
  <2> QED
    BY <1>1, <1>3, <1>8, <2>2 DEF PrepareAttestation
<1>9. CASE ConfirmAttestation
  <2>1. PICK id \in 1 .. MaxAttestations :
          /\ \A a \in active : a.id # id
          /\ active' = active \cup {Confirmed(id)}
    BY <1>9 DEF ConfirmAttestation
  <2>2. /\ review.claim \in Claims /\ review.gen \in 0 .. MaxReceipts
        /\ word' \in [Claims -> {"none", "reviewed", "given"}]
    BY <1>1, <1>9 DEF ConfirmAttestation, Review
  <2>3. active' \subseteq Attestation /\ \A a, b \in active' : a.id = b.id => a = b
    BY <1>1, <2>1, <2>2 DEF Attestation, Confirmed
  <2>4. IsFiniteSet(active')
    BY <1>1, <2>1, FS_AddElement
  <2> QED
    BY <1>1, <1>3, <1>9, <2>2, <2>3, <2>4 DEF ConfirmAttestation
<1>10. CASE WithdrawAttestation
  <2>1. PICK a \in active : active' = active \ {a}
    BY <1>10 DEF WithdrawAttestation
  <2>2. IsFiniteSet(active')
    BY <1>1, <2>1, FS_RemoveElement
  <2> QED
    BY <1>1, <1>3, <1>10, <2>1, <2>2 DEF WithdrawAttestation
<1> QED
  BY <1>5, <1>6, <1>7, <1>8, <1>9, <1>10 DEF Recording

\* What a conclusion may be.
LEMMA ConclusionTyped ==
  /\ \A kind, holds : Conclude(kind, holds) \in Conclusions
  /\ Restorable \in Conclusions /\ Synchronized \in Conclusions
  /\ \A c \in {"plan", "report", "attested"} : OfStore(c) \in Conclusions
<1>1. \A kind, holds : Conclude(kind, holds) \in Conclusions
  BY DEF Conclude, Conclusions
<1> QED
  BY <1>1 DEF Restorable, Synchronized, Retention, AlreadySynchronized, OfStore, Conclusions

\* The step of a status from one phase to the next: what is found of the checks
\* in question, and nothing else.
Finding(phase, next, found) ==
  /\ job.phase = phase
  /\ job' = [job EXCEPT !.phase = next, !.found = found]
  /\ UNCHANGED <<plan, world, bundles, hand, loaded, audit, receipts, review, active, word,
                 steps>>

With(checks, conclusion) ==
  [c \in Checks |-> IF c \in checks THEN conclusion[c] ELSE job.found[c]]

LEMMA Findings ==
  /\ CheckBundle =>
       Finding("bundle", "source",
               With({"bundle"}, [c \in Checks |-> Conclude("bundle", BundleHolds)]))
  /\ CheckSource =>
       Finding("source", "offline",
               With({"bundle"},
                    [c \in Checks |-> IF job.found["bundle"] = "current" /\ ~ SourceUnchanged
                                        THEN "invalidated" ELSE job.found["bundle"]]))
  /\ CheckOffline =>
       Finding("offline", "copies",
               With({"offline"}, [c \in Checks |-> Conclude("offline", OfflineHolds)]))
  /\ CheckCopies =>
       Finding("copies", "vaultwarden",
               With(Copies, [c \in Checks |-> Conclude(c, CopyHolds(c))]))
  /\ CheckVaultwarden =>
       Finding("vaultwarden", "restore",
               With({"vaultwarden"}, [c \in Checks |-> Conclude("vaultwarden", VaultwardenHolds)]))
  /\ CheckRestore =>
       Finding("restore", "capsule",
               With({"restore"}, [c \in Checks |-> Conclude("restore", RestoreHolds)]))
  /\ CheckCapsule =>
       Finding("capsule", "publication", With({"restorable"}, [c \in Checks |-> Restorable]))
  /\ CheckPublication =>
       Finding("publication", "report", With({"synchronized"}, [c \in Checks |-> Synchronized]))
<1>2. CheckBundle =>
       Finding("bundle", "source",
               With({"bundle"}, [c \in Checks |-> Conclude("bundle", BundleHolds)]))
  BY DEF CheckBundle, Find, Finding, With, owned
<1>3. CheckSource =>
       Finding("source", "offline",
               With({"bundle"},
                    [c \in Checks |-> IF job.found["bundle"] = "current" /\ ~ SourceUnchanged
                                        THEN "invalidated" ELSE job.found["bundle"]]))
  BY DEF CheckSource, Find, Finding, With, owned
<1>4. CheckOffline =>
       Finding("offline", "copies",
               With({"offline"}, [c \in Checks |-> Conclude("offline", OfflineHolds)]))
  BY DEF CheckOffline, Find, Finding, With, owned
<1>5. CheckCopies =>
       Finding("copies", "vaultwarden",
               With(Copies, [c \in Checks |-> Conclude(c, CopyHolds(c))]))
  BY DEF CheckCopies, Find, Finding, With, owned
<1>6. CheckVaultwarden =>
       Finding("vaultwarden", "restore",
               With({"vaultwarden"}, [c \in Checks |-> Conclude("vaultwarden", VaultwardenHolds)]))
  BY DEF CheckVaultwarden, Find, Finding, With, owned
<1>7. CheckRestore =>
       Finding("restore", "capsule",
               With({"restore"}, [c \in Checks |-> Conclude("restore", RestoreHolds)]))
  BY DEF CheckRestore, Find, Finding, With, owned
<1>8. CheckCapsule =>
       Finding("capsule", "publication", With({"restorable"}, [c \in Checks |-> Restorable]))
  BY DEF CheckCapsule, Find, Finding, With, owned
<1>9. CheckPublication =>
       Finding("publication", "report", With({"synchronized"}, [c \in Checks |-> Synchronized]))
  BY DEF CheckPublication, Find, Finding, With, owned
<1> QED
  BY <1>2, <1>3, <1>4, <1>5, <1>6, <1>7, <1>8, <1>9

\* The phase a status goes to, and what it has found then.
LEMMA FindingFacts ==
  ASSUME job \in Job, NEW phase, NEW next \in Phases, NEW found, Finding(phase, next, found)
  PROVE  /\ job.phase = phase /\ job'.phase = next /\ job'.found = found
         /\ job'.secret = job.secret /\ job'.moved = job.moved
         /\ found \in [Checks -> Conclusions] => job' \in Job
  BY DEF Finding, Job

LEMMA WithFacts ==
  ASSUME job \in Job, NEW checks, NEW conclusion
  PROVE  /\ \A c \in Checks \cap checks : With(checks, conclusion)[c] = conclusion[c]
         /\ \A c \in Checks \ checks : With(checks, conclusion)[c] = job.found[c]
         /\ (\A c \in Checks \cap checks : conclusion[c] \in Conclusions)
              => With(checks, conclusion) \in [Checks -> Conclusions]
<1>1. job.found \in [Checks -> Conclusions]
  BY DEF Job
<1> QED
  BY <1>1 DEF With

LEMMA ExaminingTyped ==
  ASSUME StatusTyped, Examining
  PROVE  StatusTyped'
<1>1. job \in Job /\ world \in World /\ loaded \in 0 .. MaxBundles
  BY DEF StatusTyped, TypeOK
<1>2. ASSUME UNCHANGED <<plan, world, bundles, hand, loaded, audit, receipts, review, active,
                         word, steps>>, job' \in Job
      PROVE  StatusTyped'
  BY <1>2 DEF StatusTyped, TypeOK
<1>3. ASSUME NEW phase, NEW next \in Phases, NEW checks, NEW conclusion,
             Finding(phase, next, With(checks, conclusion)),
             \A c \in Checks \cap checks : conclusion[c] \in Conclusions
      PROVE  StatusTyped'
  <2>1. With(checks, conclusion) \in [Checks -> Conclusions]
    BY <1>1, <1>3, WithFacts
  <2>2. job' \in Job
    BY <1>1, <1>3, <2>1, FindingFacts
  <2> QED
    BY <1>2, <1>3, <2>2 DEF Finding
<1>4. /\ "source" \in Phases /\ "offline" \in Phases /\ "copies" \in Phases
      /\ "vaultwarden" \in Phases /\ "restore" \in Phases /\ "capsule" \in Phases
      /\ "publication" \in Phases /\ "report" \in Phases
  BY DEF Phases
<1>5. CASE BeginStatus
  <2>1. PICK secret \in {world.at["document"], loaded} :
          job' = [Idle EXCEPT !.phase = "bundle", !.secret = secret,
                              !.found = [c \in Checks |->
                                 IF c \in {"plan", "report", "attested"} THEN OfStore(c)
                                 ELSE Idle.found[c]]]
    BY <1>5 DEF BeginStatus
  <2>2. secret \in 0 .. MaxBundles
    BY <1>1 DEF World, Places
  <2>3. /\ Idle.found \in [Checks -> Conclusions] /\ Idle \in Job /\ "bundle" \in Phases
    BY IdleTyped DEF Job, Phases
  <2>4. job' \in Job
    BY <2>1, <2>2, <2>3, ConclusionTyped DEF Job
  <2> QED
    BY <1>2, <1>5, <2>4 DEF BeginStatus, owned
<1>6. CASE CheckBundle
  BY <1>3, <1>4, <1>6, Findings, ConclusionTyped
<1>7. CASE CheckSource
  <2>1. job.found["bundle"] \in Conclusions
    BY <1>1 DEF Job, Checks
  <2>2. (IF job.found["bundle"] = "current" /\ ~ SourceUnchanged
           THEN "invalidated" ELSE job.found["bundle"]) \in Conclusions
    BY <2>1 DEF Conclusions
  <2> QED
    BY <1>3, <1>4, <1>7, <2>2, Findings
<1>8. CASE CheckOffline
  BY <1>3, <1>4, <1>8, Findings, ConclusionTyped
<1>9. CASE CheckCopies
  BY <1>3, <1>4, <1>9, Findings, ConclusionTyped
<1>10. CASE CheckVaultwarden
  BY <1>3, <1>4, <1>10, Findings, ConclusionTyped
<1>11. CASE CheckRestore
  BY <1>3, <1>4, <1>11, Findings, ConclusionTyped
<1>12. CASE CheckCapsule
  BY <1>3, <1>4, <1>12, Findings, ConclusionTyped
<1>13. CASE CheckPublication
  BY <1>3, <1>4, <1>13, Findings, ConclusionTyped
<1>14. CASE EndStatus
  BY <1>2, <1>14, IdleTyped DEF EndStatus, owned
<1> QED
  BY <1>5, <1>6, <1>7, <1>8, <1>9, <1>10, <1>11, <1>12, <1>13, <1>14 DEF Examining

\* What changes is one thing, to a version that nothing had or to nothing; a
\* running status has then seen its change.
LEMMA ChangingFacts ==
  ASSUME StatusTyped, Changing
  PROVE  \E thing \in Things :
           /\ world' \in World /\ steps' \in Versions
           /\ UNCHANGED <<plan, bundles, hand, loaded, audit, receipts, review, active, word>>
           /\ job.moved = "nothing"
           /\ job' = IF job.phase = "idle" THEN job ELSE [job EXCEPT !.moved = thing]
           /\ thing # "source" => world'.source = world.source
           /\ thing # "local" => world'.local = world.local
           /\ thing # "remote" => world'.remote = world.remote
           /\ thing # "dirty" => world'.dirty = world.dirty
           /\ \A p \in Places : /\ thing # p => world'.at[p] = world.at[p]
                                /\ world'.at[p] \in {world.at[p], Nothing}
<1>1. world \in World /\ steps \in Versions
  BY DEF StatusTyped, TypeOK
<1>2. ASSUME Step PROVE steps' \in Versions /\ steps + 1 \in Versions
  BY <1>1, <1>2, StepTyped
<1>3. CASE Edit
  <2>1. /\ Moves("source") /\ world' = [world EXCEPT !.source = steps + 1]
        /\ "source" \in Things
    BY <1>3 DEF Edit, Things
  <2> QED
    BY <1>1, <1>2, <2>1 DEF Moves, World, owned, Places, Copies
<1>4. CASE Commit
  <2>1. /\ Moves("local") /\ world' = [world EXCEPT !.local = steps + 1]
        /\ "local" \in Things
    BY <1>4 DEF Commit, Things
  <2> QED
    BY <1>1, <1>2, <2>1 DEF Moves, World, owned, Places, Copies
<1>5. CASE RemoteMoves
  <2>1. /\ Moves("remote") /\ world' = [world EXCEPT !.remote = steps + 1]
        /\ "remote" \in Things
    BY <1>5 DEF RemoteMoves, Things
  <2> QED
    BY <1>1, <1>2, <2>1 DEF Moves, World, owned, Places, Copies
<1>6. CASE Clean
  <2>1. /\ Moves("dirty") /\ world' = [world EXCEPT !.dirty = ~ world.dirty]
        /\ "dirty" \in Things
    BY <1>6 DEF Clean, Things
  <2>2. (~ world.dirty) \in BOOLEAN
    OBVIOUS
  <2> QED
    BY <1>1, <1>2, <2>1, <2>2 DEF Moves, World, owned, Places, Copies
<1>7. ASSUME NEW q \in Places, Lose(q)
      PROVE  \E thing \in Things :
               /\ world' \in World /\ steps' \in Versions
               /\ UNCHANGED <<plan, bundles, hand, loaded, audit, receipts, review, active, word>>
               /\ job.moved = "nothing"
               /\ job' = IF job.phase = "idle" THEN job ELSE [job EXCEPT !.moved = thing]
               /\ thing # "source" => world'.source = world.source
               /\ thing # "local" => world'.local = world.local
               /\ thing # "remote" => world'.remote = world.remote
               /\ thing # "dirty" => world'.dirty = world.dirty
               /\ \A p \in Places : /\ thing # p => world'.at[p] = world.at[p]
                                    /\ world'.at[p] \in {world.at[p], Nothing}
  <2>1. Moves(q) /\ Place(q, Nothing) /\ q \in Things
    BY <1>7 DEF Lose, Things
  <2>2. world' \in World
    BY <1>1, <2>1, Constants, PlaceTyped DEF Nothing
  <2>3. /\ world'.source = world.source /\ world'.local = world.local
        /\ world'.remote = world.remote /\ world'.dirty = world.dirty
        /\ \A p \in Places : /\ q # p => world'.at[p] = world.at[p]
                             /\ world'.at[p] \in {world.at[p], Nothing}
    BY <1>1, <2>1 DEF Place, World
  <2> QED
    BY <1>2, <2>1, <2>2, <2>3 DEF Moves, owned
<1> QED
  BY <1>3, <1>4, <1>5, <1>6, <1>7 DEF Changing

LEMMA MovedTyped ==
  ASSUME job \in Job, NEW thing \in Things, NEW k, k = [job EXCEPT !.moved = thing]
  PROVE  /\ k \in Job /\ k.phase = job.phase /\ k.secret = job.secret
         /\ k.found = job.found /\ k.moved = thing
  BY DEF Job

LEMMA NextTyped ==
  ASSUME StatusTyped, [Next]_vars
  PROVE  StatusTyped'
<1>1. CASE Changing
  <2>1. job \in Job
    BY DEF StatusTyped, TypeOK
  <2>2. PICK thing \in Things :
          /\ world' \in World /\ steps' \in Versions
          /\ UNCHANGED <<plan, bundles, hand, loaded, audit, receipts, review, active, word>>
          /\ job' = IF job.phase = "idle" THEN job ELSE [job EXCEPT !.moved = thing]
    BY <1>1, ChangingFacts
  <2>3. job' \in Job
    BY <2>1, <2>2, MovedTyped
  <2> QED
    BY <2>2, <2>3 DEF StatusTyped, TypeOK
<1>2. CASE UNCHANGED vars
  BY <1>2 DEF vars, StatusTyped, TypeOK
<1> QED
  BY <1>1, <1>2, PreparingTyped, RecordingTyped, ExaminingTyped DEF Next

LEMMA AlwaysTyped == Spec => []StatusTyped
<1>1. Init => StatusTyped
  BY InitTyped
<1>2. StatusTyped /\ [Next]_vars => StatusTyped'
  BY NextTyped
<1> QED
  BY <1>1, <1>2, PTL DEF Spec

\* The store, the reports of the owner, the world and a running status have their
\* types, and only verified captures and restorable rehearsals are in the store
\* (record_receipt, confirm_attestation, status).
THEOREM TypeCorrect == Spec => []TypeOK
<1>1. StatusTyped => TypeOK
  BY DEF StatusTyped
<1> QED
  BY <1>1, AlwaysTyped, PTL

(***************************************************************************)
(* What a running status has examined                                      *)
(***************************************************************************)
\* The phases of a status once its report, capsule, ... are concluded.
SincePublication == {"report"}
SinceCapsule     == {"publication"} \cup SincePublication
SinceRestore     == {"capsule"} \cup SinceCapsule
SinceVaultwarden == {"restore"} \cup SinceRestore
SinceCopies      == {"vaultwarden"} \cup SinceVaultwarden
SinceOffline     == {"copies"} \cup SinceCopies
SinceSource      == {"offline"} \cup SinceOffline
SinceBundle      == {"source"} \cup SinceSource

Sound(c) == job.found[c] = "current"

TheBundle == receipts["bundle"].bundle

\* The Bundle of the receipt is the one that the secret of the request opens; its
\* path has it, or has nothing if it was lost after it was examined.
BundleExamined ==
  /\ TheBundle # Nothing /\ bundles[TheBundle].plan = HeaderPlan /\ job.secret = TheBundle
  /\ world.at["bundle"] \in {TheBundle, Nothing}
  /\ Still("bundle") => world.at["bundle"] = TheBundle

\* Every artifact that was examined with success after the Bundle is one of that
\* Bundle, unless it is what has changed since.
ExaminedOK ==
  Sound("bundle") =>
    /\ job.phase \in SinceBundle => BundleExamined
    /\ job.phase \in SinceSource /\ Still("source") => bundles[TheBundle].version = world.source
    /\ job.phase \in SinceOffline /\ Sound("offline") /\ Still("document")
         => world.at["document"] = TheBundle
    /\ \A p \in Copies : job.phase \in SinceCopies /\ Sound(p) /\ Still(p)
         => world.at[p] = TheBundle
    /\ job.phase \in SinceVaultwarden /\ Sound("vaultwarden") => loaded = TheBundle
    /\ job.phase \in SinceRestore /\ Sound("restore") /\ Still("restored")
         => world.at["restored"] = TheBundle

\* The changing world takes nothing back that still is as it was examined.
LEMMA ExaminedIsKept ==
  ASSUME StatusTyped, ExaminedOK, Changing
  PROVE  ExaminedOK'
<1>1. job \in Job /\ world \in World
  BY DEF StatusTyped, TypeOK
<1>2. PICK thing \in Things :
        /\ UNCHANGED <<bundles, loaded, receipts>>
        /\ job.moved = "nothing"
        /\ job' = IF job.phase = "idle" THEN job ELSE [job EXCEPT !.moved = thing]
        /\ thing # "source" => world'.source = world.source
        /\ \A p \in Places : /\ thing # p => world'.at[p] = world.at[p]
                             /\ world'.at[p] \in {world.at[p], Nothing}
  BY ChangingFacts
<1>3. CASE job.phase = "idle"
  BY <1>2, <1>3
  DEF ExaminedOK, SinceBundle, SinceSource, SinceOffline, SinceCopies, SinceVaultwarden,
      SinceRestore, SinceCapsule, SincePublication
<1>4. CASE job.phase # "idle"
  <2>1. /\ job'.phase = job.phase /\ job'.secret = job.secret
        /\ job'.found = job.found /\ job'.moved = thing
    BY <1>1, <1>2, <1>4, MovedTyped
  <2>2. /\ "bundle" \in Places /\ "document" \in Places /\ "restored" \in Places
        /\ Copies \subseteq Places
    BY DEF Places
  <2>3. /\ Still("source") /\ Still("document") /\ Still("restored") /\ Still("bundle")
        /\ \A p \in Copies : Still(p)
    BY <1>2 DEF Still, Copies
  <2>4. ASSUME NEW p \in Places, Still(p)'
        PROVE  world'.at[p] = world.at[p]
    BY <1>2, <2>1, <2>4 DEF Still
  <2>5. Still("source")' => world'.source = world.source
    BY <1>2, <2>1 DEF Still
  <2>6. TheBundle' = TheBundle /\ \A c \in Checks : Sound(c)' = Sound(c)
    BY <1>2, <2>1 DEF TheBundle, Sound
  <2>7. BundleExamined => BundleExamined'
    BY <1>2, <2>1, <2>2, <2>3, <2>4, <2>6 DEF BundleExamined
  <2>8. Copies \cup {"bundle", "offline", "vaultwarden", "restore"} \subseteq Checks
    BY DEF Checks
  <2> QED
    BY <1>2, <2>1, <2>2, <2>3, <2>4, <2>5, <2>6, <2>7, <2>8 DEF ExaminedOK
<1> QED
  BY <1>3, <1>4

\* The store and the world are as they were while a status concludes something.
Quiet(phase, next, checks, conclusion) ==
  /\ job.phase = phase /\ job'.phase = next /\ job'.secret = job.secret
  /\ \A thing : Still(thing)' = Still(thing)
  /\ TheBundle' = TheBundle
  /\ BundleExamined => BundleExamined'
  /\ UNCHANGED <<plan, world, bundles, loaded, audit, receipts, active>>
  /\ \A c \in Checks \ checks : Sound(c)' = Sound(c)
  /\ \A c \in Checks \cap checks : Sound(c)' => conclusion[c] = "current"

LEMMA QuietExamination ==
  ASSUME job \in Job, NEW phase, NEW next \in Phases, NEW checks, NEW conclusion,
         Finding(phase, next, With(checks, conclusion))
  PROVE  Quiet(phase, next, checks, conclusion)
<1>1. /\ job.phase = phase /\ job'.phase = next /\ job'.found = With(checks, conclusion)
      /\ job'.secret = job.secret /\ job'.moved = job.moved
  BY FindingFacts
<1>2. UNCHANGED <<plan, world, bundles, loaded, audit, receipts, active>>
  BY DEF Finding
<1>3. \A thing : Still(thing)' = Still(thing)
  BY <1>1 DEF Still
<1>4. TheBundle' = TheBundle
  BY <1>2 DEF TheBundle
<1>5. /\ \A c \in Checks \ checks : Sound(c)' = Sound(c)
      /\ \A c \in Checks \cap checks : Sound(c)' = (conclusion[c] = "current")
  BY <1>1, WithFacts DEF Sound
<1>6. BundleExamined => BundleExamined'
  BY <1>1, <1>2, <1>3, <1>4 DEF BundleExamined
<1> QED
  BY <1>1, <1>2, <1>3, <1>4, <1>5, <1>6 DEF Quiet

LEMMA PhaseNames ==
  /\ "source" \in Phases /\ "offline" \in Phases /\ "copies" \in Phases
  /\ "vaultwarden" \in Phases /\ "restore" \in Phases /\ "capsule" \in Phases
  /\ "publication" \in Phases /\ "report" \in Phases
  /\ SinceBundle = {"source", "offline", "copies", "vaultwarden", "restore", "capsule",
                    "publication", "report"}
  /\ SinceSource = SinceBundle \ {"source"} /\ SinceOffline = SinceSource \ {"offline"}
  /\ SinceCopies = SinceOffline \ {"copies"} /\ SinceVaultwarden = SinceCopies \ {"vaultwarden"}
  /\ SinceRestore = SinceVaultwarden \ {"restore"} /\ SinceCapsule = SinceRestore \ {"capsule"}
  /\ SincePublication = SinceCapsule \ {"publication"}
  BY DEF Phases, SinceBundle, SinceSource, SinceOffline, SinceCopies, SinceVaultwarden,
     SinceRestore, SinceCapsule, SincePublication

LEMMA CheckNames ==
  /\ Checks = {"external", "icloud", "plan", "report", "bundle", "offline", "vaultwarden",
               "restore", "attested", "restorable", "synchronized"}
  /\ Copies = {"external", "icloud"}
  BY DEF Checks, Copies

\* Each examination adds what it concludes.
LEMMA ExaminedGrows ==
  ASSUME StatusTyped, ExaminedOK, Examining
  PROVE  ExaminedOK'
<1>1. job \in Job /\ world \in World
  BY DEF StatusTyped, TypeOK
<1>2. CASE BeginStatus \/ EndStatus
  <2>1. job'.phase \in {"idle", "bundle"}
    BY <1>2, IdleTyped DEF BeginStatus, EndStatus, Job, Phases
  <2> QED
    BY <2>1, PhaseNames DEF ExaminedOK
<1>3. CASE CheckBundle
  <2> DEFINE conclusion == [c \in Checks |-> Conclude("bundle", BundleHolds)]
  <2>1. Finding("bundle", "source", With({"bundle"}, conclusion))
    BY <1>3, Findings
  <2>2. conclusion["bundle"] = Conclude("bundle", BundleHolds)
    BY CheckNames
  <2> HIDE DEF conclusion
  <2>3. /\ job'.phase = "source" /\ UNCHANGED <<plan, world, bundles, receipts>>
        /\ job'.secret = job.secret
        /\ Sound("bundle")' => Conclude("bundle", BundleHolds) = "current"
    <3>1. Quiet("bundle", "source", {"bundle"}, conclusion)
      BY <1>1, <2>1, PhaseNames, QuietExamination
    <3> QED
      BY <2>2, <3>1, CheckNames DEF Quiet
  <2>4. ASSUME Sound("bundle")' PROVE BundleExamined'
    <3>1. PlanIsCurrent /\ BundleHolds
      BY <2>3, <2>4 DEF Conclude
    <3> QED
      BY <2>3, <3>1
      DEF PlanIsCurrent, BundleHolds, Opens, Bundled, BundleExamined, TheBundle, HeaderPlan
  <2> QED
    BY <2>3, <2>4, PhaseNames DEF ExaminedOK
<1>4. CASE CheckSource
  <2> DEFINE conclusion == [c \in Checks |->
                              IF job.found["bundle"] = "current" /\ ~ SourceUnchanged
                                THEN "invalidated" ELSE job.found["bundle"]]
  <2>1. Finding("source", "offline", With({"bundle"}, conclusion))
    BY <1>4, Findings
  <2>2. conclusion["bundle"] = "current" => Sound("bundle") /\ SourceUnchanged
    BY CheckNames DEF Sound
  <2> HIDE DEF conclusion
  <2>3. /\ job.phase = "source" /\ job'.phase = "offline" /\ TheBundle' = TheBundle
        /\ UNCHANGED <<world, bundles>>
        /\ BundleExamined => BundleExamined'
        /\ Sound("bundle")' => Sound("bundle") /\ SourceUnchanged
    <3>1. Quiet("source", "offline", {"bundle"}, conclusion)
      BY <1>1, <2>1, PhaseNames, QuietExamination
    <3> QED
      BY <2>2, <3>1, CheckNames DEF Quiet
  <2>4. ASSUME Sound("bundle")'
        PROVE  BundleExamined' /\ bundles[TheBundle].version = world.source
    <3>1. BundleExamined /\ SourceUnchanged
      BY <2>3, <2>4, PhaseNames DEF ExaminedOK
    <3> QED
      BY <2>3, <3>1 DEF SourceUnchanged, Opens, BundleExamined
  <2> QED
    BY <2>3, <2>4, PhaseNames DEF ExaminedOK
<1>5. CASE CheckOffline
  <2> DEFINE conclusion == [c \in Checks |-> Conclude("offline", OfflineHolds)]
  <2>1. Finding("offline", "copies", With({"offline"}, conclusion))
    BY <1>5, Findings
  <2>2. conclusion["offline"] = Conclude("offline", OfflineHolds)
    BY CheckNames
  <2> HIDE DEF conclusion
  <2>3. /\ job.phase = "offline" /\ job'.phase = "copies" /\ TheBundle' = TheBundle
        /\ UNCHANGED <<world, bundles, receipts>>
        /\ BundleExamined => BundleExamined'
        /\ \A thing : Still(thing)' = Still(thing)
        /\ Sound("bundle")' => Sound("bundle")
        /\ Sound("offline")' => Conclude("offline", OfflineHolds) = "current"
    <3>1. Quiet("offline", "copies", {"offline"}, conclusion)
      BY <1>1, <2>1, PhaseNames, QuietExamination
    <3> QED
      BY <2>2, <3>1, CheckNames DEF Quiet
  <2>4. ASSUME Sound("bundle")', Sound("offline")'
        PROVE  world.at["document"] = TheBundle
    <3>1. BundleExamined /\ OfflineHolds
      BY <2>3, <2>4, PhaseNames DEF ExaminedOK, Conclude
    <3> QED
      BY <3>1 DEF OfflineHolds, BundleExamined
  <2> QED
    BY <2>3, <2>4, PhaseNames DEF ExaminedOK
<1>6. CASE CheckCopies
  <2> DEFINE conclusion == [c \in Checks |-> Conclude(c, CopyHolds(c))]
  <2>1. Finding("copies", "vaultwarden", With(Copies, conclusion))
    BY <1>6, Findings
  <2>2. \A p \in Copies : conclusion[p] = Conclude(p, CopyHolds(p))
    BY CheckNames
  <2> HIDE DEF conclusion
  <2>3. /\ job.phase = "copies" /\ job'.phase = "vaultwarden" /\ TheBundle' = TheBundle
        /\ UNCHANGED <<world, bundles, receipts>>
        /\ BundleExamined => BundleExamined'
        /\ \A thing : Still(thing)' = Still(thing)
        /\ Sound("bundle")' => Sound("bundle")
        /\ Sound("offline")' => Sound("offline")
        /\ \A p \in Copies : Sound(p)' => Conclude(p, CopyHolds(p)) = "current"
    <3>1. Quiet("copies", "vaultwarden", Copies, conclusion)
      BY <1>1, <2>1, PhaseNames, QuietExamination
    <3> QED
      BY <2>2, <3>1, CheckNames DEF Quiet
  <2>4. ASSUME Sound("bundle")', NEW p \in Copies, Sound(p)'
        PROVE  world.at[p] = TheBundle
    <3>1. BundleExamined
      BY <2>3, <2>4, PhaseNames DEF ExaminedOK
    <3>2. CopyHolds(p)
      BY <2>3, <2>4 DEF Conclude
    <3> QED
      BY <3>1, <3>2 DEF CopyHolds, Opens, BundleExamined
  <2> QED
    BY <2>3, <2>4, PhaseNames DEF ExaminedOK
<1>7. CASE CheckVaultwarden
  <2> DEFINE conclusion == [c \in Checks |-> Conclude("vaultwarden", VaultwardenHolds)]
  <2>1. Finding("vaultwarden", "restore", With({"vaultwarden"}, conclusion))
    BY <1>7, Findings
  <2>2. conclusion["vaultwarden"] = Conclude("vaultwarden", VaultwardenHolds)
    BY CheckNames
  <2> HIDE DEF conclusion
  <2>3. /\ job.phase = "vaultwarden" /\ job'.phase = "restore" /\ TheBundle' = TheBundle
        /\ UNCHANGED <<world, bundles, receipts, loaded>>
        /\ BundleExamined => BundleExamined'
        /\ \A thing : Still(thing)' = Still(thing)
        /\ Sound("bundle")' => Sound("bundle")
        /\ Sound("offline")' => Sound("offline")
        /\ \A p \in Copies : Sound(p)' => Sound(p)
        /\ Sound("vaultwarden")' => Conclude("vaultwarden", VaultwardenHolds) = "current"
    <3>1. Quiet("vaultwarden", "restore", {"vaultwarden"}, conclusion)
      BY <1>1, <2>1, PhaseNames, QuietExamination
    <3> QED
      BY <2>2, <3>1, CheckNames DEF Quiet
  <2>4. ASSUME Sound("bundle")', Sound("vaultwarden")'
        PROVE  loaded = TheBundle
    <3>1. BundleExamined /\ VaultwardenHolds
      BY <2>3, <2>4, PhaseNames DEF ExaminedOK, Conclude
    <3> QED
      BY <3>1 DEF VaultwardenHolds, BundleExamined
  <2> QED
    BY <2>3, <2>4, PhaseNames DEF ExaminedOK
<1>8. CASE CheckRestore
  <2> DEFINE conclusion == [c \in Checks |-> Conclude("restore", RestoreHolds)]
  <2>1. Finding("restore", "capsule", With({"restore"}, conclusion))
    BY <1>8, Findings
  <2>2. conclusion["restore"] = Conclude("restore", RestoreHolds)
    BY CheckNames
  <2> HIDE DEF conclusion
  <2>3. /\ job.phase = "restore" /\ job'.phase = "capsule" /\ TheBundle' = TheBundle
        /\ UNCHANGED <<world, bundles, receipts, loaded>>
        /\ BundleExamined => BundleExamined'
        /\ \A thing : Still(thing)' = Still(thing)
        /\ Sound("bundle")' => Sound("bundle")
        /\ Sound("offline")' => Sound("offline")
        /\ Sound("vaultwarden")' => Sound("vaultwarden")
        /\ \A p \in Copies : Sound(p)' => Sound(p)
        /\ Sound("restore")' => Conclude("restore", RestoreHolds) = "current"
    <3>1. Quiet("restore", "capsule", {"restore"}, conclusion)
      BY <1>1, <2>1, PhaseNames, QuietExamination
    <3> QED
      BY <2>2, <3>1, CheckNames DEF Quiet
  <2>4. ASSUME Sound("bundle")', Sound("restore")'
        PROVE  world.at["restored"] = TheBundle
    <3>1. BundleExamined /\ RestoreHolds
      BY <2>3, <2>4, PhaseNames DEF ExaminedOK, Conclude
    <3> QED
      BY <3>1 DEF RestoreHolds, Opens, BundleExamined
  <2> QED
    BY <2>3, <2>4, PhaseNames DEF ExaminedOK
<1>9. ASSUME NEW phase \in {"capsule", "publication"}, NEW next \in {"publication", "report"},
             NEW check \in {"restorable", "synchronized"}, NEW conclusion,
             Finding(phase, next, With({check}, conclusion))
      PROVE  ExaminedOK'
  <2>1. /\ job.phase \in {"capsule", "publication"} /\ job'.phase \in {"publication", "report"}
        /\ TheBundle' = TheBundle /\ UNCHANGED <<world, bundles, loaded>>
        /\ BundleExamined => BundleExamined'
        /\ \A thing : Still(thing)' = Still(thing)
        /\ \A c \in Checks \ {"restorable", "synchronized"} : Sound(c)' = Sound(c)
    <3>1. Quiet(phase, next, {check}, conclusion)
      BY <1>1, <1>9, PhaseNames, QuietExamination
    <3> QED
      BY <1>9, <3>1, CheckNames DEF Quiet
  <2> QED
    BY <2>1, CheckNames, PhaseNames DEF ExaminedOK
<1>10. CASE CheckCapsule \/ CheckPublication
  BY <1>9, <1>10, Findings
<1> QED
  BY <1>2, <1>3, <1>4, <1>5, <1>6, <1>7, <1>8, <1>10 DEF Examining

\* Outside a status nothing counts as examined.
LEMMA IdleExamined ==
  ASSUME NEW phase, phase \notin SinceBundle
  PROVE  /\ phase \notin SinceSource /\ phase \notin SinceOffline /\ phase \notin SinceCopies
         /\ phase \notin SinceVaultwarden /\ phase \notin SinceRestore
         /\ phase \notin SinceCapsule /\ phase \notin SincePublication
  BY PhaseNames

\* The owner acts only between two statuses.
LEMMA OwnerIsIdle ==
  ASSUME Preparing \/ Recording
  PROVE  job.phase = "idle" /\ job' = job
  BY DEF Preparing, PackBundle, VerifyBundle, RehearseOffline, RehearseVaultwarden, CopyBundle,
     RestoreBundle, CaptureProject, RehearseProject, AuditProject, PushProject, ChangePlan,
     Recording, RecordReceipt, Forget, RecordNotProtected, PrepareAttestation,
     ConfirmAttestation, WithdrawAttestation, Owner

LEMMA ExaminedKept ==
  ASSUME StatusTyped, ExaminedOK, [Next]_vars
  PROVE  ExaminedOK'
<1>1. CASE Preparing \/ Recording
  <2>1. job'.phase = "idle"
    BY <1>1, OwnerIsIdle
  <2> QED
    BY <2>1, PhaseNames DEF ExaminedOK
<1>2. CASE UNCHANGED vars
  BY <1>2 DEF vars, ExaminedOK, BundleExamined, TheBundle, Still, Sound
<1> QED
  BY <1>1, <1>2, ExaminedGrows, ExaminedIsKept DEF Next

\* CompleteEvidence is about one Bundle: every examination compared its artifact
\* with the receipt of its own kind, and all of these are tied to the Bundle that
\* the secret of the request opened (status, revalidate_current_source).
THEOREM CompletesAreRecoverable == Spec => []CompleteIsRecoverable
<1>1. Init => ExaminedOK
  BY IdleTyped, PhaseNames DEF Init, ExaminedOK
<1>2. StatusTyped /\ ExaminedOK /\ [Next]_vars => ExaminedOK'
  BY ExaminedKept
<1>3. ExaminedOK => CompleteIsRecoverable
  <2> SUFFICES ASSUME ExaminedOK, ReportsComplete
               PROVE  /\ TheBundle # Nothing /\ bundles[TheBundle].plan = HeaderPlan
                      /\ loaded = TheBundle
                      /\ Still("source") => bundles[TheBundle].version = world.source
                      /\ \A p \in Copies \cup {"bundle", "document", "restored"} :
                           Still(p) => world.at[p] = TheBundle
    BY DEF CompleteIsRecoverable, TheBundle
  <2>1. job.phase = "report" /\ \A c \in Checks : Sound(c)
    BY DEF ReportsComplete, Complete, Sound
  <2> QED
    BY <2>1, CheckNames, PhaseNames DEF ExaminedOK, BundleExamined
<1> QED
  BY <1>1, <1>2, <1>3, AlwaysTyped, PTL DEF Spec

(***************************************************************************)
(* Attestations                                                            *)
(***************************************************************************)
\* What a status concluded of the attestations still is so while it runs.
StatedOK == job.phase # "idle" /\ Sound("attested") => Attested

LEMMA StatedKept ==
  ASSUME StatusTyped, StatedOK, [Next]_vars
  PROVE  StatedOK'
<1>1. job \in Job
  BY DEF StatusTyped, TypeOK
<1>2. ASSUME UNCHANGED <<receipts, active>>, Sound("attested")' => Sound("attested"),
             job'.phase # "idle" => job.phase # "idle"
      PROVE  StatedOK'
  <2>1. Attested' = Attested
    BY <1>2 DEF Attested, Stated, ReferencesCurrentEvidence, Latest
  <2> QED
    BY <1>2, <2>1 DEF StatedOK
<1>3. CASE Preparing \/ Recording
  BY <1>3, OwnerIsIdle DEF StatedOK
<1>4. CASE Changing
  <2>1. PICK thing \in Things :
          /\ UNCHANGED <<receipts, active>>
          /\ job' = IF job.phase = "idle" THEN job ELSE [job EXCEPT !.moved = thing]
    BY <1>4, ChangingFacts
  <2>2. job'.phase = job.phase /\ job'.found = job.found
    BY <1>1, <2>1, MovedTyped
  <2> QED
    BY <1>2, <2>1, <2>2 DEF Sound
<1>5. CASE UNCHANGED vars
  BY <1>2, <1>5 DEF vars, Sound
<1>6. CASE BeginStatus
  <2>1. /\ Sound("attested")' => OfStore("attested") = "current"
        /\ UNCHANGED <<receipts, active>>
    BY <1>6, IdleTyped, CheckNames DEF BeginStatus, owned, Sound, Job
  <2>2. Attested' = Attested
    BY <2>1 DEF Attested, Stated, ReferencesCurrentEvidence, Latest
  <2> QED
    BY <2>1, <2>2 DEF StatedOK, OfStore
<1>7. CASE EndStatus
  BY <1>7, IdleTyped DEF EndStatus, StatedOK
<1>8. ASSUME NEW phase, NEW next \in Phases, NEW checks, NEW conclusion,
             Finding(phase, next, With(checks, conclusion)),
             phase # "idle", "attested" \notin checks
      PROVE  StatedOK'
  <2>1. Quiet(phase, next, checks, conclusion)
    BY <1>1, <1>8, QuietExamination
  <2> QED
    BY <1>2, <1>8, <2>1, CheckNames DEF Quiet
<1>9. CASE CheckBundle \/ CheckSource
  BY <1>8, <1>9, Findings, PhaseNames
<1>10. CASE CheckOffline \/ CheckCopies
  BY <1>8, <1>10, Findings, PhaseNames, CheckNames
<1>11. CASE CheckVaultwarden \/ CheckRestore
  BY <1>8, <1>11, Findings, PhaseNames
<1>12. CASE CheckCapsule \/ CheckPublication
  BY <1>8, <1>12, Findings, PhaseNames
<1> QED
  BY <1>3, <1>4, <1>5, <1>6, <1>7, <1>9, <1>10, <1>11, <1>12 DEF Next, Examining

\* An attestation, or the review of one, is about no later receipt than the latest;
\* if it is about that one, the owner has done what it says since.
WordOK ==
  /\ \A a \in active : /\ a.gen <= Latest(a.claim)
                       /\ a.gen = Latest(a.claim) => word[a.claim] = "given"
  /\ review.claim # "nothing" =>
       /\ review.gen <= Latest(review.claim)
       /\ review.gen = Latest(review.claim) => word[review.claim] # "none"

LEMMA InitWord ==
  ASSUME Init
  PROVE  WordOK
<1>1. StatusTyped /\ review.claim = "nothing" /\ word = [c \in Claims |-> "given"]
  BY InitTyped DEF Init, NoReview
<1>2. \A a \in active : a.claim \in Claims /\ a.gen = Latest(a.claim)
  BY DEF Init
<1>3. \A c \in Claims : Latest(c) \in Nat
  BY <1>1, LatestTyped, Constants DEF StatusTyped, TypeOK
<1> QED
  BY <1>1, <1>2, <1>3 DEF WordOK

\* A receipt makes every attestation and every review about its kind an old one.
LEMMA RecordedWord ==
  ASSUME StatusTyped, WordOK, NEW kind \in Kinds, NEW b, NEW m, NEW s,
         Recorded(kind, b, m, s), UNCHANGED active, UNCHANGED review \/ review'.claim = "nothing"
  PROVE  WordOK'
<1>1. /\ receipts \in [Kinds -> Receipt] /\ active \subseteq Attestation /\ review \in Review
      /\ word \in [Claims -> {"none", "reviewed", "given"}]
  BY DEF StatusTyped, TypeOK
<1> DEFINE r == [gen |-> receipts[kind].gen + 1, bundle |-> b, mark |-> m, sound |-> s]
<1>2. receipts' = [receipts EXCEPT ![kind] = r] /\ r.gen = receipts[kind].gen + 1
  BY DEF Recorded
<1> HIDE DEF r
<1>3. "nothing" \notin Kinds
  BY DEF Kinds, Copies
<1>4. ASSUME NEW c \in Claims
      PROVE  /\ Latest(c) \in Nat
             /\ IF About[c] = kind
                  THEN Latest(c)' = Latest(c) + 1
                  ELSE Latest(c)' = Latest(c) /\ word'[c] = word[c]
  <2>1. About[c] \in Kinds \cup {"nothing"}
    BY ClaimsAssumption DEF ClaimKinds, About, Kinds, Copies
  <2>2. Latest(c) \in Nat
    BY <1>1, LatestTyped, Constants
  <2>3. word'[c] = IF About[c] = kind THEN "none" ELSE word[c]
    BY DEF Recorded
  <2>4. CASE About[c] = "nothing"
    BY <1>3, <2>2, <2>3, <2>4 DEF Latest
  <2>5. CASE About[c] = kind
    BY <1>1, <1>2, <1>3, <2>2, <2>5 DEF Latest
  <2>6. CASE About[c] # "nothing" /\ About[c] # kind
    BY <1>1, <1>2, <2>1, <2>2, <2>3, <2>6 DEF Latest
  <2> QED
    BY <2>4, <2>5, <2>6
<1>5. \A a \in active : a.claim \in Claims /\ a.gen \in Nat
  BY <1>1, Constants DEF Attestation
<1>6. review.claim # "nothing" => review.claim \in Claims /\ review.gen \in Nat
  BY <1>1, Constants DEF Review
<1>7. ASSUME NEW c \in Claims, NEW gen \in Nat, gen <= Latest(c)
      PROVE  /\ gen <= Latest(c)'
             /\ gen = Latest(c)' => gen = Latest(c) /\ word'[c] = word[c]
  <2>1. CASE About[c] = kind
    <3>1. Latest(c) \in Nat /\ Latest(c)' = Latest(c) + 1
      BY <1>4, <2>1
    <3> QED
      BY <1>7, <3>1
  <2>2. CASE About[c] # kind
    <3>1. Latest(c)' = Latest(c) /\ word'[c] = word[c]
      BY <1>4, <2>2
    <3> QED
      BY <1>7, <3>1
  <2> QED
    BY <2>1, <2>2
<1>8. \A a \in active' : /\ a.gen <= Latest(a.claim)'
                         /\ a.gen = Latest(a.claim)' => word'[a.claim] = "given"
  BY <1>5, <1>7 DEF WordOK
<1>9. review'.claim # "nothing" =>
        /\ review'.gen <= Latest(review.claim)'
        /\ review'.gen = Latest(review.claim)' => word'[review'.claim] # "none"
  BY <1>6, <1>7 DEF WordOK
<1> QED
  BY <1>8, <1>9 DEF WordOK

LEMMA RecordingWord ==
  ASSUME StatusTyped, WordOK, Recording
  PROVE  WordOK'
<1>1. /\ receipts \in [Kinds -> Receipt] /\ active \subseteq Attestation /\ review \in Review
      /\ word \in [Claims -> {"none", "reviewed", "given"}] /\ hand \in Report
  BY DEF StatusTyped, TypeOK
<1>2. \A c \in Claims : Latest(c) \in Nat
  BY <1>1, LatestTyped, Constants
<1>3. \A a \in active : a.claim \in Claims
  BY <1>1 DEF Attestation
<1>4. CASE RecordReceipt
  <2>1. hand.kind \in Kinds
    BY <1>1, <1>4 DEF RecordReceipt, Report
  <2> QED
    BY <1>4, <2>1, RecordedWord DEF RecordReceipt
<1>5. CASE RecordNotProtected
  <2>1. "report" \in Kinds
    BY DEF Kinds
  <2> QED
    BY <1>5, <2>1, RecordedWord DEF RecordNotProtected
<1>6. ASSUME UNCHANGED receipts
      PROVE  \A c : Latest(c)' = Latest(c)
  BY <1>6 DEF Latest
<1>7. CASE Forget \/ WithdrawAttestation
  <2>1. /\ UNCHANGED <<receipts, word>> /\ active' \subseteq active
        /\ UNCHANGED review \/ review'.claim = "nothing"
    BY <1>7 DEF Forget, WithdrawAttestation, NoReview
  <2> QED
    BY <1>6, <2>1 DEF WordOK
<1>8. CASE PrepareAttestation
  <2>1. PICK claim \in Claims :
          /\ review' = [claim |-> claim, gen |-> Latest(claim)]
          /\ word' = [word EXCEPT ![claim] = IF word[claim] = "none" THEN "reviewed"
                                                                     ELSE word[claim]]
    BY <1>8 DEF PrepareAttestation
  <2>2. UNCHANGED <<receipts, active>>
    BY <1>8 DEF PrepareAttestation
  <2>3. word'[claim] # "none" /\ \A c \in Claims : word[c] = "given" => word'[c] = "given"
    BY <1>1, <2>1
  <2>4. review'.claim = claim /\ review'.gen = Latest(claim)
    BY <2>1
  <2>5. \A a \in active' : /\ a.gen <= Latest(a.claim)'
                           /\ a.gen = Latest(a.claim)' => word'[a.claim] = "given"
    BY <1>3, <1>6, <2>2, <2>3 DEF WordOK
  <2>6. /\ review'.gen <= Latest(review'.claim)
        /\ word'[review'.claim] # "none"
    BY <1>2, <2>3, <2>4
  <2> QED
    BY <1>6, <2>2, <2>5, <2>6 DEF WordOK, Latest
<1>9. CASE ConfirmAttestation
  <2>1. PICK id \in 1 .. MaxAttestations : active' = active \cup {Confirmed(id)}
    BY <1>9 DEF ConfirmAttestation
  <2>2. /\ UNCHANGED <<receipts, review>> /\ review.claim # "nothing"
        /\ word' = [word EXCEPT ![review.claim] = IF word[review.claim] = "reviewed" THEN "given"
                                                  ELSE word[review.claim]]
    BY <1>9 DEF ConfirmAttestation
  <2>3. review.claim \in Claims
    BY <1>1, <2>2 DEF Review
  <2>4. /\ \A c \in Claims : word[c] = "given" => word'[c] = "given"
        /\ word[review.claim] # "none" => word'[review.claim] = "given"
    BY <1>1, <2>2, <2>3
  <2>5. Confirmed(id).claim = review.claim /\ Confirmed(id).gen = review.gen
    BY DEF Confirmed
  <2>6. \A a \in active' : /\ a.gen <= Latest(a.claim)'
                           /\ a.gen = Latest(a.claim)' => word'[a.claim] = "given"
    BY <1>3, <1>6, <2>1, <2>2, <2>4, <2>5 DEF WordOK
  <2>7. /\ review.gen <= Latest(review.claim)
        /\ review.gen = Latest(review.claim) => word'[review.claim] # "none"
    BY <2>2, <2>4 DEF WordOK
  <2> QED
    BY <1>6, <2>2, <2>6, <2>7 DEF WordOK, Latest
<1> QED
  BY <1>4, <1>5, <1>7, <1>8, <1>9 DEF Recording

LEMMA NextWord ==
  ASSUME StatusTyped, WordOK, [Next]_vars
  PROVE  WordOK'
<1>1. CASE UNCHANGED <<receipts, review, active, word>>
  BY <1>1 DEF WordOK, Latest
<1>2. CASE Preparing
  BY <1>1, <1>2
  DEF Preparing, PackBundle, VerifyBundle, RehearseOffline, RehearseVaultwarden, CopyBundle,
      RestoreBundle, CaptureProject, RehearseProject, AuditProject, PushProject, ChangePlan
<1>3. CASE Examining
  BY <1>1, <1>3, Findings DEF Examining, Finding, BeginStatus, EndStatus, owned
<1>4. CASE Changing
  BY <1>1, <1>4, ChangingFacts
<1>5. CASE UNCHANGED vars
  BY <1>1, <1>5 DEF vars
<1> QED
  BY <1>2, <1>3, <1>4, <1>5, RecordingWord DEF Next

(***************************************************************************)
(* The Project                                                             *)
(***************************************************************************)
\* The capsule that was found is the one both receipts are about, and what the
\* Project has is retained in it or on the remote.
CapsuleExamined ==
  /\ receipts["capture"].gen # 0
  /\ receipts["capture"].bundle = receipts["rehearsal"].bundle
  /\ Still("capsule") => world.at["capsule"] = receipts["rehearsal"].bundle

ProjectOK ==
  /\ job.phase \in SinceCapsule /\ Sound("restorable") => CapsuleExamined
  /\ job.phase \in SincePublication /\ Sound("synchronized")
       => (Retained \/ Published) /\ (audit.dirty => Retained)

LEMMA ProjectIsKept ==
  ASSUME StatusTyped, ProjectOK, Changing
  PROVE  ProjectOK'
<1>1. job \in Job /\ world \in World
  BY DEF StatusTyped, TypeOK
<1>2. PICK thing \in Things :
        /\ UNCHANGED <<audit, receipts, active>>
        /\ job.moved = "nothing"
        /\ job' = IF job.phase = "idle" THEN job ELSE [job EXCEPT !.moved = thing]
        /\ thing # "local" => world'.local = world.local
        /\ thing # "remote" => world'.remote = world.remote
        /\ thing # "dirty" => world'.dirty = world.dirty
        /\ \A p \in Places : thing # p => world'.at[p] = world.at[p]
  BY ChangingFacts
<1>3. CASE job.phase = "idle"
  BY <1>2, <1>3, PhaseNames DEF ProjectOK
<1>4. CASE job.phase # "idle"
  <2>1. job'.phase = job.phase /\ job'.found = job.found /\ job'.moved = thing
    BY <1>1, <1>2, <1>4, MovedTyped
  <2>2. Still("capsule") /\ Still("dirty") /\ Still("local") /\ Still("remote")
    BY <1>2 DEF Still
  <2>3. Still("capsule")' => world'.at["capsule"] = world.at["capsule"]
    BY <1>2, <2>1 DEF Still, Places
  <2>4. /\ Still("dirty")' => world'.dirty = world.dirty
        /\ Still("local")' => world'.local = world.local
        /\ Still("remote")' => world'.remote = world.remote
    BY <1>2, <2>1 DEF Still
  <2>5. CapsuleExamined => CapsuleExamined'
    BY <1>2, <2>2, <2>3 DEF CapsuleExamined
  <2>6. Retained => Retained'
    BY <1>2 DEF Retained
  <2>7. Published => Published'
    BY <1>2, <2>2, <2>4 DEF Published
  <2> QED
    BY <1>2, <2>1, <2>5, <2>6, <2>7 DEF ProjectOK, Sound
<1> QED
  BY <1>3, <1>4

\* The Project is synchronized by a retention, by a push or by its last audit.
LEMMA SynchronizedIsSafe ==
  ASSUME Synchronized = "current"
  PROVE  (Retained \/ Published) /\ (audit.dirty => Retained)
<1>1. CASE audit.dirty
  <2>1. "retained" \in Claims /\ Stated("retained") # {}
    BY <1>1 DEF Synchronized, Retention
  <2>2. Latest("retained") = receipts["capture"].gen
    BY DEF Latest, About
  <2> QED
    BY <2>1, <2>2 DEF Stated, ReferencesCurrentEvidence, Retained
<1>2. CASE ~ audit.dirty /\ receipts["push"].gen = 0
  <2>1. AuditIsCurrent
    BY <1>2 DEF Synchronized, AlreadySynchronized
  <2> QED
    BY <1>2, <2>1 DEF AuditIsCurrent, Published
<1>3. CASE ~ audit.dirty /\ receipts["push"].gen # 0
  <2>1. StillPublished
    BY <1>3 DEF Synchronized
  <2> QED
    BY <1>3, <2>1 DEF StillPublished, AuditIsCurrent, Published
<1> QED
  BY <1>1, <1>2, <1>3

LEMMA ProjectKept ==
  ASSUME StatusTyped, ProjectOK, [Next]_vars
  PROVE  ProjectOK'
<1>1. job \in Job
  BY DEF StatusTyped, TypeOK
<1>2. ASSUME job'.phase \notin SinceCapsule PROVE ProjectOK'
  BY <1>2, PhaseNames DEF ProjectOK
<1>3. CASE Preparing \/ Recording
  BY <1>2, <1>3, OwnerIsIdle, PhaseNames
<1>4. CASE UNCHANGED vars
  BY <1>4 DEF vars, ProjectOK, CapsuleExamined, Retained, Published, Still, Sound
<1>5. CASE BeginStatus \/ EndStatus
  <2>1. job'.phase \in {"idle", "bundle"}
    BY <1>5, IdleTyped DEF BeginStatus, EndStatus, Job, Phases
  <2> QED
    BY <1>2, <2>1, PhaseNames
<1>6. CASE \/ CheckBundle \/ CheckSource \/ CheckOffline \/ CheckCopies \/ CheckVaultwarden
           \/ CheckRestore
  <2>1. ASSUME NEW phase, NEW next \in Phases \ SinceCapsule, NEW checks, NEW conclusion,
               Finding(phase, next, With(checks, conclusion))
        PROVE  ProjectOK'
    <3>1. Quiet(phase, next, checks, conclusion)
      BY <1>1, <2>1, QuietExamination
    <3> QED
      BY <1>2, <2>1, <3>1 DEF Quiet
  <2>2. {"source", "offline", "copies", "vaultwarden", "restore", "capsule"}
          \subseteq Phases \ SinceCapsule
    BY PhaseNames
  <2> QED
    BY <1>6, <2>1, <2>2, Findings
<1>7. CASE CheckCapsule
  <2> DEFINE conclusion == [c \in Checks |-> Restorable]
  <2>1. Finding("capsule", "publication", With({"restorable"}, conclusion))
    BY <1>7, Findings
  <2>2. conclusion["restorable"] = Restorable
    BY CheckNames
  <2> HIDE DEF conclusion
  <2>3. Quiet("capsule", "publication", {"restorable"}, conclusion)
    BY <1>1, <2>1, PhaseNames, QuietExamination
  <2>4. /\ job'.phase = "publication" /\ UNCHANGED <<world, receipts>>
        /\ \A thing : Still(thing)' = Still(thing)
        /\ Sound("restorable")' => Restorable = "current"
    BY <2>2, <2>3, CheckNames DEF Quiet
  <2>5. ASSUME Restorable = "current" PROVE CapsuleExamined
    BY <2>5 DEF Restorable, Conclude, CapsuleHolds, Bundled, CapsuleExamined
  <2> QED
    BY <2>4, <2>5, PhaseNames DEF ProjectOK, CapsuleExamined
<1>8. CASE CheckPublication
  <2> DEFINE conclusion == [c \in Checks |-> Synchronized]
  <2>1. Finding("publication", "report", With({"synchronized"}, conclusion))
    BY <1>8, Findings
  <2>2. conclusion["synchronized"] = Synchronized
    BY CheckNames
  <2> HIDE DEF conclusion
  <2>3. Quiet("publication", "report", {"synchronized"}, conclusion)
    BY <1>1, <2>1, PhaseNames, QuietExamination
  <2>4. /\ job.phase = "publication" /\ job'.phase = "report"
        /\ UNCHANGED <<world, audit, receipts, active>>
        /\ \A thing : Still(thing)' = Still(thing)
        /\ Sound("restorable")' => Sound("restorable")
        /\ Sound("synchronized")' => Synchronized = "current"
    BY <2>2, <2>3, CheckNames DEF Quiet
  <2>5. /\ CapsuleExamined => CapsuleExamined'
        /\ Retained => Retained'
        /\ Published => Published'
    BY <2>4 DEF CapsuleExamined, Retained, Published
  <2>6. Synchronized = "current" => (Retained \/ Published) /\ (audit.dirty => Retained)
    BY SynchronizedIsSafe
  <2>7. Sound("restorable")' => CapsuleExamined'
    BY <2>4, <2>5, PhaseNames DEF ProjectOK
  <2>8. Sound("synchronized")' => (Retained' \/ Published') /\ (audit'.dirty => Retained')
    BY <2>4, <2>5, <2>6
  <2>9. /\ (Retained \/ Published)' <=> (Retained' \/ Published')
        /\ (audit.dirty => Retained)' <=> (audit'.dirty => Retained')
    OBVIOUS
  <2> QED
    BY <2>7, <2>8, <2>9 DEF ProjectOK
<1> QED
  BY <1>3, <1>4, <1>5, <1>6, <1>7, <1>8, ProjectIsKept DEF Next, Examining

\* CompleteEvidence means that the Project's capsule was captured and rehearsed as
\* the same Bundle, and that its state is retained there or was published
\* (revalidate_synchronized_project, requires_capsule_only_decision).
THEOREM CompleteProjectsAreSafe == Spec => []CompleteProjectIsSafe
<1>1. Init => ProjectOK
  BY IdleTyped, PhaseNames DEF Init, ProjectOK
<1>2. StatusTyped /\ ProjectOK /\ [Next]_vars => ProjectOK'
  BY ProjectKept
<1>3. ProjectOK => CompleteProjectIsSafe
  BY CheckNames, PhaseNames
  DEF ProjectOK, CompleteProjectIsSafe, ReportsComplete, Complete, Sound, CapsuleExamined
<1> QED
  BY <1>1, <1>2, <1>3, AlwaysTyped, PTL DEF Spec

\* CompleteEvidence rests on the owner's word about the receipts that count now,
\* for any claims and however many attestations were prepared, confirmed late,
\* repeated or withdrawn: what is confirmed refers to what was reviewed
\* (confirm_attestation), and only what refers to the latest receipt is counted
\* (owner_attestation_references_current_evidence).
THEOREM CompletesAreOwnersWord == Spec => []CompleteIsOwnersWord
<1> DEFINE Inv == StatedOK /\ WordOK /\ ProjectOK
<1>1. Init => Inv
  BY IdleTyped, PhaseNames, InitWord DEF Init, StatedOK, ProjectOK
<1>2. StatusTyped /\ Inv /\ [Next]_vars => Inv'
  BY StatedKept, NextWord, ProjectKept
<1>3. StatusTyped /\ Inv => CompleteIsOwnersWord
  <2> SUFFICES ASSUME StatusTyped, Inv, ReportsComplete,
                      NEW claim \in Required \cup {c \in Claims : c = "retained" /\ audit.dirty}
               PROVE  word[claim] = "given"
    BY DEF CompleteIsOwnersWord
  <2>1. ASSUME NEW a \in active, a.claim = claim, a.gen = Latest(claim)
        PROVE  word[claim] = "given"
    BY <2>1 DEF WordOK
  <2>2. CASE claim \in Required
    <3>1. Cardinality(Stated(claim)) = 1
      BY <2>2, CheckNames DEF ReportsComplete, Complete, StatedOK, Sound, Attested
    <3>2. Stated(claim) # {}
      BY <3>1, FS_EmptySet
    <3> QED
      BY <2>1, <3>2 DEF Stated, ReferencesCurrentEvidence
  <2>3. CASE claim = "retained" /\ audit.dirty
    <3>1. Retained
      BY <2>3, CheckNames, PhaseNames DEF ReportsComplete, Complete, ProjectOK, Sound
    <3>2. Latest("retained") = receipts["capture"].gen
      BY DEF Latest, About
    <3> QED
      BY <2>1, <2>3, <3>1, <3>2 DEF Retained
  <2> QED
    BY <2>2, <2>3
<1> QED
  BY <1>1, <1>2, <1>3, AlwaysTyped, PTL DEF Spec
==============================================================================
