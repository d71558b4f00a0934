-------------------------- MODULE EvidenceStoreProofs --------------------------
(***************************************************************************)
(* Theorems of EvidenceStore, for every number of callers and digests, and *)
(* every bound on records, faults, kills and power losses.                 *)
(***************************************************************************)
EXTENDS EvidenceStore, WellFoundedInduction, TLAPS

(***************************************************************************)
(* Numbers                                                                 *)
(***************************************************************************)
LEMMA LeastNatural ==
  ASSUME NEW S \in SUBSET Nat, S # {}
  PROVE  \E m \in S : \A n \in S : m <= n
<1> DEFINE R == OpToRel(<, Nat)
<1>1. IsWellFoundedOn(R, Nat)
  BY NatLessThanWellFounded
<1>2. \A m, n \in Nat : m < n => <<m, n>> \in R
  BY DEF OpToRel
<1> HIDE DEF R
<1>3. PICK m \in S : \A n \in S : ~ (<<n, m>> \in R)
  BY <1>1, WFMin
<1>4. ASSUME NEW n \in S
      PROVE  m <= n
  <2>1. ~ (n < m)
    BY <1>2, <1>3
  <2> QED
    BY <2>1
<1> QED
  BY <1>4

LEMMA GreatestNatural ==
  ASSUME NEW S \in SUBSET Nat, S # {}, NEW b \in Nat, \A n \in S : n <= b
  PROVE  \E m \in S : \A n \in S : n <= m
<1> DEFINE T == {b - n : n \in S}
<1>1. T \in SUBSET Nat /\ T # {}
  <2>1. \A n \in S : b - n \in Nat
    OBVIOUS
  <2> QED
    BY <2>1
<1>2. PICK t \in T : \A u \in T : t <= u
  BY <1>1, LeastNatural
<1>3. PICK m \in S : t = b - m
  OBVIOUS
<1>4. \A n \in S : b - m <= b - n
  BY <1>2, <1>3
<1> QED
  BY <1>4

(***************************************************************************)
(* Types                                                                   *)
(***************************************************************************)
Told == [recorded : SUBSET Digests, failed : SUBSET Digests]

Harm == [fault : 0 .. MaxFaults, kill : 0 .. MaxKills, power : 0 .. MaxPowerLosses]

\* A call that publishes has a record, whose candidate is on the disk.
RecordOf(j) ==
  /\ j.phase \notin {"idle", "secure"} => j.record \in Digests
  /\ j.phase = "publish" => j.candidate = "durable"

HasRecord == \A p \in Callers : RecordOf(job[p])

\* No sequence is larger than a natural number: there is a last record.
Bounded == \E b \in Nat : \A d \in Digests : content[d].seq <= b

TypeInv == TypeOK /\ told \in Told /\ harm \in Harm /\ HasRecord /\ Bounded

LEMMA LastIsLast ==
  ASSUME TypeInv, NEW S \in SUBSET Digests, S # {}
  PROVE  Last(S) \in S /\ \A e \in S : content[e].seq <= content[Last(S)].seq
<1> DEFINE N == {content[d].seq : d \in S}
<1>1. PICK b \in Nat : \A d \in Digests : content[d].seq <= b
  BY DEF TypeInv, Bounded
<1>2. \A d \in Digests : content[d].seq \in Nat
  BY DEF TypeInv, TypeOK, Content
<1>3. N \in SUBSET Nat /\ N # {} /\ \A n \in N : n <= b
  BY <1>1, <1>2
<1> HIDE DEF N
<1>4. PICK m \in N : \A n \in N : n <= m
  BY <1>3, GreatestNatural
<1>5. PICK d \in S : m = content[d].seq
  BY DEF N
<1>6. \A e \in S : content[e].seq <= content[d].seq
  BY <1>4, <1>5 DEF N
<1> QED
  BY <1>6 DEF Last

LEMMA Shapes ==
  /\ Blank \in Content /\ Idle \in Job /\ NoStore \in Store
  /\ Idle.phase = "idle" /\ Idle.record = NoDigest
  BY DEF Blank, Content, Kinds, Idle, Job, Phases, NoStore, Store, MaybeDigest

\* A new record is drawn and goes to be published.
LEMMA BeginTyped ==
  ASSUME TypeInv, NEW p \in Callers, NEW c \in Content, NEW first \in BOOLEAN,
         Begin(p, c, first)
  PROVE  /\ content' \in [Digests -> Content]
         /\ job' \in [Callers -> Job]
         /\ HasRecord' /\ Bounded'
<1>1. PICK d \in Digests :
        /\ content' = [content EXCEPT ![d] = c]
        /\ Become(p, [Idle EXCEPT !.phase = "create", !.record = d, !.first = first])
  BY DEF Begin, Digest
<1> DEFINE j == [Idle EXCEPT !.phase = "create", !.record = d, !.first = first]
<1>2. j \in Job /\ j.record = d /\ j.phase = "create"
  BY DEF Idle, Job, Phases, MaybeDigest
<1>3. content \in [Digests -> Content] /\ job \in [Callers -> Job]
  BY DEF TypeInv, TypeOK
<1>4. content' \in [Digests -> Content]
  BY <1>1, <1>3
<1>5. job' \in [Callers -> Job] /\ job'[p] = j /\ \A q \in Callers \ {p} : job'[q] = job[q]
  BY <1>1, <1>2, <1>3 DEF Become
<1>6. HasRecord'
  BY <1>2, <1>5 DEF TypeInv, HasRecord, RecordOf
<1>7. Bounded'
  <2>1. PICK b \in Nat : \A e \in Digests : content[e].seq <= b
    BY DEF TypeInv, Bounded
  <2>2. c.seq \in Nat /\ \A e \in Digests : content[e].seq \in Nat
    BY <1>3 DEF Content
  <2>3. \A e \in Digests : content'[e].seq <= b + c.seq
    BY <1>1, <1>3, <2>1, <2>2
  <2> QED
    BY <2>2, <2>3 DEF Bounded
<1> QED
  BY <1>4, <1>5, <1>6, <1>7

LEMMA AppendTyped ==
  ASSUME TypeInv, NEW p \in Callers, NEW kind \in Kinds, NEW of \in MaybeDigest,
         Append(p, kind, of), UNCHANGED reviews
  PROVE  TypeInv'
<1> DEFINE last == Last(dir.records)
           c == [kind |-> kind, seq |-> content[last].seq + 1, previous |-> last, of |-> of]
<1>1. dir.records \in SUBSET Digests /\ dir.records # {} /\ seen' = seen \cup dir.records
  BY DEF Append, Read, Readable, TypeInv, TypeOK, Store
<1>2. last \in Digests
  BY <1>1, LastIsLast
<1>3. c \in Content
  BY <1>2 DEF TypeInv, TypeOK, Content, MaybeDigest
<1>4. Begin(p, c, FALSE) /\ UNCHANGED <<storage, body, reviews, told, harm>>
  BY DEF Append
<1> HIDE DEF c
<1>5. content' \in [Digests -> Content] /\ job' \in [Callers -> Job] /\ HasRecord' /\ Bounded'
  BY <1>3, <1>4, BeginTyped
<1> QED
  BY <1>1, <1>4, <1>5 DEF TypeInv, TypeOK, storage

LEMMA OperateTyped ==
  ASSUME TypeInv, NEW p \in Callers, Operate(p)
  PROVE  TypeInv'
<1>1. CASE Initialize(p)
  <2> DEFINE s == [dir EXCEPT !.made = TRUE]
             j == [Idle EXCEPT !.phase = "secure", !.first = TRUE]
  <2>1. s \in Store /\ s.made /\ j \in Job /\ j.phase = "secure"
    BY DEF TypeInv, TypeOK, Store, Job, Idle, Phases, MaybeDigest
  <2>2. /\ dir' = s /\ views' = views \cup {s} /\ job' = [job EXCEPT ![p] = j]
        /\ UNCHANGED <<content, body, reviews, seen, told, harm>>
    BY <1>1 DEF Initialize, Relink, Become
  <2> HIDE DEF s, j
  <2>3. TypeOK'
    BY <2>1, <2>2 DEF TypeInv, TypeOK
  <2> QED
    BY <2>1, <2>2, <2>3 DEF TypeInv, TypeOK, HasRecord, RecordOf, Bounded
<1>2. CASE RecordReceipt(p)
  BY <1>2, AppendTyped DEF RecordReceipt, Append, Kinds, MaybeDigest
<1>3. CASE PrepareAttestation(p)
  <2>1. dir.records \in SUBSET Digests /\ seen' = seen \cup dir.records
    BY <1>3 DEF PrepareAttestation, Read, TypeInv, TypeOK, Store
  <2> DEFINE receipts == Receipts(dir.records)
  <2>2. receipts \in SUBSET Digests /\ (receipts # {} => Last(receipts) \in Digests)
    BY <2>1, LastIsLast DEF Receipts
  <2> HIDE DEF receipts
  <2>3. PICK r \in MaybeDigest : reviews' = [reviews EXCEPT ![p] = @ \cup {r}]
    BY <1>3, <2>2 DEF PrepareAttestation, MaybeDigest, receipts
  <2>4. UNCHANGED <<storage, content, body, job, told, harm>>
    BY <1>3 DEF PrepareAttestation
  <2> QED
    BY <2>1, <2>3, <2>4 DEF TypeInv, TypeOK, storage, HasRecord, RecordOf, Bounded
<1>4. CASE ConfirmAttestation(p)
  BY <1>4, AppendTyped DEF ConfirmAttestation, Append, Kinds, TypeInv, TypeOK
<1>5. CASE WithdrawAttestation(p)
  <2>1. Active(dir.records) \subseteq Digests
    BY DEF Active, TypeInv, TypeOK, Store
  <2> QED
    BY <1>5, <2>1, AppendTyped DEF WithdrawAttestation, Append, Kinds, MaybeDigest
<1>6. CASE Status(p)
  BY <1>6 DEF Status, Read, TypeInv, TypeOK, Store, storage, HasRecord, RecordOf, Bounded
<1> QED
  BY <1>1, <1>2, <1>3, <1>4, <1>5, <1>6 DEF Operate

LEMMA PublishTyped ==
  ASSUME TypeInv, NEW p \in Callers, Publish(p)
  PROVE  TypeInv'
<1>1. CASE Secure(p)
  <2> DEFINE c == [Blank EXCEPT !.kind = "store"]
  <2>1. c \in Content
    BY DEF Blank, Content, Kinds, MaybeDigest
  <2>2. Begin(p, c, TRUE) /\ UNCHANGED <<storage, body, reviews, seen, told, harm>>
    BY <1>1 DEF Secure
  <2> HIDE DEF c
  <2>3. content' \in [Digests -> Content] /\ job' \in [Callers -> Job] /\ HasRecord' /\ Bounded'
    BY <2>1, <2>2, BeginTyped
  <2> QED
    BY <2>2, <2>3 DEF TypeInv, TypeOK, storage
<1>2. ASSUME NEW s \in Store, s.made, Relink(s) \/ UNCHANGED storage \/ (views' = {dir} /\ UNCHANGED dir),
             NEW j \in Job, Become(p, j), RecordOf(j),
             body' \in [Digests -> {"none", "volatile", "durable", "torn"}], told' \in Told,
             UNCHANGED <<content, reviews, seen, harm>>
      PROVE  TypeInv'
  <2>1. /\ dir' \in views' /\ \A v \in views' : v \in Store /\ (v = NoStore \/ v.made)
    BY <1>2 DEF TypeInv, TypeOK, Relink, storage
  <2>2. /\ job' \in [Callers -> Job] /\ job'[p] = j
        /\ \A q \in Callers \ {p} : job'[q] = job[q]
    BY <1>2 DEF TypeInv, TypeOK, Become
  <2>3. HasRecord' /\ Bounded'
    BY <1>2, <2>2 DEF TypeInv, HasRecord, RecordOf, Bounded
  <2>4. told'.recorded \subseteq Digests /\ told'.failed \subseteq Digests
    BY <1>2 DEF Told
  <2> QED
    BY <1>2, <2>1, <2>2, <2>3, <2>4 DEF TypeInv, TypeOK
<1>3. /\ job[p] \in Job /\ dir \in Store /\ told \in Told
      /\ \A d \in dir.candidates \cup dir.records : dir.made
      /\ body \in [Digests -> {"none", "volatile", "durable", "torn"}]
  BY DEF TypeInv, TypeOK, NoStore
<1>4. /\ job[p].phase \notin {"idle", "secure"} => Mine(p) \in Digests
      /\ job[p].phase = "publish" => job[p].candidate = "durable"
  BY DEF TypeInv, HasRecord, RecordOf, Mine
<1> DEFINE next(phase, bytes) == [phase |-> phase, record |-> Mine(p), first |-> job[p].first,
                                  candidate |-> bytes]
<1>next. ASSUME NEW phase \in Phases, NEW bytes \in {"empty", "volatile", "durable"},
               Mine(p) \in Digests, phase = "publish" => bytes = "durable"
        PROVE  next(phase, bytes) \in Job /\ RecordOf(next(phase, bytes))
  BY <1>next, <1>3 DEF Job, MaybeDigest, RecordOf
<1>goto. /\ \A phase : [job[p] EXCEPT !.phase = phase] = next(phase, job[p].candidate)
         /\ \A phase, bytes : [job[p] EXCEPT !.phase = phase, !.candidate = bytes]
                              = next(phase, bytes)
         /\ job[p].candidate \in {"empty", "volatile", "durable"}
  <2>1. /\ job[p] = [phase |-> job[p].phase, record |-> Mine(p), first |-> job[p].first,
                     candidate |-> job[p].candidate]
        /\ job[p].candidate \in {"empty", "volatile", "durable"}
    BY <1>3 DEF Job, Mine
  <2>2. ASSUME NEW phase
        PROVE  [job[p] EXCEPT !.phase = phase] = next(phase, job[p].candidate)
    BY <2>1
  <2>3. ASSUME NEW phase, NEW bytes
        PROVE  [job[p] EXCEPT !.phase = phase, !.candidate = bytes] = next(phase, bytes)
    <3> DEFINE k == [job[p] EXCEPT !.phase = phase]
    <3>1. [job[p] EXCEPT !.phase = phase, !.candidate = bytes] = [k EXCEPT !.candidate = bytes]
      OBVIOUS
    <3>2. k = next(phase, job[p].candidate)
      BY <2>2
    <3> HIDE DEF k
    <3>3. [k EXCEPT !.candidate = bytes] = next(phase, bytes)
      BY <3>2
    <3> QED
      BY <3>1, <3>3
  <2> QED
    BY <2>1, <2>2, <2>3
<1> HIDE DEF next
<1>5. CASE CreateCandidate(p)
  <2> DEFINE s == [dir EXCEPT !.candidates = @ \cup {Mine(p)}]
             j == next("write", job[p].candidate)
  <2>1. s \in Store /\ s.made
    BY <1>3, <1>4, <1>5 DEF CreateCandidate, Does, Ready, At, Store
  <2>2. j \in Job /\ RecordOf(j)
    BY <1>4, <1>5, <1>next, <1>goto DEF CreateCandidate, Does, At, Phases
  <2>3. Relink(s) /\ Become(p, j) /\ UNCHANGED <<content, body, reviews, seen, told, harm>>
    BY <1>5, <1>goto DEF CreateCandidate, Goto, OnlyStorage
  <2> HIDE DEF s, j
  <2> QED
    BY <1>2, <1>3, <2>1, <2>2, <2>3
<1>6. ASSUME UNCHANGED storage \/ (views' = {dir} /\ UNCHANGED dir),
             NEW j \in Job, Become(p, j), RecordOf(j),
             OnlyStorage
      PROVE  TypeInv'
  <2>1. /\ dir' \in views' /\ \A v \in views' : v \in Store /\ (v = NoStore \/ v.made)
    BY <1>6 DEF TypeInv, TypeOK, storage
  <2>2. /\ job' \in [Callers -> Job] /\ job'[p] = j
        /\ \A q \in Callers \ {p} : job'[q] = job[q]
    BY <1>6 DEF TypeInv, TypeOK, Become
  <2> QED
    BY <1>6, <2>1, <2>2 DEF TypeInv, TypeOK, HasRecord, RecordOf, Bounded, OnlyStorage
<1>7. CASE WriteCandidate(p)
  <2> DEFINE j == next("sync", "volatile")
  <2>1. j \in Job /\ RecordOf(j)
    BY <1>4, <1>7, <1>next DEF WriteCandidate, Does, At, Phases
  <2> QED
    BY <1>6, <1>7, <1>goto, <2>1 DEF WriteCandidate
<1>8. CASE SyncCandidate(p)
  <2> DEFINE j == next("publish", "durable")
  <2>1. j \in Job /\ RecordOf(j)
    BY <1>4, <1>8, <1>next DEF SyncCandidate, Does, At, Phases
  <2> QED
    BY <1>6, <1>8, <1>goto, <2>1 DEF SyncCandidate
<1>9. CASE PublishRecord(p)
  <2> DEFINE s == [dir EXCEPT !.records = @ \cup {Mine(p)}]
             j == next("sync store", job[p].candidate)
  <2>1. s \in Store /\ s.made
    BY <1>3, <1>4, <1>9 DEF PublishRecord, Does, Ready, At, Store
  <2>2. j \in Job /\ RecordOf(j)
    BY <1>4, <1>9, <1>next, <1>goto DEF PublishRecord, Does, At, Phases
  <2>3. Relink(s) /\ Become(p, j) /\ UNCHANGED <<content, reviews, seen, told, harm>>
    BY <1>9, <1>goto DEF PublishRecord, Goto
  <2>4. body' \in [Digests -> {"none", "volatile", "durable", "torn"}]
    BY <1>3, <1>4, <1>9 DEF PublishRecord, Does, At, RecordOf
  <2> HIDE DEF s, j
  <2> QED
    BY <1>2, <1>3, <2>1, <2>2, <2>3, <2>4
<1>10. CASE SyncStore(p)
  <2> DEFINE j == next("remove", job[p].candidate)
  <2>1. j \in Job /\ RecordOf(j)
    BY <1>4, <1>10, <1>next, <1>goto DEF SyncStore, Does, At, Phases
  <2> QED
    BY <1>6, <1>10, <1>goto, <2>1 DEF SyncStore, Goto
<1>11. CASE RemoveCandidate(p)
  <2> DEFINE s == [dir EXCEPT !.candidates = @ \ {Mine(p)}]
  <2>1. s \in Store /\ s.made
    BY <1>3, <1>4, <1>11 DEF RemoveCandidate, Does, Ready, At, Store
  <2>2. Relink(s) /\ Become(p, Idle) /\ UNCHANGED <<content, body, reviews, seen, harm>>
    BY <1>11 DEF RemoveCandidate
  <2>3. told' \in Told
    BY <1>3, <1>4, <1>11 DEF RemoveCandidate, Told, Does, At
  <2> HIDE DEF s
  <2> QED
    BY <1>2, <1>3, <2>1, <2>2, <2>3, Shapes DEF RecordOf
<1> QED
  BY <1>1, <1>5, <1>7, <1>8, <1>9, <1>10, <1>11 DEF Publish

LEMMA FailTyped ==
  ASSUME TypeInv, NEW p \in Callers, Fail(p), harm' \in Harm
  PROVE  TypeInv'
<1>1. LeftBehind(p) \in {dir, NoStore}
  BY DEF LeftBehind
<1>2. /\ dir' = LeftBehind(p) /\ views' = views \cup {LeftBehind(p)}
      /\ job' = [job EXCEPT ![p] = Idle]
      /\ told' = [told EXCEPT !.failed = @ \cup ({Mine(p)} \ {NoDigest})]
      /\ UNCHANGED <<content, body, reviews, seen>>
  BY DEF Fail, Relink, Become
<1>3. /\ dir' \in views' /\ \A v \in views' : v \in Store /\ (v = NoStore \/ v.made)
  BY <1>1, <1>2, Shapes DEF TypeInv, TypeOK
<1>4. told' \in Told
  <2>1. {Mine(p)} \ {NoDigest} \subseteq Digests
    BY DEF TypeInv, TypeOK, Job, MaybeDigest, Mine
  <2> QED
    BY <1>2, <2>1 DEF TypeInv, Told
<1>5. job' \in [Callers -> Job]
  BY <1>2, Shapes DEF TypeInv, TypeOK
<1>6. HasRecord' /\ Bounded'
  BY <1>2, Shapes DEF TypeInv, TypeOK, HasRecord, RecordOf, Bounded
<1>7. TypeOK'
  BY <1>2, <1>3, <1>4, <1>5 DEF TypeInv, TypeOK, Told, Harm
<1> QED
  BY <1>4, <1>6, <1>7 DEF TypeInv

LEMMA HarmTyped ==
  ASSUME TypeInv, NEW p \in Callers, Refuse(p) \/ Fault(p) \/ Kill(p) \/ PowerLoss
  PROVE  harm' \in Harm
<1>1. harm \in Harm /\ MaxFaults \in Nat /\ MaxKills \in Nat /\ MaxPowerLosses \in Nat
  BY LimitsAssumption DEF TypeInv
<1>2. CASE Refuse(p)
  BY <1>1, <1>2 DEF Refuse
<1>3. CASE Fault(p)
  BY <1>1, <1>3 DEF Fault, Harm
<1>4. CASE Kill(p)
  BY <1>1, <1>4 DEF Kill, Harm
<1>5. CASE PowerLoss
  BY <1>1, <1>5 DEF PowerLoss, Harm
<1> QED
  BY <1>2, <1>3, <1>4, <1>5

LEMMA KillTyped ==
  ASSUME TypeInv, NEW p \in Callers, Kill(p)
  PROVE  TypeInv'
<1>1. job' = [job EXCEPT ![p] = Idle] /\ reviews' = [reviews EXCEPT ![p] = {}]
      /\ UNCHANGED <<dir, views, content, body, seen, told>>
  BY DEF Kill, Become, storage
<1>2. harm' \in Harm
  BY HarmTyped
<1>3. job' \in [Callers -> Job] /\ HasRecord' /\ Bounded'
  BY <1>1, Shapes DEF TypeInv, TypeOK, HasRecord, RecordOf, Bounded
<1>4. TypeOK'
  BY <1>1, <1>2, <1>3 DEF TypeInv, TypeOK, Harm
<1> QED
  BY <1>1, <1>2, <1>3, <1>4 DEF TypeInv

LEMMA PowerLossTyped ==
  ASSUME TypeInv, PowerLoss
  PROVE  TypeInv'
<1>1. PICK v \in views : dir' = v /\ views' = {v}
  BY DEF PowerLoss
<1>2. body' \in [Digests -> {"none", "volatile", "durable", "torn"}]
  <2>1. PICK torn \in SUBSET {d \in Digests : body[d] = "volatile"} :
          body' = [d \in Digests |-> CASE body[d] # "volatile" -> body[d]
                                       [] d \in torn -> "torn"
                                       [] OTHER -> "durable"]
    BY DEF PowerLoss
  <2> QED
    BY <2>1 DEF TypeInv, TypeOK
<1>3. /\ job' = [p \in Callers |-> Idle] /\ reviews' = [p \in Callers |-> {}]
      /\ UNCHANGED <<content, seen, told>>
  BY DEF PowerLoss
<1>4. harm' \in Harm
  <2>1. harm \in Harm /\ MaxPowerLosses \in Nat
    BY LimitsAssumption DEF TypeInv
  <2> QED
    BY <2>1 DEF PowerLoss, Harm
<1>5. HasRecord' /\ Bounded'
  BY <1>3, Shapes DEF TypeInv, HasRecord, RecordOf, Bounded
<1>6. TypeOK'
  BY <1>1, <1>2, <1>3, <1>4, Shapes DEF TypeInv, TypeOK, Harm
<1> QED
  BY <1>3, <1>4, <1>5, <1>6 DEF TypeInv

LEMMA InitTyped ==
  ASSUME Init
  PROVE  TypeInv
<1>1. harm \in Harm /\ told \in Told
  BY LimitsAssumption DEF Init, Harm, Told
<1>2. TypeOK
  BY <1>1, Shapes DEF Init, TypeOK, Harm, Told
<1>3. HasRecord
  BY Shapes DEF Init, HasRecord, RecordOf
<1>4. Bounded
  BY DEF Init, Bounded, Blank
<1> QED
  BY <1>1, <1>2, <1>3, <1>4 DEF TypeInv

LEMMA NextTyped ==
  ASSUME TypeInv, [Next]_vars
  PROVE  TypeInv'
<1>1. CASE UNCHANGED vars
  BY <1>1 DEF vars, storage, TypeInv, TypeOK, HasRecord, RecordOf, Bounded
<1>2. ASSUME NEW p \in Callers, Refuse(p) \/ Fault(p)
      PROVE  TypeInv'
  <2>1. harm' \in Harm /\ Fail(p)
    BY <1>2, HarmTyped DEF Refuse, Fault
  <2> QED
    BY <2>1, FailTyped
<1> QED
  BY <1>1, <1>2, OperateTyped, PublishTyped, KillTyped, PowerLossTyped DEF Next

\* Every variable has its type; a store that has anything in it was made, so no
\* cleanup of a failed initialization takes a directory away with what another
\* caller has put there (publish_record, the cleanup of initialize).
THEOREM TypeCorrect == Spec => []TypeOK
<1>1. Spec => []TypeInv
  BY InitTyped, NextTyped, PTL DEF Spec
<1>2. TypeInv => TypeOK
  BY DEF TypeInv
<1> QED
  BY <1>1, <1>2, PTL

(***************************************************************************)
(* What a power loss may leave                                             *)
(***************************************************************************)
\* Every store that a power loss may leave has what a reading has shown.
Shown == \A v \in views : seen \subseteq v.records

\* It lacks only records whose candidate is still there.
Lacking ==
  \A v \in views : v.records \subseteq dir.records /\ dir.records \ v.records \subseteq dir.candidates

\* A call removes its candidate only when its record is in every such store.
Placed ==
  \A p \in Callers :
    /\ job[p].phase \in {"sync store", "remove"} =>
         body[Mine(p)] = "durable" /\ Mine(p) \in dir.records
    /\ job[p].phase = "remove" => \A v \in views : Mine(p) \in v.records

\* A record whose candidate is gone was reported as recorded.
Reports == \A v \in views : v.records \subseteq v.candidates \cup told.recorded

DurableInv == TypeInv /\ Shown /\ Lacking /\ Placed /\ Reports /\ RecordedIsDurable

\* A readable store has every record that any other reading may show.
LEMMA ReadingIsEverywhere ==
  ASSUME DurableInv, Readable(dir)
  PROVE  /\ \A v \in views : dir.records \subseteq v.records
         /\ seen \subseteq dir.records
  BY DEF DurableInv, Shown, Lacking, Readable, TypeInv, TypeOK

\* A call that ends, or has only read, leaves the storage as it was.
LEMMA SameStorage ==
  ASSUME DurableInv, [Next]_vars, UNCHANGED <<storage, body>>, told.recorded = told'.recorded,
         seen' = seen \/ (Readable(dir) /\ seen' = seen \cup dir.records),
         \A p \in Callers :
           job'[p].phase \in {"sync store", "remove"} =>
             job'[p].phase = job[p].phase /\ Mine(p)' = Mine(p)
  PROVE  DurableInv'
<1>1. TypeInv'
  BY NextTyped DEF DurableInv
<1>2. Shown'
  BY ReadingIsEverywhere DEF DurableInv, Shown, storage
<1>3. Lacking' /\ Reports' /\ RecordedIsDurable'
  BY DEF DurableInv, Lacking, Reports, RecordedIsDurable, storage
<1>4. Placed'
  BY DEF DurableInv, Placed, storage
<1> QED
  BY <1>1, <1>2, <1>3, <1>4 DEF DurableInv

\* The directory changes, and loses no record and no candidate but of a record
\* that every store has.
LEMMA RelinkKeeps ==
  ASSUME DurableInv, [Next]_vars, NEW s, Relink(s), UNCHANGED seen,
         \A d \in Digests : body[d] = "durable" => body'[d] = "durable",
         dir.records \subseteq s.records,
         s.records \ dir.records \subseteq s.candidates,
         \A d \in dir.candidates : d \in s.candidates \/ \A v \in views : d \in v.records,
         told.recorded \subseteq told'.recorded,
         \A d \in dir.candidates : d \in s.candidates \/ d \in told'.recorded,
         \A d \in told'.recorded : d \in told.recorded
           \/ (d \in Digests /\ body[d] = "durable" /\ \A v \in views : d \in v.records),
         \A p \in Callers : job'[p].phase \in {"sync store", "remove"} =>
           \/ job'[p].phase = job[p].phase /\ Mine(p)' = Mine(p)
           \/ job'[p].phase = "sync store" /\ Mine(p)' \in s.records /\ body'[Mine(p)'] = "durable"
  PROVE  DurableInv'
<1>1. TypeInv' /\ dir' = s /\ views' = views \cup {s} /\ dir \in views
  BY NextTyped DEF DurableInv, Relink, TypeInv, TypeOK
<1>2. Shown'
  BY <1>1 DEF DurableInv, Shown
<1>3. Lacking'
  BY <1>1 DEF DurableInv, Lacking
<1>4. Reports'
  BY <1>1 DEF DurableInv, Reports
<1>5. RecordedIsDurable'
  <2>1. \A d \in told.recorded : d \in Digests
    BY DEF DurableInv, TypeInv, TypeOK
  <2> QED
    BY <1>1, <2>1 DEF DurableInv, RecordedIsDurable
<1>6. \A p \in Callers : job[p].phase \in {"sync store", "remove"} => Mine(p) \in Digests
  BY DEF DurableInv, TypeInv, HasRecord, RecordOf, Mine
<1>7. Placed'
  <2> SUFFICES ASSUME NEW p \in Callers, job'[p].phase \in {"sync store", "remove"}
               PROVE  /\ body'[Mine(p)'] = "durable" /\ Mine(p)' \in dir'.records
                      /\ job'[p].phase = "remove" => \A v \in views' : Mine(p)' \in v.records
    BY DEF Placed
  <2>1. CASE job'[p].phase = job[p].phase /\ Mine(p)' = Mine(p)
    BY <1>1, <1>6, <2>1 DEF DurableInv, Placed
  <2>2. CASE job'[p].phase = "sync store" /\ Mine(p)' \in s.records /\ body'[Mine(p)'] = "durable"
    BY <1>1, <2>2
  <2> QED
    BY <2>1, <2>2
<1> QED
  BY <1>1, <1>2, <1>3, <1>4, <1>5, <1>7 DEF DurableInv

\* The job of the caller is replaced by one of another phase.
LEMMA OtherJobs ==
  ASSUME TypeInv, NEW p \in Callers, NEW j, Become(p, j)
  PROVE  /\ job'[p] = j /\ Mine(p)' = j.record
         /\ \A q \in Callers \ {p} : job'[q] = job[q] /\ Mine(q)' = Mine(q)
  BY DEF TypeInv, TypeOK, Become, Mine

LEMMA GotoJob ==
  ASSUME TypeInv, NEW p \in Callers, NEW phase, Goto(p, phase)
  PROVE  /\ job'[p].phase = phase /\ Mine(p)' = Mine(p)
         /\ \A q \in Callers \ {p} : job'[q] = job[q] /\ Mine(q)' = Mine(q)
<1> DEFINE j == [job[p] EXCEPT !.phase = phase]
<1>1. j.phase = phase /\ j.record = Mine(p)
  BY DEF TypeInv, TypeOK, Job, Mine
<1> QED
  BY <1>1, OtherJobs DEF Goto

LEMMA BeginJob ==
  ASSUME TypeInv, NEW p \in Callers, NEW c, NEW first, Begin(p, c, first)
  PROVE  /\ job'[p].phase = "create"
         /\ \A q \in Callers \ {p} : job'[q] = job[q] /\ Mine(q)' = Mine(q)
<1>1. PICK d \in Digests :
        Become(p, [Idle EXCEPT !.phase = "create", !.record = d, !.first = first])
  BY DEF Begin, Digest
<1> DEFINE j == [Idle EXCEPT !.phase = "create", !.record = d, !.first = first]
<1>2. j.phase = "create"
  BY DEF Idle
<1> QED
  BY <1>1, <1>2, OtherJobs

LEMMA AppendDurable ==
  ASSUME DurableInv, [Next]_vars, NEW p \in Callers, NEW kind, NEW of, Append(p, kind, of)
  PROVE  DurableInv'
<1>1. PICK c : Begin(p, c, FALSE)
  BY DEF Append
<1>2. /\ job'[p].phase = "create"
      /\ \A q \in Callers \ {p} : job'[q] = job[q] /\ Mine(q)' = Mine(q)
  BY <1>1, BeginJob DEF DurableInv
<1>3. /\ UNCHANGED <<storage, body, told>>
      /\ Readable(dir) /\ seen' = seen \cup dir.records
  BY DEF Append, Read
<1> QED
  BY <1>2, <1>3, SameStorage

LEMMA OperateDurable ==
  ASSUME DurableInv, [Next]_vars, NEW p \in Callers, Operate(p)
  PROVE  DurableInv'
<1>1. CASE Initialize(p)
  <2> DEFINE s == [dir EXCEPT !.made = TRUE]
             j == [Idle EXCEPT !.phase = "secure", !.first = TRUE]
  <2>1. s.records = dir.records /\ s.candidates = dir.candidates
    BY DEF DurableInv, TypeInv, TypeOK, Store
  <2>2. j.phase = "secure"
    BY DEF Idle
  <2>3. /\ job'[p].phase = "secure"
        /\ \A q \in Callers \ {p} : job'[q] = job[q] /\ Mine(q)' = Mine(q)
    BY <1>1, <2>2, OtherJobs DEF DurableInv, Initialize
  <2>4. Relink(s) /\ UNCHANGED <<body, seen, told>>
    BY <1>1 DEF Initialize
  <2> HIDE DEF s, j
  <2> QED
    BY <2>1, <2>3, <2>4, RelinkKeeps
<1>2. CASE RecordReceipt(p) \/ ConfirmAttestation(p) \/ WithdrawAttestation(p)
  BY <1>2, AppendDurable DEF RecordReceipt, ConfirmAttestation, WithdrawAttestation
<1>3. CASE PrepareAttestation(p) \/ Status(p)
  <2>1. /\ UNCHANGED <<storage, body, told, job>>
        /\ Readable(dir) /\ seen' = seen \cup dir.records
    BY <1>3 DEF PrepareAttestation, Status, Read
  <2> QED
    BY <2>1, SameStorage DEF Mine
<1> QED
  BY <1>1, <1>2, <1>3 DEF Operate

LEMMA PublishDurable ==
  ASSUME DurableInv, [Next]_vars, NEW p \in Callers, Publish(p)
  PROVE  DurableInv'
<1>1. /\ TypeInv /\ dir \in Store /\ dir \in views /\ job[p] \in Job
      /\ body \in [Digests -> {"none", "volatile", "durable", "torn"}]
  BY DEF DurableInv, TypeInv, TypeOK
<1>2. /\ job[p].phase \notin {"idle", "secure"} => Mine(p) \in Digests
      /\ job[p].phase = "publish" => job[p].candidate = "durable"
  BY DEF DurableInv, TypeInv, HasRecord, RecordOf, Mine
<1>3. CASE Secure(p)
  <2>1. PICK c : Begin(p, c, TRUE)
    BY <1>3 DEF Secure
  <2>2. /\ job'[p].phase = "create"
        /\ \A q \in Callers \ {p} : job'[q] = job[q] /\ Mine(q)' = Mine(q)
    BY <1>1, <2>1, BeginJob
  <2> QED
    BY <1>3, <2>2, SameStorage DEF Secure
<1>4. CASE CreateCandidate(p)
  <2> DEFINE s == [dir EXCEPT !.candidates = @ \cup {Mine(p)}]
  <2>1. s.records = dir.records /\ s.candidates = dir.candidates \cup {Mine(p)}
    BY <1>1 DEF Store
  <2>2. Relink(s) /\ UNCHANGED <<body, seen, told>> /\ Goto(p, "write")
    BY <1>4 DEF CreateCandidate, OnlyStorage
  <2>3. /\ job'[p].phase = "write"
        /\ \A q \in Callers \ {p} : job'[q] = job[q] /\ Mine(q)' = Mine(q)
    BY <1>1, <2>2, GotoJob
  <2> HIDE DEF s
  <2> QED
    BY <2>1, <2>2, <2>3, RelinkKeeps
<1>5. CASE WriteCandidate(p) \/ SyncCandidate(p)
  <2> DEFINE k == [job[p] EXCEPT !.phase = "sync", !.candidate = "volatile"]
             m == [job[p] EXCEPT !.phase = "publish", !.candidate = "durable"]
  <2>1. k.phase = "sync" /\ m.phase = "publish"
    BY <1>1 DEF Job
  <2>2. (Become(p, k) \/ Become(p, m)) /\ UNCHANGED <<storage, body, seen, told>>
    BY <1>5 DEF WriteCandidate, SyncCandidate, OnlyStorage
  <2>3. /\ job'[p].phase \in {"sync", "publish"}
        /\ \A q \in Callers \ {p} : job'[q] = job[q] /\ Mine(q)' = Mine(q)
    BY <1>1, <2>1, <2>2, OtherJobs
  <2> QED
    BY <2>2, <2>3, SameStorage
<1>6. CASE PublishRecord(p)
  <2> DEFINE s == [dir EXCEPT !.records = @ \cup {Mine(p)}]
  <2>1. s.records = dir.records \cup {Mine(p)} /\ s.candidates = dir.candidates
    BY <1>1 DEF Store
  <2>2. /\ Relink(s) /\ UNCHANGED <<seen, told>> /\ Goto(p, "sync store")
        /\ Mine(p) \in dir.candidates /\ Mine(p) \in Digests
        /\ body' = [body EXCEPT ![Mine(p)] = "durable"]
    BY <1>2, <1>6 DEF PublishRecord, Does, Ready, At
  <2>3. /\ job'[p].phase = "sync store" /\ Mine(p)' = Mine(p)
        /\ \A q \in Callers \ {p} : job'[q] = job[q] /\ Mine(q)' = Mine(q)
    BY <1>1, <2>2, GotoJob
  <2>4. /\ body'[Mine(p)] = "durable"
        /\ \A d \in Digests : body[d] = "durable" => body'[d] = "durable"
    BY <1>1, <2>2
  <2> HIDE DEF s
  <2> QED
    BY <2>1, <2>2, <2>3, <2>4, RelinkKeeps
<1>7. CASE SyncStore(p)
  <2>1. /\ views' = {dir} /\ UNCHANGED <<dir, body, seen, told>> /\ Goto(p, "remove")
        /\ job[p].phase = "sync store"
    BY <1>7 DEF SyncStore, OnlyStorage, Does, At
  <2>2. /\ job'[p].phase = "remove" /\ Mine(p)' = Mine(p)
        /\ \A q \in Callers \ {p} : job'[q] = job[q] /\ Mine(q)' = Mine(q)
    BY <1>1, <2>1, GotoJob
  <2>3. Placed'
    <3>1. ASSUME NEW q \in Callers, job'[q].phase \in {"sync store", "remove"}
          PROVE  Mine(q)' = Mine(q) /\ body[Mine(q)] = "durable" /\ Mine(q) \in dir.records
      BY <2>1, <2>2, <3>1 DEF DurableInv, Placed
    <3> QED
      BY <2>1, <3>1 DEF Placed
  <2>4. Shown' /\ Lacking' /\ Reports' /\ RecordedIsDurable'
    BY <1>1, <2>1 DEF DurableInv, Shown, Lacking, Reports, RecordedIsDurable
  <2> QED
    BY <2>3, <2>4, NextTyped DEF DurableInv
<1>8. CASE RemoveCandidate(p)
  <2> DEFINE s == [dir EXCEPT !.candidates = @ \ {Mine(p)}]
  <2>1. s.records = dir.records /\ s.candidates = dir.candidates \ {Mine(p)}
    BY <1>1 DEF Store
  <2>2. /\ Relink(s) /\ UNCHANGED <<body, seen>> /\ Become(p, Idle)
        /\ told'.recorded = told.recorded \cup {Mine(p)}
        /\ job[p].phase = "remove" /\ Mine(p) \in Digests
    BY <1>1, <1>2, <1>8 DEF RemoveCandidate, TypeInv, Told, Does, At
  <2>3. body[Mine(p)] = "durable" /\ \A v \in views : Mine(p) \in v.records
    BY <2>2 DEF DurableInv, Placed
  <2>4. /\ job'[p].phase = "idle"
        /\ \A q \in Callers \ {p} : job'[q] = job[q] /\ Mine(q)' = Mine(q)
    BY <1>1, <2>2, OtherJobs, Shapes
  <2>5. dir.records \subseteq dir.candidates \cup told.recorded
    BY <1>1 DEF DurableInv, Reports
  <2> HIDE DEF s
  <2> QED
    BY <2>1, <2>2, <2>3, <2>4, <2>5, RelinkKeeps
<1> QED
  BY <1>3, <1>4, <1>5, <1>6, <1>7, <1>8 DEF Publish

LEMMA FailDurable ==
  ASSUME DurableInv, [Next]_vars, NEW p \in Callers, Fail(p)
  PROVE  DurableInv'
<1> DEFINE s == LeftBehind(p)
<1>1. s = dir \/ (s = NoStore /\ dir.candidates = {} /\ dir.records = {})
  BY DEF LeftBehind
<1>2. s.records = dir.records /\ s.candidates = dir.candidates
  BY <1>1 DEF NoStore
<1>3. Relink(s) /\ UNCHANGED <<body, seen>> /\ told'.recorded = told.recorded
  BY DEF Fail, DurableInv, TypeInv, Told
<1>4. /\ job'[p].phase = "idle"
      /\ \A q \in Callers \ {p} : job'[q] = job[q] /\ Mine(q)' = Mine(q)
  BY OtherJobs, Shapes DEF Fail, DurableInv
<1> HIDE DEF s
<1> QED
  BY <1>2, <1>3, <1>4, RelinkKeeps

LEMMA KillDurable ==
  ASSUME DurableInv, [Next]_vars, NEW p \in Callers, Kill(p)
  PROVE  DurableInv'
<1>1. /\ job'[p].phase = "idle"
      /\ \A q \in Callers \ {p} : job'[q] = job[q] /\ Mine(q)' = Mine(q)
  BY OtherJobs, Shapes DEF Kill, DurableInv
<1>2. UNCHANGED <<storage, body, seen, told>>
  BY DEF Kill
<1> QED
  BY <1>1, <1>2, SameStorage

LEMMA PowerLossDurable ==
  ASSUME DurableInv, [Next]_vars, PowerLoss
  PROVE  DurableInv'
<1>1. PICK v \in views : dir' = v /\ views' = {v}
  BY DEF PowerLoss
<1>2. \A d \in Digests : body[d] = "durable" => body'[d] = "durable"
  BY DEF PowerLoss
<1>3. \A p \in Callers : job'[p].phase = "idle"
  BY Shapes DEF PowerLoss
<1>4. UNCHANGED <<seen, told>>
  BY DEF PowerLoss
<1>5. Shown' /\ Lacking' /\ Reports'
  BY <1>1, <1>4 DEF DurableInv, Shown, Lacking, Reports
<1>6. RecordedIsDurable'
  BY <1>1, <1>2, <1>4 DEF DurableInv, TypeInv, TypeOK, RecordedIsDurable
<1>7. Placed'
  BY <1>3 DEF Placed
<1> QED
  BY <1>5, <1>6, <1>7, NextTyped DEF DurableInv

LEMMA InitDurable ==
  ASSUME Init
  PROVE  DurableInv
<1>1. /\ views = {NoStore} /\ seen = {} /\ told.recorded = {} /\ dir = NoStore
      /\ \A p \in Callers : job[p].phase = "idle"
  BY Shapes DEF Init
<1>2. NoStore.records = {} /\ NoStore.candidates = {}
  BY DEF NoStore
<1>3. Shown /\ Lacking /\ Reports /\ RecordedIsDurable
  BY <1>1, <1>2 DEF Shown, Lacking, Reports, RecordedIsDurable
<1>4. Placed
  BY <1>1 DEF Placed
<1> QED
  BY <1>3, <1>4, InitTyped DEF DurableInv

LEMMA NextDurable ==
  ASSUME DurableInv, [Next]_vars
  PROVE  DurableInv'
<1>1. CASE UNCHANGED vars
  BY <1>1, SameStorage DEF vars, storage, Mine
<1> QED
  BY <1>1, OperateDurable, PublishDurable, FailDurable, KillDurable, PowerLossDurable
     DEF Next, Refuse, Fault

LEMMA AlwaysDurable == Spec => []DurableInv
  BY InitDurable, NextDurable, PTL DEF Spec

\* What any reading has shown stays part of every later one, also after a power
\* loss: a candidate blocks the reader until its record is durable in the
\* directory (publish_record, read_validated_records).
THEOREM HistoryAlwaysStands == Spec => []HistoryStands
<1>1. DurableInv => HistoryStands
  BY DEF DurableInv, Shown, HistoryStands
<1> QED
  BY <1>1, AlwaysDurable, PTL

\* A record whose call reported success is on the disk for good, whatever other
\* callers do and whenever the power goes (publish_record).
THEOREM RecordedAreDurable == Spec => []RecordedIsDurable
<1>1. DurableInv => RecordedIsDurable
  BY DEF DurableInv
<1> QED
  BY <1>1, AlwaysDurable, PTL

\* A record whose call reported failure is never read as evidence: what publication
\* left is a candidate that no later operation removes, unless an equal record was
\* reported as recorded (publish_record).
THEOREM FailedAreNeverCurrent == Spec => []FailedNeverCurrent
<1>1. DurableInv => FailedNeverCurrent
  BY DEF DurableInv, Reports, FailedNeverCurrent, Readable
<1> QED
  BY <1>1, AlwaysDurable, PTL

(***************************************************************************)
(* The chain                                                               *)
(*                                                                         *)
(* What the readings have shown is what the last one has shown, a chain of *)
(* every sequence from the first; everything drawn since continues it.     *)
(***************************************************************************)
Drawn == {"receipt", "claim", "withdrawal"}

\* What a record refers to was shown to the caller that drew it.
Refers(d, shown) ==
  LET c == content[d] IN
  /\ c.kind \in Drawn =>
       c.previous \in shown /\ c.seq = content[c.previous].seq + 1
  /\ c.kind = "claim" => c.of \in Receipts(shown) \cup {NoDigest}
  /\ c.kind = "withdrawal" =>
       /\ c.of \in shown /\ content[c.of].kind = "claim" /\ content[c.of].seq < c.seq
       /\ \A w \in shown : content[w].kind = "withdrawal" /\ content[w].of = c.of
                           => content[w].seq >= c.seq

Coherent(shown) ==
  /\ Chained(shown)
  /\ \A d \in Digests : Refers(d, shown)
  /\ \A p \in Callers : reviews[p] \subseteq Receipts(shown) \cup {NoDigest}

ChainInv == DurableInv /\ Coherent(seen)

\* A chain has every sequence up to any of its records'.
LEMMA ChainIsFull ==
  ASSUME TypeInv, NEW S \in SUBSET Digests, Chained(S), NEW d \in S,
         NEW k \in Nat, k <= content[d].seq
  PROVE  \E e \in S : content[e].seq = k
<1> DEFINE T == {n \in Nat : \E e \in S : content[e].seq = k + n}
<1>1. \A e \in Digests : content[e].seq \in Nat
  BY DEF TypeInv, TypeOK, Content
<1>2. T # {}
  <2>1. content[d].seq - k \in Nat /\ content[d].seq = k + (content[d].seq - k)
    BY <1>1
  <2> QED
    BY <2>1
<1>3. PICK m \in T : \A n \in T : m <= n
  BY <1>2, LeastNatural
<1>4. PICK e \in S : content[e].seq = k + m
  OBVIOUS
<1>5. CASE m = 0
  BY <1>4, <1>5
<1>6. CASE m > 0
  <2>1. content[e].kind # "store"
    BY <1>4, <1>6 DEF Chained, Continues
  <2>2. content[e].previous \in S /\ content[e].seq = content[content[e].previous].seq + 1
    BY <2>1 DEF Chained, Continues
  <2>3. m - 1 \in Nat /\ content[content[e].previous].seq = k + (m - 1)
    BY <1>1, <1>4, <1>6, <2>2
  <2>4. m - 1 \in T
    BY <2>2, <2>3
  <2> QED
    BY <1>3, <1>6, <2>4
<1> QED
  BY <1>5, <1>6

LEMMA NoBlanks ==
  ASSUME NEW S \in SUBSET Digests, Chained(S), NEW d \in S
  PROVE  content[d] # Blank
  BY DigestsAssumption DEF Chained, Continues, Blank

\* A reading shows the same chain, and more of it.
LEMMA ReadingIsCoherent ==
  ASSUME ChainInv, Readable(dir)
  PROVE  Coherent(dir.records) /\ dir.records \in SUBSET Digests /\ dir.records # {}
<1> DEFINE R == dir.records
<1>1. R \in SUBSET Digests /\ R # {} /\ Chained(R) /\ seen \subseteq R /\ seen \in SUBSET Digests
  BY ReadingIsEverywhere DEF ChainInv, DurableInv, TypeInv, TypeOK, Store, Readable
<1>2. \A d \in Digests : content[d].seq \in Nat
  BY DEF ChainInv, DurableInv, TypeInv, TypeOK, Content
<1>3. Receipts(seen) \subseteq Receipts(R)
  BY <1>1 DEF Receipts
<1>4. ASSUME NEW d \in Digests
      PROVE  Refers(d, R)
  <2>1. Refers(d, seen)
    BY DEF ChainInv, Coherent
  <2>2. ASSUME content[d].kind = "withdrawal", NEW w \in R,
               content[w].kind = "withdrawal", content[w].of = content[d].of,
               content[w].seq < content[d].seq
        PROVE  FALSE
    <3>1. /\ content[d].previous \in seen
          /\ content[d].seq = content[content[d].previous].seq + 1
      BY <2>1, <2>2 DEF Refers, Drawn
    <3>2. content[w].seq \in Nat /\ content[w].seq <= content[content[d].previous].seq
      BY <1>1, <1>2, <2>2, <3>1
    <3>3. PICK e \in seen : content[e].seq = content[w].seq
      BY <1>1, <3>1, <3>2, ChainIsFull DEF ChainInv, DurableInv, Coherent
    <3>4. e = w
      BY <1>1, <3>3 DEF Chained
    <3>5. content[w].seq >= content[d].seq
      BY <2>1, <2>2, <3>3, <3>4 DEF Refers
    <3> QED
      BY <1>1, <1>2, <2>2, <3>5
  <2>3. content[d].kind = "withdrawal" =>
          \A w \in R : content[w].kind = "withdrawal" /\ content[w].of = content[d].of
                      => content[w].seq >= content[d].seq
    BY <1>1, <1>2, <2>2
  <2> QED
    BY <1>1, <1>3, <2>1, <2>3 DEF Refers
<1>5. \A p \in Callers : reviews[p] \subseteq Receipts(R) \cup {NoDigest}
  BY <1>3 DEF ChainInv, Coherent
<1> QED
  BY <1>1, <1>4, <1>5 DEF Coherent

\* A new record leaves the chain as it was and refers to what is in it.
LEMMA BeginCoherent ==
  ASSUME TypeInv, NEW S \in SUBSET Digests, Coherent(S),
         NEW p \in Callers, NEW c \in Content, NEW first, Begin(p, c, first),
         seen' = S, UNCHANGED reviews,
         c.kind \in Drawn => c.previous \in S /\ c.seq = content[c.previous].seq + 1,
         c.kind = "claim" => c.of \in Receipts(S) \cup {NoDigest},
         c.kind = "withdrawal" =>
           /\ c.of \in S /\ content[c.of].kind = "claim" /\ content[c.of].seq < c.seq
           /\ \A w \in S : ~ (content[w].kind = "withdrawal" /\ content[w].of = c.of)
  PROVE  Coherent(seen)'
<1>1. PICK d \in Digests :
        /\ content[d] = Blank \/ content[d] = c
        /\ content' = [content EXCEPT ![d] = c]
  BY DEF Begin, Digest
<1>2. content \in [Digests -> Content]
  BY DEF TypeInv, TypeOK
<1>3. \A e \in S : content'[e] = content[e]
  BY <1>1, <1>2, NoBlanks DEF Coherent
<1>4. \A e \in Digests : content'[e] = content[e] \/ content'[e] = c
  BY <1>1, <1>2
<1>5. Chained(seen)'
  <2>1. \A e \in S : content[e].kind # "store" => content[e].previous \in S
    BY DEF Coherent, Chained, Continues
  <2> QED
    BY <1>3, <2>1 DEF Coherent, Chained, Continues
<1>6. Receipts(seen)' = Receipts(S)
  BY <1>3 DEF Receipts
<1>7. ASSUME NEW e \in Digests
      PROVE  Refers(e, seen)'
  <2>1. CASE content'[e] = content[e]
    <3>1. Refers(e, S)
      BY DEF Coherent
    <3>2. content[e].kind \in Drawn => content'[content[e].previous] = content[content[e].previous]
      BY <1>3, <3>1 DEF Refers
    <3>3. content[e].kind = "withdrawal" => content'[content[e].of] = content[content[e].of]
      BY <1>3, <3>1 DEF Refers
    <3> QED
      BY <1>3, <1>6, <2>1, <3>1, <3>2, <3>3 DEF Refers
  <2>2. CASE content'[e] = c
    <3>1. c.kind \in Drawn => content'[c.previous] = content[c.previous]
      BY <1>3
    <3>2. c.kind = "withdrawal" => content'[c.of] = content[c.of]
      BY <1>3
    <3> QED
      BY <1>3, <1>6, <2>2, <3>1, <3>2 DEF Refers
  <2> QED
    BY <1>4, <2>1, <2>2
<1>8. \A q \in Callers : reviews'[q] \subseteq Receipts(seen)' \cup {NoDigest}
  BY <1>6 DEF Coherent
<1> QED
  BY <1>5, <1>7, <1>8 DEF Coherent

LEMMA AppendCoherent ==
  ASSUME ChainInv, NEW p \in Callers, NEW kind \in Drawn, NEW of \in MaybeDigest,
         Append(p, kind, of), UNCHANGED reviews,
         kind = "claim" => of \in Receipts(dir.records) \cup {NoDigest},
         kind = "withdrawal" => of \in Active(dir.records)
  PROVE  Coherent(seen)'
<1> DEFINE R == dir.records
           last == Last(R)
           c == [kind |-> kind, seq |-> content[last].seq + 1, previous |-> last, of |-> of]
<1>1. TypeInv /\ Readable(dir) /\ Begin(p, c, FALSE) /\ seen' = seen \cup R
  BY DEF ChainInv, DurableInv, Append, Read
<1>2. Coherent(R) /\ R \in SUBSET Digests /\ R # {} /\ seen' = R
  BY <1>1, ReadingIsCoherent, ReadingIsEverywhere DEF ChainInv
<1>3. last \in R /\ \A e \in R : content[e].seq <= content[last].seq
  BY <1>1, <1>2, LastIsLast
<1> HIDE DEF last
<1>4. /\ c \in Content /\ c.kind = kind /\ c.of = of /\ c.previous = last
      /\ c.seq = content[last].seq + 1
  BY <1>1, <1>2, <1>3 DEF TypeInv, TypeOK, Content, Kinds, Drawn, MaybeDigest
<1> HIDE DEF c, R
<1>5. kind = "withdrawal" =>
        /\ of \in R /\ content[of].kind = "claim"
        /\ \A w \in R : ~ (content[w].kind = "withdrawal" /\ content[w].of = of)
  BY DEF Active, Withdrawn, R
<1>6. kind = "withdrawal" => content[of].seq < c.seq
  BY <1>1, <1>2, <1>3, <1>4, <1>5 DEF TypeInv, TypeOK, Content
<1> QED
  BY <1>1, <1>2, <1>3, <1>4, <1>5, <1>6, BeginCoherent DEF R

LEMMA SameCoherent ==
  ASSUME Coherent(seen), UNCHANGED <<content, seen>>,
         \A p \in Callers : reviews'[p] \subseteq reviews[p]
  PROVE  Coherent(seen)'
<1>1. Chained(seen)' /\ Receipts(seen)' = Receipts(seen)
  BY DEF Coherent, Chained, Continues, Receipts
<1>2. \A d \in Digests : Refers(d, seen)'
  BY <1>1 DEF Coherent, Refers
<1> QED
  BY <1>1, <1>2 DEF Coherent

LEMMA OperateCoherent ==
  ASSUME ChainInv, NEW p \in Callers, Operate(p)
  PROVE  Coherent(seen)'
<1>1. CASE Initialize(p)
  BY <1>1, SameCoherent DEF ChainInv, Initialize
<1>2. CASE RecordReceipt(p)
  BY <1>2, AppendCoherent DEF RecordReceipt, Append, Drawn, MaybeDigest
<1>3. CASE ConfirmAttestation(p)
  <2>1. PICK r \in reviews[p] : Append(p, "claim", r)
    BY <1>3 DEF ConfirmAttestation
  <2>2. Readable(dir) /\ UNCHANGED reviews
    BY <2>1 DEF Append, Read
  <2>3. seen \subseteq dir.records /\ r \in Receipts(seen) \cup {NoDigest}
    BY <2>2, ReadingIsEverywhere DEF ChainInv, Coherent
  <2>4. r \in Receipts(dir.records) \cup {NoDigest} /\ r \in MaybeDigest
    BY <2>3 DEF Receipts, ChainInv, DurableInv, TypeInv, TypeOK, MaybeDigest
  <2> QED
    BY <2>1, <2>2, <2>4, AppendCoherent DEF Drawn
<1>4. CASE WithdrawAttestation(p)
  <2>1. PICK a \in Active(dir.records) : Append(p, "withdrawal", a)
    BY <1>4 DEF WithdrawAttestation
  <2>2. a \in MaybeDigest /\ UNCHANGED reviews
    BY <2>1 DEF Append, Active, ChainInv, DurableInv, TypeInv, TypeOK, Store, MaybeDigest
  <2> QED
    BY <2>1, <2>2, AppendCoherent DEF Drawn
<1>5. CASE PrepareAttestation(p) \/ Status(p)
  <2> DEFINE R == dir.records
  <2>1. Readable(dir) /\ seen' = seen \cup R /\ UNCHANGED content
    BY <1>5 DEF PrepareAttestation, Status, Read
  <2>2. Coherent(R) /\ seen' = R /\ R \in SUBSET Digests
    BY <2>1, ReadingIsCoherent, ReadingIsEverywhere DEF ChainInv
  <2>3. Receipts(R) # {} => Last(Receipts(R)) \in Receipts(R)
    BY <2>2, LastIsLast DEF ChainInv, DurableInv, Receipts
  <2>4. \A q \in Callers : reviews'[q] \subseteq Receipts(R) \cup {NoDigest}
    <3>1. CASE UNCHANGED reviews
      BY <2>2, <3>1 DEF Coherent
    <3>2. CASE PrepareAttestation(p)
      <4>1. PICK r \in Receipts(R) \cup {NoDigest} : reviews' = [reviews EXCEPT ![p] = @ \cup {r}]
        BY <2>3, <3>2 DEF PrepareAttestation
      <4>2. reviews \in [Callers -> SUBSET MaybeDigest]
        BY DEF ChainInv, DurableInv, TypeInv, TypeOK
      <4> QED
        BY <2>2, <4>1, <4>2 DEF Coherent
    <3> QED
      BY <1>5, <3>1, <3>2 DEF Status
  <2> HIDE DEF R
  <2>5. Chained(seen)' /\ Receipts(seen)' = Receipts(R)
    BY <2>1, <2>2 DEF Coherent, Chained, Continues, Receipts
  <2>6. \A d \in Digests : Refers(d, seen)'
    BY <2>1, <2>2, <2>5 DEF Coherent, Refers
  <2> QED
    BY <2>4, <2>5, <2>6 DEF Coherent
<1> QED
  BY <1>1, <1>2, <1>3, <1>4, <1>5 DEF Operate

LEMMA NextCoherent ==
  ASSUME ChainInv, [Next]_vars
  PROVE  Coherent(seen)'
<1>1. reviews \in [Callers -> SUBSET MaybeDigest] /\ seen \in SUBSET Digests
  BY DEF ChainInv, DurableInv, TypeInv, TypeOK
<1>2. CASE UNCHANGED vars
  BY <1>2, SameCoherent DEF ChainInv, vars
<1>3. ASSUME NEW p \in Callers, Secure(p)
      PROVE  Coherent(seen)'
  <2> DEFINE c == [Blank EXCEPT !.kind = "store"]
  <2>1. c \in Content /\ c.kind = "store"
    BY DEF Blank, Content, Kinds, MaybeDigest
  <2>2. Begin(p, c, TRUE) /\ UNCHANGED <<reviews, seen>>
    BY <1>3 DEF Secure
  <2> HIDE DEF c
  <2> QED
    BY <1>1, <2>1, <2>2, BeginCoherent DEF ChainInv, DurableInv, Drawn
<1>4. ASSUME NEW p \in Callers, Publish(p), ~ Secure(p)
      PROVE  Coherent(seen)'
  <2>1. UNCHANGED <<content, reviews, seen>>
    BY <1>4 DEF Publish, CreateCandidate, WriteCandidate, SyncCandidate, PublishRecord,
                SyncStore, RemoveCandidate, OnlyStorage
  <2> QED
    BY <2>1, SameCoherent DEF ChainInv
<1>5. ASSUME NEW p \in Callers, Refuse(p) \/ Fault(p) \/ Kill(p)
      PROVE  Coherent(seen)'
  <2>1. UNCHANGED <<content, seen>> /\ \A q \in Callers : reviews'[q] \subseteq reviews[q]
    BY <1>1, <1>5 DEF Refuse, Fault, Fail, Kill
  <2> QED
    BY <2>1, SameCoherent DEF ChainInv
<1>6. CASE PowerLoss
  <2>1. UNCHANGED <<content, seen>> /\ \A q \in Callers : reviews'[q] \subseteq reviews[q]
    BY <1>6 DEF PowerLoss
  <2> QED
    BY <2>1, SameCoherent DEF ChainInv
<1> QED
  BY <1>2, <1>3, <1>4, <1>5, <1>6, OperateCoherent DEF Next

LEMMA InitCoherent ==
  ASSUME Init
  PROVE  ChainInv
<1>1. /\ seen = {} /\ \A p \in Callers : reviews[p] = {}
      /\ \A d \in Digests : content[d].kind = "none"
  BY DEF Init, Blank
<1>2. Coherent(seen)
  BY <1>1 DEF Coherent, Chained, Refers, Drawn
<1> QED
  BY <1>2, InitDurable DEF ChainInv

\* Two withdrawals of one claim are one record: the later one was drawn after a
\* reading of a chain that has every earlier sequence.
LEMMA OneWithdrawal ==
  ASSUME ChainInv, NEW v \in views, Readable(v), NEW d \in v.records, NEW e \in v.records,
         content[d].kind = "withdrawal", content[e].kind = "withdrawal",
         content[e].of = content[d].of, content[e].seq < content[d].seq
  PROVE  FALSE
<1>1. /\ v.records \in SUBSET Digests /\ seen \in SUBSET Digests
      /\ \A x \in Digests : content[x].seq \in Nat
      /\ Chained(v.records) /\ Chained(seen) /\ seen \subseteq v.records /\ Refers(d, seen)
  BY DEF ChainInv, Coherent, DurableInv, TypeInv, TypeOK, Content, Store, Shown, Readable
<1>2. content[d].previous \in seen /\ content[d].seq = content[content[d].previous].seq + 1
  BY <1>1 DEF Refers, Drawn
<1>3. content[e].seq \in Nat /\ content[e].seq <= content[content[d].previous].seq
  BY <1>1, <1>2
<1>4. PICK x \in seen : content[x].seq = content[e].seq
  BY <1>1, <1>2, <1>3, ChainIsFull DEF ChainInv, DurableInv
<1>5. x = e
  BY <1>1, <1>4 DEF Chained
<1>6. content[e].seq >= content[d].seq
  BY <1>1, <1>4, <1>5 DEF Refers
<1> QED
  BY <1>1, <1>6

LEMMA ChainCoheres ==
  ASSUME ChainInv
  PROVE  AttestationsCohere
<1> SUFFICES ASSUME NEW v \in views, Readable(v), NEW d \in v.records
             PROVE  /\ content[d].kind = "claim" => content[d].of \in Receipts(v.records) \cup {NoDigest}
                    /\ content[d].kind = "withdrawal" =>
                         /\ content[d].of \in v.records
                         /\ content[content[d].of].kind = "claim"
                         /\ content[content[d].of].seq < content[d].seq
                         /\ \A e \in v.records :
                              content[e].kind = "withdrawal" /\ content[e].of = content[d].of => e = d
  BY DEF AttestationsCohere
<1>1. /\ v.records \in SUBSET Digests /\ \A x \in Digests : content[x].seq \in Nat
      /\ Chained(v.records) /\ seen \subseteq v.records /\ Refers(d, seen)
  BY DEF ChainInv, Coherent, DurableInv, TypeInv, TypeOK, Content, Store, Shown, Readable
<1>2. content[d].kind = "claim" => content[d].of \in Receipts(v.records) \cup {NoDigest}
  BY <1>1 DEF Refers, Receipts
<1>3. content[d].kind = "withdrawal" =>
        /\ content[d].of \in v.records /\ content[content[d].of].kind = "claim"
        /\ content[content[d].of].seq < content[d].seq
  BY <1>1 DEF Refers
<1>4. ASSUME content[d].kind = "withdrawal", NEW e \in v.records,
             content[e].kind = "withdrawal", content[e].of = content[d].of
      PROVE  e = d
  <2>1. content[e].seq = content[d].seq
    <3>1. content[e].seq \in Nat /\ content[d].seq \in Nat
      BY <1>1
    <3>2. ~ (content[e].seq < content[d].seq) /\ ~ (content[d].seq < content[e].seq)
      BY <1>4, OneWithdrawal
    <3> QED
      BY <3>1, <3>2
  <2> QED
    BY <1>1, <2>1 DEF Chained
<1> QED
  BY <1>2, <1>3, <1>4

\* In every store that can be read, claims refer to earlier receipts and withdrawals
\* to earlier claims that no other withdrawal names, although every caller draws
\* its record from a reading that others have meanwhile continued
\* (confirm_attestation, withdraw_attestation, active_attestation_status).
THEOREM AttestationsAlwaysCohere == Spec => []AttestationsCohere
<1>1. ChainInv /\ [Next]_vars => ChainInv'
  BY NextDurable, NextCoherent DEF ChainInv
<1>2. Spec => []ChainInv
  BY <1>1, InitCoherent, PTL DEF Spec
<1> QED
  BY <1>2, ChainCoheres, PTL
================================================================================
