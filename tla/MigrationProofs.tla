---------------------------- MODULE MigrationProofs ----------------------------
(***************************************************************************)
(* Theorems of MigrationWorkflow, for every number of callers, servers,    *)
(* Packs, notes and blocks of a copy, and every bound on the changes and   *)
(* faults.                                                                 *)
(***************************************************************************)
EXTENDS MigrationWorkflow, TLAPS

(***************************************************************************)
(* The slot of a paused Pack                                               *)
(***************************************************************************)
\* The state of a call has the phase of the call.
Shape(k) == "phase" \in DOMAIN k

CallsOK == call = [c \in Callers |-> call[c]] /\ \A c \in Callers : Shape(call[c])

\* No Pack has a number that was not begun, and no partial Bundle is at two paths.
Numbered ==
  /\ packed \in Nat /\ paused \in 0 .. packed
  /\ partial \in [Callers -> [of : Nat, kept : BOOLEAN]]
  /\ \A c \in Callers : partial[c].of <= packed
  /\ \A c, d \in Callers : c # d /\ partial[c].of = partial[d].of => partial[c].of = NoBundle

\* A call at Pack holds the lock, has emptied the slot, and packs a Bundle of
\* its own or the one whose context it took.
Packing ==
  /\ \A c, d \in Callers : At(c, "pack") /\ At(d, "pack") => c = d
  /\ \A c \in Callers : At(c, "pack") =>
       /\ paused = NoBundle
       /\ call[c].secret \in 1 .. packed
       /\ call[c].previous # NoBundle => call[c].secret = call[c].previous
       /\ call[c].previous = NoBundle => \A d \in Callers : partial[d].of # call[c].secret

KeptOnes == \A c \in Callers : partial[c].kept => partial[c].of # NoBundle

SlotInv == CallsOK /\ Numbered /\ Packing /\ KeptOnes /\ PausedIsKept

LEMMA IdleShape == Shape(Idle) /\ Idle.phase = "idle"
  BY DEF Shape, Idle

LEMMA GotoShape ==
  ASSUME CallsOK, NEW c \in Callers, NEW phase, Goto(c, phase)
  PROVE  \E k : Shape(k) /\ k.phase = phase /\ call' = [call EXCEPT ![c] = k]
<1> DEFINE k == [call[c] EXCEPT !.phase = phase]
<1>1. Shape(k) /\ k.phase = phase
  BY DEF CallsOK, Shape
<1>2. call' = [call EXCEPT ![c] = k]
  BY DEF Goto
<1> QED
  BY <1>1, <1>2

(***************************************************************************)
(* The steps outside Pack                                                  *)
(***************************************************************************)
\* The call goes on, or ends, without the slot.
GoesOn(c) ==
  /\ ~At(c, "pack")
  /\ \E k : Shape(k) /\ k.phase # "pack" /\ call' = [call EXCEPT ![c] = k]

LEMMA FailGoesOn ==
  ASSUME NEW c \in Callers, ~At(c, "pack"), Fail(c)
  PROVE  GoesOn(c)
  BY IdleShape DEF GoesOn, Fail, Become

LEMMA GotoGoesOn ==
  ASSUME CallsOK, NEW c \in Callers, ~At(c, "pack"), NEW phase, phase # "pack", Goto(c, phase)
  PROVE  GoesOn(c)
  BY GotoShape DEF GoesOn

LEMMA BecomeGoesOn ==
  ASSUME NEW c \in Callers, ~At(c, "pack"), NEW k, Shape(k), k.phase # "pack", Become(c, k)
  PROVE  GoesOn(c)
  BY DEF GoesOn, Become

\* Wherever the call is after the step, what the slot is about stays the same.
LEMMA OutsidePack ==
  ASSUME SlotInv, NEW c \in Callers, GoesOn(c), UNCHANGED <<packed, partial, paused>>
  PROVE  SlotInv'
<1>1. PICK k : Shape(k) /\ k.phase # "pack" /\ call' = [call EXCEPT ![c] = k]
  BY DEF GoesOn
<1>2. \A d \in Callers : call'[d] = IF d = c THEN k ELSE call[d]
  BY <1>1 DEF SlotInv, CallsOK
<1>3. CallsOK'
  BY <1>1, <1>2 DEF SlotInv, CallsOK, Shape
<1>4. \A d \in Callers : At(d, "pack")' <=> At(d, "pack")
  BY <1>1, <1>2 DEF At, GoesOn
<1>5. \A d \in Callers : At(d, "pack") => call'[d] = call[d]
  BY <1>2 DEF GoesOn
<1>6. Numbered' /\ KeptOnes'
  BY DEF SlotInv, Numbered, KeptOnes
<1>7. Packing'
  BY <1>4, <1>5 DEF SlotInv, Packing, At
<1>8. PausedIsKept'
  BY <1>4, <1>5 DEF SlotInv, PausedIsKept, At
<1> QED
  BY <1>3, <1>6, <1>7, <1>8 DEF SlotInv

LEMMA SlotSame ==
  ASSUME SlotInv, UNCHANGED <<call, packed, partial, paused>>
  PROVE  SlotInv'
  BY DEF SlotInv, CallsOK, Shape, Numbered, Packing, KeptOnes, PausedIsKept, At

LEMMA OfflineGoesOn ==
  ASSUME CallsOK, NEW c \in Callers, OfflineStep(c)
  PROVE  GoesOn(c)
<1>1. CASE CreateDocument(c)
  BY <1>1, FailGoesOn, GotoGoesOn DEF CreateDocument, At
<1>2. CASE WriteDocument(c)
  BY <1>2, GotoGoesOn DEF WriteDocument, At
<1>3. CASE AbandonDocument(c) \/ RemoveFailed(c)
  BY <1>3, FailGoesOn, GotoGoesOn DEF AbandonDocument, RemoveFailed, At
<1>4. CASE SynchronizeParent(c)
  BY <1>4, GotoGoesOn DEF SynchronizeParent, At
<1>5. CASE RehearseDocument(c)
  <2> DEFINE k == [call[c] EXCEPT !.phase = "inspect", !.rehearsed = document[c].holds.names]
  <2>1. Shape(k) /\ k.phase = "inspect"
    BY DEF CallsOK, Shape
  <2>2. Become(c, k) \/ Fail(c)
    BY <1>5 DEF RehearseDocument
  <2> QED
    BY <1>5, <2>1, <2>2, FailGoesOn, BecomeGoesOn DEF RehearseDocument, At
<1>6. CASE LoadDocument(c, "loaddoc", "verifydoc")
  <2> DEFINE k == [call[c] EXCEPT !.phase = "verifydoc", !.loaded = document[c].holds.opens]
  <2>1. Shape(k) /\ k.phase = "verifydoc"
    BY DEF CallsOK, Shape
  <2>2. Become(c, k) \/ Fail(c)
    BY <1>6 DEF LoadDocument
  <2> QED
    BY <1>6, <2>1, <2>2, FailGoesOn, BecomeGoesOn DEF LoadDocument, At
<1> QED
  BY <1>1, <1>2, <1>3, <1>4, <1>5, <1>6 DEF OfflineStep

LEMMA VaultGoesOn ==
  ASSUME CallsOK, NEW c \in Callers, VaultStep(c)
  PROVE  GoesOn(c)
<1>1. CASE InspectInstallation(c)
  <2> DEFINE k == [call[c] EXCEPT !.phase = "reviewbw", !.installed = installation]
  <2>1. Shape(k) /\ k.phase = "reviewbw"
    BY DEF CallsOK, Shape
  <2> QED
    BY <1>1, <2>1, BecomeGoesOn DEF InspectInstallation, At
<1>2. CASE Preflight(c)
  <2> DEFINE k == [call[c] EXCEPT !.phase = "reviewvault", !.server = vault.server,
                                  !.named = bundle[c]]
  <2>1. Shape(k) /\ k.phase = "reviewvault"
    BY DEF CallsOK, Shape
  <2>2. Become(c, k) \/ Fail(c)
    BY <1>2 DEF Preflight
  <2> QED
    BY <1>2, <2>1, <2>2, FailGoesOn, BecomeGoesOn DEF Preflight, At
<1>3. CASE CheckStore(c)
  BY <1>3, FailGoesOn, GotoGoesOn DEF CheckStore, At
<1>4. CASE CreateNote(c)
  <2> DEFINE k == [call[c] EXCEPT !.phase = "readback", !.note = Len(notes) + 1]
  <2>1. Shape(k) /\ k.phase = "readback"
    BY DEF CallsOK, Shape
  <2>2. Become(c, k) \/ Fail(c)
    BY <1>4 DEF CreateNote
  <2> QED
    BY <1>4, <2>1, <2>2, FailGoesOn, BecomeGoesOn DEF CreateNote, At
<1>5. CASE LoseAnswer(c)
  BY <1>5, FailGoesOn DEF LoseAnswer, At
<1>6. CASE RehearseNote(c)
  BY <1>6, FailGoesOn, GotoGoesOn DEF RehearseNote, At
<1>7. CASE CheckVault(c, "checkvault", "loadnote") \/ CheckVault(c, "fetchcheck", "fetchnote")
  BY <1>7, FailGoesOn, GotoGoesOn DEF CheckVault, At
<1>8. CASE LoadNote(c, "loadnote", "compare")
  <2> DEFINE k == [call[c] EXCEPT !.phase = "compare", !.loaded = Held(call[c].note).opens]
  <2>1. Shape(k) /\ k.phase = "compare"
    BY DEF CallsOK, Shape
  <2>2. Become(c, k) \/ Fail(c)
    BY <1>8 DEF LoadNote
  <2> QED
    BY <1>8, <2>1, <2>2, FailGoesOn, BecomeGoesOn DEF LoadNote, At
<1> QED
  BY <1>1, <1>2, <1>3, <1>4, <1>5, <1>6, <1>7, <1>8 DEF VaultStep

\* A step of the copy leaves the calls alone, or ends the one that copies.
LEMMA CopyGoesOn ==
  ASSUME CallsOK, NEW c \in Callers, CopyStep(c)
  PROVE  UNCHANGED call \/ GoesOn(c)
<1>1. ~At(c, "pack")
  BY DEF CopyStep, OpenSource, CreatePartial, CopyBytes, AuthenticatePartial, PublishCompleted,
         ReopenCompleted, LookAtSaved, RemoveSaved, ReturnReceipt, Step, At
<1>2. UNCHANGED call \/ Fail(c)
  BY DEF CopyStep, OpenSource, CreatePartial, CopyBytes, AuthenticatePartial, PublishCompleted,
         ReopenCompleted, LookAtSaved, RemoveSaved, ReturnReceipt, EndCopy
<1> QED
  BY <1>1, <1>2, FailGoesOn

LEMMA OwnerGoesOn ==
  ASSUME CallsOK, NEW c \in Callers, OwnerReviews(c) \/ VerifyOffline(c) \/ Complete(c)
  PROVE  GoesOn(c)
<1>1. CASE OwnerReviews(c)
  BY <1>1, FailGoesOn, GotoGoesOn DEF OwnerReviews, At
<1>2. CASE VerifyOffline(c)
  <2> DEFINE k == [call[c] EXCEPT !.phase = "checkvault", !.verified = bundle[c]]
  <2>1. Shape(k) /\ k.phase = "checkvault"
    BY DEF CallsOK, Shape
  <2>2. Become(c, k) \/ Fail(c)
    BY <1>2 DEF VerifyOffline
  <2> QED
    BY <1>2, <2>1, <2>2, FailGoesOn, BecomeGoesOn DEF VerifyOffline, At
<1>3. CASE Complete(c)
  BY <1>3, FailGoesOn DEF Complete, At
<1> QED
  BY <1>1, <1>2, <1>3

LEMMA BeginCopyGoesOn ==
  ASSUME CallsOK, NEW c \in Callers, BeginCopy(c)
  PROVE  GoesOn(c)
<1>1. PICK method \in {"fetchdoc", "fetchcheck"} :
        Become(c, [Idle EXCEPT !.phase = method, !.note = result[c].note,
                               !.server = result[c].server, !.installed = result[c].installed])
  BY DEF BeginCopy
<1> DEFINE k == [Idle EXCEPT !.phase = method, !.note = result[c].note,
                             !.server = result[c].server, !.installed = result[c].installed]
<1>2. Shape(k) /\ k.phase = method
  BY DEF Idle, Shape
<1> QED
  BY <1>1, <1>2, BecomeGoesOn DEF BeginCopy, At

LEMMA LoadForCopyGoesOn ==
  ASSUME CallsOK, NEW c \in Callers, LoadForCopy(c)
  PROVE  GoesOn(c)
<1> DEFINE k == [call[c] EXCEPT !.phase = "copy", !.loaded = document[c].holds.opens]
           m == [call[c] EXCEPT !.phase = "copy", !.loaded = Held(call[c].note).opens]
<1>1. Shape(k) /\ k.phase = "copy" /\ Shape(m) /\ m.phase = "copy"
  BY DEF CallsOK, Shape
<1>2. Become(c, k) \/ Become(c, m) \/ Fail(c)
  BY DEF LoadForCopy, LoadDocument, LoadNote
<1> QED
  BY <1>1, <1>2, FailGoesOn, BecomeGoesOn DEF LoadForCopy, LoadDocument, LoadNote, At

LEMMA FaultGoesOn ==
  ASSUME NEW c \in Callers, Fault(c)
  PROVE  GoesOn(c)
  BY FailGoesOn DEF Fault, EndCopy, At

(***************************************************************************)
(* The steps of Pack                                                       *)
(***************************************************************************)
LEMMA BeginFreshSlot ==
  ASSUME SlotInv, NEW c \in Callers, BeginFresh(c)
  PROVE  SlotInv'
<1> DEFINE k == [Idle EXCEPT !.phase = "pack", !.secret = packed + 1]
<1>1. Shape(k) /\ k.phase = "pack" /\ k.secret = packed + 1 /\ k.previous = NoBundle
  BY DEF Shape, Idle, NoBundle
<1>2. /\ call' = [call EXCEPT ![c] = k]
      /\ \A d \in Callers : call'[d] = IF d = c THEN k ELSE call[d]
  BY DEF BeginFresh, Become, SlotInv, CallsOK
<1> HIDE DEF k
<1>3. packed' = packed + 1 /\ packed \in Nat /\ UNCHANGED <<partial, paused>> /\ paused = NoBundle
  BY DEF BeginFresh, SlotIsFree, SlotInv, Numbered
<1>4. \A d \in Callers : ~At(d, "pack") /\ (At(d, "pack")' <=> d = c)
  BY <1>1, <1>2 DEF BeginFresh, LockIsFree, At
<1>5. CallsOK'
  BY <1>1, <1>2 DEF SlotInv, CallsOK, Shape
<1>6. Numbered' /\ KeptOnes'
  BY <1>3 DEF SlotInv, Numbered, KeptOnes
<1>7. \A d \in Callers : partial[d].of # packed + 1
  BY <1>3 DEF SlotInv, Numbered
<1>8. Packing'
  <2>1. \A d, e \in Callers : At(d, "pack")' /\ At(e, "pack")' => d = e
    BY <1>4
  <2>2. call'[c] = k /\ call'[c].secret \in 1 .. packed' /\ call'[c].previous = NoBundle
    BY <1>1, <1>2, <1>3
  <2>3. \A d \in Callers : partial'[d].of # call'[c].secret
    BY <1>1, <1>3, <1>7, <2>2
  <2> QED
    BY <1>3, <1>4, <2>1, <2>2, <2>3 DEF Packing
<1>9. PausedIsKept'
  BY <1>3, <1>4 DEF SlotInv, PausedIsKept
<1> QED
  BY <1>5, <1>6, <1>8, <1>9 DEF SlotInv

LEMMA BeginResumeSlot ==
  ASSUME SlotInv, NEW c \in Callers, BeginResume(c)
  PROVE  SlotInv'
<1> DEFINE k == [Idle EXCEPT !.phase = "pack", !.secret = paused, !.previous = paused]
<1>1. Shape(k) /\ k.phase = "pack" /\ k.secret = paused /\ k.previous = paused
  BY DEF Shape, Idle
<1>2. /\ call' = [call EXCEPT ![c] = k]
      /\ \A d \in Callers : call'[d] = IF d = c THEN k ELSE call[d]
  BY DEF BeginResume, Become, SlotInv, CallsOK
<1> HIDE DEF k
<1>3. /\ UNCHANGED <<packed, partial>> /\ paused' = NoBundle
      /\ packed \in Nat /\ paused \in 1 .. packed
  BY DEF BeginResume, SlotInv, Numbered, NoBundle
<1>4. \A d \in Callers : ~At(d, "pack") /\ (At(d, "pack")' <=> d = c)
  BY <1>1, <1>2 DEF BeginResume, LockIsFree, At
<1>5. CallsOK'
  BY <1>1, <1>2 DEF SlotInv, CallsOK, Shape
<1>6. Numbered' /\ KeptOnes'
  BY <1>3 DEF SlotInv, Numbered, KeptOnes, NoBundle
<1>7. Packing'
  <2>1. \A d, e \in Callers : At(d, "pack")' /\ At(e, "pack")' => d = e
    BY <1>4
  <2>2. /\ call'[c].secret \in 1 .. packed' /\ call'[c].secret = call'[c].previous
        /\ call'[c].previous # NoBundle
    BY <1>1, <1>2, <1>3 DEF NoBundle
  <2> QED
    BY <1>3, <1>4, <2>1, <2>2 DEF Packing
<1>8. PausedIsKept'
  <2>1. At(c, "pack")' /\ call'[c].previous = paused
    BY <1>1, <1>2, <1>4
  <2>2. \A d \in Callers : partial[d].kept => paused = partial[d].of
    BY <1>4 DEF SlotInv, PausedIsKept
  <2> QED
    BY <1>3, <2>1, <2>2 DEF PausedIsKept
<1> QED
  BY <1>5, <1>6, <1>7, <1>8 DEF SlotInv

\* The call leaves Pack for another phase: the lock is free again.
LEMMA LeavesPack ==
  ASSUME SlotInv, NEW c \in Callers, At(c, "pack"),
         NEW k, Shape(k), k.phase # "pack", call' = [call EXCEPT ![c] = k]
  PROVE  CallsOK' /\ Packing' /\ \A d \in Callers : ~At(d, "pack")'
<1>1. \A d \in Callers : call'[d] = IF d = c THEN k ELSE call[d]
  BY DEF SlotInv, CallsOK
<1>2. CallsOK'
  BY <1>1 DEF SlotInv, CallsOK, Shape
<1>3. \A d \in Callers : ~At(d, "pack")'
  BY <1>1 DEF SlotInv, Packing, At
<1> QED
  BY <1>2, <1>3 DEF Packing

\* Pack accepts the partial Bundle of the context it took, and no other is kept.
LEMMA OnlyItsOwnIsKept ==
  ASSUME SlotInv, NEW c \in Callers, At(c, "pack"),
         NEW d \in Callers, partial[d].kept
  PROVE  /\ call[c].previous = partial[d].of /\ partial[d].of # NoBundle
         /\ PackAccepts(c) => d = c
<1>1. paused = NoBundle /\ partial[d].of # NoBundle
  BY DEF SlotInv, Packing, KeptOnes
<1>2. PICK e \in Callers : At(e, "pack") /\ call[e].previous = partial[d].of
  BY <1>1 DEF SlotInv, PausedIsKept
<1>3. call[c].previous = partial[d].of
  BY <1>2 DEF SlotInv, Packing
<1> QED
  BY <1>1, <1>3 DEF SlotInv, Numbered, PackAccepts

LEMMA PackPausesSlot ==
  ASSUME SlotInv, NEW c \in Callers, PackPauses(c)
  PROVE  SlotInv'
<1> DEFINE new == [of |-> call[c].secret, kept |-> TRUE]
<1>1. /\ At(c, "pack") /\ PackAccepts(c) /\ paused' = call[c].secret /\ UNCHANGED packed
      /\ partial' = [partial EXCEPT ![c] = new]
  BY DEF PackPauses
<1>2. \A d \in Callers : partial'[d] = IF d = c THEN new ELSE partial[d]
  BY <1>1 DEF SlotInv, Numbered
<1>3. call[c].secret \in 1 .. packed /\ call[c].secret # NoBundle
  BY <1>1 DEF SlotInv, Packing, NoBundle
<1>4. CallsOK' /\ Packing' /\ \A d \in Callers : ~At(d, "pack")'
  BY <1>1, IdleShape, LeavesPack DEF PackPauses, Fail, Become
<1>5. \A d \in Callers : d # c => partial[d].of # call[c].secret
  BY <1>1, <1>3 DEF SlotInv, Packing, Numbered, PackAccepts
<1>6. Numbered' /\ KeptOnes'
  <2>1. \A d, e \in Callers : d # e /\ partial'[d].of = partial'[e].of => partial'[d].of = NoBundle
    BY <1>2, <1>5 DEF SlotInv, Numbered
  <2>2. \A d \in Callers : partial'[d].of <= packed'
    BY <1>1, <1>2, <1>3 DEF SlotInv, Numbered
  <2>3. partial' \in [Callers -> [of : Nat, kept : BOOLEAN]]
    BY <1>1, <1>3 DEF SlotInv, Numbered
  <2>4. packed' \in Nat /\ paused' \in 0 .. packed'
    BY <1>1, <1>3 DEF SlotInv, Numbered
  <2>5. \A d \in Callers : partial'[d].kept => partial'[d].of # NoBundle
    BY <1>2, <1>3 DEF SlotInv, KeptOnes
  <2> QED
    BY <2>1, <2>2, <2>3, <2>4, <2>5 DEF Numbered, KeptOnes
<1>7. PausedIsKept'
  <2> SUFFICES ASSUME NEW d \in Callers, partial'[d].kept
               PROVE  paused' = partial'[d].of
    BY DEF PausedIsKept
  <2> QED
    BY <1>1, <1>2, OnlyItsOwnIsKept
<1> QED
  BY <1>4, <1>6, <1>7 DEF SlotInv

\* The partial Bundle that a call leaves at its path when it publishes or fails.
LEMMA OtherPartialOK ==
  ASSUME SlotInv, NEW c \in Callers, At(c, "pack"), UNCHANGED packed,
         NEW id \in {NoBundle, call[c].secret}, id # NoBundle => call[c].previous = NoBundle,
         partial' = [partial EXCEPT ![c] = [of |-> id, kept |-> FALSE]],
         paused' \in 0 .. packed
  PROVE  /\ Numbered' /\ KeptOnes'
         /\ \A d \in Callers : partial'[d].kept => d # c /\ partial[d].kept
                                                   /\ partial'[d].of = partial[d].of
<1>1. \A d \in Callers : partial'[d] = IF d = c THEN [of |-> id, kept |-> FALSE] ELSE partial[d]
  BY DEF SlotInv, Numbered
<1>2. id \in 0 .. packed /\ packed \in Nat
  BY DEF SlotInv, Numbered, Packing, NoBundle
<1>3. \A d \in Callers : id # NoBundle => partial[d].of # id
  BY DEF SlotInv, Packing
<1>4. \A d, e \in Callers : d # e /\ partial'[d].of = partial'[e].of => partial'[d].of = NoBundle
  BY <1>1, <1>3 DEF SlotInv, Numbered
<1>5. Numbered'
  BY <1>1, <1>2, <1>4 DEF SlotInv, Numbered
<1>6. KeptOnes'
  BY <1>1 DEF SlotInv, KeptOnes
<1> QED
  BY <1>1, <1>5, <1>6

LEMMA PackCompletesSlot ==
  ASSUME SlotInv, NEW c \in Callers, PackCompletes(c)
  PROVE  SlotInv'
<1>1. At(c, "pack") /\ PackAccepts(c) /\ UNCHANGED <<packed, paused>>
      /\ partial' = [partial EXCEPT ![c] = [of |-> NoBundle, kept |-> FALSE]]
  BY DEF PackCompletes, NoPartial
<1>2. PICK k : Shape(k) /\ k.phase # "pack" /\ call' = [call EXCEPT ![c] = k]
  BY GotoShape DEF PackCompletes, AfterPack, SlotInv
<1>3. CallsOK' /\ Packing'
  BY <1>1, <1>2, LeavesPack
<1>4. /\ Numbered' /\ KeptOnes'
      /\ \A d \in Callers : partial'[d].kept => d # c /\ partial[d].kept
  BY <1>1, OtherPartialOK DEF SlotInv, Numbered
<1>5. PausedIsKept'
  BY <1>1, <1>4, OnlyItsOwnIsKept DEF PausedIsKept
<1> QED
  BY <1>3, <1>4, <1>5 DEF SlotInv

\* The previous context is back in the slot before the lock is free.
LEMMA PackFailsSlot ==
  ASSUME SlotInv, NEW c \in Callers, PackFails(c)
  PROVE  SlotInv'
<1>1. At(c, "pack") /\ paused' = PutBack(c) /\ UNCHANGED packed
  BY DEF PackFails
<1>2. CallsOK' /\ Packing'
  BY <1>1, IdleShape, LeavesPack DEF PackFails, Fail, Become
<1>3. paused' \in 0 .. packed /\ packed \in Nat
  BY <1>1 DEF PutBack, SlotInv, Packing, Numbered
<1>4. \A d \in Callers : partial[d].kept => paused' = partial[d].of
  BY <1>1, OnlyItsOwnIsKept DEF PutBack
<1>5. CASE UNCHANGED partial
  <2>1. Numbered' /\ KeptOnes'
    BY <1>1, <1>3, <1>5 DEF SlotInv, Numbered, KeptOnes
  <2>2. PausedIsKept'
    BY <1>4, <1>5 DEF PausedIsKept
  <2> QED
    BY <1>2, <2>1, <2>2 DEF SlotInv
<1>6. CASE ~UNCHANGED partial
  <2>1. PICK id \in {NoBundle, call[c].secret} :
          /\ id # NoBundle => call[c].previous = NoBundle
          /\ partial' = [partial EXCEPT ![c] = [of |-> id, kept |-> FALSE]]
    BY <1>6 DEF PackFails, NoPartial
  <2>2. /\ Numbered' /\ KeptOnes'
        /\ \A d \in Callers : partial'[d].kept => partial[d].kept /\ partial'[d].of = partial[d].of
    BY <1>1, <1>3, <2>1, OtherPartialOK
  <2>3. PausedIsKept'
    BY <1>4, <2>2 DEF PausedIsKept
  <2> QED
    BY <1>2, <2>2, <2>3 DEF SlotInv
<1> QED
  BY <1>5, <1>6

(***************************************************************************)
(* The world                                                               *)
(***************************************************************************)
LEMMA RestartSlot ==
  ASSUME SlotInv, Restart
  PROVE  SlotInv'
<1>1. /\ UNCHANGED packed /\ paused' = NoBundle /\ call' = [c \in Callers |-> Idle]
      /\ partial' = [c \in Callers |-> [of |-> partial[c].of, kept |-> FALSE]]
  BY DEF Restart
<1>2. CallsOK'
  BY <1>1, IdleShape DEF CallsOK
<1>3. \A c \in Callers : ~At(c, "pack")'
  BY <1>1 DEF At, Idle
<1>4. Packing'
  BY <1>3 DEF Packing
<1>5. Numbered'
  BY <1>1 DEF SlotInv, Numbered, NoBundle
<1>6. KeptOnes' /\ PausedIsKept'
  BY <1>1 DEF KeptOnes, PausedIsKept
<1> QED
  BY <1>2, <1>4, <1>5, <1>6 DEF SlotInv

LEMMA RemovePartialSlot ==
  ASSUME SlotInv, NEW c \in Callers, RemovePartial(c)
  PROVE  SlotInv'
<1>1. /\ UNCHANGED <<call, packed, paused>>
      /\ partial' = [partial EXCEPT ![c] = [of |-> NoBundle, kept |-> FALSE]]
  BY DEF RemovePartial, NoPartial
<1>2. \A d \in Callers :
        partial'[d] = IF d = c THEN [of |-> NoBundle, kept |-> FALSE] ELSE partial[d]
  BY <1>1 DEF SlotInv, Numbered
<1>3. CallsOK'
  BY <1>1 DEF SlotInv, CallsOK, Shape
<1>4. Numbered' /\ KeptOnes'
  BY <1>1, <1>2 DEF SlotInv, Numbered, KeptOnes, NoBundle
<1>5. Packing'
  BY <1>1, <1>2 DEF SlotInv, Packing, At, NoBundle
<1>6. PausedIsKept'
  BY <1>1, <1>2 DEF SlotInv, PausedIsKept, At
<1> QED
  BY <1>3, <1>4, <1>5, <1>6 DEF SlotInv

LEMMA WorldSlot ==
  ASSUME SlotInv, World
  PROVE  SlotInv'
<1>1. ASSUME NEW c \in Callers, RemovePartial(c)
      PROVE  SlotInv'
  BY <1>1, RemovePartialSlot
<1>2. ASSUME NEW c \in Callers,
             \/ ReplaceBundle(c)   /\ UNCHANGED <<document, othersOfOffline>>
             \/ ReplaceDocument(c) /\ UNCHANGED othersOfOffline
             \/ SpoilSource(c)     /\ UNCHANGED othersOfCopy
      PROVE  SlotInv'
  BY <1>2, SlotSame DEF ReplaceBundle, ReplaceDocument, SpoilSource, othersOfOffline, othersOfCopy
<1>3. CASE Observed /\ (ChangeInstallation \/ ChangeVault) /\ UNCHANGED othersOfVault
  BY <1>3, SlotSame DEF ChangeInstallation, ChangeVault, othersOfVault
<1>4. ASSUME NEW n, EditNote(n, Holders(n)), UNCHANGED othersOfVault
      PROVE  SlotInv'
  BY <1>4, SlotSame DEF EditNote, othersOfVault
<1>5. ASSUME NEW n, ReplaceFile(n), UNCHANGED othersOfCopy
      PROVE  SlotInv'
  BY <1>5, SlotSame DEF ReplaceFile, othersOfCopy
<1> QED
  BY <1>1, <1>2, <1>3, <1>4, <1>5 DEF World

LEMMA InitSlot ==
  ASSUME Init
  PROVE  SlotInv
<1>1. call = [c \in Callers |-> Idle] /\ packed = 1 /\ paused = 0
      /\ partial = [c \in Callers |-> [of |-> 0, kept |-> FALSE]]
  BY DEF Init, WorldInit, Older, NoBundle, NoPartial
<1>2. CallsOK
  BY <1>1, IdleShape DEF CallsOK
<1>3. \A c \in Callers : ~At(c, "pack")
  BY <1>1 DEF At, Idle
<1> QED
  BY <1>1, <1>2, <1>3 DEF SlotInv, Numbered, Packing, KeptOnes, PausedIsKept, NoBundle

LEMMA NextSlot ==
  ASSUME SlotInv, [Next]_vars
  PROVE  SlotInv'
<1>1. CASE UNCHANGED vars
  BY <1>1, SlotSame DEF vars, worldVars
<1>2. ASSUME NEW c \in Callers, PackStep(c)
      PROVE  SlotInv'
  BY <1>2, BeginFreshSlot, BeginResumeSlot, PackPausesSlot, PackCompletesSlot, PackFailsSlot
     DEF PackStep
<1>3. ASSUME NEW c \in Callers, OfflineStep(c)
      PROVE  SlotInv'
  BY <1>3, OfflineGoesOn, OutsidePack DEF SlotInv, OfflineStep, othersOfOffline
<1>4. ASSUME NEW c \in Callers, VaultStep(c)
      PROVE  SlotInv'
  BY <1>4, VaultGoesOn, OutsidePack DEF SlotInv, VaultStep, othersOfVault
<1>5. ASSUME NEW c \in Callers, CopyStep(c)
      PROVE  SlotInv'
  <2>1. UNCHANGED <<packed, partial, paused>>
    BY <1>5 DEF CopyStep, othersOfCopy
  <2> QED
    BY <1>5, <2>1, CopyGoesOn, OutsidePack, SlotSame DEF SlotInv
<1>6. ASSUME NEW c \in Callers, OwnerReviews(c) \/ VerifyOffline(c) \/ Complete(c)
      PROVE  SlotInv'
  <2>1. UNCHANGED <<packed, partial, paused>>
    BY <1>6 DEF OwnerReviews, VerifyOffline, Complete
  <2> QED
    BY <1>6, <2>1, OwnerGoesOn, OutsidePack DEF SlotInv
<1>7. ASSUME NEW c \in Callers, BeginCopy(c) \/ LoadForCopy(c) \/ Fault(c)
      PROVE  SlotInv'
  <2>1. UNCHANGED <<packed, partial, paused>>
    BY <1>7 DEF BeginCopy, LoadForCopy, Fault
  <2> QED
    BY <1>7, <2>1, BeginCopyGoesOn, LoadForCopyGoesOn, FaultGoesOn, OutsidePack DEF SlotInv
<1> QED
  BY <1>1, <1>2, <1>3, <1>4, <1>5, <1>6, <1>7, RestartSlot, WorldSlot DEF Next

\* While the process lives, the recovery context of a paused Pack whose partial
\* Bundle is still saved is in the slot or with the one call that resumes it,
\* however many threads capture, pause, fail and resume: the lock is held from
\* the look at the slot until the context is put back (paused_pack of
\* MigrationWorkflowEngine::capture).
THEOREM PausedAreKept == Spec => []PausedIsKept
<1>1. Spec => []SlotInv
  BY InitSlot, NextSlot, PTL DEF Spec
<1>2. SlotInv => PausedIsKept
  BY DEF SlotInv
<1> QED
  BY <1>1, <1>2, PTL

(***************************************************************************)
(* Types                                                                   *)
(***************************************************************************)
\* The installation was changed at most as often as anything was.
Typed ==
  /\ WorldTypeOK /\ OfflineTypeOK /\ VaultTypeOK
  /\ installation <= harm["change"] + 1
  /\ packed \in Ids /\ paused \in 0 .. MaxBundles
  /\ partial \in [Callers -> Partial] /\ result \in [Callers -> Result]

LEMMA Contents ==
  /\ NoBundle \in 0 .. MaxBundles /\ Older \in 0 .. MaxBundles /\ Older \in Ids
  /\ Torn \in Content /\ Of(Older) \in Content
  /\ \A id \in 0 .. MaxBundles : Of(id) \in Content
  /\ NoDocument \in Document /\ NoPartial \in Partial /\ NoResult \in Result /\ Idle \in Call
<1>1. /\ NoBundle \in 0 .. MaxBundles /\ Older \in 0 .. MaxBundles /\ Older \in Ids
      /\ \A id \in 0 .. MaxBundles : Of(id) \in Content
  BY WorldBounds DEF NoBundle, Older, Ids, Of, Content
<1>2. Torn \in Content /\ Of(Older) \in Content
  BY <1>1 DEF Torn
<1>3. NoDocument \in Document /\ NoPartial \in Partial
  BY <1>1, <1>2 DEF NoDocument, Document, NoPartial, Partial
<1>4. NoResult \in Result
  BY <1>1, WorldBounds DEF NoResult, Result
<1>5. Idle \in Call
  BY WorldBounds DEF Idle, Call, Phases
<1> QED
  BY <1>1, <1>2, <1>3, <1>4, <1>5

\* The new state of a call.
LEMMA CallTyped ==
  ASSUME call \in [Callers -> Call], NEW c \in Callers, NEW k \in Call, Become(c, k)
  PROVE  call' \in [Callers -> Call]
  BY DEF Become

LEMMA GotoTyped ==
  ASSUME call \in [Callers -> Call], NEW c \in Callers, NEW phase \in Phases, Goto(c, phase)
  PROVE  call' \in [Callers -> Call]
<1>1. [call[c] EXCEPT !.phase = phase] \in Call
  BY DEF Call
<1> QED
  BY <1>1 DEF Goto

LEMMA FailTyped ==
  ASSUME call \in [Callers -> Call], NEW c \in Callers, Fail(c)
  PROVE  call' \in [Callers -> Call]
  BY Contents, CallTyped DEF Fail

LEMMA SpendTyped ==
  ASSUME WorldTypeOK, NEW h \in {"change", "fault"}, NEW limit, Spend(h, limit)
  PROVE  harm' \in [{"change", "fault"} -> Nat] /\ harm'["change"] >= harm["change"]
  BY DEF WorldTypeOK, Spend

LEMMA TouchedTyped ==
  ASSUME touched \in [Callers -> SUBSET Artefacts], NEW c \in Callers, NEW a \in Artefacts,
         NEW s, Touch(c, a) \/ Settled(c, s) \/ touched' = [touched EXCEPT ![c] = @ \ s]
  PROVE  touched' \in [Callers -> SUBSET Artefacts]
  BY DEF Touch, Settled

LEMMA TypedSame ==
  ASSUME Typed, UNCHANGED <<worldVars, document, vaultVars, packed, partial, paused, result>>
  PROVE  Typed'
  BY DEF Typed, WorldTypeOK, OfflineTypeOK, VaultTypeOK, worldVars, vaultVars

\* A step that only moves its call on, and spends nothing or a fault.
LEMMA CallOnlyTyped ==
  ASSUME Typed, call' \in [Callers -> Call],
         UNCHANGED harm \/ Spend("fault", MaxFaults),
         UNCHANGED <<bundle, touched, document, vaultVars, packed, partial, paused, result>>
  PROVE  Typed'
<1>1. harm' \in [{"change", "fault"} -> Nat] /\ harm'["change"] >= harm["change"]
  BY SpendTyped DEF Typed, WorldTypeOK
<1>2. WorldTypeOK'
  BY <1>1 DEF Typed, WorldTypeOK
<1>3. installation' <= harm'["change"] + 1
  BY <1>1 DEF Typed, WorldTypeOK, VaultTypeOK, vaultVars
<1> QED
  BY <1>2, <1>3 DEF Typed, OfflineTypeOK, VaultTypeOK, vaultVars

LEMMA PackTyped ==
  ASSUME Typed, NEW c \in Callers, PackStep(c)
  PROVE  Typed'
<1>1. /\ call \in [Callers -> Call] /\ bundle \in [Callers -> 0 .. MaxBundles]
      /\ packed \in Ids /\ paused \in 0 .. MaxBundles
      /\ partial \in [Callers -> Partial] /\ result \in [Callers -> Result]
      /\ call[c] \in Call /\ call[c].secret \in 0 .. MaxBundles
      /\ call[c].previous \in 0 .. MaxBundles
  BY DEF Typed, WorldTypeOK, Call
<1>2. harm' \in [{"change", "fault"} -> Nat] /\ harm'["change"] >= harm["change"]
  <2>1. UNCHANGED harm \/ Spend("fault", MaxFaults)
    BY DEF PackStep, BeginFresh, BeginResume, PackPauses, PackCompletes, PackFails
  <2> QED
    BY <2>1, SpendTyped DEF Typed, WorldTypeOK
<1>3. packed' \in Ids
  BY <1>1, WorldBounds
     DEF PackStep, BeginFresh, BeginResume, PackPauses, PackCompletes, PackFails, Ids
<1>4. paused' \in 0 .. MaxBundles
  BY <1>1, Contents DEF PackStep, BeginFresh, BeginResume, PackPauses, PackCompletes, PackFails,
                        PutBack
<1>5. call' \in [Callers -> Call]
  <2>1. CASE BeginFresh(c)
    <3> DEFINE k == [Idle EXCEPT !.phase = "pack", !.secret = packed + 1]
    <3>1. packed + 1 \in 0 .. MaxBundles /\ "pack" \in Phases
      BY <1>1, <2>1, WorldBounds DEF BeginFresh, Ids, Phases
    <3>2. k \in Call
      BY <3>1, Contents DEF Call
    <3> QED
      BY <1>1, <2>1, <3>2, CallTyped DEF BeginFresh
  <2>2. CASE BeginResume(c)
    <3> DEFINE k == [Idle EXCEPT !.phase = "pack", !.secret = paused, !.previous = paused]
    <3>1. "pack" \in Phases
      BY DEF Phases
    <3>2. k \in Call
      BY <1>1, <3>1, Contents DEF Call
    <3> QED
      BY <1>1, <2>2, <3>2, CallTyped DEF BeginResume
  <2>3. CASE PackPauses(c) \/ PackFails(c)
    BY <1>1, <2>3, FailTyped DEF PackPauses, PackFails
  <2>4. CASE PackCompletes(c)
    BY <1>1, <2>4, GotoTyped DEF PackCompletes, AfterPack, Phases
  <2> QED
    BY <2>1, <2>2, <2>3, <2>4 DEF PackStep
<1>6. bundle' \in [Callers -> 0 .. MaxBundles]
  BY <1>1 DEF PackStep, BeginFresh, BeginResume, PackPauses, PackCompletes, PackFails
<1>7. partial' \in [Callers -> Partial]
  <2>1. /\ NoPartial \in Partial
        /\ \A kept \in BOOLEAN : [of |-> call[c].secret, kept |-> kept] \in Partial
    BY <1>1, Contents DEF Partial
  <2> QED
    BY <1>1, <2>1 DEF PackStep, BeginFresh, BeginResume, PackPauses, PackCompletes, PackFails
<1>8. touched' \in [Callers -> SUBSET Artefacts]
  BY DEF PackStep, BeginFresh, BeginResume, PackPauses, PackCompletes, PackFails, Typed, WorldTypeOK
<1>9. result' \in [Callers -> Result]
  BY <1>1, Contents DEF PackStep, BeginFresh, BeginResume, PackPauses, PackCompletes, PackFails
<1>10. UNCHANGED <<document, vaultVars>>
  BY DEF PackStep, BeginFresh, BeginResume, PackPauses, PackCompletes, PackFails
<1>11. installation' <= harm'["change"] + 1
  BY <1>2, <1>10 DEF Typed, WorldTypeOK, VaultTypeOK, vaultVars
<1> QED
  BY <1>2, <1>3, <1>4, <1>5, <1>6, <1>7, <1>8, <1>9, <1>10, <1>11
     DEF Typed, WorldTypeOK, OfflineTypeOK, VaultTypeOK, vaultVars

LEMMA OfflineTyped ==
  ASSUME Typed, NEW c \in Callers, OfflineStep(c)
  PROVE  Typed'
<1>1. /\ call \in [Callers -> Call] /\ bundle \in [Callers -> 0 .. MaxBundles]
      /\ touched \in [Callers -> SUBSET Artefacts] /\ document \in [Callers -> Document]
      /\ call[c] \in Call /\ call[c].secret \in 0 .. MaxBundles
      /\ document[c] \in Document /\ document[c].holds \in Content
      /\ document[c].holds.opens \in 0 .. MaxBundles /\ document[c].holds.names \in 0 .. MaxBundles
  BY DEF Typed, WorldTypeOK, OfflineTypeOK, Call, Document, Content
<1>2. call' \in [Callers -> Call]
  <2>1. CASE CreateDocument(c) \/ WriteDocument(c) \/ AbandonDocument(c) \/ RemoveFailed(c)
          \/ SynchronizeParent(c)
    BY <1>1, <2>1, FailTyped, GotoTyped
       DEF CreateDocument, WriteDocument, AbandonDocument, RemoveFailed, SynchronizeParent, Phases
  <2>2. CASE RehearseDocument(c)
    <3> DEFINE k == [call[c] EXCEPT !.phase = "inspect", !.rehearsed = document[c].holds.names]
    <3>1. "inspect" \in Phases
      BY DEF Phases
    <3>2. k \in Call
      BY <1>1, <3>1 DEF Call
    <3> QED
      BY <1>1, <2>2, <3>2, FailTyped, CallTyped DEF RehearseDocument
  <2>3. CASE LoadDocument(c, "loaddoc", "verifydoc")
    <3> DEFINE k == [call[c] EXCEPT !.phase = "verifydoc", !.loaded = document[c].holds.opens]
    <3>1. "verifydoc" \in Phases
      BY DEF Phases
    <3>2. k \in Call
      BY <1>1, <3>1 DEF Call
    <3> QED
      BY <1>1, <2>3, <3>2, FailTyped, CallTyped DEF LoadDocument
  <2> QED
    BY <2>1, <2>2, <2>3 DEF OfflineStep
<1>3. document' \in [Callers -> Document]
  <2>1. /\ [file |-> "own", holds |-> Torn] \in Document /\ NoDocument \in Document
        /\ [document[c] EXCEPT !.holds = Of(call[c].secret)] \in Document
    BY <1>1, Contents DEF Document
  <2> QED
    BY <1>1, <2>1 DEF OfflineStep, CreateDocument, WriteDocument, AbandonDocument, RemoveFailed,
       SynchronizeParent, RehearseDocument, LoadDocument
<1>4. touched' \in [Callers -> SUBSET Artefacts]
  BY <1>1 DEF OfflineStep, CreateDocument, WriteDocument, AbandonDocument, RemoveFailed,
              SynchronizeParent, RehearseDocument, LoadDocument, Settled
<1>5. harm' \in [{"change", "fault"} -> Nat] /\ harm'["change"] >= harm["change"]
  <2>1. UNCHANGED harm \/ Spend("fault", MaxFaults)
    BY DEF OfflineStep, CreateDocument, WriteDocument, AbandonDocument, RemoveFailed,
           SynchronizeParent, RehearseDocument, LoadDocument
  <2> QED
    BY <2>1, SpendTyped DEF Typed, WorldTypeOK
<1>6. UNCHANGED <<bundle, vaultVars, packed, partial, paused, result>>
  BY DEF OfflineStep, CreateDocument, WriteDocument, AbandonDocument, RemoveFailed,
         SynchronizeParent, RehearseDocument, LoadDocument, othersOfOffline
<1>7. installation' <= harm'["change"] + 1
  BY <1>5, <1>6 DEF Typed, WorldTypeOK, VaultTypeOK, vaultVars
<1> QED
  BY <1>2, <1>3, <1>4, <1>5, <1>6, <1>7
     DEF Typed, WorldTypeOK, OfflineTypeOK, VaultTypeOK, vaultVars

\* The notes that can be read back.
LEMMA StoredNotes ==
  ASSUME Typed, NEW n, Stored(n)
  PROVE  /\ n \in 1 .. Len(notes) /\ notes[n] \in Note /\ Held(n) \in Content
         /\ Held(n).opens \in 0 .. MaxBundles /\ Held(n).names \in 0 .. MaxBundles
         /\ notes[n].server = vault.server
<1>1. n \in 1 .. Len(notes) /\ notes \in Seq(Note)
  BY DEF Stored, Typed, VaultTypeOK
<1>2. notes[n] \in Note
  BY <1>1
<1> QED
  BY <1>1, <1>2 DEF Stored, Held, Note, Content

\* A note is created.
LEMMA AppendTyped ==
  ASSUME Typed, NEW c \in Callers, Len(notes) < MaxNotes, notes' = Append(notes, NewNote(c))
  PROVE  /\ notes' \in Seq(Note) /\ Len(notes') = Len(notes) + 1 /\ Len(notes') <= MaxNotes
         /\ Len(notes) \in Nat /\ Len(notes) + 1 \in Nat
         /\ \A n \in 1 .. Len(notes) : notes'[n] = notes[n]
<1>1. notes \in Seq(Note) /\ Len(notes) \in Nat
  BY DEF Typed, VaultTypeOK
<1>2. /\ call[c].secret \in 0 .. MaxBundles /\ call[c].named \in 0 .. MaxBundles
      /\ vault.server \in Servers
  BY DEF Typed, WorldTypeOK, VaultTypeOK, Call
<1>3. NewNote(c) \in Note
  BY <1>2 DEF NewNote, Note, Content
<1> QED
  BY <1>1, <1>3, NotesAssumption

LEMMA VaultTyped ==
  ASSUME Typed, NEW c \in Callers, VaultStep(c)
  PROVE  Typed'
<1>1. /\ call \in [Callers -> Call] /\ bundle \in [Callers -> 0 .. MaxBundles]
      /\ touched \in [Callers -> SUBSET Artefacts]
      /\ call[c] \in Call /\ bundle[c] \in 0 .. MaxBundles
      /\ installation \in 1 .. MaxChanges + 1 /\ installation \in 0 .. MaxChanges + 1
      /\ vault.server \in Servers /\ notes \in Seq(Note) /\ Len(notes) \in Nat
      /\ Len(notes) <= MaxNotes
  BY WorldBounds DEF Typed, WorldTypeOK, VaultTypeOK
<1>2. call' \in [Callers -> Call]
  <2>1. CASE InspectInstallation(c)
    <3> DEFINE k == [call[c] EXCEPT !.phase = "reviewbw", !.installed = installation]
    <3>1. "reviewbw" \in Phases
      BY DEF Phases
    <3>2. k \in Call
      BY <1>1, <3>1 DEF Call
    <3> QED
      BY <1>1, <2>1, <3>2, CallTyped DEF InspectInstallation
  <2>2. CASE Preflight(c)
    <3> DEFINE k == [call[c] EXCEPT !.phase = "reviewvault", !.server = vault.server,
                                    !.named = bundle[c]]
    <3>1. "reviewvault" \in Phases
      BY DEF Phases
    <3>2. k \in Call
      BY <1>1, <3>1 DEF Call
    <3> QED
      BY <1>1, <2>2, <3>2, FailTyped, CallTyped DEF Preflight
  <2>3. CASE \/ CheckStore(c) \/ RehearseNote(c) \/ CheckVault(c, "checkvault", "loadnote")
             \/ CheckVault(c, "fetchcheck", "fetchnote")
    BY <1>1, <2>3, FailTyped, GotoTyped DEF CheckStore, RehearseNote, CheckVault, Phases
  <2>4. CASE LoseAnswer(c)
    BY <1>1, <2>4, FailTyped DEF LoseAnswer
  <2>5. CASE CreateNote(c)
    <3> DEFINE k == [call[c] EXCEPT !.phase = "readback", !.note = Len(notes) + 1]
    <3>1. "readback" \in Phases /\ Len(notes) + 1 \in Nat
      BY <1>1 DEF Phases
    <3>2. k \in Call
      BY <1>1, <3>1 DEF Call
    <3> QED
      BY <1>1, <2>5, <3>2, FailTyped, CallTyped DEF CreateNote
  <2>6. CASE LoadNote(c, "loadnote", "compare")
    <3> DEFINE k == [call[c] EXCEPT !.phase = "compare", !.loaded = Held(call[c].note).opens]
    <3>1. "compare" \in Phases
      BY DEF Phases
    <3>2. NoteOpens(c) => k \in Call
      BY <1>1, <3>1, StoredNotes DEF Call, NoteOpens
    <3> QED
      BY <1>1, <2>6, <3>2, FailTyped, CallTyped DEF LoadNote
  <2> QED
    BY <2>1, <2>2, <2>3, <2>4, <2>5, <2>6 DEF VaultStep
<1>3. notes' \in Seq(Note) /\ Len(notes') <= MaxNotes
  <2>1. CASE UNCHANGED notes
    BY <1>1, <2>1
  <2>2. CASE ~UNCHANGED notes
    BY <2>2, AppendTyped DEF VaultStep, InspectInstallation, Preflight, CheckStore, CreateNote,
       LoseAnswer, RehearseNote, CheckVault, LoadNote, vaultVars
  <2> QED
    BY <2>1, <2>2
<1>4. touched' \in [Callers -> SUBSET Artefacts]
  BY <1>1 DEF VaultStep, InspectInstallation, Preflight, CheckStore, CreateNote, LoseAnswer,
              RehearseNote, CheckVault, LoadNote, Settled
<1>5. harm' \in [{"change", "fault"} -> Nat] /\ harm'["change"] >= harm["change"]
  <2>1. UNCHANGED harm \/ Spend("fault", MaxFaults)
    BY DEF VaultStep, InspectInstallation, Preflight, CheckStore, CreateNote, LoseAnswer,
           RehearseNote, CheckVault, LoadNote
  <2> QED
    BY <2>1, SpendTyped DEF Typed, WorldTypeOK
<1>6. UNCHANGED <<bundle, installation, vault, document, packed, partial, paused, result>>
  BY DEF VaultStep, InspectInstallation, Preflight, CheckStore, CreateNote, LoseAnswer,
         RehearseNote, CheckVault, LoadNote, vaultVars, othersOfVault
<1>7. installation' <= harm'["change"] + 1
  BY <1>5, <1>6 DEF Typed, WorldTypeOK, VaultTypeOK
<1> QED
  BY <1>2, <1>3, <1>4, <1>5, <1>6, <1>7 DEF Typed, WorldTypeOK, OfflineTypeOK, VaultTypeOK

LEMMA CopyCallTyped ==
  ASSUME Typed, NEW c \in Callers, CopyStep(c)
  PROVE  Typed'
<1>1. UNCHANGED call \/ Fail(c)
  BY DEF CopyStep, OpenSource, CreatePartial, CopyBytes, AuthenticatePartial, PublishCompleted,
         ReopenCompleted, LookAtSaved, RemoveSaved, ReturnReceipt, EndCopy
<1>2. call' \in [Callers -> Call]
  BY <1>1, FailTyped DEF Typed, WorldTypeOK
<1>3. UNCHANGED <<harm, bundle, touched, document, vaultVars, packed, partial, paused, result>>
  BY DEF CopyStep, OpenSource, CreatePartial, CopyBytes, AuthenticatePartial, PublishCompleted,
         ReopenCompleted, LookAtSaved, RemoveSaved, ReturnReceipt, othersOfCopy
<1> QED
  BY <1>2, <1>3, CallOnlyTyped

LEMMA OwnerTyped ==
  ASSUME Typed, NEW c \in Callers, OwnerReviews(c) \/ VerifyOffline(c)
  PROVE  Typed'
<1>1. call \in [Callers -> Call] /\ call[c] \in Call /\ bundle[c] \in 0 .. MaxBundles
  BY DEF Typed, WorldTypeOK
<1>2. call' \in [Callers -> Call]
  <2>1. CASE OwnerReviews(c)
    BY <1>1, <2>1, FailTyped, GotoTyped DEF OwnerReviews, Phases
  <2>2. CASE VerifyOffline(c)
    <3> DEFINE k == [call[c] EXCEPT !.phase = "checkvault", !.verified = bundle[c]]
    <3>1. "checkvault" \in Phases
      BY DEF Phases
    <3>2. k \in Call
      BY <1>1, <3>1 DEF Call
    <3> QED
      BY <1>1, <2>2, <3>2, FailTyped, CallTyped DEF VerifyOffline
  <2> QED
    BY <2>1, <2>2
<1> QED
  BY <1>2, CallOnlyTyped DEF OwnerReviews, VerifyOffline

LEMMA CompleteTyped ==
  ASSUME Typed, NEW c \in Callers, Complete(c)
  PROVE  Typed'
<1>1. /\ call \in [Callers -> Call] /\ bundle[c] \in 0 .. MaxBundles /\ call[c] \in Call
  BY DEF Typed, WorldTypeOK
<1>2. call' \in [Callers -> Call]
  BY <1>1, FailTyped DEF Complete
<1>3. [bundle |-> bundle[c], note |-> call[c].note, server |-> call[c].server,
       installed |-> call[c].installed] \in Result
  BY <1>1 DEF Call, Result
<1>4. result' \in [Callers -> Result]
  BY <1>3 DEF Complete, Typed
<1> QED
  BY <1>2, <1>4 DEF Complete, Typed, WorldTypeOK, OfflineTypeOK, VaultTypeOK, vaultVars

LEMMA BeginCopyTyped ==
  ASSUME Typed, NEW c \in Callers, BeginCopy(c)
  PROVE  Typed'
<1>1. call \in [Callers -> Call] /\ result[c] \in Result
  BY DEF Typed, WorldTypeOK
<1>2. PICK method \in {"fetchdoc", "fetchcheck"} :
        Become(c, [Idle EXCEPT !.phase = method, !.note = result[c].note,
                               !.server = result[c].server, !.installed = result[c].installed])
  BY DEF BeginCopy
<1>3. /\ result[c].note \in Nat /\ result[c].server \in Servers \cup {NoServer}
      /\ result[c].installed \in 0 .. MaxChanges + 1 /\ method \in Phases
  BY <1>1 DEF Result, Phases
<1>4. [Idle EXCEPT !.phase = method, !.note = result[c].note,
                   !.server = result[c].server, !.installed = result[c].installed] \in Call
  BY <1>3, Contents DEF Call
<1>5. call' \in [Callers -> Call]
  BY <1>1, <1>2, <1>4, CallTyped
<1> QED
  BY <1>5, CallOnlyTyped DEF BeginCopy

LEMMA LoadForCopyTyped ==
  ASSUME Typed, NEW c \in Callers, LoadForCopy(c)
  PROVE  Typed'
<1> DEFINE k == [call[c] EXCEPT !.phase = "copy", !.loaded = document[c].holds.opens]
           m == [call[c] EXCEPT !.phase = "copy", !.loaded = Held(call[c].note).opens]
<1>1. /\ call \in [Callers -> Call] /\ call[c] \in Call /\ "copy" \in Phases
      /\ document[c].holds.opens \in 0 .. MaxBundles
  BY DEF Typed, WorldTypeOK, OfflineTypeOK, Document, Content, Phases
<1>2. k \in Call
  BY <1>1 DEF Call
<1>3. NoteOpens(c) => m \in Call
  BY <1>1, StoredNotes DEF Call, NoteOpens
<1>4. Become(c, k) \/ (NoteOpens(c) /\ Become(c, m)) \/ Fail(c)
  BY DEF LoadForCopy, LoadDocument, LoadNote
<1>5. call' \in [Callers -> Call]
  BY <1>1, <1>2, <1>3, <1>4, CallTyped, FailTyped
<1>6. UNCHANGED <<harm, bundle, touched, document, vaultVars, packed, partial, paused, result>>
  <2>1. call[c].phase \in {"fetchdoc", "fetchnote"}
    BY DEF LoadForCopy, LoadDocument, LoadNote, At
  <2> QED
    BY <2>1 DEF LoadForCopy, LoadDocument, LoadNote, Settled
<1> QED
  BY <1>5, <1>6, CallOnlyTyped

LEMMA FaultTyped ==
  ASSUME Typed, NEW c \in Callers, Fault(c)
  PROVE  Typed'
<1>1. call' \in [Callers -> Call]
  BY FailTyped DEF Fault, EndCopy, Typed, WorldTypeOK
<1> QED
  BY <1>1, CallOnlyTyped DEF Fault

LEMMA RestartTyped ==
  ASSUME Typed, Restart
  PROVE  Typed'
<1>1. harm' \in [{"change", "fault"} -> Nat] /\ harm'["change"] >= harm["change"]
  BY SpendTyped DEF Restart, Typed
<1>2. call' \in [Callers -> Call] /\ paused' \in 0 .. MaxBundles
  BY Contents DEF Restart
<1>3. partial' \in [Callers -> Partial]
  BY DEF Restart, Typed, Partial
<1>4. vault' \in [server : Servers, open : BOOLEAN]
  BY DEF Restart, Typed, VaultTypeOK
<1>5. installation' <= harm'["change"] + 1
  BY <1>1 DEF Restart, Typed, WorldTypeOK, VaultTypeOK
<1> QED
  BY <1>1, <1>2, <1>3, <1>4, <1>5 DEF Restart, Typed, WorldTypeOK, OfflineTypeOK, VaultTypeOK

LEMMA WorldTyped ==
  ASSUME Typed, World
  PROVE  Typed'
<1>1. /\ bundle \in [Callers -> 0 .. MaxBundles] /\ touched \in [Callers -> SUBSET Artefacts]
      /\ document \in [Callers -> Document] /\ partial \in [Callers -> Partial]
      /\ harm["change"] \in Nat /\ notes \in Seq(Note) /\ Len(notes) <= MaxNotes
      /\ installation \in 1 .. MaxChanges + 1 /\ installation <= harm["change"] + 1
  BY DEF Typed, WorldTypeOK, OfflineTypeOK, VaultTypeOK
<1>2. Spend("change", MaxChanges)
  BY DEF World, ReplaceBundle, ReplaceDocument, SpoilSource, RemovePartial, ChangeInstallation,
         ChangeVault, EditNote, ReplaceFile
<1>3. /\ harm' \in [{"change", "fault"} -> Nat] /\ harm'["change"] = harm["change"] + 1
      /\ harm'["change"] <= MaxChanges
  BY <1>2, WorldBounds DEF Spend, Typed, WorldTypeOK
<1>4. UNCHANGED <<call, packed, paused, result>>
  BY DEF World, ReplaceBundle, ReplaceDocument, SpoilSource, RemovePartial, ChangeInstallation,
         ChangeVault, EditNote, ReplaceFile, othersOfOffline, othersOfVault, othersOfCopy
<1>5. bundle' \in [Callers -> 0 .. MaxBundles]
  BY <1>1, Contents
     DEF World, ReplaceBundle, ReplaceDocument, SpoilSource, RemovePartial, ChangeInstallation,
         ChangeVault, EditNote, ReplaceFile
<1>6. touched' \in [Callers -> SUBSET Artefacts]
  <2>1. ASSUME NEW c \in Callers, NEW a \in Artefacts, Touch(c, a)
        PROVE  touched' \in [Callers -> SUBSET Artefacts]
    BY <1>1, <2>1, TouchedTyped
  <2>2. ASSUME NEW n, EditNote(n, Holders(n))
        PROVE  touched' \in [Callers -> SUBSET Artefacts]
    <3>1. \A c \in Callers : touched[c] \cup {"note"} \in SUBSET Artefacts
      BY <1>1 DEF Artefacts
    <3> QED
      BY <1>1, <2>2, <3>1 DEF EditNote
  <2>3. CASE UNCHANGED touched
    BY <1>1, <2>3
  <2>4. "bundle" \in Artefacts /\ "document" \in Artefacts
    BY DEF Artefacts
  <2> QED
    BY <2>1, <2>2, <2>3, <2>4
       DEF World, ReplaceBundle, ReplaceDocument, SpoilSource, RemovePartial, ChangeInstallation,
           ChangeVault, ReplaceFile
<1>7. document' \in [Callers -> Document]
  <2>1. CASE UNCHANGED document
    BY <1>1, <2>1
  <2>2. ASSUME NEW c \in Callers, ReplaceDocument(c)
        PROVE  document' \in [Callers -> Document]
    <3>1. document[c].holds.opens \in 0 .. MaxBundles /\ Older \in 0 .. MaxBundles
      BY <1>1, Contents DEF Document, Content
    <3>2. [opens |-> document[c].holds.opens, names |-> Older] \in Content
      BY <3>1 DEF Content
    <3>3. /\ NoDocument \in Document
          /\ [file |-> "other", holds |-> Of(Older)] \in Document
          /\ [file |-> "other",
              holds |-> [opens |-> document[c].holds.opens, names |-> Older]] \in Document
      BY <3>2, Contents DEF Document
    <3> QED
      BY <1>1, <2>2, <3>3 DEF ReplaceDocument
  <2> QED
    BY <2>1, <2>2 DEF World, RemovePartial, othersOfVault, othersOfCopy
<1>8. partial' \in [Callers -> Partial]
  BY <1>1, Contents
     DEF World, RemovePartial, othersOfOffline, othersOfVault, othersOfCopy
<1>9. /\ installation' \in 1 .. MaxChanges + 1 /\ installation' <= harm'["change"] + 1
      /\ vault' \in [server : Servers, open : BOOLEAN]
  <2>1. CASE UNCHANGED <<installation, vault>>
    BY <1>1, <1>3, <2>1 DEF Typed, VaultTypeOK
  <2>2. CASE ChangeInstallation \/ ChangeVault
    <3>1. installation' = installation \/ installation' = installation + 1
      BY <2>2 DEF ChangeInstallation, ChangeVault
    <3>2. installation' \in 1 .. MaxChanges + 1 /\ installation' <= harm'["change"] + 1
      BY <1>1, <1>3, <3>1, WorldBounds
    <3>3. UNCHANGED vault \/ \E s \in Servers : vault' = [server |-> s, open |-> FALSE]
      BY <2>2 DEF ChangeInstallation, ChangeVault
    <3>4. vault \in [server : Servers, open : BOOLEAN]
      BY DEF Typed, VaultTypeOK
    <3>5. vault' \in [server : Servers, open : BOOLEAN]
      <4>1. CASE UNCHANGED vault
        BY <3>4, <4>1
      <4>2. ASSUME NEW s \in Servers, vault' = [server |-> s, open |-> FALSE]
            PROVE  vault' \in [server : Servers, open : BOOLEAN]
        BY <4>2
      <4> QED
        BY <3>3, <4>1, <4>2
    <3> QED
      BY <3>2, <3>5
  <2> QED
    BY <2>1, <2>2
       DEF World, RemovePartial, EditNote, othersOfOffline, othersOfCopy, vaultVars
<1>10. notes' \in Seq(Note) /\ Len(notes') <= MaxNotes
  <2>1. CASE UNCHANGED notes
    BY <1>1, <2>1
  <2>2. ASSUME NEW n \in 1 .. Len(notes), EditNote(n, Holders(n))
        PROVE  notes' \in Seq(Note) /\ Len(notes') <= MaxNotes
    <3>1. notes[n] \in Note
      BY <1>1
    <3>2. PICK note \in {[notes[n] EXCEPT !.server = Nowhere],
                         [notes[n] EXCEPT !.holds = Of(Older)],
                         [notes[n] EXCEPT !.holds.names = Older]} :
            notes' = [notes EXCEPT ![n] = note]
      BY <2>2 DEF EditNote
    <3>3. [notes[n] EXCEPT !.server = Nowhere] \in Note
      BY <3>1 DEF Note
    <3>4. [notes[n] EXCEPT !.holds = Of(Older)] \in Note
      BY <3>1, Contents DEF Note
    <3>5. [notes[n] EXCEPT !.holds.names = Older] \in Note
      <4>1. notes[n].holds \in Content
        BY <3>1 DEF Note
      <4>2. [notes[n].holds EXCEPT !.names = Older] \in Content
        BY <4>1, Contents DEF Content
      <4> QED
        BY <3>1, <4>2 DEF Note
    <3>6. note \in Note
      BY <3>3, <3>4, <3>5
    <3> QED
      BY <1>1, <3>2, <3>6
  <2> QED
    BY <2>1, <2>2 DEF World, RemovePartial, ChangeInstallation, ChangeVault, othersOfOffline,
                      othersOfCopy, vaultVars
<1> QED
  BY <1>3, <1>4, <1>5, <1>6, <1>7, <1>8, <1>9, <1>10
     DEF Typed, WorldTypeOK, OfflineTypeOK, VaultTypeOK

LEMMA InitTyped ==
  ASSUME Init
  PROVE  Typed
<1>1. WorldTypeOK
  BY Contents DEF Init, WorldInit, WorldTypeOK
<1>2. OfflineTypeOK
  BY Contents DEF Init, OfflineInit, OfflineTypeOK
<1>3. VaultTypeOK
  <2>1. PICK s \in Servers : /\ vault = [server |-> s, open |-> TRUE]
                             /\ notes = << [server |-> s, holds |-> Of(Older)] >>
    BY DEF Init, VaultInit
  <2>2. [server |-> s, holds |-> Of(Older)] \in Note
    BY Contents DEF Note
  <2>3. notes \in Seq(Note) /\ Len(notes) <= MaxNotes
    BY <2>1, <2>2, NotesAssumption
  <2> QED
    BY <2>1, <2>3, WorldBounds DEF Init, VaultInit, VaultTypeOK
<1> QED
  BY <1>1, <1>2, <1>3, Contents
     DEF Init, Typed, VaultInit, WorldInit

LEMMA NextTyped ==
  ASSUME Typed, [Next]_vars
  PROVE  Typed'
<1>1. CASE UNCHANGED vars
  BY <1>1, TypedSame DEF vars
<1>2. CASE Next
  BY <1>2, PackTyped, OfflineTyped, VaultTyped, CopyCallTyped, OwnerTyped, CompleteTyped,
     BeginCopyTyped, LoadForCopyTyped, FaultTyped, RestartTyped, WorldTyped DEF Next
<1> QED
  BY <1>1, <1>2

(***************************************************************************)
(* What a complete capture leaves                                          *)
(*                                                                         *)
(* The capture reads the document and the note back before it reports, and *)
(* whatever changes after either reading is remembered in touched.         *)
(***************************************************************************)
CopyPhases == {"idle", "fetchdoc", "fetchcheck", "fetchnote", "copy"}

DocumentHolds(c, id) == "document" \notin touched[c] => document[c].holds = Of(id)

NoteHolds(c, n, id, s) ==
  /\ n \in 1 .. Len(notes)
  /\ "note" \notin touched[c] => notes[n].holds = Of(id) /\ InAccount(n, s)

\* What the call has authenticated of the three artefacts, phase by phase.
Witnessed(c) ==
  LET j == call[c] IN
  /\ j.phase = "verifydoc" => DocumentHolds(c, j.loaded)
  /\ j.phase \in {"checkvault", "loadnote", "compare"} => DocumentHolds(c, j.verified)
  /\ j.phase = "loadnote" /\ vault.open => vault.server = j.server
  /\ j.phase = "compare" => NoteHolds(c, j.note, j.loaded, j.server)

\* What the last report says, while no later capture runs.
Reported(c) ==
  result[c] # NoResult =>
    /\ call[c].phase \in CopyPhases
    /\ "bundle" \notin touched[c] => bundle[c] = result[c].bundle
    /\ DocumentHolds(c, result[c].bundle)
    /\ NoteHolds(c, result[c].note, result[c].bundle, result[c].server)

Recovery == Typed /\ \A c \in Callers : Witnessed(c) /\ Reported(c)

LEMMA RecoveryIsRecoverable ==
  ASSUME Recovery
  PROVE  CompleteIsRecoverable
  BY DEF Recovery, Reported, DocumentHolds, NoteHolds, CompleteIsRecoverable

\* A step of one caller leaves what another has witnessed, when it takes no note
\* away and does not touch what is the other's.
LEMMA OthersKeep ==
  ASSUME NEW d \in Callers, Witnessed(d), Reported(d),
         call'[d] = call[d], result'[d] = result[d], bundle'[d] = bundle[d],
         touched'[d] = touched[d], document'[d] = document[d],
         vault' = vault,
         Len(notes) \in Nat, Len(notes') \in Nat, Len(notes') >= Len(notes),
         \A n \in 1 .. Len(notes) : notes'[n] = notes[n]
  PROVE  Witnessed(d)' /\ Reported(d)'
<1>1. \A n, id, s : NoteHolds(d, n, id, s) => NoteHolds(d, n, id, s)'
  BY DEF NoteHolds, InAccount
<1>2. \A id : DocumentHolds(d, id) => DocumentHolds(d, id)'
  BY DEF DocumentHolds
<1> QED
  BY <1>1, <1>2 DEF Witnessed, Reported
WitnessPhases == {"verifydoc", "checkvault", "loadnote", "compare"}

\* A call that has witnessed nothing yet, and reported nothing.
LEMMA NothingYet ==
  ASSUME NEW c \in Callers, call'[c].phase \notin WitnessPhases, result'[c] = NoResult
  PROVE  Witnessed(c)' /\ Reported(c)'
  BY DEF Witnessed, Reported, WitnessPhases

\* A call that ends, or copies: the report stays what it was.
LEMMA StaysReported ==
  ASSUME NEW c \in Callers, Reported(c), call'[c].phase \in CopyPhases,
         UNCHANGED <<result, bundle, touched, document, notes>>
  PROVE  Witnessed(c)' /\ Reported(c)'
<1>1. Witnessed(c)'
  BY DEF Witnessed, CopyPhases
<1>2. \A n, id, s : NoteHolds(c, n, id, s) => NoteHolds(c, n, id, s)'
  BY DEF NoteHolds, InAccount
<1>3. \A id : DocumentHolds(c, id) => DocumentHolds(c, id)'
  BY DEF DocumentHolds
<1> QED
  BY <1>1, <1>2, <1>3 DEF Reported

LEMMA NotReported ==
  ASSUME NEW c \in Callers, Reported(c), call[c].phase \notin CopyPhases
  PROVE  result[c] = NoResult
  BY DEF Reported

\* The call of c after a step.
LEMMA NewCall ==
  ASSUME call \in [Callers -> Call], NEW c \in Callers, NEW k, Become(c, k)
  PROVE  call'[c] = k /\ \A d \in Callers \ {c} : call'[d] = call[d]
  BY DEF Become

LEMMA NewPhase ==
  ASSUME call \in [Callers -> Call], NEW c \in Callers, NEW phase, Goto(c, phase)
  PROVE  /\ call'[c].phase = phase
         /\ call'[c].loaded = call[c].loaded /\ call'[c].verified = call[c].verified
         /\ call'[c].server = call[c].server /\ call'[c].note = call[c].note
         /\ \A d \in Callers \ {c} : call'[d] = call[d]
  BY DEF Goto, Call

LEMMA NewIdle ==
  ASSUME call \in [Callers -> Call], NEW c \in Callers, Fail(c)
  PROVE  call'[c].phase = "idle" /\ \A d \in Callers \ {c} : call'[d] = call[d]
  BY NewCall DEF Fail, Idle

\* A step of c keeps Recovery when it does for c itself.
LEMMA StepKeeps ==
  ASSUME Recovery, [Next]_vars, NEW c \in Callers,
         Witnessed(c)' /\ Reported(c)',
         \A d \in Callers \ {c} :
           /\ call'[d] = call[d] /\ result'[d] = result[d] /\ bundle'[d] = bundle[d]
           /\ touched'[d] = touched[d] /\ document'[d] = document[d],
         vault' = vault,
         UNCHANGED notes \/ (Len(notes) < MaxNotes /\ notes' = Append(notes, NewNote(c)))
  PROVE  Recovery'
<1>1. Typed /\ Typed'
  BY NextTyped DEF Recovery
<1>2. /\ Len(notes) \in Nat /\ Len(notes') \in Nat /\ Len(notes') >= Len(notes)
      /\ \A n \in 1 .. Len(notes) : notes'[n] = notes[n]
  <2>1. notes \in Seq(Note) /\ Len(notes) \in Nat /\ notes' \in Seq(Note)
    BY <1>1 DEF Typed, VaultTypeOK
  <2> QED
    BY <1>1, <2>1, AppendTyped
<1>3. \A d \in Callers \ {c} : Witnessed(d)' /\ Reported(d)'
  BY <1>2, OthersKeep DEF Recovery
<1> QED
  BY <1>1, <1>3 DEF Recovery

LEMMA PackRecovery ==
  ASSUME Recovery, [Next]_vars, NEW c \in Callers, PackStep(c)
  PROVE  Recovery'
<1>1. call \in [Callers -> Call] /\ Reported(c)
  BY DEF Recovery, Typed, WorldTypeOK
<1>2. /\ UNCHANGED <<document, vault, notes>>
      /\ \A d \in Callers \ {c} :
           /\ call'[d] = call[d] /\ result'[d] = result[d] /\ bundle'[d] = bundle[d]
           /\ touched'[d] = touched[d]
  <2>1. \A d \in Callers \ {c} : call'[d] = call[d]
    BY <1>1, NewCall, NewPhase, NewIdle
       DEF PackStep, BeginFresh, BeginResume, PackPauses, PackCompletes, PackFails
  <2> QED
    BY <2>1 DEF PackStep, BeginFresh, BeginResume, PackPauses, PackCompletes, PackFails,
                vaultVars, Recovery, Typed, WorldTypeOK
<1>3. call'[c].phase \in {"pack", "write", "idle"}
  <2>1. CASE BeginFresh(c)
    <3> DEFINE k == [Idle EXCEPT !.phase = "pack", !.secret = packed + 1]
    <3>1. k.phase = "pack"
      BY DEF Idle
    <3> QED
      BY <1>1, <2>1, <3>1, NewCall DEF BeginFresh
  <2>2. CASE BeginResume(c)
    <3> DEFINE k == [Idle EXCEPT !.phase = "pack", !.secret = paused, !.previous = paused]
    <3>1. k.phase = "pack"
      BY DEF Idle
    <3> QED
      BY <1>1, <2>2, <3>1, NewCall DEF BeginResume
  <2>3. CASE PackPauses(c) \/ PackCompletes(c) \/ PackFails(c)
    BY <1>1, <2>3, NewPhase, NewIdle DEF PackPauses, PackCompletes, PackFails, AfterPack
  <2> QED
    BY <2>1, <2>2, <2>3 DEF PackStep
<1>4. result'[c] = NoResult
  <2>1. CASE BeginFresh(c) \/ BeginResume(c)
    BY <2>1 DEF BeginFresh, BeginResume, Recovery, Typed
  <2>2. CASE PackPauses(c) \/ PackCompletes(c) \/ PackFails(c)
    BY <1>1, <2>2, NotReported DEF PackPauses, PackCompletes, PackFails, At, CopyPhases
  <2> QED
    BY <2>1, <2>2 DEF PackStep
<1>5. Witnessed(c)' /\ Reported(c)'
  BY <1>3, <1>4, NothingYet DEF WitnessPhases
<1> QED
  BY <1>2, <1>5, StepKeeps

LEMMA OfflineRecovers ==
  ASSUME Recovery, [Next]_vars, NEW c \in Callers, OfflineStep(c)
  PROVE  Recovery'
<1>1. call \in [Callers -> Call] /\ Reported(c) /\ document \in [Callers -> Document]
  BY DEF Recovery, Typed, WorldTypeOK, OfflineTypeOK
<1>2. /\ UNCHANGED <<vault, notes, result, bundle>>
      /\ \A d \in Callers \ {c} :
           call'[d] = call[d] /\ touched'[d] = touched[d] /\ document'[d] = document[d]
  <2>1. \A d \in Callers \ {c} : call'[d] = call[d]
    BY <1>1, NewCall, NewPhase, NewIdle
       DEF OfflineStep, CreateDocument, WriteDocument, AbandonDocument, RemoveFailed,
           SynchronizeParent, RehearseDocument, LoadDocument
  <2>2. \A d \in Callers \ {c} : touched'[d] = touched[d]
    BY DEF OfflineStep, CreateDocument, WriteDocument, AbandonDocument, RemoveFailed,
           SynchronizeParent, RehearseDocument, LoadDocument, Settled, Recovery, Typed,
           WorldTypeOK
  <2>3. \A d \in Callers \ {c} : document'[d] = document[d]
    BY <1>1 DEF OfflineStep, CreateDocument, WriteDocument, AbandonDocument, RemoveFailed,
                SynchronizeParent, RehearseDocument, LoadDocument
  <2> QED
    BY <2>1, <2>2, <2>3
       DEF OfflineStep, CreateDocument, WriteDocument, AbandonDocument, RemoveFailed,
           SynchronizeParent, RehearseDocument, LoadDocument, vaultVars, othersOfOffline
<1>3. result'[c] = NoResult
  <2>1. call[c].phase \in {"write", "persist", "abandon", "syncdoc", "rehearse", "loaddoc"}
    BY DEF OfflineStep, CreateDocument, WriteDocument, AbandonDocument, RemoveFailed,
           SynchronizeParent, RehearseDocument, LoadDocument, At
  <2> QED
    BY <1>1, <1>2, <2>1, NotReported DEF CopyPhases
<1>4. Witnessed(c)' /\ Reported(c)'
  <2>1. CASE CreateDocument(c) \/ WriteDocument(c) \/ AbandonDocument(c) \/ RemoveFailed(c)
          \/ SynchronizeParent(c)
    <3>1. call'[c].phase \in {"persist", "abandon", "syncdoc", "rehearse", "idle"}
      BY <1>1, <2>1, NewPhase, NewIdle
         DEF CreateDocument, WriteDocument, AbandonDocument, RemoveFailed, SynchronizeParent
    <3> QED
      BY <1>3, <3>1, NothingYet DEF WitnessPhases
  <2>2. CASE RehearseDocument(c)
    <3> DEFINE k == [call[c] EXCEPT !.phase = "inspect", !.rehearsed = document[c].holds.names]
    <3>1. k.phase = "inspect"
      BY <1>1 DEF Call
    <3>2. call'[c].phase \in {"inspect", "idle"}
      BY <1>1, <2>2, <3>1, NewCall, NewIdle DEF RehearseDocument
    <3> QED
      BY <1>3, <3>2, NothingYet DEF WitnessPhases
  <2>3. CASE LoadDocument(c, "loaddoc", "verifydoc") /\ ~DocumentOpens(c)
    <3>1. call'[c].phase = "idle"
      BY <1>1, <2>3, NewIdle DEF LoadDocument
    <3> QED
      BY <1>3, <3>1, NothingYet DEF WitnessPhases
  <2>4. CASE LoadDocument(c, "loaddoc", "verifydoc") /\ DocumentOpens(c)
    <3> DEFINE k == [call[c] EXCEPT !.phase = "verifydoc", !.loaded = document[c].holds.opens]
    <3>1. k.phase = "verifydoc" /\ k.loaded = document[c].holds.opens
      BY <1>1 DEF Call
    <3>2. call'[c] = k
      BY <1>1, <2>4, NewCall DEF LoadDocument
    <3>3. document'[c].holds = Of(document[c].holds.opens)
      BY <1>1, <2>4 DEF LoadDocument, DocumentOpens, Verifies, Document, Content, Of
    <3>4. DocumentHolds(c, call[c].loaded)'
      BY <3>1, <3>2, <3>3 DEF DocumentHolds
    <3>5. Witnessed(c)'
      BY <3>1, <3>2, <3>4 DEF Witnessed
    <3> QED
      BY <1>3, <3>5 DEF Reported
  <2> QED
    BY <2>1, <2>2, <2>3, <2>4 DEF OfflineStep
<1> QED
  BY <1>2, <1>4, StepKeeps

LEMMA VaultRecovers ==
  ASSUME Recovery, [Next]_vars, NEW c \in Callers, VaultStep(c)
  PROVE  Recovery'
<1>1. /\ call \in [Callers -> Call] /\ Reported(c) /\ Witnessed(c) /\ Typed
      /\ touched \in [Callers -> SUBSET Artefacts] /\ call[c] \in Call
  BY DEF Recovery, Typed, WorldTypeOK
<1>2. /\ UNCHANGED <<vault, document, result, bundle>>
      /\ UNCHANGED notes \/ (Len(notes) < MaxNotes /\ notes' = Append(notes, NewNote(c)))
      /\ \A d \in Callers \ {c} : call'[d] = call[d] /\ touched'[d] = touched[d]
  <2>1. \A d \in Callers \ {c} : call'[d] = call[d]
    BY <1>1, NewCall, NewPhase, NewIdle
       DEF VaultStep, InspectInstallation, Preflight, CheckStore, CreateNote, LoseAnswer,
           RehearseNote, CheckVault, LoadNote
  <2>2. \A d \in Callers \ {c} : touched'[d] = touched[d]
    BY <1>1 DEF VaultStep, InspectInstallation, Preflight, CheckStore, CreateNote, LoseAnswer,
           RehearseNote, CheckVault, LoadNote, Settled
  <2>3. UNCHANGED <<vault, document, result, bundle>>
    BY DEF VaultStep, InspectInstallation, Preflight, CheckStore, CreateNote, LoseAnswer,
           RehearseNote, CheckVault, LoadNote, vaultVars, othersOfVault
  <2>4. UNCHANGED notes \/ (Len(notes) < MaxNotes /\ notes' = Append(notes, NewNote(c)))
    BY DEF VaultStep, InspectInstallation, Preflight, CheckStore, CreateNote, LoseAnswer,
           RehearseNote, CheckVault, LoadNote, vaultVars
  <2> QED
    BY <2>1, <2>2, <2>3, <2>4
<1>3. Witnessed(c)' /\ Reported(c)'
  <2>1. CASE \/ InspectInstallation(c) \/ Preflight(c) \/ CheckStore(c) \/ CreateNote(c)
             \/ LoseAnswer(c) \/ RehearseNote(c)
    <3>1. call[c].phase \in {"inspect", "preflight", "store", "create", "readback"}
      BY <2>1 DEF InspectInstallation, Preflight, CheckStore, CreateNote, LoseAnswer, RehearseNote,
                  At
    <3>2. result'[c] = NoResult
      BY <1>1, <1>2, <3>1, NotReported DEF CopyPhases
    <3>3. /\ [call[c] EXCEPT !.phase = "reviewbw", !.installed = installation].phase = "reviewbw"
          /\ [call[c] EXCEPT !.phase = "reviewvault", !.server = vault.server,
                             !.named = bundle[c]].phase = "reviewvault"
          /\ [call[c] EXCEPT !.phase = "readback", !.note = Len(notes) + 1].phase = "readback"
      BY <1>1 DEF Call
    <3>4. call'[c].phase \in {"reviewbw", "reviewvault", "create", "readback", "loaddoc", "idle"}
      BY <1>1, <2>1, <3>3, NewCall, NewPhase, NewIdle
         DEF InspectInstallation, Preflight, CheckStore, CreateNote, LoseAnswer, RehearseNote
    <3> QED
      BY <3>2, <3>4, NothingYet DEF WitnessPhases
  <2>2. CASE CheckVault(c, "checkvault", "loadnote")
    <3>1. result'[c] = NoResult /\ call[c].phase = "checkvault"
      BY <1>1, <1>2, <2>2, NotReported DEF CheckVault, At, CopyPhases
    <3>2. CASE Fail(c)
      BY <1>1, <3>1, <3>2, NewIdle, NothingYet DEF WitnessPhases
    <3>3. CASE ~Fail(c)
      <4>1. SameServer(c) /\ Goto(c, "loadnote") /\ UNCHANGED touched
        BY <2>2, <3>3 DEF CheckVault
      <4>2. /\ call'[c].phase = "loadnote" /\ call'[c].verified = call[c].verified
            /\ call'[c].server = call[c].server
        BY <1>1, <4>1, NewPhase
      <4>3. DocumentHolds(c, call[c].verified)
        BY <1>1, <3>1 DEF Witnessed
      <4>4. DocumentHolds(c, call[c].verified)'
        BY <1>2, <4>1, <4>2, <4>3 DEF DocumentHolds
      <4>5. Witnessed(c)'
        BY <1>2, <4>1, <4>2, <4>4 DEF Witnessed, SameServer
      <4> QED
        BY <3>1, <4>5 DEF Reported
    <3> QED
      BY <3>2, <3>3
  <2>3. CASE LoadNote(c, "loadnote", "compare")
    <3>1. result'[c] = NoResult /\ call[c].phase = "loadnote" /\ UNCHANGED notes
      BY <1>1, <1>2, <2>3, NotReported DEF LoadNote, At, CopyPhases, vaultVars
    <3>2. CASE ~NoteOpens(c)
      BY <1>1, <2>3, <3>1, <3>2, NewIdle, NothingYet DEF LoadNote, WitnessPhases
    <3>3. CASE NoteOpens(c)
      <4> DEFINE n == call[c].note
                 k == [call[c] EXCEPT !.phase = "compare", !.loaded = Held(n).opens]
      <4>1. /\ k.phase = "compare" /\ k.loaded = Held(n).opens /\ k.verified = call[c].verified
            /\ k.server = call[c].server /\ k.note = n
        BY <1>1 DEF Call
      <4>2. call'[c] = k
        BY <1>1, <2>3, <3>3, NewCall DEF LoadNote
      <4> HIDE DEF k
      <4>3. /\ n \in 1 .. Len(notes) /\ notes[n].server = vault.server
            /\ notes[n].holds \in Content
            /\ notes[n].holds.names = notes[n].holds.opens
        BY <1>1, <3>3, StoredNotes DEF NoteOpens, Verifies, Held
      <4>4. notes[n].holds = Of(Held(n).opens)
        BY <4>3 DEF Content, Of, Held
      <4>5. vault.server = call[c].server
        BY <1>1, <3>1, <3>3 DEF Witnessed, NoteOpens, Unlocked
      <4>6. NoteHolds(c, call[c].note, call[c].loaded, call[c].server)'
        BY <3>1, <4>1, <4>2, <4>3, <4>4, <4>5 DEF NoteHolds, InAccount
      <4>7. "document" \notin touched'[c] => "document" \notin touched[c]
        BY <1>1, <2>3, <3>1, <3>3 DEF LoadNote, Settled
      <4>8. DocumentHolds(c, call[c].verified)
        BY <1>1, <3>1 DEF Witnessed
      <4>9. DocumentHolds(c, call[c].verified)'
        BY <1>2, <4>1, <4>2, <4>7, <4>8 DEF DocumentHolds
      <4>10. Witnessed(c)'
        BY <4>1, <4>2, <4>6, <4>9 DEF Witnessed
      <4> QED
        BY <3>1, <4>10 DEF Reported
    <3> QED
      BY <3>2, <3>3
  <2>4. CASE CheckVault(c, "fetchcheck", "fetchnote")
    <3>1. call'[c].phase \in CopyPhases
      BY <1>1, <2>4, NewPhase, NewIdle DEF CheckVault, CopyPhases
    <3>2. UNCHANGED <<touched, notes>>
      BY <2>4 DEF CheckVault, vaultVars
    <3> QED
      BY <1>1, <1>2, <3>1, <3>2, StaysReported
  <2> QED
    BY <2>1, <2>2, <2>3, <2>4 DEF VaultStep
<1> QED
  BY <1>2, <1>3, StepKeeps

LEMMA CopyRecovers ==
  ASSUME Recovery, [Next]_vars, NEW c \in Callers,
         CopyStep(c) \/ BeginCopy(c) \/ LoadForCopy(c) \/ Fault(c)
  PROVE  Recovery'
<1>1. call \in [Callers -> Call] /\ Reported(c) /\ Witnessed(c) /\ call[c] \in Call
  BY DEF Recovery, Typed, WorldTypeOK
<1>2. UNCHANGED <<result, bundle, touched, document, notes, vault>>
  <2>1. CASE CopyStep(c) \/ BeginCopy(c) \/ Fault(c)
    BY <2>1 DEF CopyStep, OpenSource, CreatePartial, CopyBytes, AuthenticatePartial,
                PublishCompleted, ReopenCompleted, LookAtSaved, RemoveSaved, ReturnReceipt,
                BeginCopy, Fault, othersOfCopy, vaultVars
  <2>2. CASE LoadForCopy(c)
    <3>1. call[c].phase \in {"fetchdoc", "fetchnote"}
      BY <2>2 DEF LoadForCopy, LoadDocument, LoadNote, At
    <3> QED
      BY <2>2, <3>1 DEF LoadForCopy, LoadDocument, LoadNote, Settled, vaultVars
  <2> QED
    BY <2>1, <2>2
<1>3. /\ \A d \in Callers \ {c} : call'[d] = call[d]
      /\ (call'[c] = call[c] /\ CopyStep(c)) \/ call'[c].phase \in CopyPhases
  <2>1. CASE CopyStep(c)
    <3>1. UNCHANGED call \/ Fail(c)
      BY <2>1 DEF CopyStep, OpenSource, CreatePartial, CopyBytes, AuthenticatePartial,
                  PublishCompleted, ReopenCompleted, LookAtSaved, RemoveSaved, ReturnReceipt,
                  EndCopy
    <3> QED
      BY <1>1, <2>1, <3>1, NewIdle DEF CopyPhases
  <2>2. CASE BeginCopy(c)
    <3>1. PICK method \in {"fetchdoc", "fetchcheck"} :
            Become(c, [Idle EXCEPT !.phase = method, !.note = result[c].note,
                                   !.server = result[c].server, !.installed = result[c].installed])
      BY <2>2 DEF BeginCopy
    <3>2. [Idle EXCEPT !.phase = method, !.note = result[c].note, !.server = result[c].server,
                       !.installed = result[c].installed].phase = method
      BY DEF Idle
    <3> QED
      BY <1>1, <3>1, <3>2, NewCall DEF CopyPhases
  <2>3. CASE LoadForCopy(c)
    <3> DEFINE k == [call[c] EXCEPT !.phase = "copy", !.loaded = document[c].holds.opens]
               m == [call[c] EXCEPT !.phase = "copy", !.loaded = Held(call[c].note).opens]
    <3>1. k.phase = "copy" /\ m.phase = "copy"
      BY <1>1 DEF Call
    <3>2. Become(c, k) \/ Become(c, m) \/ Fail(c)
      BY <2>3 DEF LoadForCopy, LoadDocument, LoadNote
    <3> QED
      BY <1>1, <3>1, <3>2, NewCall, NewIdle DEF CopyPhases
  <2>4. CASE Fault(c)
    BY <1>1, <2>4, NewIdle DEF Fault, EndCopy, CopyPhases
  <2> QED
    BY <2>1, <2>2, <2>3, <2>4
<1>4. call'[c].phase \in CopyPhases
  <2>1. CopyStep(c) => call[c].phase = "copy"
    BY DEF CopyStep, OpenSource, CreatePartial, CopyBytes, AuthenticatePartial, PublishCompleted,
           ReopenCompleted, LookAtSaved, RemoveSaved, ReturnReceipt, Step, At
  <2> QED
    BY <1>3, <2>1 DEF CopyPhases
<1>5. Witnessed(c)' /\ Reported(c)'
  BY <1>1, <1>2, <1>4, StaysReported
<1> QED
  BY <1>2, <1>3, <1>5, StepKeeps

LEMMA OwnerRecovers ==
  ASSUME Recovery, [Next]_vars, NEW c \in Callers,
         OwnerReviews(c) \/ VerifyOffline(c) \/ Complete(c)
  PROVE  Recovery'
<1>1. /\ call \in [Callers -> Call] /\ Reported(c) /\ Witnessed(c) /\ call[c] \in Call
      /\ result \in [Callers -> Result]
  BY DEF Recovery, Typed, WorldTypeOK
<1>2. UNCHANGED <<bundle, touched, document, vaultVars>>
  BY DEF OwnerReviews, VerifyOffline, Complete
<1>3. result[c] = NoResult
  <2>1. call[c].phase \in {"reviewbw", "reviewvault", "verifydoc", "compare"}
    BY DEF OwnerReviews, VerifyOffline, Complete, At
  <2> QED
    BY <1>1, <2>1, NotReported DEF CopyPhases
<1>4. CASE OwnerReviews(c)
  <2>1. /\ \A d \in Callers \ {c} : call'[d] = call[d]
        /\ call'[c].phase \in {"preflight", "store", "idle"} /\ UNCHANGED result
    BY <1>1, <1>4, NewPhase, NewIdle DEF OwnerReviews
  <2>2. Witnessed(c)' /\ Reported(c)'
    BY <1>3, <2>1, NothingYet DEF WitnessPhases
  <2> QED
    BY <1>2, <2>1, <2>2, StepKeeps DEF vaultVars
<1>5. CASE VerifyOffline(c)
  <2> DEFINE k == [call[c] EXCEPT !.phase = "checkvault", !.verified = bundle[c]]
  <2>1. k.phase = "checkvault" /\ k.verified = bundle[c]
    BY <1>1 DEF Call
  <2>2. UNCHANGED result /\ call[c].phase = "verifydoc"
    BY <1>5 DEF VerifyOffline, At
  <2>3. CASE Verifies(c, call[c].loaded)
    <3>1. call'[c] = k /\ \A d \in Callers \ {c} : call'[d] = call[d]
      BY <1>1, <1>5, <2>3, NewCall DEF VerifyOffline
    <3>2. DocumentHolds(c, call[c].loaded) /\ bundle[c] = call[c].loaded
      BY <1>1, <2>2, <2>3 DEF Witnessed, Verifies
    <3>3. DocumentHolds(c, call[c].verified)'
      BY <1>2, <2>1, <3>1, <3>2 DEF DocumentHolds
    <3>4. Witnessed(c)' /\ Reported(c)'
      BY <1>3, <2>1, <2>2, <3>1, <3>3 DEF Witnessed, Reported
    <3> QED
      BY <1>2, <2>2, <3>1, <3>4, StepKeeps DEF vaultVars
  <2>4. CASE ~Verifies(c, call[c].loaded)
    <3>1. call'[c].phase = "idle" /\ \A d \in Callers \ {c} : call'[d] = call[d]
      BY <1>1, <1>5, <2>4, NewIdle DEF VerifyOffline
    <3>2. Witnessed(c)' /\ Reported(c)'
      BY <1>3, <2>2, <3>1, NothingYet DEF WitnessPhases
    <3> QED
      BY <1>2, <2>2, <3>1, <3>2, StepKeeps DEF vaultVars
  <2> QED
    BY <2>3, <2>4
<1>6. CASE Complete(c)
  <2> DEFINE report == [bundle |-> bundle[c], note |-> call[c].note,
                        server |-> call[c].server, installed |-> call[c].installed]
  <2>1. call'[c].phase = "idle" /\ \A d \in Callers \ {c} : call'[d] = call[d]
    BY <1>1, <1>6, NewIdle DEF Complete
  <2>2. \A d \in Callers \ {c} : result'[d] = result[d]
    BY <1>1, <1>6 DEF Complete
  <2>3. Witnessed(c)'
    BY <2>1 DEF Witnessed
  <2>4. CASE UNCHANGED result
    BY <1>2, <1>3, <2>1, <2>2, <2>4, NothingYet, StepKeeps DEF vaultVars, WitnessPhases
  <2>5. CASE Verifies(c, call[c].loaded) /\ OneIdentity(c)
    <3>1. result'[c] = report /\ call[c].phase = "compare"
      BY <1>1, <1>6, <2>5 DEF Complete, At
    <3>2. bundle[c] = call[c].loaded /\ bundle[c] = call[c].verified
      BY <2>5 DEF Verifies, OneIdentity
    <3>3. /\ DocumentHolds(c, call[c].verified)
          /\ NoteHolds(c, call[c].note, call[c].loaded, call[c].server)
      BY <1>1, <3>1 DEF Witnessed
    <3>4. DocumentHolds(c, result[c].bundle)'
      BY <1>2, <3>1, <3>2, <3>3 DEF DocumentHolds
    <3>5. NoteHolds(c, result[c].note, result[c].bundle, result[c].server)'
      BY <1>2, <3>1, <3>2, <3>3 DEF NoteHolds, InAccount, vaultVars
    <3>6. Reported(c)'
      BY <1>2, <2>1, <3>1, <3>4, <3>5 DEF Reported, CopyPhases
    <3> QED
      BY <1>2, <2>1, <2>2, <2>3, <3>6, StepKeeps DEF vaultVars
  <2> QED
    BY <1>6, <2>4, <2>5 DEF Complete
<1> QED
  BY <1>4, <1>5, <1>6

LEMMA RestartRecovers ==
  ASSUME Recovery, [Next]_vars, Restart
  PROVE  Recovery'
<1>1. Typed'
  BY NextTyped DEF Recovery
<1>2. ASSUME NEW c \in Callers
      PROVE  Witnessed(c)' /\ Reported(c)'
  <2>1. call'[c].phase = "idle" /\ UNCHANGED <<result, bundle, touched, document, notes>>
    BY DEF Restart, Idle
  <2> QED
    BY <2>1, StaysReported DEF Recovery, CopyPhases
<1> QED
  BY <1>1, <1>2 DEF Recovery

\* What another program changes is remembered in touched, for every caller whose
\* it is.
LEMMA RememberedKeeps ==
  ASSUME NEW d \in Callers, Witnessed(d), Reported(d), UNCHANGED <<call, result>>,
         vault' = vault \/ ~vault'.open,
         Len(notes') = Len(notes),
         "bundle" \notin touched'[d] => "bundle" \notin touched[d] /\ bundle'[d] = bundle[d],
         "document" \notin touched'[d] =>
           "document" \notin touched[d] /\ document'[d] = document[d],
         "note" \notin touched'[d] =>
           /\ "note" \notin touched[d]
           /\ \A n \in 1 .. Len(notes) :
                n \in {call[d].note, result[d].note} => notes'[n] = notes[n]
  PROVE  Witnessed(d)' /\ Reported(d)'
<1>1. \A id : DocumentHolds(d, id) => DocumentHolds(d, id)'
  BY DEF DocumentHolds
<1>2. \A n \in {call[d].note, result[d].note} : \A id, s :
        NoteHolds(d, n, id, s) => NoteHolds(d, n, id, s)'
  BY DEF NoteHolds, InAccount
<1>3. Witnessed(d)'
  BY <1>1, <1>2 DEF Witnessed
<1> QED
  BY <1>1, <1>2, <1>3 DEF Reported

LEMMA WorldRecovers ==
  ASSUME Recovery, [Next]_vars, World
  PROVE  Recovery'
<1>1. /\ Typed' /\ touched \in [Callers -> SUBSET Artefacts]
      /\ bundle \in [Callers -> 0 .. MaxBundles] /\ document \in [Callers -> Document]
      /\ notes \in Seq(Note)
  BY NextTyped DEF Recovery, Typed, WorldTypeOK, OfflineTypeOK, VaultTypeOK
<1>2. UNCHANGED <<call, result>>
  BY DEF World, ReplaceBundle, ReplaceDocument, SpoilSource, RemovePartial, ChangeInstallation,
         ChangeVault, EditNote, ReplaceFile, othersOfOffline, othersOfVault, othersOfCopy
<1> SUFFICES ASSUME NEW d \in Callers
             PROVE  Witnessed(d)' /\ Reported(d)'
  BY <1>1 DEF Recovery
<1>3. Witnessed(d) /\ Reported(d)
  BY DEF Recovery
<1>4. CASE UNCHANGED <<bundle, touched, document, notes>> /\ (UNCHANGED vault \/ ChangeVault)
  <2>1. vault' = vault \/ ~vault'.open
    BY <1>4 DEF ChangeVault
  <2> QED
    BY <1>2, <1>3, <1>4, <2>1, RememberedKeeps
<1>5. ASSUME NEW c \in Callers, Touch(c, "bundle"),
             \A e \in Callers \ {c} : bundle'[e] = bundle[e], UNCHANGED <<document, vault, notes>>
      PROVE  Witnessed(d)' /\ Reported(d)'
  <2>1. /\ touched'[c] = touched[c] \cup {"bundle"}
        /\ \A e \in Callers \ {c} : touched'[e] = touched[e]
    BY <1>1, <1>5 DEF Touch
  <2>2. "bundle" \notin touched'[d] => "bundle" \notin touched[d] /\ bundle'[d] = bundle[d]
    BY <1>5, <2>1
  <2>3. /\ "document" \notin touched'[d] => "document" \notin touched[d]
        /\ "note" \notin touched'[d] => "note" \notin touched[d]
    BY <2>1
  <2> QED
    BY <1>2, <1>3, <1>5, <2>2, <2>3, RememberedKeeps
<1>6. ASSUME NEW c \in Callers, ReplaceDocument(c), UNCHANGED othersOfOffline
      PROVE  Witnessed(d)' /\ Reported(d)'
  <2>1. /\ touched'[c] = touched[c] \cup {"document"}
        /\ \A e \in Callers \ {c} : touched'[e] = touched[e] /\ document'[e] = document[e]
        /\ UNCHANGED <<bundle, vault, notes>>
    BY <1>1, <1>6 DEF ReplaceDocument, Touch, othersOfOffline, vaultVars
  <2>2. "document" \notin touched'[d] => "document" \notin touched[d] /\ document'[d] = document[d]
    BY <2>1
  <2>3. /\ "bundle" \notin touched'[d] => "bundle" \notin touched[d]
        /\ "note" \notin touched'[d] => "note" \notin touched[d]
    BY <2>1
  <2> QED
    BY <1>2, <1>3, <2>1, <2>2, <2>3, RememberedKeeps
<1>7. ASSUME NEW n \in 1 .. Len(notes), EditNote(n, Holders(n)), UNCHANGED othersOfVault
      PROVE  Witnessed(d)' /\ Reported(d)'
  <2>1. /\ UNCHANGED <<bundle, vault, document>>
        /\ touched'[d] = IF d \in Holders(n) THEN touched[d] \cup {"note"} ELSE touched[d]
    BY <1>7 DEF EditNote, othersOfVault
  <2>2. /\ Len(notes') = Len(notes)
        /\ \A m \in 1 .. Len(notes) : m # n => notes'[m] = notes[m]
    <3>1. PICK note : notes' = [notes EXCEPT ![n] = note]
      BY <1>7 DEF EditNote
    <3> QED
      BY <1>1, <3>1
  <2>3. /\ "bundle" \notin touched'[d] => "bundle" \notin touched[d]
        /\ "document" \notin touched'[d] => "document" \notin touched[d]
        /\ "note" \notin touched'[d] => "note" \notin touched[d] /\ d \notin Holders(n)
    BY <2>1
  <2>4. "note" \notin touched'[d] => \A m \in 1 .. Len(notes) :
          m \in {call[d].note, result[d].note} => notes'[m] = notes[m]
    BY <2>2, <2>3 DEF Holders
  <2> QED
    BY <1>2, <1>3, <2>1, <2>2, <2>3, <2>4, RememberedKeeps
<1>8. ASSUME NEW c \in Callers,
             \/ ReplaceBundle(c) /\ UNCHANGED <<document, othersOfOffline>>
             \/ ReplaceDocument(c) /\ UNCHANGED othersOfOffline
             \/ SpoilSource(c) /\ UNCHANGED othersOfCopy
             \/ RemovePartial(c)
      PROVE  Witnessed(d)' /\ Reported(d)'
  <2>1. CASE ReplaceBundle(c) /\ UNCHANGED <<document, othersOfOffline>>
    <3>1. /\ Touch(c, "bundle") /\ UNCHANGED <<document, vault, notes>>
          /\ \A e \in Callers \ {c} : bundle'[e] = bundle[e]
      BY <1>1, <2>1 DEF ReplaceBundle, othersOfOffline, vaultVars
    <3> QED
      BY <3>1, <1>5
  <2>2. CASE SpoilSource(c) /\ UNCHANGED othersOfCopy
    <3>1. /\ Touch(c, "bundle") /\ UNCHANGED <<document, vault, notes>>
          /\ \A e \in Callers \ {c} : bundle'[e] = bundle[e]
      BY <1>1, <2>2 DEF SpoilSource, othersOfCopy, vaultVars
    <3> QED
      BY <3>1, <1>5
  <2>3. CASE RemovePartial(c)
    BY <1>4, <2>3 DEF RemovePartial, vaultVars
  <2> QED
    BY <1>6, <1>8, <2>1, <2>2, <2>3
<1>9. CASE (ChangeInstallation \/ ChangeVault) /\ UNCHANGED othersOfVault
  BY <1>4, <1>9 DEF ChangeInstallation, ChangeVault, othersOfVault
<1>10. CASE \E n \in Names : ReplaceFile(n) /\ UNCHANGED othersOfCopy
  BY <1>4, <1>10 DEF ReplaceFile, othersOfCopy, vaultVars
<1> QED
  BY <1>7, <1>8, <1>9, <1>10 DEF World

LEMMA InitRecovery ==
  ASSUME Init
  PROVE  Recovery
<1>1. \A c \in Callers : call[c].phase = "idle" /\ result[c] = NoResult
  BY DEF Init, WorldInit, Idle
<1> QED
  BY <1>1, InitTyped DEF Recovery, Witnessed, Reported

LEMMA NextRecovery ==
  ASSUME Recovery, [Next]_vars
  PROVE  Recovery'
<1>1. CASE UNCHANGED vars
  <2>1. UNCHANGED <<call, result, bundle, touched, document, vault, notes>>
    BY <1>1 DEF vars, worldVars, vaultVars
  <2>2. Typed'
    BY NextTyped DEF Recovery
  <2>3. \A c \in Callers : Witnessed(c)' /\ Reported(c)'
    BY <2>1 DEF Recovery, Witnessed, Reported, DocumentHolds, NoteHolds, InAccount
  <2> QED
    BY <2>2, <2>3 DEF Recovery
<1>2. CASE Next
  BY <1>2, PackRecovery, OfflineRecovers, VaultRecovers, CopyRecovers, OwnerRecovers,
     RestartRecovers, WorldRecovers DEF Next
<1> QED
  BY <1>1, <1>2

\* When a capture reports Complete, the document and the note of its receipts each
\* open the Bundle at the path until somebody changes them, for any number of
\* threads whose steps interleave, any faults, restarts and changes between the
\* reading of one method and of the other: MigrationWorkflowEngine::capture
\* compares what it read back, not what it wrote.
THEOREM CompleteAreRecoverable == Spec => []CompleteIsRecoverable
<1>1. Spec => []Recovery
  BY InitRecovery, NextRecovery, PTL DEF Spec
<1>2. Recovery => CompleteIsRecoverable
  BY RecoveryIsRecoverable
<1> QED
  BY <1>1, <1>2, PTL

(***************************************************************************)
(* A note comes after its document                                         *)
(***************************************************************************)
\* The other calls are where they were.
OthersStay(c) == \A d \in Callers : d # c => call'[d] = call[d]

LEMMA BecomePhase ==
  ASSUME Typed, NEW c \in Callers, NEW k, Become(c, k)
  PROVE  OthersStay(c) /\ call'[c].phase = k.phase
  BY DEF Become, Typed, WorldTypeOK, OthersStay

LEMMA GotoPhase ==
  ASSUME Typed, NEW c \in Callers, NEW phase, Goto(c, phase)
  PROVE  OthersStay(c) /\ call'[c].phase = phase
<1>1. call \in [Callers -> Call] /\ call[c] \in Call
  BY DEF Typed, WorldTypeOK
<1>2. call' = [call EXCEPT ![c] = [call[c] EXCEPT !.phase = phase]]
  BY DEF Goto
<1>3. [call[c] EXCEPT !.phase = phase].phase = phase
  BY <1>1 DEF Call
<1> QED
  BY <1>1, <1>2, <1>3 DEF OthersStay

LEMMA FailPhase ==
  ASSUME Typed, NEW c \in Callers, Fail(c)
  PROVE  OthersStay(c) /\ call'[c].phase = "idle"
<1>1. Idle.phase = "idle"
  BY DEF Idle
<1> QED
  BY <1>1, BecomePhase DEF Fail

\* The phases of a call before its document is rehearsed, and before its note.
Writing == {"write", "persist", "abandon", "syncdoc", "rehearse"}

Standing == {"inspect", "reviewbw", "preflight", "reviewvault", "store", "create"}

Holds(c) == call[c].phase \in Writing \cup Standing

Later == 2 .. Len(notes)

Opens(n) == notes[n].holds.opens

\* No Bundle of a capture has the number of the older one, or one not begun yet.
Numbers ==
  /\ \A c \in Callers : Holds(c) \/ At(c, "pack") => call[c].secret \in 2 .. packed
  /\ \A c \in Callers : partial[c].of = NoBundle \/ partial[c].of \in 2 .. packed
  /\ paused = NoBundle \/ paused \in 2 .. packed
  /\ \A c \in Callers : bundle[c] <= packed
  /\ \A n \in Later : Opens(n) \in 1 .. packed

\* The Bundle was never published, so nothing of it is anywhere.
Unseen(id) ==
  /\ \A c \in Callers : bundle[c] # id /\ (Holds(c) => call[c].secret # id)
  /\ \A n \in Later : Opens(n) # id

\* A Bundle is published once, for one call, at its path.
PublishedOnce ==
  /\ \A c \in Callers : partial[c].of # NoBundle => Unseen(partial[c].of)
  /\ \A c \in Callers : At(c, "pack") /\ call[c].previous = NoBundle => Unseen(call[c].secret)
  /\ \A c, d \in Callers : Holds(c) /\ Holds(d) /\ call[c].secret = call[d].secret => c = d
  /\ \A c, d \in Callers : Holds(c) /\ bundle[d] = call[c].secret => c = d
  /\ \A c \in Callers : Holds(c) => bundle[c] \in {NoBundle, Older, call[c].secret}
  /\ \A c \in Callers, n \in Later :
       call[c].phase \in Writing => Opens(n) # call[c].secret

Stands(c) == "document" \notin touched[c] => document[c].holds = Of(bundle[c])

\* From its rehearsal on the document stands, and after the note as well.
DocumentFirst ==
  /\ \A c \in Callers :
       call[c].phase \in Standing /\ bundle[c] = call[c].secret => Stands(c)
  /\ \A n \in Later, c \in Callers :
       bundle[c] = Opens(n) /\ bundle[c] # Older => Stands(c)

FirstInv == Numbers /\ PublishedOnce /\ DocumentFirst

\* While a call writes its document, no note opens the Bundle at its path.
LEMMA NoNoteYet ==
  ASSUME FirstInv, NEW c \in Callers, call[c].phase \in Writing,
         NEW n \in Later, bundle[c] = Opens(n)
  PROVE  bundle[c] = Older
<1>1. Opens(n) # NoBundle
  BY DEF FirstInv, Numbers, NoBundle
<1> QED
  BY <1>1 DEF FirstInv, PublishedOnce, Holds

\* The step of a call that goes on or ends, that publishes and stores nothing.
LEMMA CallMoves ==
  ASSUME FirstInv, NEW c \in Callers, OthersStay(c),
         UNCHANGED <<bundle, notes, packed, partial, paused>>,
         ~At(c, "pack")',
         Holds(c)' => Holds(c) /\ call'[c].secret = call[c].secret,
         call'[c].phase \in Writing => call[c].phase \in Writing,
         call'[c].phase \in Standing => call[c].phase \in Standing \/ Stands(c)',
         \A d \in Callers : Stands(d) => Stands(d)' \/ call[d].phase \in Writing
  PROVE  FirstInv'
<1>1. \A d \in Callers :
        /\ Holds(d)' => Holds(d) /\ call'[d].secret = call[d].secret
        /\ At(d, "pack")' => At(d, "pack") /\ call'[d] = call[d]
        /\ call'[d].phase \in Writing => call[d].phase \in Writing
  BY DEF OthersStay, Holds, At
<1>2. Numbers'
  BY <1>1 DEF FirstInv, Numbers, Later, Opens
<1>3. \A id : Unseen(id) =>
        /\ \A d \in Callers : bundle'[d] # id /\ (Holds(d)' => call'[d].secret # id)
        /\ \A n \in Later' : Opens(n)' # id
  BY <1>1 DEF Unseen, Later, Opens
<1>4. PublishedOnce'
  <2>1. /\ \A d \in Callers : partial'[d].of # NoBundle => Unseen(partial[d].of)'
        /\ \A d \in Callers : At(d, "pack")' /\ call'[d].previous = NoBundle
                                => Unseen(call[d].secret)'
    <3>1. \A d \in Callers : partial'[d].of # NoBundle => Unseen(partial'[d].of)
      BY DEF FirstInv, PublishedOnce
    <3>2. \A d \in Callers : At(d, "pack")' /\ call'[d].previous = NoBundle
                                => Unseen(call'[d].secret)
      BY <1>1 DEF FirstInv, PublishedOnce
    <3> QED
      BY <1>3, <3>1, <3>2 DEF Unseen
  <2>2. /\ \A d, e \in Callers : Holds(d)' /\ Holds(e)' /\ call'[d].secret = call'[e].secret => d = e
        /\ \A d, e \in Callers : Holds(d)' /\ bundle'[e] = call'[d].secret => d = e
        /\ \A d \in Callers : Holds(d)' => bundle'[d] \in {NoBundle, Older, call'[d].secret}
    BY <1>1 DEF FirstInv, PublishedOnce
  <2>3. \A d \in Callers : call'[d].phase \in Writing => call'[d].secret = call[d].secret
    BY <1>1 DEF Holds
  <2>4. \A d \in Callers, n \in Later' : call'[d].phase \in Writing => Opens(n)' # call'[d].secret
    BY <1>1, <2>3 DEF FirstInv, PublishedOnce, Later, Opens
  <2> QED
    BY <2>1, <2>2, <2>4 DEF PublishedOnce
<1>5. DocumentFirst'
  <2>1. ASSUME NEW d \in Callers, call'[d].phase \in Standing, bundle'[d] = call'[d].secret
        PROVE  Stands(d)'
    <3>1. call'[d].secret = call[d].secret
      BY <1>1, <2>1 DEF Holds
    <3>2. CASE call[d].phase \in Standing
      <4>1. Stands(d) /\ call[d].phase \notin Writing
        BY <2>1, <3>1, <3>2 DEF FirstInv, DocumentFirst, Standing, Writing
      <4> QED
        BY <4>1
    <3>3. CASE call[d].phase \notin Standing
      BY <2>1, <3>3 DEF OthersStay
    <3> QED
      BY <3>2, <3>3
  <2>2. ASSUME NEW n \in Later', NEW d \in Callers, bundle'[d] = Opens(n)', bundle'[d] # Older
        PROVE  Stands(d)'
    <3>1. n \in Later /\ bundle[d] = Opens(n) /\ bundle[d] # Older
      BY <2>2 DEF Later, Opens
    <3>2. Stands(d) /\ call[d].phase \notin Writing
      BY <3>1, NoNoteYet DEF FirstInv, DocumentFirst
    <3> QED
      BY <3>2
  <2> QED
    BY <2>1, <2>2 DEF DocumentFirst
<1> QED
  BY <1>2, <1>4, <1>5 DEF FirstInv

\* The call ends.
LEMMA CallEnds ==
  ASSUME Typed, FirstInv, NEW c \in Callers, Fail(c),
         UNCHANGED <<bundle, touched, document, notes, packed, partial, paused>>
  PROVE  FirstInv'
<1>1. OthersStay(c) /\ call'[c].phase = "idle"
  BY FailPhase
<1>2. \A d \in Callers : Stands(d) => Stands(d)'
  BY DEF Stands
<1> QED
  BY <1>1, <1>2, CallMoves DEF At, Holds, Writing, Standing

LEMMA GotoSecret ==
  ASSUME Typed, NEW c \in Callers, NEW phase, Goto(c, phase)
  PROVE  call'[c].secret = call[c].secret
<1>1. call \in [Callers -> Call] /\ call[c] \in Call
  BY DEF Typed, WorldTypeOK
<1>2. call' = [call EXCEPT ![c] = [call[c] EXCEPT !.phase = phase]]
  BY DEF Goto
<1>3. [call[c] EXCEPT !.phase = phase].secret = call[c].secret
  BY <1>1 DEF Call
<1> QED
  BY <1>1, <1>2, <1>3

\* The document, as the steps of the offline method change it.
LEMMA OfflineFirst ==
  ASSUME Typed, FirstInv, NEW c \in Callers, OfflineStep(c)
  PROVE  FirstInv'
<1>1. /\ call[c] \in Call /\ call \in [Callers -> Call]
      /\ touched \in [Callers -> SUBSET Artefacts] /\ document \in [Callers -> Document]
      /\ UNCHANGED <<bundle, notes, packed, partial, paused>>
  BY DEF OfflineStep, othersOfOffline, vaultVars, Typed, WorldTypeOK, OfflineTypeOK,
         CreateDocument, WriteDocument, AbandonDocument, RemoveFailed, SynchronizeParent,
         RehearseDocument, LoadDocument
<1>2. CASE CreateDocument(c) \/ WriteDocument(c) \/ AbandonDocument(c) \/ RemoveFailed(c)
          \/ SynchronizeParent(c)
  <2>1. /\ call[c].phase \in Writing
        /\ UNCHANGED touched
        /\ \A d \in Callers : d # c => document'[d] = document[d]
    BY <1>1, <1>2 DEF CreateDocument, WriteDocument, AbandonDocument, RemoveFailed,
                      SynchronizeParent, At, Writing
  <2>2. \/ Fail(c) \/ Goto(c, "persist") \/ Goto(c, "abandon") \/ Goto(c, "syncdoc")
        \/ Goto(c, "rehearse")
    BY <1>2 DEF CreateDocument, WriteDocument, AbandonDocument, RemoveFailed, SynchronizeParent
  <2>3. /\ OthersStay(c) /\ call'[c].phase \in {"idle", "persist", "abandon", "syncdoc", "rehearse"}
        /\ call'[c].phase # "idle" => call'[c].secret = call[c].secret
    BY <2>2, FailPhase, GotoPhase, GotoSecret
  <2>4. \A d \in Callers : Stands(d) => Stands(d)' \/ call[d].phase \in Writing
    BY <1>1, <2>1 DEF Stands
  <2>5. /\ ~At(c, "pack")' /\ (Holds(c)' => Holds(c) /\ call'[c].secret = call[c].secret)
        /\ call'[c].phase \notin Standing
    BY <2>1, <2>3 DEF At, Holds, Writing, Standing
  <2> QED
    BY <1>1, <2>1, <2>3, <2>4, <2>5, CallMoves
<1>3. CASE RehearseDocument(c) \/ LoadDocument(c, "loaddoc", "verifydoc")
  <2>1. UNCHANGED document /\ call[c].phase \in {"rehearse", "loaddoc"}
    BY <1>3 DEF RehearseDocument, LoadDocument, At
  <2>2. CASE Fail(c) /\ UNCHANGED touched
    BY <1>1, <2>1, <2>2, CallEnds
  <2>3. CASE ~(Fail(c) /\ UNCHANGED touched)
    <3> DEFINE k == [call[c] EXCEPT !.phase = "inspect", !.rehearsed = document[c].holds.names]
               m == [call[c] EXCEPT !.phase = "verifydoc", !.loaded = document[c].holds.opens]
    <3>1. /\ DocumentOpens(c) /\ Settled(c, {"bundle", "document"})
          /\ (At(c, "rehearse") /\ Become(c, k)) \/ Become(c, m)
      BY <1>3, <2>3 DEF RehearseDocument, LoadDocument
    <3>2. /\ k.phase = "inspect" /\ k.secret = call[c].secret /\ m.phase = "verifydoc"
      BY <1>1 DEF Call
    <3>3. document[c].holds = Of(bundle[c])
      BY <1>1, <3>1 DEF DocumentOpens, Verifies, Of, Document, Content
    <3>4. touched' = [touched EXCEPT ![c] = @ \ {"bundle", "document"}]
      BY <2>1, <3>1 DEF Settled
    <3>5. Stands(c)' /\ \A d \in Callers : Stands(d) => Stands(d)'
      BY <1>1, <2>1, <3>3, <3>4 DEF Stands
    <3> HIDE DEF k, m
    <3>6. /\ OthersStay(c)
          /\ \/ /\ call'[c].phase = "inspect" /\ call[c].phase = "rehearse"
                /\ call'[c].secret = call[c].secret
             \/ call'[c].phase = "verifydoc"
      BY <1>1, <3>1, <3>2, BecomePhase DEF Become, At
    <3>7. /\ ~At(c, "pack")' /\ (Holds(c)' => Holds(c) /\ call'[c].secret = call[c].secret)
          /\ call'[c].phase \notin Writing
      BY <3>6 DEF At, Holds, Writing, Standing
    <3> QED
      BY <1>1, <3>5, <3>6, <3>7, CallMoves
  <2> QED
    BY <2>2, <2>3
<1> QED
  BY <1>2, <1>3 DEF OfflineStep

\* The note is the first one of its Bundle, and its document stands.
LEMMA NoteFirst ==
  ASSUME Typed, FirstInv, NEW c \in Callers, At(c, "create"),
         notes' = Append(notes, NewNote(c)), OthersStay(c), ~At(c, "pack")', ~Holds(c)',
         UNCHANGED <<bundle, document, packed, partial, paused>>,
         \A d \in Callers : Stands(d) => Stands(d)'
  PROVE  FirstInv'
<1>0. Len(notes) \in Nat
  BY DEF Typed, VaultTypeOK
<1>new. PICK new \in Nat : new = Len(notes) + 1
  BY <1>0
<1>id. PICK id : id = call[c].secret
  OBVIOUS
<1>1. /\ Len(notes') = new
      /\ \A n \in 1 .. Len(notes) : notes'[n] = notes[n]
      /\ notes'[new] = NewNote(c)
  BY <1>new DEF Typed, VaultTypeOK
<1>2. notes'[new].holds.opens = id
  BY <1>1, <1>id DEF NewNote
<1>3. /\ \A n \in Later' : n \in Later \/ n = new
      /\ \A n \in Later : Opens(n)' = Opens(n)
      /\ Opens(new)' = id
  BY <1>0, <1>new, <1>1, <1>2 DEF Later, Opens
<1>4. Holds(c) /\ call[c].phase \in Standing
  BY DEF At, Holds, Standing
<1>5. id \in 2 .. packed
  BY <1>4, <1>id DEF FirstInv, Numbers
<1>6. \A d \in Callers :
        /\ Holds(d)' => d # c /\ Holds(d) /\ call'[d] = call[d]
        /\ At(d, "pack")' => At(d, "pack") /\ call'[d] = call[d]
        /\ call'[d].phase \in Writing \cup Standing => Holds(d)'
  BY DEF OthersStay, Holds, At
<1>7. Numbers'
  <2>1. \A n \in Later' : Opens(n)' \in 1 .. packed'
    <3> SUFFICES ASSUME NEW n \in Later'
                 PROVE  Opens(n)' \in 1 .. packed
      OBVIOUS
    <3>1. CASE n \in Later
      BY <1>3, <3>1 DEF FirstInv, Numbers
    <3>2. CASE n = new
      BY <1>3, <1>5, <3>2
    <3> QED
      BY <1>3, <3>1, <3>2
  <2> QED
    BY <1>6, <2>1 DEF FirstInv, Numbers
<1>8. \A i : Unseen(i) => /\ i # id
                          /\ \A d \in Callers : bundle'[d] # i /\ (Holds(d)' => call'[d].secret # i)
                          /\ \A n \in Later' : Opens(n)' # i
  <2> SUFFICES ASSUME NEW i, Unseen(i)
               PROVE  /\ i # id
                      /\ \A d \in Callers : bundle'[d] # i /\ (Holds(d)' => call'[d].secret # i)
                      /\ \A n \in Later' : Opens(n)' # i
    OBVIOUS
  <2>1. i # id
    BY <1>id, <1>4 DEF Unseen
  <2>2. \A d \in Callers : bundle'[d] # i /\ (Holds(d)' => call'[d].secret # i)
    BY <1>6 DEF Unseen
  <2>3. \A n \in Later : Opens(n)' # i
    BY <1>3 DEF Unseen
  <2>4. \A n \in Later' : Opens(n)' # i
    BY <1>3, <2>1, <2>3
  <2> QED
    BY <2>1, <2>2, <2>4
<1>9. PublishedOnce'
  <2>1. /\ \A d \in Callers : partial'[d].of # NoBundle => Unseen(partial'[d].of)
        /\ \A d \in Callers : At(d, "pack")' /\ call'[d].previous = NoBundle
                                => Unseen(call'[d].secret)
    BY <1>6 DEF FirstInv, PublishedOnce
  <2>2. /\ \A d \in Callers : partial'[d].of # NoBundle => Unseen(partial[d].of)'
        /\ \A d \in Callers : At(d, "pack")' /\ call'[d].previous = NoBundle
                                => Unseen(call[d].secret)'
    BY <1>8, <2>1 DEF Unseen
  <2>3. /\ \A d, e \in Callers : Holds(d)' /\ Holds(e)' /\ call'[d].secret = call'[e].secret => d = e
        /\ \A d, e \in Callers : Holds(d)' /\ bundle'[e] = call'[d].secret => d = e
        /\ \A d \in Callers : Holds(d)' => bundle'[d] \in {NoBundle, Older, call'[d].secret}
    BY <1>6 DEF FirstInv, PublishedOnce
  <2>4. \A d \in Callers, n \in Later' : call'[d].phase \in Writing => Opens(n)' # call'[d].secret
    <3> SUFFICES ASSUME NEW d \in Callers, NEW n \in Later', call'[d].phase \in Writing
                 PROVE  Opens(n)' # call'[d].secret
      OBVIOUS
    <3>1. d # c /\ Holds(d) /\ call'[d] = call[d]
      BY <1>6
    <3>2. call[d].secret # id
      BY <1>id, <1>4, <3>1 DEF FirstInv, PublishedOnce
    <3>3. CASE n \in Later
      <4>1. call[d].phase \in Writing
        BY <3>1
      <4>2. Opens(n) # call[d].secret
        BY <3>3, <4>1 DEF FirstInv, PublishedOnce
      <4> QED
        BY <1>3, <3>1, <3>3, <4>2
    <3>4. CASE n = new
      BY <1>3, <3>1, <3>2, <3>4
    <3> QED
      BY <1>3, <3>3, <3>4
  <2> QED
    BY <2>2, <2>3, <2>4 DEF PublishedOnce
<1>10. DocumentFirst'
  <2>1. ASSUME NEW d \in Callers, call'[d].phase \in Standing, bundle'[d] = call'[d].secret
        PROVE  Stands(d)'
    <3>1. call'[d] = call[d]
      BY <1>6, <2>1
    <3> QED
      BY <2>1, <3>1 DEF FirstInv, DocumentFirst
  <2>2. ASSUME NEW n \in Later', NEW d \in Callers, bundle'[d] = Opens(n)', bundle'[d] # Older
        PROVE  Stands(d)'
    <3>1. CASE n \in Later
      BY <1>3, <2>2, <3>1 DEF FirstInv, DocumentFirst
    <3>2. CASE n = new
      <4>1. bundle[d] = call[c].secret
        BY <1>id, <1>3, <2>2, <3>2
      <4>2. d = c
        BY <1>4, <4>1 DEF FirstInv, PublishedOnce
      <4>3. Stands(d)
        BY <1>4, <4>1, <4>2 DEF FirstInv, DocumentFirst
      <4> QED
        BY <4>3
    <3> QED
      BY <1>3, <2>2, <3>1, <3>2
  <2> QED
    BY <2>1, <2>2 DEF DocumentFirst
<1> QED
  BY <1>7, <1>9, <1>10 DEF FirstInv

\* A call that moves between phases and changes nothing that is outside it.
LEMMA CallOnlyMoves ==
  ASSUME FirstInv, NEW c \in Callers, OthersStay(c),
         UNCHANGED <<bundle, document, notes, packed, partial, paused>>,
         \A d \in Callers : "document" \in touched[d] => "document" \in touched'[d],
         ~At(c, "pack")',
         Holds(c)' => call[c].phase \in Standing /\ call'[c].phase \in Standing
                      /\ call'[c].secret = call[c].secret
  PROVE  FirstInv'
<1>1. \A d \in Callers : Stands(d) => Stands(d)'
  BY DEF Stands
<1> QED
  BY <1>1, CallMoves DEF Holds, Writing, Standing

LEMMA VaultStepsFirst ==
  ASSUME Typed, FirstInv, NEW c \in Callers, VaultStep(c)
  PROVE  FirstInv'
<1>1. /\ UNCHANGED <<bundle, document, packed, partial, paused>>
      /\ call[c] \in Call /\ call \in [Callers -> Call]
      /\ touched \in [Callers -> SUBSET Artefacts]
  BY DEF VaultStep, othersOfVault, Typed, WorldTypeOK, InspectInstallation, Preflight, CheckStore,
         CreateNote, LoseAnswer, RehearseNote, CheckVault, LoadNote
<1>2. CASE CreateNote(c) \/ LoseAnswer(c)
  <2> DEFINE k == [call[c] EXCEPT !.phase = "readback", !.note = Len(notes) + 1]
  <2>1. CASE Fail(c) /\ UNCHANGED <<notes, touched>>
    BY <1>1, <2>1, CallEnds
  <2>2. CASE ~(Fail(c) /\ UNCHANGED <<notes, touched>>)
    <3>1. /\ At(c, "create") /\ notes' = Append(notes, NewNote(c))
          /\ \/ Fail(c) /\ UNCHANGED touched
             \/ Become(c, k) /\ touched' = [touched EXCEPT ![c] = @ \ {"note"}]
      BY <1>2, <2>2 DEF CreateNote, LoseAnswer
    <3>2. k.phase = "readback"
      BY <1>1 DEF Call
    <3> HIDE DEF k
    <3>3. OthersStay(c) /\ call'[c].phase \in {"idle", "readback"}
      BY <3>1, <3>2, BecomePhase, FailPhase
    <3>4. \A d \in Callers : Stands(d) => Stands(d)'
      BY <1>1, <3>1 DEF Stands
    <3> QED
      BY <1>1, <3>1, <3>3, <3>4, NoteFirst DEF At, Holds, Writing, Standing
  <2> QED
    BY <2>1, <2>2
<1>3. CASE ~(CreateNote(c) \/ LoseAnswer(c))
  <2> DEFINE k == [call[c] EXCEPT !.phase = "reviewbw", !.installed = installation]
             l == [call[c] EXCEPT !.phase = "reviewvault", !.server = vault.server,
                                  !.named = bundle[c]]
             n == [call[c] EXCEPT !.phase = "compare", !.loaded = Held(call[c].note).opens]
  <2>1. /\ k.phase = "reviewbw" /\ k.secret = call[c].secret
        /\ l.phase = "reviewvault" /\ l.secret = call[c].secret /\ n.phase = "compare"
    BY <1>1 DEF Call
  <2>2. /\ UNCHANGED notes
        /\ \/ At(c, "inspect") /\ Become(c, k)
           \/ At(c, "preflight") /\ Become(c, l)
           \/ At(c, "store") /\ Goto(c, "create")
           \/ Become(c, n) \/ Fail(c)
           \/ Goto(c, "loaddoc") \/ Goto(c, "loadnote") \/ Goto(c, "fetchnote")
    BY <1>3 DEF VaultStep, InspectInstallation, Preflight, CheckStore, RehearseNote, CheckVault,
                LoadNote, vaultVars
  <2>3. \A d \in Callers : "document" \in touched[d] => "document" \in touched'[d]
    BY <1>1, <1>3 DEF VaultStep, InspectInstallation, Preflight, CheckStore, RehearseNote,
                      CheckVault, LoadNote, Settled
  <2> HIDE DEF k, l, n
  <2>4. /\ OthersStay(c)
        /\ \/ /\ call[c].phase \in {"inspect", "preflight", "store"}
              /\ call'[c].phase \in {"reviewbw", "reviewvault", "create"}
              /\ call'[c].secret = call[c].secret
           \/ call'[c].phase \in {"compare", "idle", "loaddoc", "loadnote", "fetchnote"}
    <3>1. CASE (At(c, "inspect") /\ Become(c, k)) \/ (At(c, "preflight") /\ Become(c, l))
      BY <1>1, <2>1, <3>1, BecomePhase DEF Become, At
    <3>2. CASE At(c, "store") /\ Goto(c, "create")
      BY <3>2, GotoPhase, GotoSecret DEF At
    <3>3. CASE Become(c, n) \/ Fail(c) \/ Goto(c, "loaddoc") \/ Goto(c, "loadnote")
               \/ Goto(c, "fetchnote")
      BY <2>1, <3>3, BecomePhase, FailPhase, GotoPhase
    <3> QED
      BY <2>2, <3>1, <3>2, <3>3
  <2>5. /\ ~At(c, "pack")'
        /\ Holds(c)' => call[c].phase \in Standing /\ call'[c].phase \in Standing
                        /\ call'[c].secret = call[c].secret
    BY <2>4 DEF At, Holds, Writing, Standing
  <2> QED
    BY <1>1, <2>2, <2>3, <2>4, <2>5, CallOnlyMoves
<1> QED
  BY <1>2, <1>3

LEMMA OwnerFirst ==
  ASSUME Typed, FirstInv, NEW c \in Callers,
         OwnerReviews(c) \/ VerifyOffline(c) \/ Complete(c)
  PROVE  FirstInv'
<1>1. UNCHANGED <<bundle, touched, document, notes, packed, partial, paused>> /\ call[c] \in Call
  BY DEF OwnerReviews, VerifyOffline, Complete, vaultVars, Typed, WorldTypeOK
<1>2. CASE Fail(c)
  BY <1>1, <1>2, CallEnds
<1>3. CASE ~Fail(c)
  <2> DEFINE k == [call[c] EXCEPT !.phase = "checkvault", !.verified = bundle[c]]
  <2>1. k.phase = "checkvault"
    BY <1>1 DEF Call
  <2>2. \/ Become(c, k) \/ (At(c, "reviewbw") /\ Goto(c, "preflight"))
        \/ (At(c, "reviewvault") /\ Goto(c, "store"))
    BY <1>3 DEF OwnerReviews, VerifyOffline, Complete
  <2> HIDE DEF k
  <2>3. /\ OthersStay(c)
        /\ \/ call'[c].phase = "checkvault"
           \/ /\ call[c].phase \in {"reviewbw", "reviewvault"}
              /\ call'[c].phase \in {"preflight", "store"}
              /\ call'[c].secret = call[c].secret
    BY <2>1, <2>2, BecomePhase, GotoPhase, GotoSecret DEF At
  <2>4. /\ ~At(c, "pack")'
        /\ Holds(c)' => call[c].phase \in Standing /\ call'[c].phase \in Standing
                        /\ call'[c].secret = call[c].secret
    BY <2>3 DEF At, Holds, Writing, Standing
  <2> QED
    BY <1>1, <2>3, <2>4, CallOnlyMoves
<1> QED
  BY <1>2, <1>3

LEMMA FetchFirst ==
  ASSUME Typed, FirstInv, NEW c \in Callers, BeginCopy(c) \/ LoadForCopy(c)
  PROVE  FirstInv'
<1>1. UNCHANGED <<bundle, touched, document, notes, packed, partial, paused>> /\ call[c] \in Call
  <2>1. CASE BeginCopy(c)
    BY <2>1 DEF BeginCopy, vaultVars, Typed, WorldTypeOK
  <2>2. CASE LoadForCopy(c)
    <3>1. call[c].phase \in {"fetchdoc", "fetchnote"}
      BY <2>2 DEF LoadForCopy, LoadDocument, LoadNote, At
    <3> QED
      BY <2>2, <3>1 DEF LoadForCopy, LoadDocument, LoadNote, Settled, vaultVars, Typed, WorldTypeOK
  <2> QED
    BY <2>1, <2>2
<1>2. OthersStay(c) /\ call'[c].phase \in {"fetchdoc", "fetchcheck", "copy", "idle"}
  <2>1. CASE BeginCopy(c)
    <3>1. PICK method \in {"fetchdoc", "fetchcheck"} :
            Become(c, [Idle EXCEPT !.phase = method, !.note = result[c].note,
                                   !.server = result[c].server,
                                   !.installed = result[c].installed])
      BY <2>1 DEF BeginCopy
    <3> DEFINE k == [Idle EXCEPT !.phase = method, !.note = result[c].note,
                                 !.server = result[c].server, !.installed = result[c].installed]
    <3>2. k.phase = method
      BY DEF Idle
    <3>3. Become(c, k)
      BY <3>1
    <3> HIDE DEF k
    <3> QED
      BY <3>2, <3>3, BecomePhase
  <2>2. CASE LoadForCopy(c)
    <3> DEFINE k == [call[c] EXCEPT !.phase = "copy", !.loaded = document[c].holds.opens]
               m == [call[c] EXCEPT !.phase = "copy", !.loaded = Held(call[c].note).opens]
    <3>1. k.phase = "copy" /\ m.phase = "copy"
      BY <1>1 DEF Call
    <3>2. Become(c, k) \/ Become(c, m) \/ Fail(c)
      BY <2>2 DEF LoadForCopy, LoadDocument, LoadNote
    <3> HIDE DEF k, m
    <3> QED
      BY <3>1, <3>2, BecomePhase, FailPhase
  <2> QED
    BY <2>1, <2>2
<1> QED
  BY <1>1, <1>2, CallOnlyMoves DEF At, Holds, Writing, Standing

LEMMA FirstSame ==
  ASSUME FirstInv, UNCHANGED <<call, bundle, touched, document, notes, packed, partial, paused>>
  PROVE  FirstInv'
  BY DEF FirstInv, Numbers, PublishedOnce, DocumentFirst, Holds, At, Later, Opens, Unseen, Stands

LEMMA CopyFirst ==
  ASSUME Typed, FirstInv, NEW c \in Callers, CopyStep(c) \/ Fault(c)
  PROVE  FirstInv'
<1>1. UNCHANGED <<bundle, touched, document, notes, packed, partial, paused>>
  BY DEF CopyStep, OpenSource, CreatePartial, CopyBytes, AuthenticatePartial, PublishCompleted,
         ReopenCompleted, LookAtSaved, RemoveSaved, ReturnReceipt, othersOfCopy, Fault, vaultVars
<1>2. UNCHANGED call \/ Fail(c)
  BY DEF CopyStep, OpenSource, CreatePartial, CopyBytes, AuthenticatePartial, PublishCompleted,
         ReopenCompleted, LookAtSaved, RemoveSaved, ReturnReceipt, EndCopy, Fault
<1> QED
  BY <1>1, <1>2, CallEnds, FirstSame

LEMMA RestartFirst ==
  ASSUME Typed, FirstInv, Restart
  PROVE  FirstInv'
<1>1. /\ UNCHANGED <<bundle, touched, document, notes, packed>> /\ paused' = NoBundle
      /\ \A c \in Callers : call'[c].phase = "idle" /\ partial'[c].of = partial[c].of
  BY DEF Restart, Idle
<1>2. \A c \in Callers : ~At(c, "pack")' /\ ~Holds(c)' /\ call'[c].phase \notin Writing \cup Standing
  BY <1>1 DEF At, Holds, Writing, Standing
<1>3. Numbers'
  BY <1>1, <1>2 DEF FirstInv, Numbers, Later, Opens
<1>4. \A c \in Callers : partial'[c].of # NoBundle => Unseen(partial[c].of)'
  <2> SUFFICES ASSUME NEW c \in Callers, partial'[c].of # NoBundle
               PROVE  /\ \A d \in Callers : bundle'[d] # partial'[c].of
                      /\ \A n \in Later' : Opens(n)' # partial'[c].of
    BY <1>2 DEF Unseen
  <2>1. Unseen(partial[c].of)
    BY <1>1 DEF FirstInv, PublishedOnce
  <2> QED
    BY <1>1, <2>1 DEF Unseen, Later, Opens
<1>5. PublishedOnce'
  BY <1>2, <1>4 DEF PublishedOnce
<1>6. DocumentFirst'
  BY <1>1, <1>2 DEF FirstInv, DocumentFirst, Stands, Later, Opens
<1> QED
  BY <1>3, <1>5, <1>6 DEF FirstInv

\* What other programs do to a Bundle, a note or a partial Bundle only takes away.
LEMMA WorldTakes ==
  ASSUME FirstInv, packed \in Nat \ {0}, UNCHANGED <<call, packed, paused>>,
         \A c \in Callers : bundle'[c] = bundle[c] \/ bundle'[c] \in {NoBundle, Older},
         Len(notes') = Len(notes),
         \A n \in Later : Opens(n)' = Opens(n) \/ Opens(n)' = Older,
         \A c \in Callers : partial'[c].of \in {partial[c].of, NoBundle},
         \A c \in Callers : bundle'[c] = bundle[c] /\ Stands(c) => Stands(c)'
  PROVE  FirstInv'
<1>1. /\ \A c \in Callers : Holds(c)' = Holds(c) /\ At(c, "pack")' = At(c, "pack")
      /\ Later' = Later
  BY DEF Holds, At, Later
<1>2. Numbers'
  <2>1. \A n \in Later' : Opens(n)' \in 1 .. packed'
    BY <1>1 DEF FirstInv, Numbers, Older
  <2>2. \A c \in Callers : bundle'[c] <= packed'
    BY DEF FirstInv, Numbers, Older, NoBundle
  <2> QED
    BY <1>1, <2>1, <2>2 DEF FirstInv, Numbers
<1>3. \A id \in 2 .. packed : Unseen(id) =>
        /\ \A d \in Callers : bundle'[d] # id /\ (Holds(d)' => call'[d].secret # id)
        /\ \A n \in Later' : Opens(n)' # id
  <2> SUFFICES ASSUME NEW id \in 2 .. packed, Unseen(id)
               PROVE  /\ \A d \in Callers : bundle'[d] # id /\ (Holds(d)' => call'[d].secret # id)
                      /\ \A n \in Later' : Opens(n)' # id
    OBVIOUS
  <2>1. id # NoBundle /\ id # Older
    BY DEF NoBundle, Older
  <2> QED
    BY <1>1, <2>1 DEF Unseen
<1>4. PublishedOnce'
  <2>1. \A d \in Callers : partial'[d].of # NoBundle => Unseen(partial[d].of)'
    <3> SUFFICES ASSUME NEW d \in Callers, partial'[d].of # NoBundle
                 PROVE  Unseen(partial[d].of)'
      OBVIOUS
    <3>1. /\ partial'[d].of = partial[d].of /\ partial[d].of \in 2 .. packed
          /\ Unseen(partial[d].of)
      BY DEF FirstInv, PublishedOnce, Numbers
    <3> QED
      BY <1>3, <3>1 DEF Unseen
  <2>2. \A d \in Callers : At(d, "pack")' /\ call'[d].previous = NoBundle => Unseen(call[d].secret)'
    <3> SUFFICES ASSUME NEW d \in Callers, At(d, "pack")', call'[d].previous = NoBundle
                 PROVE  Unseen(call[d].secret)'
      OBVIOUS
    <3>1. /\ call'[d].secret = call[d].secret /\ call[d].secret \in 2 .. packed
          /\ Unseen(call[d].secret)
      BY <1>1 DEF FirstInv, PublishedOnce, Numbers
    <3> QED
      BY <1>3, <3>1 DEF Unseen
  <2>3. \A c \in Callers : Holds(c) => call[c].secret # NoBundle /\ call[c].secret # Older
    BY DEF FirstInv, Numbers, NoBundle, Older
  <2>4. /\ \A d, e \in Callers : Holds(d)' /\ Holds(e)' /\ call'[d].secret = call'[e].secret => d = e
        /\ \A d, e \in Callers : Holds(d)' /\ bundle'[e] = call'[d].secret => d = e
        /\ \A d \in Callers : Holds(d)' => bundle'[d] \in {NoBundle, Older, call'[d].secret}
    BY <1>1, <2>3 DEF FirstInv, PublishedOnce
  <2>5. \A d \in Callers, n \in Later' : call'[d].phase \in Writing => Opens(n)' # call'[d].secret
    BY <1>1, <2>3 DEF FirstInv, PublishedOnce, Holds
  <2> QED
    BY <2>1, <2>2, <2>4, <2>5 DEF PublishedOnce
<1>5. DocumentFirst'
  <2>1. ASSUME NEW d \in Callers, call'[d].phase \in Standing, bundle'[d] = call'[d].secret
        PROVE  Stands(d)'
    <3>1. call[d].secret # NoBundle /\ call[d].secret # Older
      BY <2>1 DEF FirstInv, Numbers, Holds, NoBundle, Older
    <3> QED
      BY <2>1, <3>1 DEF FirstInv, DocumentFirst
  <2>2. ASSUME NEW n \in Later', NEW d \in Callers, bundle'[d] = Opens(n)', bundle'[d] # Older
        PROVE  Stands(d)'
    <3>1. n \in Later /\ Opens(n)' = Opens(n) /\ Opens(n) # NoBundle
      BY <1>1, <2>2 DEF FirstInv, Numbers, NoBundle
    <3> QED
      BY <2>2, <3>1 DEF FirstInv, DocumentFirst
  <2> QED
    BY <2>1, <2>2 DEF DocumentFirst
<1> QED
  BY <1>2, <1>4, <1>5 DEF FirstInv

LEMMA WorldFirst ==
  ASSUME Typed, FirstInv, World
  PROVE  FirstInv'
<1>1. /\ packed \in Nat \ {0} /\ bundle \in [Callers -> 0 .. MaxBundles]
      /\ touched \in [Callers -> SUBSET Artefacts] /\ document \in [Callers -> Document]
      /\ notes \in Seq(Note) /\ partial \in [Callers -> Partial]
  BY DEF Typed, WorldTypeOK, OfflineTypeOK, VaultTypeOK, Ids
<1>2. ASSUME NEW c \in Callers, ReplaceBundle(c), UNCHANGED <<document, othersOfOffline>>
      PROVE  FirstInv'
  <2>1. /\ UNCHANGED <<call, packed, paused, notes, partial, document>>
        /\ \A d \in Callers : bundle'[d] = bundle[d] \/ bundle'[d] \in {NoBundle, Older}
        /\ \A d \in Callers : "document" \in touched[d] => "document" \in touched'[d]
    BY <1>1, <1>2 DEF ReplaceBundle, Touch, othersOfOffline, vaultVars
  <2>2. \A d \in Callers : bundle'[d] = bundle[d] /\ Stands(d) => Stands(d)'
    BY <2>1 DEF Stands
  <2> QED
    BY <1>1, <2>1, <2>2, WorldTakes DEF Opens
<1>3. ASSUME NEW c \in Callers, ReplaceDocument(c), UNCHANGED othersOfOffline
      PROVE  FirstInv'
  <2>1. /\ UNCHANGED <<call, packed, paused, notes, partial, bundle>>
        /\ "document" \in touched'[c]
        /\ \A d \in Callers : d # c => document'[d] = document[d] /\ touched'[d] = touched[d]
    BY <1>1, <1>3 DEF ReplaceDocument, Touch, othersOfOffline, vaultVars
  <2>2. \A d \in Callers : Stands(d) => Stands(d)'
    BY <2>1 DEF Stands
  <2> QED
    BY <1>1, <2>1, <2>2, WorldTakes DEF Opens
<1>4. ASSUME NEW c \in Callers, SpoilSource(c), UNCHANGED othersOfCopy
      PROVE  FirstInv'
  <2>1. /\ UNCHANGED <<call, packed, paused, notes, partial, document>>
        /\ \A d \in Callers : bundle'[d] = bundle[d] \/ bundle'[d] \in {NoBundle, Older}
        /\ \A d \in Callers : "document" \in touched[d] => "document" \in touched'[d]
    BY <1>1, <1>4 DEF SpoilSource, Touch, othersOfCopy, vaultVars
  <2>2. \A d \in Callers : bundle'[d] = bundle[d] /\ Stands(d) => Stands(d)'
    BY <2>1 DEF Stands
  <2> QED
    BY <1>1, <2>1, <2>2, WorldTakes DEF Opens
<1>5. ASSUME NEW c \in Callers, RemovePartial(c)
      PROVE  FirstInv'
  <2>1. /\ UNCHANGED <<call, packed, paused, notes, bundle, touched, document>>
        /\ \A d \in Callers : partial'[d].of \in {partial[d].of, NoBundle}
    BY <1>1, <1>5 DEF RemovePartial, NoPartial, vaultVars
  <2>2. \A d \in Callers : Stands(d) => Stands(d)'
    BY <2>1 DEF Stands
  <2> QED
    BY <1>1, <2>1, <2>2, WorldTakes DEF Opens
<1>6. CASE (ChangeInstallation \/ ChangeVault) /\ UNCHANGED othersOfVault
  BY <1>6, FirstSame DEF ChangeInstallation, ChangeVault, othersOfVault
<1>7. ASSUME NEW m \in 1 .. Len(notes), EditNote(m, Holders(m)), UNCHANGED othersOfVault
      PROVE  FirstInv'
  <2> DEFINE gone == [notes[m] EXCEPT !.server = Nowhere]
             old == [notes[m] EXCEPT !.holds = Of(Older)]
             renamed == [notes[m] EXCEPT !.holds.names = Older]
  <2>1. notes[m] \in Note /\ notes[m].holds \in Content
    <3>1. notes[m] \in Note
      BY <1>1
    <3> QED
      BY <3>1 DEF Note
  <2>2. /\ gone.holds.opens = notes[m].holds.opens /\ old.holds.opens = Older
        /\ renamed.holds.opens = notes[m].holds.opens
    BY <2>1 DEF Note, Content, Of
  <2>3. PICK note \in {gone, old, renamed} : notes' = [notes EXCEPT ![m] = note]
    BY <1>7 DEF EditNote
  <2> HIDE DEF gone, old, renamed
  <2>4. /\ UNCHANGED <<call, packed, paused, partial, bundle, document>>
        /\ \A d \in Callers : "document" \in touched[d] => "document" \in touched'[d]
    BY <1>1, <1>7 DEF EditNote, othersOfVault
  <2>5. Len(notes') = Len(notes)
    BY <1>1, <2>3
  <2>6. \A n \in Later : Opens(n)' = Opens(n) \/ Opens(n)' = Older
    <3>1. \A n \in Later : notes'[n] = IF n = m THEN note ELSE notes[n]
      BY <1>1, <2>3 DEF Later
    <3> QED
      BY <2>2, <2>3, <3>1 DEF Opens
  <2>7. \A d \in Callers : Stands(d) => Stands(d)'
    BY <2>4 DEF Stands
  <2> QED
    BY <1>1, <2>4, <2>5, <2>6, <2>7, WorldTakes
<1>8. ASSUME NEW n \in Names, ReplaceFile(n), UNCHANGED othersOfCopy
      PROVE  FirstInv'
  BY <1>8, FirstSame DEF ReplaceFile, othersOfCopy, vaultVars
<1> QED
  BY <1>2, <1>3, <1>4, <1>5, <1>6, <1>7, <1>8 DEF World

(***************************************************************************)
(* The steps of Pack                                                       *)
(***************************************************************************)
LEMMA BeginFirst ==
  ASSUME SlotInv, Typed, FirstInv, NEW c \in Callers, BeginFresh(c) \/ BeginResume(c)
  PROVE  FirstInv'
<1> DEFINE k == [Idle EXCEPT !.phase = "pack", !.secret = packed + 1]
           m == [Idle EXCEPT !.phase = "pack", !.secret = paused, !.previous = paused]
<1>1. /\ k.phase = "pack" /\ k.secret = packed + 1
      /\ m.phase = "pack" /\ m.secret = paused /\ m.previous = paused
  BY DEF Idle
<1>2. /\ UNCHANGED <<bundle, touched, document, notes, partial>> /\ packed \in Nat \ {0}
      /\ bundle \in [Callers -> 0 .. MaxBundles]
      /\ At(c, "idle") /\ \A d \in Callers : ~At(d, "pack")
  BY DEF BeginFresh, BeginResume, LockIsFree, vaultVars, Typed, WorldTypeOK, Ids
<1>3. /\ OthersStay(c) /\ call'[c].phase = "pack"
      /\ \/ packed' = packed + 1 /\ call'[c].secret = packed + 1 /\ UNCHANGED paused
         \/ /\ UNCHANGED packed /\ paused # NoBundle /\ paused' = NoBundle
            /\ call'[c].secret = paused /\ call'[c].previous = paused
  <2>1. CASE BeginFresh(c)
    <3>1. Become(c, k) /\ packed' = packed + 1 /\ UNCHANGED paused
      BY <2>1 DEF BeginFresh
    <3> HIDE DEF k
    <3>2. OthersStay(c) /\ call'[c] = k
      BY <3>1, BecomePhase DEF Become, Typed, WorldTypeOK
    <3> QED
      BY <1>1, <3>1, <3>2
  <2>2. CASE BeginResume(c)
    <3>1. Become(c, m) /\ UNCHANGED packed /\ paused # NoBundle /\ paused' = NoBundle
      BY <2>2 DEF BeginResume
    <3> HIDE DEF m
    <3>2. OthersStay(c) /\ call'[c] = m
      BY <3>1, BecomePhase DEF Become, Typed, WorldTypeOK
    <3> QED
      BY <1>1, <3>1, <3>2
  <2> QED
    BY <2>1, <2>2
<1> HIDE DEF k, m
<1>4. \A d \in Callers : /\ Holds(d)' => d # c /\ Holds(d) /\ call'[d] = call[d]
                         /\ At(d, "pack")' => d = c
                         /\ call'[d].phase \in Writing \cup Standing => Holds(d)'
  BY <1>2, <1>3 DEF OthersStay, Holds, At, Writing, Standing
<1>5. Later' = Later /\ \A n \in Later : Opens(n)' = Opens(n)
  BY <1>2 DEF Later, Opens
<1>6. call'[c].secret \in 2 .. packed' /\ packed <= packed'
  BY <1>2, <1>3 DEF FirstInv, Numbers
<1>7. Numbers'
  <2>1. /\ \A d \in Callers : partial[d].of = NoBundle \/ partial[d].of \in 2 .. packed'
        /\ paused' = NoBundle \/ paused' \in 2 .. packed'
    BY <1>2, <1>3, <1>6 DEF FirstInv, Numbers
  <2>2. /\ \A d \in Callers : bundle[d] <= packed'
        /\ \A n \in Later : Opens(n) \in 1 .. packed'
    BY <1>2, <1>3, <1>6 DEF FirstInv, Numbers
  <2>3. \A d \in Callers : Holds(d)' \/ At(d, "pack")' => call'[d].secret \in 2 .. packed'
    <3>1. \A d \in Callers : Holds(d)' => call'[d].secret \in 2 .. packed'
      BY <1>2, <1>3, <1>4, <1>6 DEF FirstInv, Numbers
    <3> QED
      BY <1>4, <1>6, <3>1
  <2> QED
    BY <1>2, <1>5, <2>1, <2>2, <2>3 DEF Numbers
<1>8. \A id : Unseen(id) =>
        /\ \A d \in Callers : bundle'[d] # id /\ (Holds(d)' => call'[d].secret # id)
        /\ \A n \in Later' : Opens(n)' # id
  BY <1>2, <1>4, <1>5 DEF Unseen
<1>9. PublishedOnce'
  <2>1. \A d \in Callers : partial'[d].of # NoBundle => Unseen(partial[d].of)'
    <3>1. \A d \in Callers : partial'[d].of # NoBundle => Unseen(partial'[d].of)
      BY <1>2 DEF FirstInv, PublishedOnce
    <3> QED
      BY <1>2, <1>8, <3>1 DEF Unseen
  <2>2. \A d \in Callers : At(d, "pack")' /\ call'[d].previous = NoBundle => Unseen(call[d].secret)'
    <3> SUFFICES ASSUME call'[c].previous = NoBundle
                 PROVE  Unseen(call[c].secret)'
      BY <1>4
    <3>1. call'[c].secret = packed + 1
      BY <1>3
    <3>2. /\ \A d \in Callers : bundle[d] # packed + 1
          /\ \A d \in Callers : Holds(d) => call[d].secret # packed + 1
          /\ \A n \in Later : Opens(n) # packed + 1
      BY <1>2 DEF FirstInv, Numbers
    <3> QED
      BY <1>2, <1>4, <1>5, <3>1, <3>2 DEF Unseen
  <2>3. /\ \A d, e \in Callers : Holds(d)' /\ Holds(e)' /\ call'[d].secret = call'[e].secret => d = e
        /\ \A d, e \in Callers : Holds(d)' /\ bundle'[e] = call'[d].secret => d = e
        /\ \A d \in Callers : Holds(d)' => bundle'[d] \in {NoBundle, Older, call'[d].secret}
    BY <1>2, <1>4 DEF FirstInv, PublishedOnce
  <2>4. \A d \in Callers, n \in Later' : call'[d].phase \in Writing => Opens(n)' # call'[d].secret
    <3>1. \A d \in Callers : call'[d].phase \in Writing => call'[d] = call[d]
      BY <1>4
    <3> QED
      BY <1>5, <3>1 DEF FirstInv, PublishedOnce
  <2> QED
    BY <2>1, <2>2, <2>3, <2>4 DEF PublishedOnce
<1>10. DocumentFirst'
  <2>1. \A d \in Callers : call'[d].phase \in Standing => call'[d] = call[d]
    BY <1>4
  <2>2. \A d \in Callers : Stands(d) => Stands(d)'
    BY <1>2 DEF Stands
  <2> QED
    BY <1>2, <1>5, <2>1, <2>2 DEF FirstInv, DocumentFirst
<1> QED
  BY <1>7, <1>9, <1>10 DEF FirstInv

\* A Bundle that Pack may publish or save was never published.
LEMMA AcceptedIsUnseen ==
  ASSUME SlotInv, FirstInv, NEW c \in Callers, At(c, "pack"), PackAccepts(c)
  PROVE  /\ Unseen(call[c].secret) /\ call[c].secret \in 2 .. packed
         /\ \A d \in Callers : d # c => partial[d].of # call[c].secret
<1>1. call[c].secret \in 2 .. packed /\ call[c].secret # NoBundle
  BY DEF FirstInv, Numbers, NoBundle
<1>2. CASE call[c].previous = NoBundle
  BY <1>1, <1>2 DEF SlotInv, Packing, FirstInv, PublishedOnce
<1>3. CASE call[c].previous # NoBundle
  <2>1. partial[c].of = call[c].secret
    BY <1>3 DEF PackAccepts, SlotInv, Packing
  <2> QED
    BY <1>1, <2>1 DEF SlotInv, Numbered, FirstInv, PublishedOnce
<1> QED
  BY <1>2, <1>3

\* The call leaves Pack: it published its Bundle, saved a partial one, or did not.
LEMMA PackEnds ==
  ASSUME SlotInv, Typed, FirstInv, NEW c \in Callers, At(c, "pack"), OthersStay(c),
         UNCHANGED <<document, notes, packed>>,
         paused' = NoBundle \/ paused' \in 2 .. packed,
         \A d \in Callers : d # c => /\ bundle'[d] = bundle[d] /\ touched'[d] = touched[d]
                                     /\ partial'[d].of = partial[d].of,
         \/ /\ call'[c].phase = "idle" /\ bundle'[c] = bundle[c] /\ touched'[c] = touched[c]
            /\ \/ partial'[c].of = partial[c].of
               \/ PackAccepts(c) /\ partial'[c].of = call[c].secret
         \/ /\ PackAccepts(c) /\ bundle'[c] = call[c].secret /\ partial'[c].of = NoBundle
            /\ \/ call'[c].phase = "idle"
               \/ call'[c].phase = "write" /\ call'[c].secret = call[c].secret
  PROVE  FirstInv'
<1>1. /\ \A d \in Callers : ~At(d, "pack")'
      /\ \A d \in Callers : d # c => (Holds(d)' <=> Holds(d)) /\ call'[d] = call[d]
      /\ Holds(c)' => /\ call'[c].phase = "write" /\ call'[c].secret = call[c].secret
                      /\ PackAccepts(c) /\ bundle'[c] = call[c].secret
      /\ ~Holds(c)
      /\ call'[c].phase \notin Standing
  BY DEF SlotInv, Packing, OthersStay, At, Holds, Writing, Standing
<1>2. Later' = Later /\ \A n \in Later : Opens(n)' = Opens(n)
  BY DEF Later, Opens
<1>3. call[c].secret \in 2 .. packed /\ packed \in Nat
  BY DEF FirstInv, Numbers, Typed, Ids
<1>4. PackAccepts(c) => /\ Unseen(call[c].secret)
                        /\ \A d \in Callers : d # c => partial[d].of # call[c].secret
  BY AcceptedIsUnseen
<1>5. Numbers'
  <2>1. \A d \in Callers : bundle'[d] <= packed' /\ (partial'[d].of = NoBundle
                                                       \/ partial'[d].of \in 2 .. packed')
    BY <1>3 DEF FirstInv, Numbers
  <2>2. \A d \in Callers : Holds(d)' \/ At(d, "pack")' => call'[d].secret \in 2 .. packed'
    BY <1>1, <1>3 DEF FirstInv, Numbers
  <2> QED
    BY <1>2, <2>1, <2>2 DEF FirstInv, Numbers
<1>6. ASSUME NEW id, Unseen(id), bundle'[c] = bundle[c] \/ id # call[c].secret,
             Holds(c)' => id # call[c].secret
      PROVE  /\ \A d \in Callers : bundle'[d] # id /\ (Holds(d)' => call'[d].secret # id)
             /\ \A n \in Later' : Opens(n)' # id
  BY <1>1, <1>2, <1>6 DEF Unseen
<1>7. PublishedOnce'
  <2>1. \A d \in Callers : partial'[d].of # NoBundle => Unseen(partial[d].of)'
    <3> SUFFICES ASSUME NEW d \in Callers, partial'[d].of # NoBundle
                 PROVE  Unseen(partial[d].of)'
      OBVIOUS
    <3>1. Unseen(partial'[d].of)
      BY <1>4 DEF FirstInv, PublishedOnce
    <3>2. /\ bundle'[c] = bundle[c] \/ partial'[d].of # call[c].secret
          /\ Holds(c)' => partial'[d].of # call[c].secret
      BY <1>1, <1>4 DEF Holds, Writing, Standing
    <3> QED
      BY <1>6, <3>1, <3>2 DEF Unseen
  <2>2. /\ \A d, e \in Callers : Holds(d)' /\ Holds(e)' /\ call'[d].secret = call'[e].secret => d = e
        /\ \A d, e \in Callers : Holds(d)' /\ bundle'[e] = call'[d].secret => d = e
        /\ \A d \in Callers : Holds(d)' => bundle'[d] \in {NoBundle, Older, call'[d].secret}
    BY <1>1, <1>4 DEF FirstInv, PublishedOnce, Unseen
  <2>3. \A d \in Callers, n \in Later' : call'[d].phase \in Writing => Opens(n)' # call'[d].secret
    <3> SUFFICES ASSUME NEW d \in Callers, NEW n \in Later', call'[d].phase \in Writing
                 PROVE  Opens(n)' # call'[d].secret
      OBVIOUS
    <3>1. n \in Later /\ Opens(n)' = Opens(n)
      BY <1>2
    <3>2. CASE d = c
      <4>1. PackAccepts(c) /\ call'[c].secret = call[c].secret
        BY <1>1, <3>2 DEF Holds
      <4> QED
        BY <1>4, <3>1, <3>2, <4>1 DEF Unseen
    <3>3. CASE d # c
      BY <1>1, <3>1, <3>3 DEF FirstInv, PublishedOnce
    <3> QED
      BY <3>2, <3>3
  <2> QED
    BY <1>1, <2>1, <2>2, <2>3 DEF PublishedOnce
<1>8. DocumentFirst'
  <2>1. \A d \in Callers : bundle'[d] = bundle[d] /\ touched'[d] = touched[d] /\ Stands(d)
                             => Stands(d)'
    BY DEF Stands
  <2>2. ASSUME NEW d \in Callers, call'[d].phase \in Standing, bundle'[d] = call'[d].secret
        PROVE  Stands(d)'
    BY <1>1, <2>1, <2>2 DEF FirstInv, DocumentFirst
  <2>3. ASSUME NEW n \in Later', NEW d \in Callers, bundle'[d] = Opens(n)', bundle'[d] # Older
        PROVE  Stands(d)'
    <3>1. n \in Later /\ bundle'[d] = Opens(n)
      BY <1>2, <2>3
    <3>2. d # c \/ (bundle'[c] = bundle[c] /\ touched'[c] = touched[c])
      BY <1>4, <3>1 DEF Unseen
    <3>3. bundle'[d] = bundle[d] /\ touched'[d] = touched[d]
      BY <3>2
    <3> QED
      BY <2>1, <2>3, <3>1, <3>3 DEF FirstInv, DocumentFirst
  <2> QED
    BY <2>2, <2>3 DEF DocumentFirst
<1> QED
  BY <1>5, <1>7, <1>8 DEF FirstInv

LEMMA PackFirst ==
  ASSUME SlotInv, Typed, FirstInv, NEW c \in Callers, PackStep(c)
  PROVE  FirstInv'
<1>1. /\ call \in [Callers -> Call] /\ call[c] \in Call
      /\ bundle \in [Callers -> 0 .. MaxBundles] /\ partial \in [Callers -> Partial]
      /\ touched \in [Callers -> SUBSET Artefacts]
  BY DEF Typed, WorldTypeOK
<1>2. CASE BeginFresh(c) \/ BeginResume(c)
  BY <1>2, BeginFirst
<1>3. CASE PackPauses(c)
  <2>1. /\ At(c, "pack") /\ PackAccepts(c)
        /\ UNCHANGED <<bundle, touched, document, notes, packed>>
        /\ paused' = call[c].secret
        /\ partial' = [partial EXCEPT ![c] = [of |-> call[c].secret, kept |-> TRUE]]
    BY <1>3 DEF PackPauses, vaultVars
  <2>2. OthersStay(c) /\ call'[c].phase = "idle"
    BY <1>3, FailPhase DEF PackPauses
  <2>3. call[c].secret \in 2 .. packed
    BY <2>1 DEF FirstInv, Numbers
  <2>4. /\ partial'[c].of = call[c].secret
        /\ \A d \in Callers : d # c => partial'[d].of = partial[d].of
    BY <1>1, <2>1
  <2> QED
    BY <2>1, <2>2, <2>3, <2>4, PackEnds
<1>4. CASE PackCompletes(c)
  <2>1. /\ At(c, "pack") /\ PackAccepts(c)
        /\ UNCHANGED <<document, notes, packed, paused>>
        /\ bundle' = [bundle EXCEPT ![c] = call[c].secret]
        /\ partial' = [partial EXCEPT ![c] = [of |-> NoBundle, kept |-> FALSE]]
        /\ touched' = [touched EXCEPT ![c] = {}]
        /\ Goto(c, "write")
    BY <1>4 DEF PackCompletes, AfterPack, NoPartial, vaultVars
  <2>2. OthersStay(c) /\ call'[c].phase = "write" /\ call'[c].secret = call[c].secret
    BY <2>1, GotoPhase, GotoSecret
  <2>3. /\ partial'[c].of = NoBundle /\ bundle'[c] = call[c].secret
        /\ \A d \in Callers : d # c => /\ bundle'[d] = bundle[d] /\ touched'[d] = touched[d]
                                       /\ partial'[d].of = partial[d].of
    BY <1>1, <2>1
  <2>4. paused' = NoBundle \/ paused' \in 2 .. packed
    BY <2>1 DEF FirstInv, Numbers
  <2> QED
    BY <2>1, <2>2, <2>3, <2>4, PackEnds
<1>5. CASE PackFails(c)
  <2>1. /\ At(c, "pack") /\ UNCHANGED <<touched, document, notes, packed>>
        /\ paused' = PutBack(c)
    BY <1>5 DEF PackFails, vaultVars
  <2>2. OthersStay(c) /\ call'[c].phase = "idle"
    BY <1>5, FailPhase DEF PackFails
  <2>3. paused' = NoBundle \/ paused' \in 2 .. packed
    BY <2>1 DEF PutBack, SlotInv, Packing, FirstInv, Numbers
  <2>4. CASE UNCHANGED <<bundle, partial>>
    BY <2>1, <2>2, <2>3, <2>4, PackEnds
  <2>5. CASE /\ PackAccepts(c) /\ UNCHANGED bundle
             /\ partial' = [partial EXCEPT ![c] = [of |-> call[c].secret, kept |-> FALSE]]
    <3>1. /\ partial'[c].of = call[c].secret
          /\ \A d \in Callers : d # c => partial'[d].of = partial[d].of
      BY <1>1, <2>5
    <3> QED
      BY <2>1, <2>2, <2>3, <2>5, <3>1, PackEnds
  <2>6. CASE /\ PackAccepts(c) /\ bundle' = [bundle EXCEPT ![c] = call[c].secret]
             /\ partial' = [partial EXCEPT ![c] = [of |-> NoBundle, kept |-> FALSE]]
    <3>1. /\ partial'[c].of = NoBundle /\ bundle'[c] = call[c].secret
          /\ \A d \in Callers : d # c => bundle'[d] = bundle[d] /\ partial'[d].of = partial[d].of
      BY <1>1, <2>6
    <3> QED
      BY <2>1, <2>2, <2>3, <2>6, <3>1, PackEnds
  <2> QED
    BY <1>5, <2>4, <2>5, <2>6 DEF PackFails, NoPartial
<1> QED
  BY <1>2, <1>3, <1>4, <1>5 DEF PackStep

LEMMA InitFirst ==
  ASSUME Init
  PROVE  FirstInv
<1>1. /\ \A c \in Callers : /\ call[c].phase = "idle" /\ bundle[c] = NoBundle
                            /\ partial[c].of = NoBundle
      /\ packed = 1 /\ paused = NoBundle /\ Len(notes) = 1
  BY DEF Init, WorldInit, VaultInit, Idle, NoPartial, Older
<1>2. Later = {}
  BY <1>1 DEF Later
<1> QED
  BY <1>1, <1>2
     DEF FirstInv, Numbers, PublishedOnce, DocumentFirst, Holds, At, Writing, Standing, NoBundle

LEMMA NextFirst ==
  ASSUME SlotInv, Typed, FirstInv, [Next]_vars
  PROVE  FirstInv'
<1>1. CASE UNCHANGED vars
  BY <1>1, FirstSame DEF vars, worldVars, vaultVars
<1>2. CASE Next
  BY <1>2, PackFirst, OfflineFirst, VaultStepsFirst, CopyFirst, OwnerFirst, FetchFirst,
     RestartFirst, WorldFirst DEF Next
<1> QED
  BY <1>1, <1>2

\* A note is stored only after the document of the same Bundle was rehearsed, for any
\* number of callers, Packs and notes: as long as the Bundle and its document are as
\* they were authenticated, the document opens the Bundle, also after a note whose
\* answer was lost and in every capture that failed later on (the order in
\* MigrationWorkflowEngine::capture).
THEOREM OfflineAlwaysFirst == Spec => []OfflineStandsFirst
<1> DEFINE Inv == SlotInv /\ Typed /\ FirstInv
<1>1. Init => Inv
  BY InitSlot, InitTyped, InitFirst
<1>2. Inv /\ [Next]_vars => Inv'
  BY NextSlot, NextTyped, NextFirst
<1>3. Inv => OfflineStandsFirst
  BY DEF FirstInv, DocumentFirst, OfflineStandsFirst, Later, Opens, Stands
<1> QED
  BY <1>1, <1>2, <1>3, PTL DEF Spec
================================================================================
