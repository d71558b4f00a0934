--------------------------- MODULE MigrationWorkflow ---------------------------
(***************************************************************************)
(* MigrationWorkflowEngine::capture: Pack, the offline document, the note  *)
(* in Vaultwarden, and the verification of the Bundle through both; then   *)
(* StoredRecoveryMethodEngine::load and a Verified Copy of the Bundle.     *)
(*                                                                         *)
(* The callers are threads of one process that share the engine and its    *)
(* slot for a paused Pack.  The secrets of a Pack live in memory until the *)
(* document and the note hold them, and a termination loses them.  Pack is *)
(* taken as one step with the outcomes that PackPromise allows it.         *)
(***************************************************************************)
EXTENDS OfflineRecovery, VaultwardenRecovery, VerifiedCopy

VARIABLES
  packed,    \* Packs begun so far, the older Bundle's included
  partial,   \* the partial Bundle saved at each caller's path
  paused,    \* paused_pack: the recovery context kept in memory
  result     \* the report of each caller's last complete capture

vars == <<worldVars, document, vaultVars, copyVars, packed, partial, paused, result>>

othersOfOffline == <<vaultVars, copyVars, packed, partial, paused, result>>
othersOfVault   == <<document, copyVars, packed, partial, paused, result>>
othersOfCopy    == <<document, vaultVars, packed, partial, paused, result>>

\* A partial Bundle, and whether its Pack was paused by this process.
Partial == [of : 0 .. MaxBundles, kept : BOOLEAN]

NoPartial == [of |-> NoBundle, kept |-> FALSE]

\* MigrationCaptureReport: the receipts and the reviewed hashes.
Result == [bundle : 0 .. MaxBundles, note : Nat, server : Servers \cup {NoServer},
           installed : 0 .. MaxChanges + 1]

NoResult == [bundle |-> NoBundle, note |-> 0, server |-> NoServer, installed |-> 0]

\* Every variable has its type; at most one call holds the lock on the slot,
\* and a copy runs for one call at most.
TypeOK ==
  /\ WorldTypeOK /\ OfflineTypeOK /\ VaultTypeOK /\ CopyTypeOK
  /\ packed \in Ids
  /\ partial \in [Callers -> Partial]
  /\ paused \in 0 .. MaxBundles
  /\ result \in [Callers -> Result]
  /\ \A c, d \in Callers : At(c, "pack") /\ At(d, "pack") => c = d
  /\ copying.phase = "none" <=> \A c \in Callers : ~At(c, "copy")

Init ==
  /\ WorldInit /\ OfflineInit /\ VaultInit /\ CopyInit
  /\ packed = Older
  /\ partial = [c \in Callers |-> NoPartial]
  /\ paused = NoBundle
  /\ result = [c \in Callers |-> NoResult]

(***************************************************************************)
(* Pack                                                                    *)
(***************************************************************************)
\* Mutant: the slot is read and emptied without the lock.
NoLock == TRUE

\* The lock of paused_pack, which a call holds during its Pack.
LockIsFree == \A c \in Callers : ~At(c, "pack")

\* The owner captures first and copies then.
Copyless ==
  /\ \A c \in Callers : call[c].phase \notin {"fetchdoc", "fetchcheck", "fetchnote", "copy"}
  /\ \A n \in Names : ~There(n)

\* Without resume_paused_pack, no Pack may be waiting in the slot.
SlotIsFree == paused = NoBundle

BeginFresh(c) ==
  /\ At(c, "idle") /\ LockIsFree /\ Copyless
  /\ SlotIsFree
  /\ packed < MaxBundles
  /\ packed' = packed + 1
  /\ Become(c, [Idle EXCEPT !.phase = "pack", !.secret = packed + 1])
  /\ result' = [result EXCEPT ![c] = NoResult]
  /\ UNCHANGED <<bundle, touched, harm, document, vaultVars, copyVars, partial, paused>>

\* With it, the recovery context is taken out of the slot.
BeginResume(c) ==
  /\ At(c, "idle") /\ LockIsFree /\ Copyless
  /\ paused # NoBundle
  /\ paused' = NoBundle
  /\ Become(c, [Idle EXCEPT !.phase = "pack", !.secret = paused, !.previous = paused])
  /\ result' = [result EXCEPT ![c] = NoResult]
  /\ UNCHANGED <<bundle, touched, harm, document, vaultVars, copyVars, packed, partial>>

\* Pack accepts the call: a fresh one finds nothing at its names, a resumed one
\* the partial Bundle of its context.
PackAccepts(c) ==
  /\ bundle[c] = NoBundle
  /\ partial[c].of = call[c].previous

\* The cancellation arrives: a checkpoint is saved, the report put in the slot.
PackPauses(c) ==
  /\ At(c, "pack") /\ PackAccepts(c)
  /\ partial' = [partial EXCEPT ![c] = [of |-> call[c].secret, kept |-> TRUE]]
  /\ paused' = call[c].secret
  /\ Fail(c)
  /\ UNCHANGED <<bundle, touched, harm, document, vaultVars, copyVars, packed, result>>

\* Mutant: the note is stored before the document is written.
VaultFirst == "inspect"

\* The offline document is the first thing that a completed Pack's secrets go to.
AfterPack == "write"

\* The Bundle is published and the lock dropped.
PackCompletes(c) ==
  /\ At(c, "pack") /\ PackAccepts(c)
  /\ bundle' = [bundle EXCEPT ![c] = call[c].secret]
  /\ partial' = [partial EXCEPT ![c] = NoPartial]
  /\ touched' = [touched EXCEPT ![c] = {}]
  /\ Goto(c, AfterPack)
  /\ UNCHANGED <<harm, document, vaultVars, copyVars, packed, paused, result>>

\* Mutant: the context is dropped with the error.
DroppedOnError(c) == paused

\* On an error the previous report is put back.
PutBack(c) == IF call[c].previous # NoBundle THEN call[c].previous ELSE paused

\* Pack refuses at once, or the storage does: before anything is written, with a
\* partial Bundle whose context is lost when this Pack was fresh, or after the
\* publication.
PackFails(c) ==
  /\ At(c, "pack")
  /\ paused' = PutBack(c)
  /\ Fail(c)
  /\ \/ /\ ~PackAccepts(c)
        /\ UNCHANGED <<bundle, partial, harm>>
     \/ /\ PackAccepts(c) /\ Spend("fault", MaxFaults)
        /\ \/ UNCHANGED <<bundle, partial>>
           \/ /\ call[c].previous = NoBundle
              /\ partial' = [partial EXCEPT ![c] = [of |-> call[c].secret, kept |-> FALSE]]
              /\ UNCHANGED bundle
           \/ /\ bundle' = [bundle EXCEPT ![c] = call[c].secret]
              /\ partial' = [partial EXCEPT ![c] = NoPartial]
  /\ UNCHANGED <<touched, document, vaultVars, copyVars, packed, result>>

(***************************************************************************)
(* The rest of capture                                                     *)
(***************************************************************************)
\* The owner reviews the installation, then the preflight, or gives the call up.
OwnerReviews(c) ==
  /\ \/ At(c, "reviewbw")    /\ Goto(c, "preflight")
     \/ At(c, "reviewvault") /\ Goto(c, "store")
     \/ call[c].phase \in {"reviewbw", "reviewvault"} /\ Fail(c)
  /\ UNCHANGED <<bundle, touched, harm, document, vaultVars, copyVars, packed,
                 partial, paused, result>>

\* BundleEngine::verify with the secret that the document returned.
VerifyOffline(c) ==
  /\ At(c, "verifydoc")
  /\ IF Verifies(c, call[c].loaded)
       THEN Become(c, [call[c] EXCEPT !.phase = "checkvault", !.verified = bundle[c]])
       ELSE Fail(c)
  /\ UNCHANGED <<bundle, touched, harm, document, vaultVars, copyVars, packed,
                 partial, paused, result>>

\* All four identities are one.
OneIdentity(c) ==
  /\ bundle[c] = call[c].verified
  /\ call[c].rehearsed = call[c].verified
  /\ call[c].named = call[c].verified

\* BundleEngine::verify with the secret of the note, and the report.
Complete(c) ==
  /\ At(c, "compare")
  /\ IF Verifies(c, call[c].loaded) /\ OneIdentity(c)
       THEN result' = [result EXCEPT ![c] =
              [bundle |-> bundle[c], note |-> call[c].note,
               server |-> call[c].server, installed |-> call[c].installed]]
       ELSE UNCHANGED result
  /\ Fail(c)
  /\ UNCHANGED <<bundle, touched, harm, document, vaultVars, copyVars, packed,
                 partial, paused>>

(***************************************************************************)
(* Stored methods and the copy                                             *)
(***************************************************************************)
\* The owner copies the Bundle of a complete capture, when no call runs, with
\* the locator of one method.
BeginCopy(c) ==
  /\ \A d \in Callers : At(d, "idle")
  /\ result[c] # NoResult
  /\ \E method \in {"fetchdoc", "fetchcheck"} :
       Become(c, [Idle EXCEPT !.phase = method, !.note = result[c].note,
                              !.server = result[c].server,
                              !.installed = result[c].installed])
  /\ UNCHANGED <<bundle, touched, harm, document, vaultVars, copyVars, packed,
                 partial, paused, result>>

\* StoredRecoveryMethodEngine::load, and copy_verified with what it loaded.
LoadForCopy(c) ==
  /\ \/ LoadDocument(c, "fetchdoc", "copy") /\ UNCHANGED vaultVars
     \/ LoadNote(c, "fetchnote", "copy") /\ UNCHANGED document
  /\ IF At(c, "idle")' THEN UNCHANGED <<copying, copied, moved>>
       ELSE /\ \E approved \in BOOLEAN :
                 copying' = [NoCopying EXCEPT !.phase = "open", !.approved = approved]
            /\ copied' = NoBundle
            /\ moved' = {}
  /\ UNCHANGED <<files, packed, partial, paused, result>>

(***************************************************************************)
(* The world                                                               *)
(***************************************************************************)
\* Any step that reads, writes or asks the network may fail.  A document whose
\* identity could not be read after its creation stays behind, empty.
Fault(c) ==
  /\ call[c].phase \notin {"idle", "pack", "abandon", "reviewbw", "reviewvault"}
  /\ copying.phase \notin {"saved", "unlink"}
  /\ Spend("fault", MaxFaults)
  /\ IF At(c, "copy") THEN EndCopy(c) ELSE Fail(c) /\ UNCHANGED copying
  /\ UNCHANGED <<bundle, touched, document, vaultVars, files, copied, moved, packed,
                 partial, paused, result>>

\* The process ends and another one is started with a session of its own.
Restart ==
  /\ Spend("fault", MaxFaults)
  /\ call' = [c \in Callers |-> Idle]
  /\ paused' = NoBundle
  /\ partial' = [c \in Callers |-> [of |-> partial[c].of, kept |-> FALSE]]
  /\ vault' = [vault EXCEPT !.open = TRUE]
  /\ copying' = NoCopying
  /\ UNCHANGED <<bundle, touched, document, installation, notes, files, copied,
                 moved, packed, result>>

\* A termination during Pack leaves its partial Bundle, a later one its Bundle.
RemovePartial(c) ==
  /\ partial[c] # NoPartial
  /\ Spend("change", MaxChanges)
  /\ partial' = [partial EXCEPT ![c] = NoPartial]
  /\ UNCHANGED <<bundle, call, touched, document, vaultVars, copyVars, packed,
                 paused, result>>

Holders(n) == {c \in Callers : n \in {call[c].note, result[c].note}}

\* Nobody can tell a client or a note changed before it was first observed.
Observed == \E c \in Callers : call[c].installed # 0 \/ result[c].installed # 0

World ==
  \/ \E c \in Callers :
       \/ ReplaceBundle(c)   /\ UNCHANGED <<document, othersOfOffline>>
       \/ ReplaceDocument(c) /\ UNCHANGED othersOfOffline
       \/ SpoilSource(c)     /\ UNCHANGED othersOfCopy
       \/ RemovePartial(c)
  \/ Observed /\ (ChangeInstallation \/ ChangeVault) /\ UNCHANGED othersOfVault
  \/ \E n \in 1 .. Len(notes) :
       Holders(n) # {} /\ EditNote(n, Holders(n)) /\ UNCHANGED othersOfVault
  \/ \E n \in Names : ReplaceFile(n) /\ UNCHANGED othersOfCopy

PackStep(c) ==
  BeginFresh(c) \/ BeginResume(c) \/ PackPauses(c) \/ PackCompletes(c) \/ PackFails(c)

OfflineStep(c) ==
  /\ \/ CreateDocument(c) \/ WriteDocument(c) \/ AbandonDocument(c)
     \/ RemoveFailed(c) \/ SynchronizeParent(c) \/ RehearseDocument(c)
     \/ LoadDocument(c, "loaddoc", "verifydoc")
  /\ UNCHANGED othersOfOffline

VaultStep(c) ==
  /\ \/ InspectInstallation(c) \/ Preflight(c) \/ CheckStore(c)
     \/ CreateNote(c) \/ LoseAnswer(c) \/ RehearseNote(c)
     \/ CheckVault(c, "checkvault", "loadnote") \/ LoadNote(c, "loadnote", "compare")
     \/ CheckVault(c, "fetchcheck", "fetchnote")
  /\ UNCHANGED othersOfVault

CopyStep(c) ==
  /\ \/ OpenSource(c) \/ CreatePartial(c) \/ CopyBytes(c)
     \/ AuthenticatePartial(c) \/ PublishCompleted(c) \/ ReopenCompleted(c)
     \/ LookAtSaved(c) \/ RemoveSaved(c) \/ ReturnReceipt(c)
  /\ UNCHANGED othersOfCopy

Next ==
  \/ \E c \in Callers :
       \/ PackStep(c) \/ OfflineStep(c) \/ VaultStep(c) \/ CopyStep(c)
       \/ OwnerReviews(c) \/ VerifyOffline(c) \/ Complete(c)
       \/ BeginCopy(c) \/ LoadForCopy(c)
       \/ Fault(c)
  \/ Restart
  \/ World

Spec == Init /\ [][Next]_vars

(***************************************************************************)
(* Properties                                                              *)
(***************************************************************************)
\* A note of this engine's is in the account of its server.
InAccount(n, s) == notes[n].server = s

\* When capture reports Complete, then whatever happened between its steps, the
\* document and the note that the receipts name each open the very Bundle at the
\* path, unless somebody changed one of them after it was last authenticated.
CompleteIsRecoverable ==
  \A c \in Callers : result[c] # NoResult =>
    LET id == result[c].bundle IN
    "bundle" \notin touched[c] =>
      /\ bundle[c] = id
      /\ "document" \notin touched[c] => document[c].holds = Of(id)
      /\ "note" \notin touched[c] =>
           /\ notes[result[c].note].holds = Of(id)
           /\ InAccount(result[c].note, result[c].server)

\* A note is only stored for a Bundle whose offline document already opens it:
\* whatever then becomes of the vault, the owner is left with that method, unless
\* somebody changed the document.
OfflineStandsFirst ==
  \A n \in 2 .. Len(notes), c \in Callers :
    (bundle[c] = notes[n].holds.opens /\ bundle[c] # Older /\ "document" \notin touched[c])
      => document[c].holds = Of(bundle[c])

\* While the process lives, the context of a paused Pack whose partial Bundle is
\* still saved is in the slot or with the call that resumes it: an error of that
\* call, or a capture by another thread, never loses it.
PausedIsKept ==
  \A c \in Callers : partial[c].kept =>
    \/ paused = partial[c].of
    \/ \E d \in Callers : At(d, "pack") /\ call[d].previous = partial[c].of

\* A copy that this engine published holds all the bytes of its Bundle, although
\* the source was overwritten while it was read, the copy was interrupted and
\* begun again, or the process ended at any step.
CopyIsWhole ==
  LET copy == files["copy"] IN
  copy.there /\ copy.version = 0 => Whole(copy, copy.of)

\* A receipt names a Bundle that the destination holds whole, although another
\* program may have put a file in place of the partial copy after it was
\* authenticated: unless one did so at the destination after that was opened.
ReceiptIsTrue ==
  copied # NoBundle => Whole(files["copy"], copied) \/ "copy" \in moved

OfWorld == harm'["change"] # harm["change"]

SavedGoes == There("partial") /\ ~There("partial")' /\ ~OfWorld

\* A saved partial copy disappears when it is published, or when its destination
\* holds all of the Bundle that it began, unless another program has changed the
\* one file since it was looked at, or the other since it was authenticated.
SavedPartialIsKept ==
  [][SavedGoes =>
       \/ files'["copy"] = files["partial"]
       \/ /\ Whole(files["copy"], copying.source) \/ "copy" \in moved
          /\ PrefixOf(files["partial"], copying.source) \/ "partial" \in moved]_vars
================================================================================
