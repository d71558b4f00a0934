-------------------------- MODULE VaultwardenRecovery --------------------------
(***************************************************************************)
(* VaultwardenRecoveryEngine: the Vaultwarden Recovery Secret is stored as *)
(* a note through the official Bitwarden client, read back and rehearsed.  *)
(*                                                                         *)
(* The client is an executable that may be exchanged, its vault may be     *)
(* locked or logged in to another server, and its notes may be edited from *)
(* another device, all between two commands.  The session that the process *)
(* was started with is good for one login only.                            *)
(***************************************************************************)
EXTENDS RecoveryWorld

CONSTANT MaxNotes   \* notes that are ever created, the older one included

ASSUME NotesAssumption == MaxNotes \in Nat \ {0}

VARIABLES
  installation,   \* the version of the executable, counted from 1
  vault,          \* the server of the login, and whether the session opens it
  notes           \* the note of each identifier; a deleted one is nowhere

vaultVars == <<installation, vault, notes>>

Nowhere == "nowhere"

Note == [server : Servers \cup {Nowhere}, holds : Content]

VaultTypeOK ==
  /\ installation \in 1 .. MaxChanges + 1
  /\ vault \in [server : Servers, open : BOOLEAN]
  /\ notes \in Seq(Note) /\ Len(notes) <= MaxNotes

VaultInit ==
  /\ installation = 1
  /\ \E s \in Servers :
       /\ vault = [server |-> s, open |-> TRUE]
       /\ notes = << [server |-> s, holds |-> Of(Older)] >>

\* status reports an unlocked vault, and a command gets its answer.
Unlocked == vault.open

\* Every command revalidates the executable that was reviewed.
Reviewed(c) == installation = call[c].installed

\* get_recovery_note finds the item of one identifier in the account.
Stored(n) == n \in 1 .. Len(notes) /\ notes[n].server = vault.server

Held(n) == notes[n].holds

(***************************************************************************)
(* The steps before anything is created                                    *)
(***************************************************************************)
InspectInstallation(c) ==
  /\ At(c, "inspect")
  /\ Become(c, [call[c] EXCEPT !.phase = "reviewbw", !.installed = installation])
  /\ UNCHANGED <<vaultVars, bundle, touched, harm>>

\* The server, the account and the Bundle that the owner is to review.
Preflight(c) ==
  /\ At(c, "preflight")
  /\ IF Reviewed(c) /\ Unlocked /\ Verifies(c, call[c].secret)
       THEN Become(c, [call[c] EXCEPT !.phase = "reviewvault",
                                      !.server = vault.server, !.named = bundle[c]])
       ELSE Fail(c)
  /\ UNCHANGED <<vaultVars, bundle, touched, harm>>

SameServer(c) == vault.server = call[c].server

\* store_and_rehearse, up to the creation.
CheckStore(c) ==
  /\ At(c, "store")
  /\ IF /\ Reviewed(c) /\ Unlocked /\ SameServer(c)
        /\ Verifies(c, call[c].secret) /\ bundle[c] = call[c].named
       THEN Goto(c, "create")
       ELSE Fail(c)
  /\ UNCHANGED <<vaultVars, bundle, touched, harm>>

(***************************************************************************)
(* The creation and the rehearsal of the note                              *)
(***************************************************************************)
NewNote(c) == [server |-> vault.server,
               holds  |-> [opens |-> call[c].secret, names |-> call[c].named]]

\* create_recovery_note: with an answer the item's identifier is kept.
CreateNote(c) ==
  /\ At(c, "create")
  /\ Len(notes) < MaxNotes
  /\ IF Reviewed(c) /\ Unlocked
       THEN /\ notes' = Append(notes, NewNote(c))
            /\ Become(c, [call[c] EXCEPT !.phase = "readback", !.note = Len(notes) + 1])
            /\ touched' = [touched EXCEPT ![c] = @ \ {"note"}]
       ELSE Fail(c) /\ UNCHANGED <<notes, touched>>
  /\ UNCHANGED <<installation, vault, bundle, harm>>

\* The item is created and the answer lost, or rejected: no identifier is known.
LoseAnswer(c) ==
  /\ At(c, "create")
  /\ Len(notes) < MaxNotes
  /\ Reviewed(c) /\ Unlocked
  /\ Spend("fault", MaxFaults)
  /\ notes' = Append(notes, NewNote(c))
  /\ Fail(c)
  /\ UNCHANGED <<installation, vault, bundle, touched>>

\* synchronize, get_recovery_note, every field compared with the preflight,
\* and the Bundle opened with the secret that came back.
NoteRehearses(c) ==
  /\ Reviewed(c) /\ Unlocked /\ Stored(call[c].note)
  /\ Held(call[c].note).names = call[c].named
  /\ Verifies(c, Held(call[c].note).opens)
  /\ bundle[c] = call[c].named

\* Verified, or ItemCreatedButUnverified, which ends the capture.
RehearseNote(c) ==
  /\ At(c, "readback")
  /\ IF NoteRehearses(c) THEN Goto(c, "loaddoc") ELSE Fail(c)
  /\ UNCHANGED <<vaultVars, bundle, touched, harm>>

(***************************************************************************)
(* load                                                                    *)
(***************************************************************************)
CheckVault(c, from, to) ==
  /\ At(c, from)
  /\ IF Reviewed(c) /\ Unlocked /\ SameServer(c) THEN Goto(c, to) ELSE Fail(c)
  /\ UNCHANGED <<vaultVars, bundle, touched, harm>>

\* Mutant: the note that comes back is not tried on the Bundle.
NoteIsThere(c) == Reviewed(c) /\ Unlocked /\ Stored(call[c].note)

NoteOpens(c) ==
  /\ Reviewed(c) /\ Unlocked /\ Stored(call[c].note)
  /\ Verifies(c, Held(call[c].note).opens)
  /\ Held(call[c].note).names = bundle[c]

LoadNote(c, from, to) ==
  /\ At(c, from)
  /\ IF NoteOpens(c)
       THEN /\ Become(c, [call[c] EXCEPT !.phase = to,
                                         !.loaded = Held(call[c].note).opens])
            /\ Settled(c, {"bundle", "note"})
       ELSE Fail(c) /\ UNCHANGED touched
  /\ UNCHANGED <<vaultVars, bundle, harm>>

(***************************************************************************)
(* The world                                                               *)
(***************************************************************************)
\* The client is updated or exchanged.
ChangeInstallation ==
  /\ Spend("change", MaxChanges)
  /\ installation' = installation + 1
  /\ UNCHANGED <<vault, notes, bundle, call, touched>>

\* The vault is locked, or logged in to a server: the session opens it no more.
ChangeVault ==
  /\ Spend("change", MaxChanges)
  /\ \E s \in Servers : vault' = [server |-> s, open |-> FALSE]
  /\ UNCHANGED <<installation, notes, bundle, call, touched>>

\* Another device deletes the note, or edits what it holds.  The calls and the
\* receipts that name it are those of the holders.
EditNote(n, holders) ==
  /\ n \in 1 .. Len(notes) /\ notes[n].server # Nowhere
  /\ Spend("change", MaxChanges)
  /\ \E note \in {[notes[n] EXCEPT !.server = Nowhere],
                  [notes[n] EXCEPT !.holds = Of(Older)],
                  [notes[n] EXCEPT !.holds.names = Older]} :
       note # notes[n] /\ notes' = [notes EXCEPT ![n] = note]
  /\ touched' = [c \in Callers |->
       IF c \in holders THEN touched[c] \cup {"note"} ELSE touched[c]]
  /\ UNCHANGED <<installation, vault, bundle, call>>
================================================================================
