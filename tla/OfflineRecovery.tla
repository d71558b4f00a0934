---------------------------- MODULE OfflineRecovery ----------------------------
(***************************************************************************)
(* OfflineRecoveryEngine: the document that holds the Offline Recovery     *)
(* Key is created under its final name, written, synchronized, and read    *)
(* back to open the Bundle.                                                *)
(***************************************************************************)
EXTENDS RecoveryWorld

VARIABLE document   \* the file at each caller's document path

\* The file is the one that the caller's engine created, or another's.
Document == [file : {"none", "own", "other"}, holds : Content]

NoDocument == [file |-> "none", holds |-> Torn]

OfflineTypeOK == document \in [Callers -> Document]

OfflineInit == document = [c \in Callers |-> NoDocument]

(***************************************************************************)
(* write                                                                   *)
(***************************************************************************)
\* The completed Bundle is authenticated with the secret to be written, then
\* the document is created exclusively.
CreateDocument(c) ==
  /\ At(c, "write")
  /\ IF Verifies(c, call[c].secret) /\ document[c].file = "none"
       THEN /\ document' = [document EXCEPT ![c] = [file |-> "own", holds |-> Torn]]
            /\ Goto(c, "persist")
       ELSE Fail(c) /\ UNCHANGED document
  /\ UNCHANGED <<bundle, touched, harm>>

\* The open file is written and synchronized; the name may be another's by now.
WriteDocument(c) ==
  /\ At(c, "persist")
  /\ document' = [document EXCEPT ![c] =
       IF @.file = "own" THEN [@ EXCEPT !.holds = Of(call[c].secret)] ELSE @]
  /\ Goto(c, "syncdoc")
  /\ UNCHANGED <<bundle, touched, harm>>

\* Restricting, writing or synchronizing the document failed: the file at the
\* name is looked at, and is to be removed if it is the one that was created, by
\* its device and inode.
AbandonDocument(c) ==
  /\ At(c, "persist")
  /\ Spend("fault", MaxFaults)
  /\ IF document[c].file = "own" THEN Goto(c, "abandon") ELSE Fail(c)
  /\ UNCHANGED <<document, bundle, touched>>

\* remove_owned_failed_document removes by name whatever is there now.  A removal
\* that the storage refuses is ignored.
RemoveFailed(c) ==
  /\ At(c, "abandon")
  /\ document' \in {document, [document EXCEPT ![c] = NoDocument]}
  /\ Fail(c)
  /\ UNCHANGED <<bundle, touched, harm>>

SynchronizeParent(c) ==
  /\ At(c, "syncdoc")
  /\ Goto(c, "rehearse")
  /\ UNCHANGED <<document, bundle, touched, harm>>

(***************************************************************************)
(* load                                                                    *)
(***************************************************************************)
\* decode_document succeeded, its secret opens the Bundle at the path, and the
\* identity beside it is that Bundle's.
DocumentOpens(c) ==
  /\ document[c].file # "none"
  /\ Verifies(c, document[c].holds.opens)
  /\ document[c].holds.names = bundle[c]

\* rehearse: a load whose identities become the receipt.
RehearseDocument(c) ==
  /\ At(c, "rehearse")
  /\ IF DocumentOpens(c)
       THEN /\ Become(c, [call[c] EXCEPT !.phase = "inspect",
                                         !.rehearsed = document[c].holds.names])
            /\ Settled(c, {"bundle", "document"})
       ELSE Fail(c) /\ UNCHANGED touched
  /\ UNCHANGED <<document, bundle, harm>>

LoadDocument(c, from, to) ==
  /\ At(c, from)
  /\ IF DocumentOpens(c)
       THEN /\ Become(c, [call[c] EXCEPT !.phase = to,
                                         !.loaded = document[c].holds.opens])
            /\ Settled(c, {"bundle", "document"})
       ELSE Fail(c) /\ UNCHANGED touched
  /\ UNCHANGED <<document, bundle, harm>>

\* Another program removes the document, or puts the older one in its place,
\* or a text that names this Bundle beside the older secret.
ReplaceDocument(c) ==
  /\ document[c].file # "none"
  /\ Spend("change", MaxChanges)
  /\ \E other \in {NoDocument,
                   [file |-> "other", holds |-> Of(Older)],
                   [file |-> "other", holds |->
                      [opens |-> document[c].holds.opens, names |-> Older]]} :
       /\ other # document[c]
       /\ document' = [document EXCEPT ![c] = other]
  /\ Touch(c, "document")
  /\ UNCHANGED <<bundle, call>>
================================================================================
