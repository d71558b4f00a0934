----------------------------- MODULE VerifiedCopy ------------------------------
(***************************************************************************)
(* BundleEngine::copy_verified: the bytes of an authenticated Bundle are   *)
(* written to a partial file, authenticated there, and published under the *)
(* destination's name without replacing anything.                          *)
(*                                                                         *)
(* An interrupted copy leaves its partial file.  A later one may replace   *)
(* it, when the owner approves and its bytes are a prefix of the source:   *)
(* it writes beside it, and removes it once its own copy is authenticated. *)
(***************************************************************************)
EXTENDS RecoveryWorld

CONSTANT Blocks   \* reads that a copy of a Bundle takes

ASSUME BlocksAssumption == Blocks \in Nat \ {0}

VARIABLES
  files,    \* the files beside the destination
  copying,  \* the local state of the copy that runs
  copied,   \* the Bundle of the receipt that the last copy returned
  moved     \* files that others changed after this copy was authenticated

copyVars == <<files, copying, copied, moved>>

Names == {"copy", "partial", "resumed"}

\* A file and its identity: 0 when an engine made it, or the change that did.
File == [there : BOOLEAN, version : 0 .. MaxChanges, of : 0 .. MaxBundles,
         blocks : 0 .. Blocks, good : BOOLEAN]

NoFile == [there |-> FALSE, version |-> 0, of |-> 0, blocks |-> 0, good |-> TRUE]

\* A version that no file has.
Nothing == -1

Copying == [phase    : {"none", "open", "create", "bytes", "authenticate",
                        "publish", "reopen", "saved", "unlink", "receipt"},
            approved : BOOLEAN,                    \* replace_matching_partial
            source   : 0 .. MaxBundles,            \* the Bundle that was opened
            sound    : BOOLEAN,                    \* the open file still holds it
            replaced : Nothing .. MaxChanges,      \* replaced_partial_identity
            output   : Names]                      \* output_partial

NoCopying == [phase |-> "none", approved |-> FALSE, source |-> 0, sound |-> TRUE,
              replaced |-> Nothing, output |-> "partial"]

CopyTypeOK ==
  /\ files \in [Names -> File]
  /\ copying \in Copying
  /\ copied \in 0 .. MaxBundles
  /\ moved \in SUBSET Names

CopyInit ==
  /\ files = [n \in Names |-> NoFile]
  /\ copying = NoCopying
  /\ copied = NoBundle
  /\ moved = {}

(***************************************************************************)
(* Files                                                                   *)
(***************************************************************************)
There(n) == files[n].there

\* The bytes are the first ones of the Bundle, or all of them.
PrefixOf(file, id) == file.there /\ file.good /\ file.of = id /\ file.blocks > 0

Whole(file, id) == PrefixOf(file, id) /\ file.blocks = Blocks

Step(c, p) == At(c, "copy") /\ copying.phase = p

Proceed(p) == copying' = [copying EXCEPT !.phase = p]

EndCopy(c) == Fail(c) /\ copying' = NoCopying

(***************************************************************************)
(* copy_verified                                                           *)
(***************************************************************************)
\* The source is opened and authenticated, the destination must be free, and
\* a partial file there must be a prefix of the source.
OpenSource(c) ==
  /\ Step(c, "open")
  /\ IF /\ Verifies(c, call[c].loaded)
        /\ ~There("copy")
        /\ There("partial") =>
             /\ copying.approved /\ PrefixOf(files["partial"], bundle[c])
             /\ ~There("resumed")
       THEN /\ copying' = [copying EXCEPT
                 !.phase = "create",
                 !.source = bundle[c],
                 !.replaced = IF There("partial") THEN files["partial"].version ELSE Nothing,
                 !.output = IF There("partial") THEN "resumed" ELSE "partial"]
            /\ UNCHANGED call
       ELSE EndCopy(c)
  /\ UNCHANGED <<files, copied, moved, bundle, touched, harm>>

CreatePartial(c) ==
  /\ Step(c, "create")
  /\ IF ~There(copying.output)
       THEN /\ files' = [files EXCEPT ![copying.output] =
                 [NoFile EXCEPT !.there = TRUE, !.of = copying.source]]
            /\ Proceed("bytes")
            /\ UNCHANGED call
       ELSE EndCopy(c) /\ UNCHANGED files
  /\ UNCHANGED <<copied, moved, bundle, touched, harm>>

\* One read and one write, through the open files.  The owner's cancellation is
\* read after it: the partial file is synchronized and stays.
CopyBytes(c) ==
  /\ Step(c, "bytes")
  /\ LET output == files[copying.output] IN
     /\ IF output.there /\ output.version = 0
          THEN files' = [files EXCEPT ![copying.output].blocks = @ + 1,
                                      ![copying.output].good = @ /\ copying.sound]
          ELSE UNCHANGED files
     /\ \/ EndCopy(c)
        \/ /\ output.there /\ output.version = 0 /\ output.blocks + 1 < Blocks
           /\ UNCHANGED <<copying, call>>
        \/ /\ ~(output.there /\ output.version = 0 /\ output.blocks + 1 < Blocks)
           /\ Proceed("authenticate")
           /\ UNCHANGED call
  /\ UNCHANGED <<copied, moved, bundle, touched, harm>>

\* Mutant: the bytes that were written are not authenticated.
OutputIsThere == There(copying.output)

\* The whole partial file opens with the secret and matches the source.
OutputMatches == Whole(files[copying.output], copying.source)

AuthenticatePartial(c) ==
  /\ Step(c, "authenticate")
  /\ IF OutputMatches
       THEN Proceed("publish") /\ UNCHANGED call
       ELSE EndCopy(c)
  /\ UNCHANGED <<files, copied, moved, bundle, touched, harm>>

\* exclusive_rename of whatever has the partial name, then the directory is
\* synchronized.
PublishCompleted(c) ==
  /\ Step(c, "publish")
  /\ IF There(copying.output) /\ ~There("copy")
       THEN /\ files' = [files EXCEPT !["copy"] = files[copying.output],
                                      ![copying.output] = NoFile]
            /\ Proceed("reopen")
            /\ UNCHANGED call
       ELSE EndCopy(c) /\ UNCHANGED files
  /\ UNCHANGED <<copied, moved, bundle, touched, harm>>

\* Mutant: the destination is not compared with the source.
CopyIsThere == There("copy")

\* The file at the destination opens with the secret and matches the source.
CopyMatches == Whole(files["copy"], copying.source)

\* The destination is opened, and what was opened is authenticated and compared:
\* another program may give the name to another file meanwhile.
ReopenCompleted(c) ==
  /\ Step(c, "reopen")
  /\ IF CopyMatches
       THEN /\ Proceed(IF copying.replaced # Nothing THEN "saved" ELSE "receipt")
            /\ UNCHANGED call
       ELSE EndCopy(c)
  /\ UNCHANGED <<files, copied, moved, bundle, touched, harm>>

\* Mutant: the saved partial file is removed whatever it is.
SavedIsThere == There("partial")

\* The saved partial file is still the one that was compared.
SavedIsTheSame == There("partial") /\ copying.replaced = files["partial"].version

\* The saved partial file is looked at, by its device and inode.
LookAtSaved(c) ==
  /\ Step(c, "saved")
  /\ Proceed(IF SavedIsTheSame THEN "unlink" ELSE "receipt")
  /\ moved' = moved \ {"partial"}
  /\ UNCHANGED <<files, copied, call, bundle, touched, harm>>

\* It is removed by name, whatever is there now.  A removal that the storage
\* refuses is ignored.
RemoveSaved(c) ==
  /\ Step(c, "unlink")
  /\ files' \in {files, [files EXCEPT !["partial"] = NoFile]}
  /\ Proceed("receipt")
  /\ UNCHANGED <<copied, moved, call, bundle, touched, harm>>

\* The receipt, with the identity of the file that has the destination's name.
ReturnReceipt(c) ==
  /\ Step(c, "receipt")
  /\ copied' = IF There("copy") THEN copying.source ELSE copied
  /\ EndCopy(c)
  /\ UNCHANGED <<files, moved, bundle, touched, harm>>

(***************************************************************************)
(* The world                                                               *)
(***************************************************************************)
\* The destination was reopened and authenticated.
Reopened == {"saved", "unlink", "receipt"}

\* Another program removes a file, or writes one of its own in its place.
ReplaceFile(n) ==
  /\ copying.phase # "none"
  /\ Spend("change", MaxChanges)
  /\ \E file \in {NoFile,
                  [there |-> TRUE, version |-> harm["change"] + 1, of |-> NoBundle,
                   blocks |-> 1, good |-> FALSE]} :
       file # files[n] /\ files' = [files EXCEPT ![n] = file]
  /\ moved' = IF copying.phase \in Reopened THEN moved \cup {n} ELSE moved
  /\ UNCHANGED <<copying, copied, bundle, call, touched>>

\* The source is overwritten while the copy has it open.
SpoilSource(c) ==
  /\ At(c, "copy") /\ copying.phase \in {"create", "bytes"} /\ copying.sound
  /\ Spend("change", MaxChanges)
  /\ copying' = [copying EXCEPT !.sound = FALSE]
  /\ bundle' = [bundle EXCEPT ![c] = NoBundle]
  /\ Touch(c, "bundle")
  /\ UNCHANGED <<files, copied, moved, call>>
================================================================================
