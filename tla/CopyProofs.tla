------------------------------- MODULE CopyProofs ------------------------------
(***************************************************************************)
(* Theorems of the Verified Copy inside MigrationWorkflow, and the type    *)
(* invariant of the whole, which needs that at most one copy runs.         *)
(***************************************************************************)
EXTENDS MigrationProofs

(***************************************************************************)
(* The files                                                               *)
(***************************************************************************)
\* An engine made the file, and nobody put another one in its place.
OwnFile(n) == There(n) /\ files[n].version = 0

\* No file, and no identity that a copy remembers, is newer than the last change.
Versioned ==
  /\ \A n \in Names : files[n].version <= harm["change"]
  /\ copying.replaced <= harm["change"]
  /\ copying.output # "copy"

\* A copy that has bytes to write has room for them.
HasRoom ==
  copying.phase = "bytes" /\ OwnFile(copying.output) => files[copying.output].blocks < Blocks

\* What a copy is about to publish was authenticated, unless it was replaced since.
Authenticated ==
  copying.phase = "publish" /\ OwnFile(copying.output)
    => Whole(files[copying.output], copying.source)

\* A copy that replaces a saved partial file writes beside it, and the file that it
\* remembers is the one that it compared.
RemembersSaved ==
  copying.replaced # Nothing =>
    /\ copying.output = "resumed"
    /\ files["partial"].version = copying.replaced /\ There("partial")
         => PrefixOf(files["partial"], copying.source)

FilesInv == CopyTypeOK /\ Versioned /\ HasRoom /\ Authenticated /\ RemembersSaved /\ CopyIsWhole

\* What a copy knows once it has opened and authenticated its destination, unless
\* another program has put a file there since.
CopyStands ==
  copying.phase \in Reopened => Whole(files["copy"], copying.source) \/ "copy" \in moved

\* And once it has looked at the saved partial file.
LookedAt ==
  copying.phase = "unlink" /\ There("partial")
    => PrefixOf(files["partial"], copying.source) \/ "partial" \in moved

\* A copy that runs has given no receipt.
NoReceiptYet == copying.phase # "none" => copied = NoBundle

ReceiptInv == CopyStands /\ LookedAt /\ NoReceiptYet /\ ReceiptIsTrue

LEMMA CopyConstants ==
  /\ Nothing \in Int /\ NoFile \in File /\ NoCopying \in Copying
  /\ Blocks \in Nat \ {0} /\ MaxBundles \in Nat /\ MaxChanges \in Nat
<1>1. Blocks \in Nat \ {0} /\ MaxBundles \in Nat /\ MaxChanges \in Nat
  BY BlocksAssumption, WorldBounds
<1> QED
  BY <1>1 DEF Nothing, NoFile, File, NoCopying, Copying, Names

\* No copy runs, or one has opened nothing yet.
AtRest(k) ==
  k \in Copying /\ k.phase \in {"none", "open"} /\ k.replaced = Nothing /\ k.output = "partial"

LEMMA AreAtRest ==
  /\ AtRest(NoCopying)
  /\ \A approved \in BOOLEAN : AtRest([NoCopying EXCEPT !.phase = "open", !.approved = approved])
<1>1. AtRest(NoCopying)
  BY CopyConstants DEF AtRest, NoCopying
<1>2. ASSUME NEW approved \in BOOLEAN
      PROVE  AtRest([NoCopying EXCEPT !.phase = "open", !.approved = approved])
  <2>1. [NoCopying EXCEPT !.phase = "open", !.approved = approved] \in Copying
    BY CopyConstants DEF Copying
  <2> QED
    BY <2>1 DEF AtRest, NoCopying
<1> QED
  BY <1>1, <1>2

LEMMA EndsAtRest ==
  ASSUME copying' = NoCopying
  PROVE  AtRest(copying')
  BY AreAtRest DEF AtRest

\* Later changes make no version newer, and the end of a copy forgets nothing else.
LEMMA FilesKept ==
  ASSUME FilesInv, UNCHANGED files, copied' \in 0 .. MaxBundles, moved' \in SUBSET Names,
         harm["change"] \in Nat, harm'["change"] \in Nat, harm'["change"] >= harm["change"],
         UNCHANGED copying \/ AtRest(copying')
  PROVE  FilesInv'
<1>1. CopyTypeOK' /\ CopyIsWhole'
  BY DEF FilesInv, CopyTypeOK, CopyIsWhole, Whole, PrefixOf, AtRest
<1>2. \A n \in Names : files'[n].version <= harm'["change"]
  <2>1. \A n \in Names : files[n].version \in Nat /\ files[n].version <= harm["change"]
    BY CopyConstants DEF FilesInv, Versioned, CopyTypeOK, File
  <2> QED
    BY <2>1
<1>3. CASE UNCHANGED copying
  <2>1. copying.replaced \in Int
    BY CopyConstants DEF FilesInv, CopyTypeOK, Copying
  <2>2. Versioned'
    BY <1>2, <1>3, <2>1 DEF FilesInv, Versioned
  <2>3. HasRoom' /\ Authenticated' /\ RemembersSaved'
    BY <1>3 DEF FilesInv, HasRoom, Authenticated, RemembersSaved, OwnFile, There, Whole, PrefixOf
  <2> QED
    BY <1>1, <2>2, <2>3 DEF FilesInv
<1>4. CASE AtRest(copying')
  <2>1. Versioned'
    BY <1>2, <1>4 DEF Versioned, AtRest, Nothing
  <2> QED
    BY <1>1, <1>4, <2>1 DEF FilesInv, HasRoom, Authenticated, RemembersSaved, AtRest
<1> QED
  BY <1>3, <1>4

(***************************************************************************)
(* The steps of the copy                                                   *)
(***************************************************************************)
LEMMA OpenSourceFiles ==
  ASSUME Typed, FilesInv, NEW c \in Callers, OpenSource(c)
  PROVE  FilesInv'
<1>1. /\ UNCHANGED <<files, harm>> /\ harm["change"] \in Nat
      /\ copied' \in 0 .. MaxBundles /\ moved' \in SUBSET Names
      /\ bundle[c] \in 0 .. MaxBundles
  BY DEF OpenSource, Typed, WorldTypeOK, FilesInv, CopyTypeOK
<1>2. CASE copying' = NoCopying
  BY <1>1, <1>2, FilesKept, EndsAtRest
<1>3. CASE copying' # NoCopying
  <2>1. /\ copying' = [copying EXCEPT
             !.phase = "create",
             !.source = bundle[c],
             !.replaced = IF There("partial") THEN files["partial"].version ELSE Nothing,
             !.output = IF There("partial") THEN "resumed" ELSE "partial"]
        /\ There("partial") => PrefixOf(files["partial"], bundle[c])
    BY <1>3 DEF OpenSource, EndCopy
  <2>2. files["partial"].version \in 0 .. MaxChanges
        /\ files["partial"].version <= harm["change"]
    BY DEF FilesInv, CopyTypeOK, Versioned, File, Names
  <2>3. copying \in Copying
    BY DEF FilesInv, CopyTypeOK
  <2>4. /\ copying'.phase = "create" /\ copying'.source = bundle[c]
        /\ copying'.replaced = (IF There("partial") THEN files["partial"].version ELSE Nothing)
        /\ copying'.output = (IF There("partial") THEN "resumed" ELSE "partial")
    BY <2>1, <2>3 DEF Copying
  <2>5. copying' \in Copying
    <3> DEFINE old == IF There("partial") THEN files["partial"].version ELSE Nothing
               out == IF There("partial") THEN "resumed" ELSE "partial"
    <3>1. old \in Nothing .. MaxChanges /\ out \in Names
      BY <2>2, CopyConstants DEF Nothing, Names
    <3> HIDE DEF old, out
    <3>2. copying' = [copying EXCEPT !.phase = "create", !.source = bundle[c],
                                     !.replaced = old, !.output = out]
      BY <2>1 DEF old, out
    <3> QED
      BY <1>1, <2>3, <3>1, <3>2 DEF Copying
  <2>6. CopyTypeOK' /\ CopyIsWhole'
    BY <1>1, <2>5 DEF FilesInv, CopyTypeOK, CopyIsWhole, Whole, PrefixOf
  <2>7. Versioned'
    BY <1>1, <2>2, <2>4 DEF FilesInv, Versioned, Nothing
  <2>8. RemembersSaved'
    BY <1>1, <2>1, <2>4 DEF RemembersSaved, PrefixOf, There
  <2> QED
    BY <2>4, <2>6, <2>7, <2>8 DEF FilesInv, HasRoom, Authenticated
<1> QED
  BY <1>2, <1>3

LEMMA CreatePartialFiles ==
  ASSUME Typed, FilesInv, NEW c \in Callers, CreatePartial(c)
  PROVE  FilesInv'
<1>1. /\ UNCHANGED harm /\ harm["change"] \in Nat
      /\ copied' \in 0 .. MaxBundles /\ moved' \in SUBSET Names
  BY DEF CreatePartial, Typed, WorldTypeOK, FilesInv, CopyTypeOK
<1>2. CASE copying' = NoCopying
  <2>1. UNCHANGED files
    BY <1>2 DEF CreatePartial, Proceed, NoCopying, FilesInv, CopyTypeOK, Copying
  <2> QED
    BY <1>1, <1>2, <2>1, FilesKept, EndsAtRest
<1>3. CASE copying' # NoCopying
  <2> DEFINE out == copying.output
             new == [NoFile EXCEPT !.there = TRUE, !.of = copying.source]
  <2>1. /\ files' = [files EXCEPT ![out] = new]
        /\ copying' = [copying EXCEPT !.phase = "bytes"]
        /\ ~There(out)
    BY <1>3 DEF CreatePartial, EndCopy, Proceed
  <2>2. copying \in Copying /\ out \in Names /\ out # "copy" /\ files \in [Names -> File]
    BY DEF FilesInv, CopyTypeOK, Copying, Versioned
  <2>3. /\ new.version = 0 /\ new.blocks = 0 /\ new \in File
    BY <2>2, CopyConstants DEF NoFile, File, Copying
  <2>4. \A n \in Names : files'[n] = IF n = out THEN new ELSE files[n]
    BY <2>1, <2>2
  <2>5. /\ copying'.phase = "bytes" /\ copying'.source = copying.source
        /\ copying'.replaced = copying.replaced /\ copying'.output = out
        /\ copying' \in Copying
    BY <2>1, <2>2 DEF Copying
  <2> HIDE DEF new
  <2>6. CopyTypeOK'
    BY <1>1, <2>1, <2>2, <2>3, <2>5 DEF FilesInv, CopyTypeOK
  <2>7. CopyIsWhole'
    BY <2>2, <2>4 DEF FilesInv, CopyIsWhole, Whole, PrefixOf, Names
  <2>8. Versioned'
    BY <1>1, <2>2, <2>3, <2>4, <2>5 DEF FilesInv, Versioned
  <2>9. HasRoom' /\ Authenticated'
    BY <2>2, <2>3, <2>4, <2>5, CopyConstants DEF HasRoom, Authenticated
  <2>10. RemembersSaved'
    BY <2>2, <2>4, <2>5 DEF FilesInv, RemembersSaved, There, PrefixOf, Names
  <2> QED
    BY <2>6, <2>7, <2>8, <2>9, <2>10 DEF FilesInv
<1> QED
  BY <1>2, <1>3

LEMMA CopyBytesFiles ==
  ASSUME Typed, FilesInv, NEW c \in Callers, CopyBytes(c)
  PROVE  FilesInv'
<1> DEFINE out == copying.output
           more == [files[out] EXCEPT !.blocks = @ + 1, !.good = @ /\ copying.sound]
<1>1. /\ UNCHANGED harm /\ harm["change"] \in Nat /\ copying.phase = "bytes"
      /\ copied' \in 0 .. MaxBundles /\ moved' \in SUBSET Names
      /\ copying \in Copying /\ out \in Names /\ out # "copy" /\ files \in [Names -> File]
  BY DEF CopyBytes, Step, Typed, WorldTypeOK, FilesInv, CopyTypeOK, Copying, Versioned
<1>2. \A n \in Names : files'[n] = IF n = out /\ OwnFile(out) THEN more ELSE files[n]
  BY <1>1 DEF CopyBytes, OwnFile, There, File
<1>3. OwnFile(out) => /\ more \in File /\ more.version = 0
                      /\ more.blocks = files[out].blocks + 1
  <2>1. files[out] \in File /\ copying.sound \in BOOLEAN
    BY <1>1 DEF Copying
  <2>2. OwnFile(out) => files[out].blocks + 1 \in 0 .. Blocks
    BY <1>1, <2>1, CopyConstants DEF FilesInv, HasRoom, File
  <2>3. (files[out].good /\ copying.sound) \in BOOLEAN
    OBVIOUS
  <2> QED
    BY <2>1, <2>2, <2>3 DEF File, OwnFile
<1>4. files' \in [Names -> File]
  <2>1. files' = [n \in Names |-> files'[n]]
    BY <1>1 DEF CopyBytes
  <2>2. \A n \in Names : files'[n] \in File
    BY <1>1, <1>2, <1>3
  <2> QED
    BY <2>1, <2>2
<1> HIDE DEF more
<1>5. /\ copying' \in Copying
      /\ copying'.replaced \in {copying.replaced, Nothing}
      /\ copying'.replaced # Nothing => copying'.source = copying.source
                                        /\ copying'.output = out
      /\ copying'.output # "copy"
      /\ copying'.phase \in {"none", "bytes", "authenticate"}
      /\ copying'.phase = "bytes" =>
           /\ UNCHANGED copying
           /\ OwnFile(out) /\ files[out].blocks + 1 < Blocks
  <2>1. CASE copying' = NoCopying
    BY <2>1, EndsAtRest DEF AtRest, NoCopying
  <2>2. CASE UNCHANGED copying /\ OwnFile(out) /\ files[out].blocks + 1 < Blocks
    BY <1>1, <2>2
  <2>3. CASE copying' = [copying EXCEPT !.phase = "authenticate"]
    BY <1>1, <2>3 DEF Copying
  <2> QED
    BY <2>1, <2>2, <2>3 DEF CopyBytes, EndCopy, Proceed, OwnFile, There
<1>6. CopyTypeOK'
  BY <1>1, <1>4, <1>5 DEF FilesInv, CopyTypeOK
<1>7. CopyIsWhole'
  BY <1>1, <1>2 DEF FilesInv, CopyIsWhole, Whole, PrefixOf, Names
<1>8. Versioned'
  BY <1>1, <1>2, <1>3, <1>5 DEF FilesInv, Versioned, Nothing, CopyTypeOK, File
<1>9. HasRoom' /\ Authenticated'
  BY <1>1, <1>2, <1>3, <1>5 DEF HasRoom, Authenticated
<1>10. RemembersSaved'
  BY <1>1, <1>2, <1>5 DEF FilesInv, RemembersSaved, There, PrefixOf, Names
<1> QED
  BY <1>6, <1>7, <1>8, <1>9, <1>10 DEF FilesInv

LEMMA AuthenticateFiles ==
  ASSUME Typed, FilesInv, NEW c \in Callers, AuthenticatePartial(c)
  PROVE  FilesInv'
<1>1. /\ UNCHANGED <<files, harm>> /\ harm["change"] \in Nat /\ copying \in Copying
      /\ copied' \in 0 .. MaxBundles /\ moved' \in SUBSET Names
  BY DEF AuthenticatePartial, Typed, WorldTypeOK, FilesInv, CopyTypeOK
<1>2. CASE copying' = NoCopying
  BY <1>1, <1>2, FilesKept, EndsAtRest
<1>3. CASE copying' # NoCopying
  <2>1. OutputMatches /\ copying' = [copying EXCEPT !.phase = "publish"]
    BY <1>3 DEF AuthenticatePartial, EndCopy, Proceed
  <2>2. /\ copying'.phase = "publish" /\ copying'.source = copying.source
        /\ copying'.replaced = copying.replaced /\ copying'.output = copying.output
        /\ copying' \in Copying
    BY <1>1, <2>1 DEF Copying
  <2>3. CopyTypeOK' /\ CopyIsWhole' /\ Versioned' /\ HasRoom'
    BY <1>1, <2>2 DEF FilesInv, CopyTypeOK, CopyIsWhole, Versioned, HasRoom, Whole, PrefixOf
  <2>4. Authenticated' /\ RemembersSaved'
    BY <1>1, <2>1, <2>2 DEF FilesInv, Authenticated, RemembersSaved, OutputMatches, There, Whole,
                            PrefixOf
  <2> QED
    BY <2>3, <2>4 DEF FilesInv
<1> QED
  BY <1>2, <1>3

\* What is published under the destination's name was authenticated.
LEMMA PublishFiles ==
  ASSUME Typed, FilesInv, NEW c \in Callers, PublishCompleted(c)
  PROVE  FilesInv'
<1>1. /\ UNCHANGED harm /\ harm["change"] \in Nat /\ copying \in Copying
      /\ copied' \in 0 .. MaxBundles /\ moved' \in SUBSET Names
      /\ copying.output \in Names /\ copying.output # "copy" /\ copying.phase = "publish"
  BY DEF PublishCompleted, Step, Typed, WorldTypeOK, FilesInv, CopyTypeOK, Copying, Versioned
<1>2. CASE copying' = NoCopying
  <2>1. UNCHANGED files
    BY <1>1, <1>2 DEF PublishCompleted, Proceed, NoCopying, Copying
  <2> QED
    BY <1>1, <1>2, <2>1, FilesKept, EndsAtRest
<1>3. CASE copying' # NoCopying
  <2> DEFINE out == copying.output
  <2>1. /\ files' = [files EXCEPT !["copy"] = files[out], ![out] = NoFile]
        /\ copying' = [copying EXCEPT !.phase = "reopen"]
        /\ There(out)
    BY <1>3 DEF PublishCompleted, EndCopy, Proceed
  <2>2. files \in [Names -> File] /\ "copy" \in Names
    BY DEF FilesInv, CopyTypeOK, Names
  <2>3. \A n \in Names : files'[n] = IF n = out THEN NoFile
                                     ELSE IF n = "copy" THEN files[out] ELSE files[n]
    BY <1>1, <2>1, <2>2
  <2>4. /\ copying'.phase = "reopen" /\ copying'.source = copying.source
        /\ copying'.replaced = copying.replaced /\ copying'.output = out
        /\ copying' \in Copying
    BY <1>1, <2>1 DEF Copying
  <2>5. files' \in [Names -> File]
    BY <1>1, <2>1, <2>2, CopyConstants
  <2>6. CopyTypeOK'
    BY <1>1, <2>4, <2>5 DEF FilesInv, CopyTypeOK
  <2>7. NoFile.version = 0 /\ ~NoFile.there
    BY DEF NoFile
  <2>8. CopyIsWhole'
    <3>1. files'["copy"] = files[out]
      BY <1>1, <2>2, <2>3
    <3>2. files[out].there /\ files[out].version = 0 => Whole(files[out], copying.source)
      BY <1>1 DEF FilesInv, Authenticated, OwnFile, There
    <3> QED
      BY <3>1, <3>2 DEF CopyIsWhole, Whole, PrefixOf
  <2>9. Versioned'
    BY <1>1, <2>3, <2>4, <2>7 DEF FilesInv, Versioned
  <2>10. HasRoom' /\ Authenticated'
    BY <2>4 DEF HasRoom, Authenticated
  <2>11. RemembersSaved'
    <3>1. "partial" \in Names /\ (out = "partial" => ~files'["partial"].there)
          /\ (out # "partial" => files'["partial"] = files["partial"])
      BY <2>3, <2>7 DEF Names
    <3> QED
      BY <2>4, <3>1 DEF FilesInv, RemembersSaved, There, PrefixOf
  <2> QED
    BY <2>6, <2>8, <2>9, <2>10, <2>11 DEF FilesInv
<1> QED
  BY <1>2, <1>3

\* From one step of the end of a copy to the next one.
LEMMA ProceedFiles ==
  ASSUME FilesInv, UNCHANGED <<files, harm>>, copied' \in 0 .. MaxBundles,
         moved' \in SUBSET Names, NEW p \in Reopened, Proceed(p)
  PROVE  FilesInv'
<1>1. copying \in Copying /\ p \in {"saved", "unlink", "receipt"}
  BY DEF FilesInv, CopyTypeOK, Reopened
<1>2. /\ copying'.phase = p /\ copying'.source = copying.source
      /\ copying'.replaced = copying.replaced /\ copying'.output = copying.output
      /\ copying' \in Copying
  BY <1>1 DEF Copying, Proceed
<1>3. CopyTypeOK' /\ CopyIsWhole' /\ Versioned' /\ HasRoom' /\ Authenticated'
  BY <1>1, <1>2 DEF FilesInv, CopyTypeOK, CopyIsWhole, Versioned, HasRoom, Authenticated, Whole,
                    PrefixOf
<1>4. RemembersSaved'
  BY <1>1, <1>2 DEF FilesInv, RemembersSaved, There, PrefixOf
<1> QED
  BY <1>3, <1>4 DEF FilesInv

LEMMA ReopenFiles ==
  ASSUME Typed, FilesInv, NEW c \in Callers,
         ReopenCompleted(c) \/ LookAtSaved(c) \/ ReturnReceipt(c)
  PROVE  FilesInv'
<1>1. /\ UNCHANGED <<files, harm>> /\ harm["change"] \in Nat /\ copying \in Copying
      /\ copied' \in 0 .. MaxBundles /\ moved' \in SUBSET Names
  <2>1. copying \in Copying /\ copied \in 0 .. MaxBundles /\ moved \in SUBSET Names
    BY DEF FilesInv, CopyTypeOK
  <2>2. copying.source \in 0 .. MaxBundles
    BY <2>1 DEF Copying
  <2> QED
    BY <2>1, <2>2 DEF ReopenCompleted, LookAtSaved, ReturnReceipt, Typed, WorldTypeOK
<1>2. copying' = NoCopying \/ \E p \in Reopened : Proceed(p)
  BY DEF ReopenCompleted, LookAtSaved, ReturnReceipt, EndCopy, Reopened
<1>3. CASE copying' = NoCopying
  BY <1>1, <1>3, FilesKept, EndsAtRest
<1> QED
  BY <1>1, <1>2, <1>3, ProceedFiles

LEMMA RemoveSavedFiles ==
  ASSUME Typed, FilesInv, NEW c \in Callers, RemoveSaved(c)
  PROVE  FilesInv'
<1>1. /\ UNCHANGED harm /\ Proceed("receipt") /\ "receipt" \in Reopened
      /\ copied' \in 0 .. MaxBundles /\ moved' \in SUBSET Names
      /\ copying \in Copying /\ files \in [Names -> File]
  BY DEF RemoveSaved, Reopened, FilesInv, CopyTypeOK
<1>2. CASE UNCHANGED files
  BY <1>1, <1>2, ProceedFiles
<1>3. CASE files' = [files EXCEPT !["partial"] = NoFile]
  <2>1. /\ copying'.phase = "receipt" /\ copying'.source = copying.source
        /\ copying'.replaced = copying.replaced /\ copying'.output = copying.output
        /\ copying' \in Copying
    BY <1>1 DEF Copying, Proceed
  <2>2. \A n \in Names : files'[n] = IF n = "partial" THEN NoFile ELSE files[n]
    BY <1>1, <1>3
  <2>3. /\ NoFile.version = 0 /\ ~NoFile.there /\ files' \in [Names -> File]
        /\ "copy" \in Names /\ "partial" \in Names
    BY <1>1, <1>3, CopyConstants DEF NoFile, Names
  <2>4. CopyTypeOK'
    BY <1>1, <2>1, <2>3 DEF CopyTypeOK
  <2>5. CopyIsWhole'
    BY <2>2, <2>3 DEF FilesInv, CopyIsWhole, Whole, PrefixOf
  <2>6. harm["change"] \in Nat
    BY DEF Typed, WorldTypeOK
  <2>7. Versioned'
    BY <1>1, <2>1, <2>2, <2>3, <2>6 DEF FilesInv, Versioned
  <2>8. HasRoom' /\ Authenticated' /\ RemembersSaved'
    BY <2>1, <2>2, <2>3 DEF FilesInv, HasRoom, Authenticated, RemembersSaved, There
  <2> QED
    BY <2>4, <2>5, <2>7, <2>8 DEF FilesInv
<1> QED
  BY <1>2, <1>3 DEF RemoveSaved

(***************************************************************************)
(* The other steps                                                         *)
(***************************************************************************)
LEMMA HarmGrows ==
  ASSUME Typed, [Next]_vars
  PROVE  harm["change"] \in Nat /\ harm'["change"] \in Nat /\ harm'["change"] >= harm["change"]
<1>1. harm["change"] \in Nat
  BY DEF Typed, WorldTypeOK
<1>2. CASE UNCHANGED harm
  BY <1>1, <1>2
<1>3. ASSUME NEW h \in {"change", "fault"}, NEW limit, Spend(h, limit)
      PROVE  harm'["change"] \in Nat /\ harm'["change"] >= harm["change"]
  BY <1>3, SpendTyped DEF Typed
<1>4. CASE UNCHANGED vars
  BY <1>2, <1>4 DEF vars, worldVars
<1>5. ASSUME NEW c \in Callers,
             \/ PackStep(c) \/ OfflineStep(c) \/ Fault(c)
      PROVE  harm'["change"] \in Nat /\ harm'["change"] >= harm["change"]
  BY <1>1, <1>2, <1>3, <1>5
     DEF PackStep, BeginFresh, BeginResume, PackPauses, PackCompletes, PackFails, OfflineStep,
         CreateDocument, WriteDocument, AbandonDocument, RemoveFailed, SynchronizeParent,
         RehearseDocument, LoadDocument, Fault
<1>6. ASSUME NEW c \in Callers, VaultStep(c)
      PROVE  harm'["change"] \in Nat /\ harm'["change"] >= harm["change"]
  BY <1>1, <1>2, <1>3, <1>6
     DEF VaultStep, InspectInstallation, Preflight, CheckStore, CreateNote, LoseAnswer,
         RehearseNote, CheckVault, LoadNote
<1>7. ASSUME NEW c \in Callers,
             \/ CopyStep(c) \/ OwnerReviews(c) \/ VerifyOffline(c) \/ Complete(c)
             \/ BeginCopy(c) \/ LoadForCopy(c)
      PROVE  UNCHANGED harm
  BY <1>7 DEF CopyStep, OpenSource, CreatePartial, CopyBytes, AuthenticatePartial,
              PublishCompleted, ReopenCompleted, LookAtSaved, RemoveSaved, ReturnReceipt,
              OwnerReviews, VerifyOffline, Complete,
              BeginCopy, LoadForCopy, LoadDocument, LoadNote
<1>8. CASE Restart \/ World
  BY <1>1, <1>3, <1>8
     DEF Restart, World, ReplaceBundle, ReplaceDocument, SpoilSource, RemovePartial,
         ChangeInstallation, ChangeVault, EditNote, ReplaceFile
<1> QED
  BY <1>1, <1>2, <1>4, <1>5, <1>6, <1>7, <1>8 DEF Next

\* Another program's file is newer than whatever a copy remembers.
LEMMA ReplaceFiles ==
  ASSUME Typed, FilesInv, NEW name \in Names, ReplaceFile(name)
  PROVE  FilesInv' /\ OfWorld
<1>1. /\ UNCHANGED <<copying, copied>> /\ harm["change"] \in Nat
      /\ moved' \in SUBSET Names
      /\ harm["change"] < MaxChanges /\ harm'["change"] = harm["change"] + 1
      /\ files \in [Names -> File] /\ copying \in Copying /\ copying.output \in Names
  BY DEF ReplaceFile, Spend, Typed, WorldTypeOK, FilesInv, CopyTypeOK, Copying
<1> DEFINE other == [there |-> TRUE, version |-> harm["change"] + 1, of |-> NoBundle,
                     blocks |-> 1, good |-> FALSE]
<1>2. PICK file \in {NoFile, other} : files' = [files EXCEPT ![name] = file]
  BY DEF ReplaceFile
<1>3. other \in File /\ other.version = harm["change"] + 1
  BY <1>1, CopyConstants DEF File, NoBundle
<1> HIDE DEF other
<1>4. /\ \A n \in Names : files'[n] = IF n = name THEN file ELSE files[n]
      /\ files' \in [Names -> File]
  BY <1>1, <1>2, <1>3, CopyConstants
<1>5. /\ file.version \in 0 .. harm["change"] + 1
      /\ file.there => file.version = harm["change"] + 1
  BY <1>1, <1>2, <1>3 DEF NoFile
<1>6. \A n \in Names : /\ files[n].version \in Nat
                       /\ files[n].version <= harm["change"]
  BY <1>1 DEF FilesInv, Versioned, File
<1>7. copying.replaced \in Int /\ copying.replaced <= harm["change"]
  BY <1>1, CopyConstants DEF FilesInv, Versioned, Copying
<1>8. CopyTypeOK' /\ Versioned'
  BY <1>1, <1>4, <1>5, <1>6, <1>7 DEF FilesInv, CopyTypeOK, Versioned
<1>9. \A n \in Names : files'[n].there /\ files'[n].version <= harm["change"]
                         => files'[n] = files[n]
  BY <1>1, <1>4, <1>5
<1>10. CopyIsWhole' /\ HasRoom' /\ Authenticated'
  <2>1. "copy" \in Names
    BY DEF Names
  <2> QED
    BY <1>1, <1>9, <2>1 DEF FilesInv, CopyIsWhole, HasRoom, Authenticated, OwnFile, There, Whole,
                            PrefixOf
<1>11. RemembersSaved'
  <2>1. "partial" \in Names
    BY DEF Names
  <2> QED
    BY <1>1, <1>7, <1>9, <2>1 DEF FilesInv, RemembersSaved, There, PrefixOf
<1> QED
  BY <1>1, <1>8, <1>10, <1>11 DEF FilesInv, OfWorld

\* The file that the copy has open is spoilt through its source only.
LEMMA SpoilFiles ==
  ASSUME Typed, FilesInv, NEW c \in Callers, SpoilSource(c),
         harm["change"] \in Nat, harm'["change"] \in Nat, harm'["change"] >= harm["change"]
  PROVE  FilesInv'
<1>1. /\ UNCHANGED <<files, copied, moved>> /\ copying \in Copying
      /\ copying' = [copying EXCEPT !.sound = FALSE]
  BY DEF SpoilSource, FilesInv, CopyTypeOK
<1>2. /\ copying' \in Copying
      /\ copying'.phase = copying.phase /\ copying'.source = copying.source
      /\ copying'.replaced = copying.replaced /\ copying'.output = copying.output
  BY <1>1 DEF Copying
<1>3. CopyTypeOK' /\ CopyIsWhole'
  BY <1>1, <1>2 DEF FilesInv, CopyTypeOK, CopyIsWhole, Whole, PrefixOf
<1>4. Versioned'
  <2>1. /\ copying.replaced \in Int
        /\ \A n \in Names : files[n].version \in Nat
    BY CopyConstants DEF FilesInv, CopyTypeOK, File, Copying
  <2> QED
    BY <1>1, <1>2, <2>1 DEF FilesInv, Versioned
<1>5. HasRoom' /\ Authenticated' /\ RemembersSaved'
  BY <1>1, <1>2 DEF FilesInv, HasRoom, Authenticated, RemembersSaved, OwnFile, There, Whole,
                    PrefixOf
<1> QED
  BY <1>3, <1>4, <1>5 DEF FilesInv

\* Every step outside the copy leaves the files, and ends a copy or begins one.
LEMMA OtherFiles ==
  ASSUME NEW c \in Callers,
         \/ PackStep(c) \/ OfflineStep(c) \/ VaultStep(c) \/ OwnerReviews(c) \/ VerifyOffline(c)
         \/ Complete(c) \/ BeginCopy(c) \/ LoadForCopy(c) \/ Fault(c)
  PROVE  /\ UNCHANGED files /\ (UNCHANGED copying \/ AtRest(copying'))
         /\ copied' \in {copied, NoBundle} /\ moved' \in {moved, {}}
<1>1. CASE PackStep(c) \/ OfflineStep(c) \/ VaultStep(c)
  BY <1>1 DEF PackStep, BeginFresh, BeginResume, PackPauses, PackCompletes, PackFails,
              OfflineStep, VaultStep, othersOfOffline, othersOfVault, copyVars
<1>2. CASE OwnerReviews(c) \/ VerifyOffline(c) \/ Complete(c) \/ BeginCopy(c)
  BY <1>2 DEF OwnerReviews, VerifyOffline, Complete, BeginCopy, copyVars
<1>3. CASE LoadForCopy(c)
  <2>1. UNCHANGED files /\ copied' \in {copied, NoBundle} /\ moved' \in {moved, {}}
    BY <1>3 DEF LoadForCopy
  <2>2. \/ UNCHANGED copying
        \/ \E approved \in BOOLEAN :
             copying' = [NoCopying EXCEPT !.phase = "open", !.approved = approved]
    BY <1>3 DEF LoadForCopy
  <2>3. ASSUME NEW approved \in BOOLEAN,
               copying' = [NoCopying EXCEPT !.phase = "open", !.approved = approved]
        PROVE  AtRest(copying')
    <3>1. AtRest([NoCopying EXCEPT !.phase = "open", !.approved = approved])
      BY AreAtRest
    <3> QED
      BY <2>3, <3>1 DEF AtRest
  <2> QED
    BY <2>1, <2>2, <2>3
<1>4. CASE Fault(c)
  BY <1>4, EndsAtRest DEF Fault, EndCopy
<1> QED
  BY <1>1, <1>2, <1>3, <1>4

LEMMA NextFiles ==
  ASSUME Typed, FilesInv, [Next]_vars
  PROVE  FilesInv'
<1>1. harm["change"] \in Nat /\ harm'["change"] \in Nat /\ harm'["change"] >= harm["change"]
  BY HarmGrows
<1>2. CASE UNCHANGED copyVars
  BY <1>1, <1>2, FilesKept DEF copyVars, FilesInv, CopyTypeOK
<1>3. CASE UNCHANGED vars
  BY <1>2, <1>3 DEF vars
<1>4. ASSUME NEW c \in Callers, CopyStep(c)
      PROVE  FilesInv'
  BY <1>4, OpenSourceFiles, CreatePartialFiles, CopyBytesFiles, AuthenticateFiles, PublishFiles,
     ReopenFiles, RemoveSavedFiles DEF CopyStep
<1>5. ASSUME NEW c \in Callers,
             \/ PackStep(c) \/ OfflineStep(c) \/ VaultStep(c) \/ OwnerReviews(c)
             \/ VerifyOffline(c) \/ Complete(c) \/ BeginCopy(c) \/ LoadForCopy(c) \/ Fault(c)
      PROVE  FilesInv'
  <2>1. copied' \in 0 .. MaxBundles /\ moved' \in SUBSET Names
    BY <1>5, OtherFiles, CopyConstants DEF FilesInv, CopyTypeOK, NoBundle
  <2> QED
    BY <1>1, <1>5, <2>1, OtherFiles, FilesKept
<1>6. CASE Restart
  BY <1>1, <1>6, EndsAtRest, FilesKept DEF Restart, FilesInv, CopyTypeOK
<1>7. CASE World
  BY <1>1, <1>2, <1>7, ReplaceFiles, SpoilFiles
     DEF World, RemovePartial, othersOfOffline, othersOfVault, copyVars
<1> QED
  BY <1>3, <1>4, <1>5, <1>6, <1>7 DEF Next

LEMMA InitFiles ==
  ASSUME Init
  PROVE  FilesInv
<1>1. /\ files = [n \in Names |-> NoFile] /\ copying = NoCopying /\ copied = 0 /\ moved = {}
      /\ harm["change"] = 0
  BY DEF Init, CopyInit, WorldInit, NoBundle
<1>2. AtRest(copying) /\ NoFile.version = 0 /\ ~NoFile.there /\ "copy" \in Names
  BY <1>1, AreAtRest DEF AtRest, NoFile, Names
<1>3. CopyTypeOK
  BY <1>1, CopyConstants DEF CopyTypeOK
<1> QED
  BY <1>1, <1>2, <1>3
     DEF FilesInv, Versioned, HasRoom, Authenticated, RemembersSaved, CopyIsWhole, AtRest, Nothing

(***************************************************************************)
(* The receipt                                                             *)
(***************************************************************************)
\* There is no receipt yet, and nothing that a copy knows at its end.
LEMMA NoReceipt ==
  ASSUME copied' = NoBundle, copying'.phase \notin Reopened
  PROVE  ReceiptInv'
  BY DEF ReceiptInv, CopyStands, LookedAt, NoReceiptYet, ReceiptIsTrue, Reopened

\* The files stay, and so does the copy, or it ends.
LEMMA ReceiptStays ==
  ASSUME ReceiptInv, UNCHANGED <<files, copied, moved>>,
         UNCHANGED copying \/ copying' = NoCopying
  PROVE  ReceiptInv'
<1>1. ReceiptIsTrue'
  BY DEF ReceiptInv, ReceiptIsTrue, Whole, PrefixOf
<1>2. CASE UNCHANGED copying
  BY <1>1, <1>2 DEF ReceiptInv, CopyStands, LookedAt, NoReceiptYet, There, Whole, PrefixOf
<1>3. CASE copying' = NoCopying
  <2>1. copying'.phase = "none"
    BY <1>3 DEF NoCopying
  <2> QED
    BY <1>1, <2>1 DEF ReceiptInv, CopyStands, LookedAt, NoReceiptYet, Reopened
<1> QED
  BY <1>2, <1>3

LEMMA EarlyReceipt ==
  ASSUME FilesInv, ReceiptInv, NEW c \in Callers,
         \/ OpenSource(c) \/ CreatePartial(c) \/ CopyBytes(c)
         \/ AuthenticatePartial(c) \/ PublishCompleted(c)
  PROVE  ReceiptInv'
<1>1. /\ UNCHANGED <<copied, moved>> /\ copying \in Copying
      /\ copying.phase \in {"open", "create", "bytes", "authenticate", "publish"}
  BY DEF OpenSource, CreatePartial, CopyBytes, AuthenticatePartial, PublishCompleted, Step,
         FilesInv, CopyTypeOK
<1>2. copied' = NoBundle
  BY <1>1 DEF ReceiptInv, NoReceiptYet
<1>3. NoCopying.phase = "none"
  BY DEF NoCopying
<1>4. \A p \in {"bytes", "authenticate", "publish", "reopen"} : Proceed(p) => copying'.phase = p
  BY <1>1 DEF Proceed, Copying
<1>5. copying'.phase \notin Reopened
  <2>1. CASE OpenSource(c)
    <3>1. \/ copying' = NoCopying
          \/ copying' = [copying EXCEPT
               !.phase = "create",
               !.source = bundle[c],
               !.replaced = IF There("partial") THEN files["partial"].version ELSE Nothing,
               !.output = IF There("partial") THEN "resumed" ELSE "partial"]
      BY <2>1 DEF OpenSource, EndCopy
    <3>2. copying'.phase \in {"none", "create"}
      BY <1>1, <1>3, <3>1 DEF Copying
    <3> QED
      BY <3>2 DEF Reopened
  <2>2. CASE ~OpenSource(c)
    <3>1. \/ copying' = NoCopying \/ UNCHANGED copying
          \/ \E p \in {"bytes", "authenticate", "publish", "reopen"} : Proceed(p)
      BY <2>2 DEF CreatePartial, CopyBytes, AuthenticatePartial, PublishCompleted, EndCopy
    <3> QED
      BY <1>1, <1>3, <1>4, <3>1 DEF Reopened
  <2> QED
    BY <2>1, <2>2
<1> QED
  BY <1>2, <1>5, NoReceipt

LEMMA LateReceipt ==
  ASSUME FilesInv, ReceiptInv, NEW c \in Callers,
         ReopenCompleted(c) \/ LookAtSaved(c) \/ RemoveSaved(c) \/ ReturnReceipt(c)
  PROVE  ReceiptInv'
<1>1. /\ copying \in Copying /\ copied = NoBundle /\ files \in [Names -> File]
      /\ "copy" \in Names /\ "partial" \in Names
  BY DEF ReopenCompleted, LookAtSaved, RemoveSaved, ReturnReceipt, Step, FilesInv, CopyTypeOK,
         ReceiptInv, NoReceiptYet, Names
<1>2. \A p \in Reopened : Proceed(p) => /\ copying'.phase = p
                                        /\ copying'.source = copying.source
  BY <1>1 DEF Proceed, Copying, Reopened
<1>3. CASE ReopenCompleted(c)
  <2>1. CASE copying' = NoCopying
    BY <1>3, <2>1, ReceiptStays DEF ReopenCompleted
  <2>2. CASE copying' # NoCopying
    <3>1. CopyMatches /\ UNCHANGED <<files, copied, moved>>
          /\ (Proceed("saved") \/ Proceed("receipt"))
      BY <1>3, <2>2 DEF ReopenCompleted, EndCopy
    <3>2. copying'.phase \in {"saved", "receipt"} /\ copying'.source = copying.source
      BY <1>2, <3>1 DEF Reopened
    <3>3. CopyStands'
      BY <3>1, <3>2 DEF CopyStands, CopyMatches, Whole, PrefixOf
    <3> QED
      BY <1>1, <3>1, <3>2, <3>3 DEF ReceiptInv, LookedAt, NoReceiptYet, ReceiptIsTrue
  <2> QED
    BY <2>1, <2>2
<1>4. CASE LookAtSaved(c)
  <2>1. /\ UNCHANGED <<files, copied>> /\ moved' = moved \ {"partial"}
        /\ copying.phase = "saved"
        /\ Proceed("receipt") \/ (Proceed("unlink") /\ SavedIsTheSame)
    BY <1>4 DEF LookAtSaved, Step
  <2>2. copying'.phase \in {"unlink", "receipt"} /\ copying'.source = copying.source
    BY <1>2, <2>1 DEF Reopened
  <2>3. CopyStands'
    BY <2>1, <2>2 DEF ReceiptInv, CopyStands, Reopened, Whole, PrefixOf
  <2>4. files["partial"].version # Nothing
    BY <1>1 DEF File, Nothing
  <2>5. copying'.phase = "unlink" => SavedIsTheSame
    BY <1>2, <2>1 DEF Reopened
  <2>6. LookedAt'
    BY <2>1, <2>2, <2>4, <2>5
       DEF LookedAt, SavedIsTheSame, FilesInv, RemembersSaved, There, PrefixOf
  <2> QED
    BY <1>1, <2>1, <2>2, <2>3, <2>6 DEF ReceiptInv, NoReceiptYet, ReceiptIsTrue
<1>5. CASE RemoveSaved(c)
  <2>1. /\ UNCHANGED <<copied, moved>> /\ copying.phase = "unlink" /\ Proceed("receipt")
        /\ files' \in {files, [files EXCEPT !["partial"] = NoFile]}
    BY <1>5 DEF RemoveSaved, Step
  <2>2. copying'.phase = "receipt" /\ copying'.source = copying.source
    BY <1>2, <2>1 DEF Reopened
  <2>3. files'["copy"] = files["copy"]
    BY <1>1, <2>1
  <2>4. CopyStands'
    BY <2>1, <2>2, <2>3 DEF ReceiptInv, CopyStands, Reopened, Whole, PrefixOf
  <2> QED
    BY <1>1, <2>1, <2>2, <2>4 DEF ReceiptInv, LookedAt, NoReceiptYet, ReceiptIsTrue
<1>6. CASE ReturnReceipt(c)
  <2>1. /\ UNCHANGED <<files, moved>> /\ copying.phase = "receipt" /\ copying' = NoCopying
        /\ copied' \in {copied, copying.source}
    BY <1>6 DEF ReturnReceipt, Step, EndCopy
  <2>2. copying'.phase = "none"
    BY <2>1 DEF NoCopying
  <2>3. ReceiptIsTrue'
    BY <1>1, <2>1 DEF ReceiptInv, CopyStands, Reopened, ReceiptIsTrue, Whole, PrefixOf
  <2> QED
    BY <2>2, <2>3 DEF ReceiptInv, CopyStands, LookedAt, NoReceiptYet, Reopened
<1> QED
  BY <1>3, <1>4, <1>5, <1>6

\* Another program's file is remembered once the destination was authenticated.
LEMMA ReplaceReceipt ==
  ASSUME FilesInv, ReceiptInv, NEW name \in Names, ReplaceFile(name)
  PROVE  ReceiptInv'
<1>1. /\ UNCHANGED <<copying, copied>> /\ copying.phase # "none"
      /\ moved' = IF copying.phase \in Reopened THEN moved \cup {name} ELSE moved
      /\ files \in [Names -> File] /\ "copy" \in Names /\ "partial" \in Names
  BY DEF ReplaceFile, FilesInv, CopyTypeOK, Names
<1>2. \A n \in Names : n # name => files'[n] = files[n]
  BY <1>1 DEF ReplaceFile
<1>3. copied' = NoBundle
  BY <1>1 DEF ReceiptInv, NoReceiptYet
<1>4. CopyStands'
  BY <1>1, <1>2 DEF ReceiptInv, CopyStands, Whole, PrefixOf
<1>5. LookedAt'
  BY <1>1, <1>2 DEF ReceiptInv, LookedAt, There, PrefixOf, Reopened
<1> QED
  BY <1>3, <1>4, <1>5 DEF ReceiptInv, NoReceiptYet, ReceiptIsTrue

LEMMA LoadReceipt ==
  ASSUME ReceiptInv, NEW c \in Callers, LoadForCopy(c)
  PROVE  ReceiptInv'
<1>1. CASE At(c, "idle")'
  BY <1>1, ReceiptStays DEF LoadForCopy
<1>2. CASE ~At(c, "idle")'
  <2>1. PICK approved \in BOOLEAN :
          copying' = [NoCopying EXCEPT !.phase = "open", !.approved = approved]
    BY <1>2 DEF LoadForCopy
  <2>2. copying'.phase = "open" /\ copied' = NoBundle
    BY <1>2, <2>1 DEF LoadForCopy, NoCopying
  <2> QED
    BY <2>2, NoReceipt DEF Reopened
<1> QED
  BY <1>1, <1>2

LEMMA NextReceipt ==
  ASSUME FilesInv, ReceiptInv, [Next]_vars
  PROVE  ReceiptInv'
<1>1. CASE UNCHANGED copyVars
  BY <1>1, ReceiptStays DEF copyVars
<1>2. CASE UNCHANGED vars
  BY <1>1, <1>2 DEF vars
<1>3. ASSUME NEW c \in Callers, CopyStep(c)
      PROVE  ReceiptInv'
  BY <1>3, EarlyReceipt, LateReceipt DEF CopyStep
<1>4. ASSUME NEW c \in Callers,
             \/ PackStep(c) \/ OfflineStep(c) \/ VaultStep(c) \/ OwnerReviews(c)
             \/ VerifyOffline(c) \/ Complete(c) \/ BeginCopy(c)
      PROVE  ReceiptInv'
  BY <1>1, <1>4
     DEF PackStep, BeginFresh, BeginResume, PackPauses, PackCompletes, PackFails, OfflineStep,
         VaultStep, othersOfOffline, othersOfVault, OwnerReviews, VerifyOffline, Complete,
         BeginCopy
<1>5. ASSUME NEW c \in Callers, LoadForCopy(c) \/ Fault(c)
      PROVE  ReceiptInv'
  BY <1>5, LoadReceipt, ReceiptStays DEF Fault, EndCopy
<1>6. CASE Restart
  BY <1>6, ReceiptStays DEF Restart
<1>7. ASSUME NEW c \in Callers, SpoilSource(c)
      PROVE  ReceiptInv'
  <2>1. /\ copying \in Copying /\ copying' = [copying EXCEPT !.sound = FALSE]
        /\ copying.phase \in {"create", "bytes"} /\ UNCHANGED copied
    BY <1>7 DEF SpoilSource, FilesInv, CopyTypeOK
  <2>2. copying'.phase = copying.phase
    BY <2>1 DEF Copying
  <2>3. copied' = NoBundle /\ copying'.phase \notin Reopened
    BY <2>1, <2>2 DEF ReceiptInv, NoReceiptYet, Reopened
  <2> QED
    BY <2>3, NoReceipt
<1>8. CASE World
  BY <1>1, <1>7, <1>8, ReplaceReceipt
     DEF World, RemovePartial, othersOfOffline, othersOfVault, copyVars
<1> QED
  BY <1>2, <1>3, <1>4, <1>5, <1>6, <1>8 DEF Next

LEMMA InitReceipt ==
  ASSUME Init
  PROVE  ReceiptInv
<1>1. copied = NoBundle /\ copying.phase = "none"
  BY DEF Init, CopyInit, NoCopying
<1> QED
  BY <1>1 DEF ReceiptInv, CopyStands, LookedAt, NoReceiptYet, ReceiptIsTrue, Reopened

(***************************************************************************)
(* What the copies leave                                                   *)
(***************************************************************************)
Kept ==
  SavedGoes =>
    \/ files'["copy"] = files["partial"]
    \/ /\ Whole(files["copy"], copying.source) \/ "copy" \in moved
       /\ PrefixOf(files["partial"], copying.source) \/ "partial" \in moved

LEMMA KeptBySame ==
  ASSUME UNCHANGED files
  PROVE  Kept
  BY DEF Kept, SavedGoes, There

LEMMA KeptByCopy ==
  ASSUME FilesInv, ReceiptInv, NEW c \in Callers, CopyStep(c)
  PROVE  Kept
<1>1. /\ files \in [Names -> File] /\ copying.output \in Names /\ copying.output # "copy"
      /\ "partial" \in Names /\ "copy" \in Names
  BY DEF FilesInv, CopyTypeOK, Copying, Versioned, Names
<1>2. CASE \/ OpenSource(c) \/ AuthenticatePartial(c) \/ ReopenCompleted(c)
           \/ LookAtSaved(c) \/ ReturnReceipt(c)
  BY <1>2, KeptBySame
     DEF OpenSource, AuthenticatePartial, ReopenCompleted, LookAtSaved, ReturnReceipt
<1>3. CASE CreatePartial(c)
  <2>1. CASE UNCHANGED files
    BY <2>1, KeptBySame
  <2>2. CASE files' = [files EXCEPT ![copying.output] =
                         [NoFile EXCEPT !.there = TRUE, !.of = copying.source]]
    <3>1. [NoFile EXCEPT !.there = TRUE, !.of = copying.source].there
      BY DEF NoFile
    <3>2. There("partial") => There("partial")'
      BY <1>1, <2>2, <3>1 DEF There
    <3> QED
      BY <3>2 DEF Kept, SavedGoes
  <2> QED
    BY <1>3, <2>1, <2>2 DEF CreatePartial
<1>4. CASE CopyBytes(c)
  <2> DEFINE more == [files[copying.output] EXCEPT !.blocks = @ + 1,
                                                   !.good = @ /\ copying.sound]
  <2>1. UNCHANGED files \/ files' = [files EXCEPT ![copying.output] = more]
    BY <1>1, <1>4 DEF CopyBytes
  <2>2. more.there = files[copying.output].there
    BY <1>1 DEF File
  <2>3. There("partial") => There("partial")'
    BY <1>1, <2>1, <2>2 DEF There
  <2> QED
    BY <2>3 DEF Kept, SavedGoes
<1>5. CASE PublishCompleted(c)
  <2>1. CASE UNCHANGED files
    BY <2>1, KeptBySame
  <2>2. CASE files' = [files EXCEPT !["copy"] = files[copying.output],
                                    ![copying.output] = NoFile]
    <3>1. copying.output # "partial" => files'["partial"] = files["partial"]
      BY <1>1, <2>2
    <3>2. copying.output = "partial" => files'["copy"] = files["partial"]
      BY <1>1, <2>2
    <3> QED
      BY <3>1, <3>2 DEF Kept, SavedGoes, There
  <2> QED
    BY <1>5, <2>1, <2>2 DEF PublishCompleted
<1>6. CASE RemoveSaved(c)
  <2>1. copying.phase = "unlink"
    BY <1>6 DEF RemoveSaved, Step
  <2>2. Whole(files["copy"], copying.source) \/ "copy" \in moved
    BY <2>1 DEF ReceiptInv, CopyStands, Reopened
  <2>3. There("partial") => PrefixOf(files["partial"], copying.source) \/ "partial" \in moved
    BY <2>1 DEF ReceiptInv, LookedAt
  <2> QED
    BY <2>2, <2>3 DEF Kept, SavedGoes
<1> QED
  BY <1>2, <1>3, <1>4, <1>5, <1>6 DEF CopyStep

LEMMA NextKept ==
  ASSUME Typed, FilesInv, ReceiptInv, [Next]_vars
  PROVE  Kept
<1>1. CASE UNCHANGED vars
  BY <1>1, KeptBySame DEF vars, copyVars
<1>2. ASSUME NEW c \in Callers, CopyStep(c)
      PROVE  Kept
  BY <1>2, KeptByCopy
<1>3. ASSUME NEW c \in Callers,
             \/ PackStep(c) \/ OfflineStep(c) \/ VaultStep(c) \/ OwnerReviews(c)
             \/ VerifyOffline(c) \/ Complete(c) \/ BeginCopy(c) \/ LoadForCopy(c) \/ Fault(c)
      PROVE  Kept
  BY <1>3, OtherFiles, KeptBySame
<1>4. CASE Restart
  BY <1>4, KeptBySame DEF Restart
<1>5. CASE World
  <2>1. ASSUME NEW n \in Names, ReplaceFile(n)
        PROVE  Kept
    BY <2>1, ReplaceFiles DEF Kept, SavedGoes
  <2>2. CASE UNCHANGED files
    BY <2>2, KeptBySame
  <2> QED
    BY <1>5, <2>1, <2>2
       DEF World, RemovePartial, SpoilSource, othersOfOffline, othersOfVault, copyVars
<1> QED
  BY <1>1, <1>2, <1>3, <1>4, <1>5 DEF Next

\* A copy that this engine published holds every byte of its Bundle, for copies of
\* any length, whatever other programs did to the source, to the partial file and
\* to the destination, and wherever the copies before it ended: copy_verified
\* authenticates the partial file and renames that one.
THEOREM CopiesAreWhole == Spec => []CopyIsWhole
<1>1. Init => Typed /\ FilesInv
  BY InitTyped, InitFiles
<1>2. Typed /\ FilesInv /\ [Next]_vars => Typed' /\ FilesInv'
  BY NextTyped, NextFiles
<1>3. FilesInv => CopyIsWhole
  BY DEF FilesInv
<1> QED
  BY <1>1, <1>2, <1>3, PTL DEF Spec

\* A receipt never names a Bundle that the destination did not hold whole when it
\* was last authenticated, although the partial file could be exchanged after its
\* own authentication: copy_verified opens and authenticates what it published.
THEOREM ReceiptsAreTrue == Spec => []ReceiptIsTrue
<1>1. Init => Typed /\ FilesInv /\ ReceiptInv
  BY InitTyped, InitFiles, InitReceipt
<1>2. Typed /\ FilesInv /\ ReceiptInv /\ [Next]_vars => Typed' /\ FilesInv' /\ ReceiptInv'
  BY NextTyped, NextFiles, NextReceipt
<1>3. ReceiptInv => ReceiptIsTrue
  BY DEF ReceiptInv
<1> QED
  BY <1>1, <1>2, <1>3, PTL DEF Spec

\* The partial file of an interrupted copy is lost only when it becomes the copy, or
\* when the destination holds the whole Bundle that the file began: unless another
\* program exchanged the file after copy_verified had looked at it, or the
\* destination after it was authenticated, for the code removes by name.
THEOREM SavedPartialsAreKept == Spec => SavedPartialIsKept
<1>1. Init => Typed /\ FilesInv /\ ReceiptInv
  BY InitTyped, InitFiles, InitReceipt
<1>2. Typed /\ FilesInv /\ ReceiptInv /\ [Next]_vars => Typed' /\ FilesInv' /\ ReceiptInv'
  BY NextTyped, NextFiles, NextReceipt
<1>3. Typed /\ FilesInv /\ ReceiptInv /\ [Next]_vars
        => [SavedGoes =>
              \/ files'["copy"] = files["partial"]
              \/ /\ Whole(files["copy"], copying.source) \/ "copy" \in moved
                 /\ PrefixOf(files["partial"], copying.source) \/ "partial" \in moved]_vars
  BY NextKept DEF Kept
<1> QED
  BY <1>1, <1>2, <1>3, PTL DEF Spec, SavedPartialIsKept

(***************************************************************************)
(* One copy at a time                                                      *)
(***************************************************************************)
Fetching == {"fetchdoc", "fetchcheck", "fetchnote", "copy"}

\* A call that fetches or copies runs alone, and the state of the copy is that of
\* the call that copies.
OneCopy ==
  /\ \A c, d \in Callers : c # d /\ call[c].phase \in Fetching => At(d, "idle")
  /\ copying.phase = "none" <=> \A c \in Callers : ~At(c, "copy")

\* A step of a call that neither fetches nor copies, and does not begin to.
LEMMA CaptureAlone ==
  ASSUME OneCopy, NEW c \in Callers, OthersStay(c), UNCHANGED copying,
         call[c].phase \notin Fetching, call'[c].phase \notin Fetching,
         At(c, "idle") => \A d \in Callers : call[d].phase \notin Fetching
  PROVE  OneCopy'
<1>1. \A d \in Callers : call'[d].phase \in Fetching => d # c /\ call[d].phase \in Fetching
  BY DEF OthersStay
<1>2. \A d \in Callers : At(d, "copy")' <=> At(d, "copy")
  BY DEF OthersStay, At, Fetching
<1>3. \A d, e \in Callers : d # e /\ call'[d].phase \in Fetching => At(e, "idle")'
  <2> SUFFICES ASSUME NEW d \in Callers, NEW e \in Callers, d # e, call'[d].phase \in Fetching
               PROVE  At(e, "idle")'
    OBVIOUS
  <2>1. d # c /\ call[d].phase \in Fetching
    BY <1>1
  <2>2. At(e, "idle") /\ e # c
    BY <2>1 DEF OneCopy
  <2> QED
    BY <2>2 DEF OthersStay, At
<1> QED
  BY <1>2, <1>3 DEF OneCopy

\* A step of a call that fetches or copies, or begins to when no other call runs.
LEMMA FetchAlone ==
  ASSUME OneCopy, NEW c \in Callers, OthersStay(c),
         call[c].phase \in Fetching \/ \A d \in Callers : At(d, "idle"),
         copying'.phase = "none" <=> call'[c].phase # "copy"
  PROVE  OneCopy'
<1>1. \A d \in Callers : d # c => call'[d].phase = "idle"
  BY DEF OneCopy, OthersStay, At
<1>2. "idle" \notin Fetching
  BY DEF Fetching
<1>3. \A d, e \in Callers : d # e /\ call'[d].phase \in Fetching => At(e, "idle")'
  BY <1>1, <1>2 DEF At
<1>4. copying'.phase = "none" <=> \A d \in Callers : ~At(d, "copy")'
  BY <1>1 DEF At
<1> QED
  BY <1>3, <1>4 DEF OneCopy

\* Nothing that OneCopy reads changes.
LEMMA CopySame ==
  ASSUME OneCopy, UNCHANGED <<call, copying>>
  PROVE  OneCopy'
  BY DEF OneCopy, At

LEMMA PackAlone ==
  ASSUME Typed, OneCopy, NEW c \in Callers, PackStep(c)
  PROVE  OneCopy'
<1>1. UNCHANGED copying
  BY DEF PackStep, BeginFresh, BeginResume, PackPauses, PackCompletes, PackFails, copyVars
<1>2. CASE BeginFresh(c) \/ BeginResume(c)
  <2> DEFINE k == [Idle EXCEPT !.phase = "pack", !.secret = packed + 1]
             m == [Idle EXCEPT !.phase = "pack", !.secret = paused, !.previous = paused]
  <2>1. k.phase = "pack" /\ m.phase = "pack"
    BY DEF Idle
  <2>2. Become(c, k) \/ Become(c, m)
    BY <1>2 DEF BeginFresh, BeginResume
  <2> HIDE DEF k, m
  <2>3. OthersStay(c) /\ call'[c].phase = "pack"
    BY <2>1, <2>2, BecomePhase
  <2>4. At(c, "idle") /\ \A d \in Callers : call[d].phase \notin Fetching
    BY <1>2 DEF BeginFresh, BeginResume, Copyless, Fetching
  <2> QED
    BY <1>1, <2>3, <2>4, CaptureAlone DEF Fetching
<1>3. CASE PackPauses(c) \/ PackCompletes(c) \/ PackFails(c)
  <2>1. At(c, "pack") /\ (Fail(c) \/ Goto(c, "write"))
    BY <1>3 DEF PackPauses, PackCompletes, PackFails, AfterPack
  <2>2. OthersStay(c) /\ call'[c].phase \in {"idle", "write"}
    BY <2>1, FailPhase, GotoPhase
  <2> QED
    BY <1>1, <2>1, <2>2, CaptureAlone DEF Fetching, At
<1> QED
  BY <1>2, <1>3 DEF PackStep

LEMMA OfflineAlone ==
  ASSUME Typed, OneCopy, NEW c \in Callers, OfflineStep(c)
  PROVE  OneCopy'
<1>1. UNCHANGED copying /\ call[c] \in Call
  BY DEF OfflineStep, othersOfOffline, copyVars, Typed, WorldTypeOK
<1>2. call[c].phase \in {"write", "persist", "abandon", "syncdoc", "rehearse", "loaddoc"}
  BY DEF OfflineStep, CreateDocument, WriteDocument, AbandonDocument, RemoveFailed,
         SynchronizeParent, RehearseDocument, LoadDocument, At
<1>3. OthersStay(c) /\ call'[c].phase \in {"idle", "persist", "abandon", "syncdoc", "rehearse",
                                           "inspect", "verifydoc"}
  <2> DEFINE k == [call[c] EXCEPT !.phase = "inspect", !.rehearsed = document[c].holds.names]
             m == [call[c] EXCEPT !.phase = "verifydoc", !.loaded = document[c].holds.opens]
  <2>1. k.phase = "inspect" /\ m.phase = "verifydoc"
    BY <1>1 DEF Call
  <2>2. \/ Become(c, k) \/ Become(c, m) \/ Fail(c)
        \/ Goto(c, "persist") \/ Goto(c, "abandon") \/ Goto(c, "syncdoc") \/ Goto(c, "rehearse")
    BY DEF OfflineStep, CreateDocument, WriteDocument, AbandonDocument, RemoveFailed,
           SynchronizeParent, RehearseDocument, LoadDocument
  <2> HIDE DEF k, m
  <2> QED
    BY <2>1, <2>2, BecomePhase, FailPhase, GotoPhase
<1> QED
  BY <1>1, <1>2, <1>3, CaptureAlone DEF Fetching, At

LEMMA VaultAlone ==
  ASSUME Typed, OneCopy, NEW c \in Callers, VaultStep(c)
  PROVE  OneCopy'
<1>1. UNCHANGED copying /\ call[c] \in Call
  BY DEF VaultStep, othersOfVault, copyVars, Typed, WorldTypeOK
<1>2. CASE CheckVault(c, "fetchcheck", "fetchnote")
  <2>1. At(c, "fetchcheck") /\ (Goto(c, "fetchnote") \/ Fail(c))
    BY <1>2 DEF CheckVault
  <2>2. OthersStay(c) /\ call'[c].phase \in {"fetchnote", "idle"}
    BY <2>1, GotoPhase, FailPhase
  <2>3. copying.phase = "none"
    BY <2>1 DEF OneCopy, At, Fetching
  <2> QED
    BY <1>1, <2>1, <2>2, <2>3, FetchAlone DEF Fetching, At
<1>3. CASE ~CheckVault(c, "fetchcheck", "fetchnote")
  <2>1. call[c].phase \in {"inspect", "preflight", "store", "create", "readback", "checkvault",
                           "loadnote"}
    BY <1>3 DEF VaultStep, InspectInstallation, Preflight, CheckStore, CreateNote, LoseAnswer,
                RehearseNote, CheckVault, LoadNote, At
  <2>2. OthersStay(c) /\ call'[c].phase \in {"idle", "reviewbw", "reviewvault", "create",
                                             "readback", "loaddoc", "loadnote", "compare"}
    <3> DEFINE k == [call[c] EXCEPT !.phase = "reviewbw", !.installed = installation]
               l == [call[c] EXCEPT !.phase = "reviewvault", !.server = vault.server,
                                    !.named = bundle[c]]
               m == [call[c] EXCEPT !.phase = "readback", !.note = Len(notes) + 1]
               n == [call[c] EXCEPT !.phase = "compare", !.loaded = Held(call[c].note).opens]
    <3>1. k.phase = "reviewbw" /\ l.phase = "reviewvault" /\ m.phase = "readback"
          /\ n.phase = "compare"
      BY <1>1 DEF Call
    <3>2. \/ Become(c, k) \/ Become(c, l) \/ Become(c, m) \/ Become(c, n) \/ Fail(c)
          \/ Goto(c, "create") \/ Goto(c, "loaddoc") \/ Goto(c, "loadnote")
      BY <1>3 DEF VaultStep, InspectInstallation, Preflight, CheckStore, CreateNote, LoseAnswer,
                  RehearseNote, CheckVault, LoadNote
    <3> HIDE DEF k, l, m, n
    <3> QED
      BY <3>1, <3>2, BecomePhase, FailPhase, GotoPhase
  <2> QED
    BY <1>1, <2>1, <2>2, CaptureAlone DEF Fetching, At
<1> QED
  BY <1>2, <1>3

LEMMA OwnerAlone ==
  ASSUME Typed, OneCopy, NEW c \in Callers, OwnerReviews(c) \/ VerifyOffline(c) \/ Complete(c)
  PROVE  OneCopy'
<1>1. UNCHANGED copying /\ call[c] \in Call
  BY DEF OwnerReviews, VerifyOffline, Complete, copyVars, Typed, WorldTypeOK
<1>2. call[c].phase \in {"reviewbw", "reviewvault", "verifydoc", "compare"}
  BY DEF OwnerReviews, VerifyOffline, Complete, At
<1>3. OthersStay(c) /\ call'[c].phase \in {"idle", "preflight", "store", "checkvault"}
  <2> DEFINE k == [call[c] EXCEPT !.phase = "checkvault", !.verified = bundle[c]]
  <2>1. k.phase = "checkvault"
    BY <1>1 DEF Call
  <2>2. Become(c, k) \/ Fail(c) \/ Goto(c, "preflight") \/ Goto(c, "store")
    BY DEF OwnerReviews, VerifyOffline, Complete
  <2> HIDE DEF k
  <2> QED
    BY <2>1, <2>2, BecomePhase, FailPhase, GotoPhase
<1> QED
  BY <1>1, <1>2, <1>3, CaptureAlone DEF Fetching, At

LEMMA BeginCopyAlone ==
  ASSUME Typed, OneCopy, NEW c \in Callers, BeginCopy(c)
  PROVE  OneCopy'
<1>1. PICK method \in {"fetchdoc", "fetchcheck"} :
        Become(c, [Idle EXCEPT !.phase = method, !.note = result[c].note,
                               !.server = result[c].server, !.installed = result[c].installed])
  BY DEF BeginCopy
<1> DEFINE k == [Idle EXCEPT !.phase = method, !.note = result[c].note,
                             !.server = result[c].server, !.installed = result[c].installed]
<1>2. k.phase = method
  BY DEF Idle
<1> HIDE DEF k
<1>3. OthersStay(c) /\ call'[c].phase \in {"fetchdoc", "fetchcheck"}
  BY <1>1, <1>2, BecomePhase DEF k
<1>4. UNCHANGED copying /\ \A d \in Callers : At(d, "idle")
  BY DEF BeginCopy, copyVars
<1>5. copying.phase = "none"
  BY <1>4 DEF OneCopy, At
<1> QED
  BY <1>3, <1>4, <1>5, FetchAlone

LEMMA LoadForCopyAlone ==
  ASSUME Typed, OneCopy, NEW c \in Callers, LoadForCopy(c)
  PROVE  OneCopy'
<1> DEFINE k == [call[c] EXCEPT !.phase = "copy", !.loaded = document[c].holds.opens]
           m == [call[c] EXCEPT !.phase = "copy", !.loaded = Held(call[c].note).opens]
<1>1. k.phase = "copy" /\ m.phase = "copy"
  BY DEF Typed, WorldTypeOK, Call
<1>2. Become(c, k) \/ Become(c, m) \/ Fail(c)
  BY DEF LoadForCopy, LoadDocument, LoadNote
<1> HIDE DEF k, m
<1>3. OthersStay(c) /\ call'[c].phase \in {"copy", "idle"}
  BY <1>1, <1>2, BecomePhase, FailPhase
<1>4. call[c].phase \in {"fetchdoc", "fetchnote"}
  BY DEF LoadForCopy, LoadDocument, LoadNote, At
<1>5. copying.phase = "none"
  BY <1>4 DEF OneCopy, At, Fetching
<1>6. CASE call'[c].phase = "idle"
  <2>1. UNCHANGED copying
    BY <1>6 DEF LoadForCopy, At
  <2> QED
    BY <1>3, <1>4, <1>5, <1>6, <2>1, FetchAlone DEF Fetching
<1>7. CASE call'[c].phase = "copy"
  <2>1. PICK approved \in BOOLEAN :
          copying' = [NoCopying EXCEPT !.phase = "open", !.approved = approved]
    BY <1>7 DEF LoadForCopy, At
  <2>2. copying'.phase = "open"
    BY <2>1 DEF NoCopying
  <2> QED
    BY <1>3, <1>4, <1>7, <2>2, FetchAlone DEF Fetching
<1> QED
  BY <1>3, <1>6, <1>7

\* The end of a copy, with its receipt or without.
LEMMA EndCopyAlone ==
  ASSUME Typed, OneCopy, NEW c \in Callers, At(c, "copy"), EndCopy(c)
  PROVE  OneCopy'
<1>1. OthersStay(c) /\ call'[c].phase = "idle"
  BY FailPhase DEF EndCopy
<1>2. copying'.phase = "none"
  BY DEF EndCopy, NoCopying
<1> QED
  BY <1>1, <1>2, FetchAlone DEF Fetching, At

LEMMA CopyAlone ==
  ASSUME Typed, OneCopy, CopyTypeOK, NEW c \in Callers, CopyStep(c)
  PROVE  OneCopy'
<1>1. At(c, "copy") /\ copying \in Copying
  BY DEF CopyStep, OpenSource, CreatePartial, CopyBytes, AuthenticatePartial, PublishCompleted,
         ReopenCompleted, LookAtSaved, RemoveSaved, ReturnReceipt, Step, CopyTypeOK
<1>2. CASE EndCopy(c)
  BY <1>1, <1>2, EndCopyAlone
<1>3. CASE UNCHANGED call /\ copying'.phase # "none"
  <2>1. copying.phase # "none"
    BY <1>1 DEF OneCopy
  <2> QED
    BY <1>3, <2>1 DEF OneCopy, At
<1>4. ASSUME NEW p \in {"bytes", "authenticate", "publish", "reopen", "saved", "unlink",
                         "receipt"},
             Proceed(p)
      PROVE  copying'.phase # "none"
  BY <1>1, <1>4 DEF Proceed, Copying
<1>5. CASE OpenSource(c)
  <2>1. CASE ~EndCopy(c)
    <3>1. UNCHANGED call /\ copying' = [copying EXCEPT
               !.phase = "create",
               !.source = bundle[c],
               !.replaced = IF There("partial") THEN files["partial"].version ELSE Nothing,
               !.output = IF There("partial") THEN "resumed" ELSE "partial"]
      BY <1>5, <2>1 DEF OpenSource
    <3>2. copying'.phase = "create"
      BY <1>1, <3>1 DEF Copying
    <3> QED
      BY <1>3, <3>1, <3>2
  <2> QED
    BY <1>2, <2>1
<1>6. CASE \/ CreatePartial(c) \/ AuthenticatePartial(c) \/ PublishCompleted(c)
           \/ ReopenCompleted(c) \/ LookAtSaved(c) \/ RemoveSaved(c) \/ ReturnReceipt(c)
  BY <1>2, <1>3, <1>4, <1>6
     DEF CreatePartial, AuthenticatePartial, PublishCompleted, ReopenCompleted, LookAtSaved,
         RemoveSaved, ReturnReceipt
<1>7. CASE CopyBytes(c)
  <2>1. CASE UNCHANGED <<copying, call>>
    BY <2>1, CopySame
  <2> QED
    BY <1>2, <1>3, <1>4, <1>7, <2>1 DEF CopyBytes
<1> QED
  BY <1>5, <1>6, <1>7 DEF CopyStep

LEMMA FaultAlone ==
  ASSUME Typed, OneCopy, NEW c \in Callers, Fault(c)
  PROVE  OneCopy'
<1>1. CASE At(c, "copy")
  BY <1>1, EndCopyAlone DEF Fault
<1>2. CASE ~At(c, "copy")
  <2>1. Fail(c) /\ UNCHANGED copying /\ ~At(c, "idle")
    BY <1>2 DEF Fault, At
  <2>2. OthersStay(c) /\ call'[c].phase = "idle"
    BY <2>1, FailPhase
  <2>3. CASE call[c].phase \in Fetching
    <3>1. copying.phase = "none"
      BY <1>2, <2>3 DEF OneCopy, At, Fetching
    <3> QED
      BY <2>1, <2>2, <2>3, <3>1, FetchAlone
  <2>4. CASE call[c].phase \notin Fetching
    BY <2>1, <2>2, <2>4, CaptureAlone DEF Fetching
  <2> QED
    BY <2>3, <2>4
<1> QED
  BY <1>1, <1>2

LEMMA RestartAlone ==
  ASSUME Restart
  PROVE  OneCopy'
<1>1. \A c \in Callers : call'[c].phase = "idle"
  BY DEF Restart, Idle
<1>2. copying'.phase = "none"
  BY DEF Restart, NoCopying
<1> QED
  BY <1>1, <1>2 DEF OneCopy, At, Fetching

LEMMA WorldAlone ==
  ASSUME OneCopy, CopyTypeOK, World
  PROVE  OneCopy'
<1>1. ASSUME NEW c \in Callers, SpoilSource(c)
      PROVE  OneCopy'
  <2>1. UNCHANGED call /\ copying' = [copying EXCEPT !.sound = FALSE] /\ copying \in Copying
    BY <1>1 DEF SpoilSource, CopyTypeOK
  <2>2. copying'.phase = copying.phase
    BY <2>1 DEF Copying
  <2> QED
    BY <2>1, <2>2 DEF OneCopy, At
<1>2. CASE UNCHANGED <<call, copying>>
  BY <1>2, CopySame
<1> QED
  BY <1>1, <1>2
     DEF World, ReplaceBundle, ReplaceDocument, RemovePartial, ChangeInstallation, ChangeVault,
         EditNote, ReplaceFile, othersOfOffline, othersOfVault, copyVars

LEMMA InitAlone ==
  ASSUME Init
  PROVE  OneCopy
<1>1. \A c \in Callers : call[c].phase = "idle"
  BY DEF Init, WorldInit, Idle
<1>2. copying.phase = "none"
  BY DEF Init, CopyInit, NoCopying
<1> QED
  BY <1>1, <1>2 DEF OneCopy, At, Fetching

LEMMA NextAlone ==
  ASSUME Typed, FilesInv, OneCopy, [Next]_vars
  PROVE  OneCopy'
<1>1. CopyTypeOK
  BY DEF FilesInv
<1>2. CASE UNCHANGED vars
  BY <1>2, CopySame DEF vars, worldVars, copyVars
<1>3. CASE Next
  BY <1>1, <1>3, PackAlone, OfflineAlone, VaultAlone, CopyAlone, OwnerAlone, BeginCopyAlone,
     LoadForCopyAlone, FaultAlone, RestartAlone, WorldAlone DEF Next
<1> QED
  BY <1>2, <1>3

\* Every reachable state is well typed, for every number of callers, servers, Packs,
\* notes and blocks; the lock on the slot for a paused Pack admits one call, and the
\* state of the copy belongs to exactly the call that runs it.
THEOREM TypeCorrect == Spec => []TypeOK
<1> DEFINE Inv == SlotInv /\ Typed /\ FilesInv /\ OneCopy
<1>1. Init => Inv
  BY InitSlot, InitTyped, InitFiles, InitAlone
<1>2. Inv /\ [Next]_vars => Inv'
  BY NextSlot, NextTyped, NextFiles, NextAlone
<1>3. Inv => TypeOK
  BY DEF SlotInv, Packing, Typed, FilesInv, OneCopy, TypeOK
<1> QED
  BY <1>1, <1>2, <1>3, PTL DEF Spec
================================================================================
