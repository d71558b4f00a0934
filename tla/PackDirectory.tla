---------------------------- MODULE PackDirectory ----------------------------
(***************************************************************************)
(* The progress artifacts of a Pack, as names of one directory.            *)
(*                                                                         *)
(* A Pack of <destination>.iniza writes beside it a partial Bundle, its    *)
(* checkpoint, the pair of a resumed attempt, the pair that a promotion    *)
(* retains, and the journal of that promotion.  A directory view maps each *)
(* of these names to the file it links.  Every attempt draws a fresh data  *)
(* encryption key, so an attempt identifies the Bundle file it creates,    *)
(* and the checkpoint written under the same key: the device and inode     *)
(* identity of the code is the pair (kind, attempt) here.                  *)
(***************************************************************************)
EXTENDS FiniteSets, Naturals

CONSTANTS
  Attempts,    \* identifiers of Pack attempts (encryption domains), reused
               \* only when no directory view mentions them
  NoAttempt,   \* the attempt of a file that no attempt wrote
  ItemCount    \* Migration Items selected by the approved Plan

ASSUME AttemptsAssumption == NoAttempt \notin Attempts
ASSUME ItemCountAssumption == ItemCount \in Nat \ {0}

(***************************************************************************)
(* Files                                                                   *)
(***************************************************************************)
MaybeAttempt == Attempts \cup {NoAttempt}

Absent        == [kind |-> "absent", att |-> NoAttempt, saved |-> NoAttempt]
Foreign       == [kind |-> "foreign", att |-> NoAttempt, saved |-> NoAttempt]
Bundle(a)     == [kind |-> "bundle", att |-> a, saved |-> NoAttempt]
Checkpoint(a) == [kind |-> "checkpoint", att |-> a, saved |-> NoAttempt]
\* The journal is encrypted under the key of the advanced attempt and names
\* the identities of both pairs.
Journal(s, a) == [kind |-> "journal", att |-> a, saved |-> s]

File == {Absent, Foreign}
          \cup {Bundle(a) : a \in Attempts}
          \cup {Checkpoint(a) : a \in Attempts}
          \cup {Journal(s, a) : s, a \in Attempts}

(***************************************************************************)
(* Names                                                                   *)
(***************************************************************************)
ProgressNames == {"partial", "partial.checkpoint",
                  "resume", "resume.checkpoint",
                  "previous", "previous.checkpoint",
                  "promotion"}

Names == ProgressNames \cup {"final"}

OutputNames == {"partial", "resume"}

CheckpointOf(n) == IF n = "partial" THEN "partial.checkpoint"
                                    ELSE "resume.checkpoint"

Directory == [Names -> File]

Present(d) == {n \in ProgressNames : d[n] # Absent}

(***************************************************************************)
(* The promotion: four exclusive renames, then two removals.  Step k of    *)
(* 0..6 is the number of transitions already in the directory.             *)
(***************************************************************************)
PromotionSteps == 0 .. 6

MoveFrom == << "partial", "partial.checkpoint", "resume", "resume.checkpoint" >>
MoveTo   == << "previous", "previous.checkpoint", "partial", "partial.checkpoint" >>
Removed  == << "previous", "previous.checkpoint" >>

\* The identity the journal records for the file that transition k touches.
Expected(k, s, a) ==
  CASE k = 1 -> Bundle(s)
    [] k = 2 -> Checkpoint(s)
    [] k = 3 -> Bundle(a)
    [] k = 4 -> Checkpoint(a)
    [] k = 5 -> Bundle(s)
    [] OTHER -> Checkpoint(s)

\* Mutant: a promotion interrupted between its two removals is not recognised.
LayoutAtCleanupForgotten(k) ==
  CASE k = 0 -> {"partial", "partial.checkpoint", "resume", "resume.checkpoint"}
    [] k = 1 -> {"previous", "partial.checkpoint", "resume", "resume.checkpoint"}
    [] k = 2 -> {"previous", "previous.checkpoint", "resume", "resume.checkpoint"}
    [] k = 3 -> {"previous", "previous.checkpoint", "partial", "resume.checkpoint"}
    [] k = 4 -> {"previous", "previous.checkpoint", "partial", "partial.checkpoint"}
    [] OTHER -> {"partial", "partial.checkpoint"}

\* The artifacts that exist, the journal apart, when k transitions are done.
LayoutAt(k) ==
  CASE k = 0 -> {"partial", "partial.checkpoint", "resume", "resume.checkpoint"}
    [] k = 1 -> {"previous", "partial.checkpoint", "resume", "resume.checkpoint"}
    [] k = 2 -> {"previous", "previous.checkpoint", "resume", "resume.checkpoint"}
    [] k = 3 -> {"previous", "previous.checkpoint", "partial", "resume.checkpoint"}
    [] k = 4 -> {"previous", "previous.checkpoint", "partial", "partial.checkpoint"}
    [] k = 5 -> {"previous.checkpoint", "partial", "partial.checkpoint"}
    [] OTHER -> {"partial", "partial.checkpoint"}

\* Layouts 1 to 4 are recognised with or without a journal.
IsLayout(k, d) ==
  \/ Present(d) = LayoutAt(k) \cup {"promotion"}
  \/ k \in 1 .. 4 /\ Present(d) = LayoutAt(k)

\* Where the pairs are found in layout k: <<partial name, checkpoint name>>.
AdvancedPair(k) ==
  CASE k < 3 -> <<"resume", "resume.checkpoint">>
    [] k = 3 -> <<"partial", "resume.checkpoint">>
    [] OTHER -> <<"partial", "partial.checkpoint">>

SavedPair(k) ==
  CASE k = 0 -> <<"partial", "partial.checkpoint">>
    [] k = 1 -> <<"previous", "partial.checkpoint">>
    [] OTHER -> <<"previous", "previous.checkpoint">>

Pairs == {AdvancedPair(k) : k \in PromotionSteps}
           \cup {SavedPair(k) : k \in PromotionSteps}

\* The saved pair is no longer complete once its partial is removed.
SavedPairRemains(k) == k < 5
=============================================================================
