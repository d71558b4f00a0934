---------------------------- MODULE PackPromise -----------------------------
(***************************************************************************)
(* What Pack promises the owner, whatever happens to the call.             *)
(*                                                                         *)
(* Saved progress is never lost before a complete Bundle is safely         *)
(* published.  The next Resume accepts it, unless a source file does not   *)
(* show what was recorded of it, or a power loss or a termination during   *)
(* the capture has left the progress where no Resume looks.  A Pack that   *)
(* reports Paused has saved what it reports, and one that reports Complete *)
(* has published.  Nothing is promised once another program meddles with   *)
(* the files of Pack.                                                      *)
(***************************************************************************)
EXTENDS Naturals

CONSTANT ItemCount   \* Migration Items selected by the approved Plan

VARIABLES
  kept,       \* Migration Items of the saved progress
  ready,      \* the next Resume is accepted, while the destination is free
  stale,      \* an observation saved with the progress is missing or outdated
  capturing,  \* a Resume writes its new pair beside the saved one
  kills,      \* terminations so far
  losses,     \* power losses so far
  published,  \* a complete Bundle has the destination name, to stay
  told,       \* the last report: its state and its captured items
  disturbed   \* another program put a file under one of Pack's names

vars == <<kept, ready, stale, capturing, kills, losses, published, told, disturbed>>

None     == [state |-> "none", items |-> 0]
Complete == [state |-> "complete", items |-> ItemCount]

Init == kept = 0 /\ ~ ready /\ ~ published /\ told = None /\ ~ disturbed

\* What takes the next Resume away from the owner.
Stranded == losses' > losses \/ (capturing /\ kills' > kills)

\* Saved progress can be resumed once no capture is under way; only a Stranded
\* owner loses that.
Ready == \/ kept' = 0 \/ capturing'
         \/ ready' \/ stale'
         \/ Stranded
         \/ ~ capturing /\ ~ ready

\* Progress is saved, or a better one replaces it.
Save == /\ ~ published
        /\ kept' \in kept .. ItemCount
        /\ UNCHANGED <<published, told>>

ReportPaused ==
  /\ ~ published
  /\ kept' \in kept .. ItemCount
  /\ \E n \in 1 .. kept' : told' = [state |-> "paused", items |-> n]
  /\ ready' \/ stale'
  /\ UNCHANGED published

Publish == /\ ~ published
           /\ published'
           /\ kept' \in kept .. ItemCount
           /\ told' \in {told, Complete}

\* The saved progress is superseded: it may go, and Complete may be reported.
Supersede == /\ published
             /\ kept' \in 0 .. ItemCount
             /\ told' \in {told, Complete}
             /\ UNCHANGED published

Next == \/ ~ disturbed' /\ Ready /\ (Save \/ ReportPaused \/ Publish \/ Supersede)
        \/ disturbed'

Spec == Init /\ [][Next]_vars
=============================================================================
