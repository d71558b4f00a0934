----------------------------- MODULE PushPromise -----------------------------
(***************************************************************************)
(* What an execution of a Push Plan promises its owner: a ledger.          *)
(*                                                                         *)
(* The ledger on the disk records how many actions have succeeded.  An     *)
(* action is published only when all before it are recorded, what is       *)
(* recorded stays, and the ledger is closed as complete only when every    *)
(* action is in it -- so an owner who finds the ledger of an execution     *)
(* that ended anyhow knows what was published, up to one action.           *)
(***************************************************************************)
EXTENDS Naturals

CONSTANTS
  Executors,    \* processes that execute Push Plans
  ActionCount   \* actions of a Push Plan

VARIABLES
  published,    \* the actions that the last execution of each has published
  recorded,     \* how many of them its ledger records as succeeded
  complete      \* whether its ledger is closed as complete

vars == <<published, recorded, complete>>

Init ==
  /\ published = [e \in Executors |-> {}]
  /\ recorded = [e \in Executors |-> 0]
  /\ complete = [e \in Executors |-> FALSE]

\* An execution begins with a ledger of its own.
Begin(e) ==
  /\ published' = [published EXCEPT ![e] = {}]
  /\ recorded' = [recorded EXCEPT ![e] = 0]
  /\ complete' = [complete EXCEPT ![e] = FALSE]

\* The action after those that are recorded.
Publish(e) ==
  /\ ~ complete[e]
  /\ recorded[e] < ActionCount
  /\ published' = [published EXCEPT ![e] = @ \cup {recorded[e] + 1}]
  /\ UNCHANGED <<recorded, complete>>

Keep(e) == recorded'[e] = recorded[e] /\ complete'[e] = complete[e]

Record(e) ==
  /\ recorded[e] < ActionCount
  /\ recorded'[e] = recorded[e] + 1
  /\ ~ complete[e] /\ ~ complete'[e]

Close(e) ==
  /\ recorded[e] = ActionCount
  /\ recorded'[e] = recorded[e]
  /\ complete'[e]

\* A power loss may show the last line of several ledgers at once.
Settle ==
  /\ \A e \in Executors : Keep(e) \/ Record(e) \/ Close(e)
  /\ UNCHANGED published

Next == (\E e \in Executors : Begin(e) \/ Publish(e)) \/ Settle

Spec == Init /\ [][Next]_vars
=============================================================================
