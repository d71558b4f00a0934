--------------------------- MODULE PushKeepsPromise --------------------------
(***************************************************************************)
(* PushExecution refines PushPromise: the synchronized lines of a result   *)
(* log are the ledger.                                                     *)
(***************************************************************************)
EXTENDS PushExecution

\* A log whose lines say that the execution is complete.
Closed(lines) == \E n \in 1 .. Len(lines) : lines[n] = "complete"

Recorded == [e \in Executors |-> Succeeded(Durable(log[e]))]

Completed == [e \in Executors |-> Closed(Durable(log[e]))]

Promise == INSTANCE PushPromise WITH
  published <- pushed,
  recorded  <- Recorded,
  complete  <- Completed

\* However an execution ends and whatever a power loss leaves, its durable log is
\* a ledger of what it published: nothing in it is lost, at most one action is
\* published beyond it, and one line is added at a time (PushPlanEngine::execute,
\* PushResultLog::append_action, PushResultLog::finish).
KeepsLedger == Promise!Spec
=============================================================================
