--------------------------- MODULE MCPushExecution ---------------------------
(* Instances of PushExecution and its promise for TLC. *)
EXTENDS PushKeepsPromise, TLC

CONSTANTS base, ours, theirs

\* One commit, and two that were made on it.
Commits == {base, ours, theirs}
Forks == {<<o, p>> \in Commits \X Commits : o = p \/ o = base}

Interchangeable == Permutations(Executors) \cup Permutations(Plans)
                     \cup Permutations({ours, theirs})
=============================================================================
