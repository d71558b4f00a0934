--------------------------- MODULE MCEvidenceStore ---------------------------
(* Instances of EvidenceStore for TLC. *)
EXTENDS EvidenceStore, TLC

\* Callers run the same operations, and digests only identify records.
Interchangeable == Permutations(Callers) \cup Permutations(Digests)
=============================================================================
