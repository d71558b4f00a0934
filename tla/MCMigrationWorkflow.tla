-------------------------- MODULE MCMigrationWorkflow --------------------------
\* Callers and servers are interchangeable.
EXTENDS MigrationWorkflow, TLC

Interchangeable == Permutations(Callers) \cup Permutations(Servers)
================================================================================
