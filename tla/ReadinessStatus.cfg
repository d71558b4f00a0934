SPECIFICATION Spec
CONSTANTS
  Claims = {"report_reviewed", "second_environment", "retained"}
  MayLack = {"offline", "rehearsal"}
  MaxBundles = 3
  MaxReceipts = 2
  MaxAttestations = 4
  MaxSteps = 3
INVARIANTS TypeOK CompleteIsRecoverable CompleteIsOwnersWord CompleteProjectIsSafe
