SPECIFICATION Spec
CONSTANTS
  MaxPid = 4
  Retries = 3
  Self = 1
  InitAlive = {1, 2, 3}
  InitKinds <- SomeKinds
INVARIANTS SuccessCoversSurvivors QuietMachineDecided PairedSessionRestores
PROPERTY Terminates
