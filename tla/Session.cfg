SPECIFICATION Spec
CONSTANTS
  Inputs <- MCInputs
  StatusMod = 3
INVARIANTS RejectionShows RefusalHasCause
PROPERTIES AllAnswered
CHECK_DEADLOCK FALSE
