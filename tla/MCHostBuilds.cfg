SPECIFICATION Spec
CONSTANTS
  Inputs = {"gcc14", "gcc15"}
  Builds = {"monday", "tuesday"}
  RootFiles = {"init", "libc", "sh"}
INVARIANTS
  SuccessIsComplete
  NeverMixed
