\* The reply StadService.proto promises to a Terminate.
SPECIFICATION Spec
CHECK_DEADLOCK FALSE
CONSTANTS
  Calls = {c1}
INVARIANT
  TerminateIsAnswered
