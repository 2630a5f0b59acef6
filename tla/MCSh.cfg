SPECIFICATION Spec
CONSTANTS
  NPROC = 6
  NOFILE = 5
  NPIPE = 2
  MAXARGS = 3
  Cap = 1
  Output = 2
  Scripts <- SomeScripts
INVARIANTS
  ForegroundDone
  ParsesGrammar
PROPERTIES
  CommandsEnd
