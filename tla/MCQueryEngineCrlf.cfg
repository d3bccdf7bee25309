SPECIFICATION Spec
CONSTANTS
  Grid = 2
  MaxDate = 99999999
  Files <- SmallFiles
  Specs <- SmallSpecs
  ChunkRows = 2
  PollEvery = 2
INVARIANTS ScriptFileAnswered
CHECK_DEADLOCK FALSE
