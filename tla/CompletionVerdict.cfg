\* Requests of three protocols for one or two choices, with and without calls,
\* and every arrangement of up to seven events of MCCompletionStream.
SPECIFICATION Spec
CONSTANTS
  a = a
  b = b
  t = t
  u = u
  None = None
  Asks <- MCAsks
  Objects <- MCObjects
  EmptyObject <- Empty
  MaxTools = 2
  MaxFrames = 7
  MaxRepeats <- MCMaxRepeats
INVARIANTS CompleteIsWhole WholeIsComplete
CHECK_DEADLOCK FALSE
