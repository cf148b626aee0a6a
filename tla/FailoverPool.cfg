\* Two candidates, one of them served by the OAuth adapter, of a pool or of an
\* explicit target chain; answers of up to three chunks, the first of which is
\* held back.
SPECIFICATION RelayFairSpec
CONSTANTS
  None = None
  Candidates = {c1, c2}
  Trusted = {c2}
  MaxAttempts = 3
  MaxChunks = 3
  PreviewChunks = 1
INVARIANTS AttemptsAccounted RelayTruthful
PROPERTIES NoReplay ImplementsSubmitOnce Served
