CONSTANTS
  Column = {c1, c2}
  None = None
SPECIFICATION FairSpec
CHECK_DEADLOCK FALSE
INVARIANTS SuccessIsComplete
PROPERTIES InterimIsDropped IngestIsAtomic InterruptedIngestStops IngestReturns
