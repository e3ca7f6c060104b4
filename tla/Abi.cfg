CONSTANTS
  Version <- MCVersion
  Error = {e1, e2}
  Old = {e1}
  Stream = {x1}
  Block = {b1, b2, b3, b4, b5}
  Code = {zero, privateData, vendor}
  Zero = zero
  PrivateData = privateData
  Details <- MCDetails
  None = None
SPECIFICATION Spec
INVARIANTS
  TableFits
  NoWriteOverGarbage
  OldStructUntouched
  BlocksAreOwned
  DetailsAreCurrent
PROPERTIES
  LostOnlyByReuse
CHECK_DEADLOCK FALSE
