SPECIFICATION FairSpec
CONSTANTS
  Readers = {convert, setState}
  Writers = {update}
  Nobody = Nobody
  Locked = {convert, setState}
  MaxRow = 2
  MaxColumn = 3
  Retries = 2
  Env = {"connectFails", "queryFails", "answerLost", "fetchFails"}
INVARIANTS
  TableInv
  RepeatedOnlyUnanswered
  FetchedWhole
PROPERTIES
  MutexReleased
  ImplementsStatement
