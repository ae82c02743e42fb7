CONSTANTS
  Requests = {1, 2, 3}
  Hashes = {1, 2}
  Radix = 10
  None = None
  Kinds = {"create", "import", "edit", "remove", "removeBook"}
  Initial = {1}
  MaxEntries = 2
SPECIFICATION Spec
INVARIANTS
  TablesAreSound
  NothingLost
  RemovedIsGone
  ImportIsComplete
  NobodyIsStuck
PROPERTIES
  KeepsBook
