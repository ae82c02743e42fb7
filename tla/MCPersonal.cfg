CONSTANTS
  Requests = {1, 2, 3}
  Hashes = {1, 2}
  Radix = 10
  None = None
  Kinds = {"create", "import", "edit", "remove", "purge"}
  Imports <- MCImports
  Ids = {1}
  Initial = {1}
SPECIFICATION Spec
CONSTRAINT InTurn
VIEW Relevant
INVARIANTS
  TablesAreSound
  NothingLost
  RemovedIsGone
  NobodyIsStuck
PROPERTIES
  KeepsBook
