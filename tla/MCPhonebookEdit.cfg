CONSTANTS
  Requests = {1, 2}
  Hashes = {1, 2, 3}
  Radix = 10
  None = None
  Kinds = {"edit"}
  Initial = {1}
  MaxEntries = 1
SPECIFICATION Spec
INVARIANTS
  HashMatchesFields
