CONSTANTS
  Requests = {1, 2}
  Hashes = {1, 2}
  Radix = 10
  None = None
  Kinds = {"create", "edit"}
  Imports = {}
  Ids = {1}
  Initial = {1}
SPECIFICATION Spec
INVARIANTS
  EditsReplace
