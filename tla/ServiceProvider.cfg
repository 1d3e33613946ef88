SPECIFICATION SPSpec
CONSTANTS
  Groups = {0}
  GroupIds = {0, 1}
  PublicKeys = {1, 2}
  IASMayFail = TRUE
  MaxKeys = 3
  NULL = NULL
INVARIANTS
  SPTypeOK RegisteredInv VkCommits Msg2Inv
PROPERTIES
  FreshKeys
