SPECIFICATION PSpec
CONSTANTS
  Groups = {0}
  GroupIds = {0}
  PublicKeys = {1, 2}
  IASMayFail = FALSE
  MaxKeys = 2
  EnclaveIds = {1}
  Slots = {s1, s2}
  MaxLosses = 1
  NULL = NULL
SYMMETRY SlotSymmetry
INVARIANTS
  GcmErrorReturned
