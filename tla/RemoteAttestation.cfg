SPECIFICATION RASpec
CONSTANTS
  Groups = {0}
  GroupIds = {0}
  PublicKeys = {1, 2}
  IASMayFail = FALSE
  MaxKeys = 2
  EnclaveIds = {1, 2}
  MaxLosses = 2
  NULL = NULL
INVARIANTS
  RATypeOK KeyAgreement CleanupInv RetryBounds
PROPERTIES
  CloseBeforeDestroy RATermination
