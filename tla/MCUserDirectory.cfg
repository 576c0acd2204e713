SPECIFICATION Spec
CONSTANTS
  r1 = r1
  r2 = r2
  r3 = r3
  user = user
  administrator = administrator
  Requests <- MCRequests
  Roles <- MCRoles
SYMMETRY Symmetry
INVARIANTS TypeOK InStep RoleIsMirrored CacheIsCurrent KeepsPromises
CHECK_DEADLOCK FALSE
