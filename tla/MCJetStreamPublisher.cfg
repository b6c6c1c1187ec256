SPECIFICATION FairSpec
CONSTANTS
  r1 = r1
  r2 = r2
  r3 = r3
  file = file
  memory = memory
  old = old
  new = new
  Requests = {r1, r2, r3}
  Storages = {file, memory}
  Managed = {old, new}
  Unmanaged = {default, custom}
  Default = default
  Desired <- MCDesired
  MaxAttempts = 2
INVARIANTS
  AtMostOneCopy
  SuccessIsStored
  StorageRespected
PROPERTIES
  UnmanagedPreserved
  RequestsAnswered
CHECK_DEADLOCK FALSE
