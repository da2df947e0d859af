SPECIFICATION Spec
CONSTANTS
  Addrs = {a1}
  Slots = {k1, k2}
  NativeSlots = {k2}
  NoAccount = NoAccount
  Owner <- MCOwner
  Values = {0, 1}
  MaxBalance = 1
  MaxJournal = 2
  MaxRevision = 3
INVARIANT CleanIsDurable
PROPERTY RevertRestores
