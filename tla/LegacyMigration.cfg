SPECIFICATION Spec
CONSTANTS
  a = a
  b = b
  Items = {a, b}
INVARIANTS
  MarkedIsImported
PROPERTIES
  LegacyStaysInReach
  ImportedOnce
  FilesAreKept
