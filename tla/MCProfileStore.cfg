SPECIFICATION Spec
CONSTANTS
  f1 = f1
  t1 = t1
  c1 = c1
  a = a
  b = b
  unset = unset
  Save <- OneSave
  Trust <- OneTrust
  Set <- OneSet
  Field <- Fields
  Cert = "cert"
  Value <- Values
  Unset = unset
  Missing = Missing
  Empty = Empty
  Torn = Torn
SYMMETRY ValueSymmetry
CHECK_DEADLOCK FALSE
INVARIANTS
  TypeOK
  FileWhole
PROPERTIES
  OmittedKept
  StoredAsReported
