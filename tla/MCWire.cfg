CONSTANTS
  None = None
  Resources = {buildings}
  Callers = {"anon", "citizen"}
  Encodings = {"br", "identity"}
  Preferred = "br"
  Requests = {q1, q2}
  Length <- MCLength
  Digest <- MCDigest
  MaxEntries = 2
  MaxBytes = 3
  MaxSaves = 2
SPECIFICATION Spec
SYMMETRY MCSymmetry
INVARIANTS
  BytesCounted
  BuiltForAsker
  StaleOnlyBy
