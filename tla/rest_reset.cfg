SPECIFICATION Spec
CONSTANTS
  Pcbs = {c1}
  Null = Null
INVARIANTS
  Serving
