SPECIFICATION Spec
CONSTANTS
  c1 = c1  c2 = c2  c3 = c3
  Conn = {c1, c2, c3}
  Host = {"ads.net"}
  Lines = 3  None = None
  MaxCrashes = 2
SYMMETRY ConnSymmetry
INVARIANTS
  ServedVerifiesUnlessRaced
  
