\* Errors and foreign records in every order, also repeated.
SPECIFICATION Spec
CONSTANTS
  Names = {r1, r2, r3}
  MaxIndex = 4
SYMMETRY Permuted
INVARIANT VariantsMatchEnumerators
