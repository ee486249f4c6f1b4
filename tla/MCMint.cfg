SPECIFICATION Spec
CONSTANTS
  Kids = {k1, k2, k3}
  Owners = {alice, dotted}
  Matchable = {alice}
  MaxMinted = 2
  NoRing = NoRing
SYMMETRY Symmetry
INVARIANTS
  MintInv
  RetiredKeysValidate
  RegistryAttributes
  AttributedWasMinted
CHECK_DEADLOCK FALSE
