CONSTANTS
  g1 = g1  g2 = g2  r1 = r1  r2 = r2  k1 = k1  k2 = k2
  StoreCell = StoreCell
  Nil = Nil
  Gvks <- MCGvks
  KnownGvks <- MCKnownGvks
  Refs <- MCRefs
  Keys <- MCKeys
  Versions = {1, 2}
  MaxInformers = 2
  MaxRemoves = 1
  MaxListed = 1
SPECIFICATION Spec
INVARIANTS TypeOK StoreIsolated InformerNotDuplicated
