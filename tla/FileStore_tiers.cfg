\* The single-indirect disk and the double-indirect disk of
\* MC_FileStoreTiers, one chosen per behaviour.
CONSTANTS
  Junk = Junk
  NoFile = NoFile
  Names = {a, b}

SPECIFICATION TiersSpec
CONSTRAINT TiersBound
INVARIANT TierSectorOwnership
INVARIANT SingleFitsIffSpace
PROPERTY TierAbsSpec
