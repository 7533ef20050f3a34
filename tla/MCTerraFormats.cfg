\* Upgrades, downgrades and crashes of five releases over three families.
SPECIFICATION FormatSpec
CONSTANTS
  Families = {"entities", "assertions", "embeddings"}
  Versions = {1, 2, 3}
  Programs <- MCPrograms
INVARIANT DecodesItsOwn
PROPERTY StoppedStoresReopen
