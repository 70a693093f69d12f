\* A product adds its own bias: not after an upload that failed.
SPECIFICATION Spec
CONSTANTS
  MaxInt = 10
  NumLayers = 1
  Hidden = 2
  Kv = 1
  Inter = 3
  Vocab = 1
  MaxRows = 1
  MinBytes = 2
  Misfits = {}
  MaxFailures = 5
INVARIANTS
  ProductsAddTheirBias
