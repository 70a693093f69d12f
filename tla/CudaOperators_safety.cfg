\* Two layers that share their buffers; CUDA calls that fail at any point.
SPECIFICATION Spec
CONSTANTS
  MaxInt = 10
  NumLayers = 2
  Hidden = 2
  Kv = 1
  Inter = 3
  Vocab = 5
  MaxRows = 2
  MinBytes = 2
  Misfits <- MisfitGate
  MaxFailures = 2
INVARIANTS
  MlpComputesItsLayer
  ProductsKeepToTheirTensors
  LaunchesInBounds
