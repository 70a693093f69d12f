\* Short command lines of every kind, files, typed lines, and a sampler of four tokens.
SPECIFICATION Spec
CHECK_DEADLOCK FALSE
CONSTANTS
  Argvs <- MCArgvs
  Stoi <- MCStoi
  Stof <- MCStof
  Dashed <- MCDashed
  TextOf <- MCTextOf
  Files <- MCFiles
  InputLines <- MCInputLines
  MaxLines = 2
  Invalid <- MCInvalid
  NotANumber <- NaN
  VocabSize = 4
  Power <- MCPower
  Weights = {0, 1, 16}
INVARIANTS
  OptionsAsWritten
  PromptsArriveWhole
  NucleusIsSmallest
  DrawIsProportional
  ImpossibleNeverSampled
