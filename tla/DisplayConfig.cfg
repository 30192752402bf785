\* Two refreshes, some hundred formats, files that are created, edited and broken.
SPECIFICATION Spec
CONSTANTS
  Token <- FormatTokens
  Variable <- Variables
  Modifier <- Modifiers
  Foreground <- Foregrounds
  Background <- Backgrounds
  Refresh = {r1, r2}
  None = None
  Invalid = Invalid
  Initial <- InitialFiles
  Edited <- EditedFiles
  Symbol <- SymbolValue
  Label <- LabelValue
  DefaultFormat <- TokenFormat
  ErrorSymbol <- SymbolValue
  DefaultErrorFormat <- ErrorFormat
INVARIANTS
  LoadedIsRead
  ParsedWhole
  StyleCoversBlock
  NumbersOnlyAdd
SYMMETRY RefreshSymmetry
