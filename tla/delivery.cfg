SPECIFICATION Spec
CONSTANTS
  Admins = {a1, a2}
  MaxRequests = 3
  Lines <- MCLines
  Sources = {"ufw", "csv"}
  DecoderNames = {1, 2}
  BuiltinDecoders <- MCBuiltin
  CustomDecoders <- MCCustom
  DecoderDocs <- MCDocs
  Scenarios <- MCScenarios
  MaxCalls = 2
  ErrorCap = 1
  TailSource = "ufw"
  Foreign = {2}
  RowSources = {"csv"}
  Header = 0
  FileLines <- MCFile
  BatchSize = 2
  Pieces <- MCPieces
  Connections = {"own", "foreign"}
  Arrivals <- MCArrivals
  Bulk <- MCBulk
  BulkSource = "ufw"
INVARIANTS DecodersSettle FatesExplained CopiesExplained OpenedAreRead RejectsComplete TakenAreStored
PROPERTIES LinesSettle
CHECK_DEADLOCK FALSE
