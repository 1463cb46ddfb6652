SPECIFICATION SourcesSpec
CONSTANTS
  h1 = h1
  client = client
  localhost = localhost
  Daemon = Daemon
  None = None
  Source <- Sources
  Local <- Locals
  Remote <- Remotes
  Handler <- Handlers
  MaxFaults = 1
  Line <- Lines
  Watched <- WatchedFiles
  Listed <- ListedFiles
  ExcludedIps <- Localhost
  MaxStored = 2
INVARIANTS
  LinksAgree
  UnlinkedOnlyByConflict
  ShownUnderItsHost
  AttackIsSecurity
  MoreIsWorse
CHECK_DEADLOCK FALSE
