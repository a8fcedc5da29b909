SPECIFICATION Spec
CONSTANTS
  MaxJumps = 1
  MaxLabel = 2
  MaxHops = 2
  MaxPort = 3
  MaxUnits = 4
  Blank = Blank
  Every = Every
  Junk = Junk
  BlankText = BlankText
  NotANumber = NotANumber
  Unreadable = Unreadable
  Buffers <- MCBuffers
  Messages <- MCMessages
  Datagrams <- MCDatagrams
  Names <- MCNames
  Replies <- MCReplies
  Probes <- MCProbes
  HostAddresses <- MCHostAddresses
  CommonPorts <- MCCommonPorts
  Specs <- MCSpecs
  Units <- MCUnits
  Target <- MCTarget
  Word <- MCWord
  Lines <- MCLines
  Files <- MCFiles
  Envs <- MCEnvs
INVARIANTS
  NameIsPath
  RoundTrip
  ChaseFollowsChain
  WildcardSound
  PortsExact
  ArgsAnyOrder
  TopLayerRuns
CHECK_DEADLOCK FALSE
