SPECIFICATION Spec
CONSTANTS
  Texts = {"", "a"}
  Blank = ""
  MaxSends = 2
  MaxEdits = 1
  Members = {1, 2, 3}
  MemberPageSize = 1
  MaxWitnessPages = 3
  MaxMoves = 1
  Addresses = {"primary", "alias", "colleague", "stranger", "group"}
  Primary = "primary"
  Owner <- OneAccountEach
  Caller = "me"
  GroupAccount = "group"
  SidebarSpaces = {"sp1", "sp2"}
  Sections = {"s1", "s2", "s3"}
  Reactors = {1, 2, 3}
  Reactor = 2
  ReactionPageSize = 2
  Messages = {1, 2, 3, 4}
  Matching = {1, 3, 4}
  Nameless = {3}
  MessagePageSize = 1
  MaxScanPages = 3
  ScanLimit = 2
  Findable = {"p1", "p2", "p3"}
  Learnable = {"p1", "p2"}
  SearchLimit = 2
  PageGroups = {1, 2, 3, 4}
  MaxExpandedGroups = 3
  MaxCommands = 4
  MaxOutages = 2
  Requests = {"r1", "r2", "r3"}
  Downloads = {"d1", "d2"}
  MaxNameCollisions = 3
  SampledSpaces = 2
  MaxAdded = 1
  MaxChanges = 2
  MaxMachineChanges = 1
INVARIANTS
  TypeOK
  UnnamedIsOthers
  WriteNamesTheMembers
  AddsWhomItVetted
  FilesTheNamedSpace
  ReportsTheirReaction
  QuietScanIsComplete
  EverySourceCounts
  EveryGroupIsAccountedFor
  TokenIsKept
  FirstOutcomeIsTheLogin
  FilesAreKept
  AdviceFitsTheCause
  CommandsTellTheServer
