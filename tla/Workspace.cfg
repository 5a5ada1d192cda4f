\* Three users, two requests and two invitations; two calls on an incident, a help request and a project;
\* two requests of one user over two windows and two writes; two calls on a cloud connection.
SPECIFICATION PartsSpec
CONSTANTS
  q1 = q1
  q2 = q2
  MemberRequests <- TwoRequests
  ben = ben
  cas = cas
  Users = {ada, ben, cas}
  Founder = ada
  Invites = {i1}
  Assignable = {"OWNER", "ADMIN"}
  NoUser = NoUser
  NoInvite = NoInvite
  Members <- TwoMembers
  WorkspaceCalls <- TwoRequests
  SeenRoles = {"ADMIN", "PROVISIONER"}
  RecordIds = {r}
  RecordKinds = {"INCIDENT"}
  HelpIds = {h}
  HelpKinds = {"security"}
  Projects = {p}
  WorkspaceAccounts = {a}
  KeptNotes = 1
  MaxAsked = 3
  NoRecord = NoRecord
  NoTransaction = NoTransaction
  Calls <- TwoRequests
  Inputs <- SomeInputs
  RateLimit = 1
  MaxEntries = 1
  EntryTtl = 1
  MaxBody = 1
  MaxWindow = 1
  MaxWrites = 2
  MaxRequests = 2
  NoVersion = NoVersion
  CloudCalls <- TwoRequests
  MaxPages = 2
  Marks = {"a", "b"}
  MaxMoments = 6
INVARIANTS
  AlwaysAnOwner
  NotesAreKept
  CacheHasItsVersion
  LimitHolds
  PageFollowsStream
  ConnectedIsOneCollection
PROPERTIES
  PrivilegedByOwner
  HelpGoesToReaders
  ProjectIsOneSave
SYMMETRY Interchangeable
CHECK_DEADLOCK FALSE
