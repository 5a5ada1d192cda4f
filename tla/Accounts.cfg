\* Three operations on a connection and a wizard; a page and a client of the API, two edits; two panels, five clicks; two creations; a dialog of four steps; an owner who sets one key.
SPECIFICATION PartsSpec
CONSTANTS
  RoleArns = {r1, r2}
  AccessKeys = {x1, x2}
  OwnKeys = {x1}
  AllRegions = {g1}
  ConnCalls = {c1, c2}
  Wizards = {c1}
  MaxConnOps = 3
  MaxAccounts = 2
  NoCred = NoCred
  EditKinds = {"instance", "bucket", "tagged", "other"}
  EditCalls <- PageAndApi
  Tabs = {tab}
  Preset = 0
  MaxTouched = 1
  api = api
  tab = tab
  Panels = {n1, n2}
  GuardrailSets <- OneOrTwo
  DefaultGuardrails <- OnlyUs
  LiveMode = TRUE
  NoTemplate = NoTemplate
  MaxSetupOps = 5
  TagSets <- SomeTags
  Settings = {0, 1}
  MaxEdits = 2
  CreationPlans = {p1, p2}
  Configurations <- SomeConfigurations
  AddressBits = 4
  PrivateRanges <- TwoRanges
  MinPrefix = 1
  MaxPrefix = 4
  MainBlock <- OwnVpc
  OwnerBlocks <- OwnerMade
  Names = {"b"}
  MaxOwnerActs = 1
  Choices <- TwoChoices
  MaxKeys = 3
  MaxInFlight = 2
  MaxDialogSteps = 4
  j1 = j1
  j2 = j2
  pw = pw
  k1 = k1
  k2 = k2
  NoKey = NoKey
  Callers = {j1, j2}
  Processes = {pw}
  ProcessOf <- OneProcess
  Keys = {k1, k2}
  WhoIs <- KeyKinds
  FixtureEnv = TRUE
  SetupAllowed = TRUE
  Chain = "none"
  Providers = {"local"}
  Things = {t1}
  CacheTtl = 1
  MaxClock = 2
  MaxSaves = 1
  MaxBoots = 1
INVARIANTS
  UsableIsProven
  
  PlannedVpcsDisjoint
  SucceededIsItsOwn
  EveryTemplateWorks
  OnePlanPerForm
PROPERTIES
  MemoryIsRecent
SYMMETRY AlikeAccounts
CHECK_DEADLOCK FALSE
