SPECIFICATION MCSpec
CONSTANTS
  u1 = u1
  u2 = u2
  u3 = u3
  file = file
  other = other
  Files = {file, other}
  Links = {join}
  Browsers = {u2}
  JoinKeys = 3
  JoinChanges = 1
  Flows = {f1, f2}
  Subjects = {s1, s2}
  NameOf <- SameName
  LocalNames = {}
  IdpChanges = 2
  Requests = {r1, r2}
  None = None
  Users = {u1, u2, u3}
  Creator = u1
  Joined <- MembersJoined
  Changes = 3
  Workers = {w1, w2}
  Officers <- MCOfficers
  RankOf <- TierOf
  SettingKeys = {"rate", "coverage", "agents"}
  SeededKeys = {"rate"}
  EscrowOrder <- MCEscrowOrder
  DefaultOf <- MCDefaultOf
  SettingUpdates <- MCSettingUpdates
  SettingLocks <- MCSettingLocks
  EscrowUpdates <- MCEscrowUpdates
  SettingImports <- MCSettingImports
  SettingEdits = 2
  SettingStops = 1
  RuleIds = {e1, e2}
  Attributes <- MCAttributes
  Likeness = {}
  RuleBodies <- MCRuleBodies
  RuleChanges <- MCRuleChanges
  RuleProfiles <- MCRuleProfiles
  RuleQueries <- MCRuleQueries
  RuleEdits = 2
  StartOf <- MCStartOf
  SystemRoles = {"root", "org", "user"}
  RoleTier <- MCRoleTier
  AdminRoles = {"root", "org"}
  RootRole = "root"
  CustomRoles = {"custom"}
  RoleFlags = {"manage", "create", "sharing", "all"}
  Sensitive = {"all"}
  ManageFlag = "manage"
  CreateFlag = "create"
  SharingFlag = "sharing"
  CarriedFlags <- MCCarriedFlags
  RoleBodies <- MCRoleBodies
  FlagChanges <- MCFlagChanges
  RoleExports <- MCRoleExports
  RoleEdits = 2
INVARIANTS
  SlotLossFlagged
  OwnerRemains
  JoinIsWhole
  LoginsKeptApart
  RulesDecide
  WorkersAgree
  AdminsRemain
PROPERTIES
  AuthorityKept
SYMMETRY Symmetry
CHECK_DEADLOCK FALSE
