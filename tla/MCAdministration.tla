-------------------------- MODULE MCAdministration --------------------------
(***************************************************************************)
(* What administrators and team owners set, one component at a time: who   *)
(* belongs to a team (Membership), who joins it by a link, who logs in     *)
(* through an identity provider, which rules sharing follows, which        *)
(* settings workers read, and who has which role. They share users and     *)
(* teams, whose rows each of them models as far as its own properties read *)
(* them.                                                                   *)
(***************************************************************************)
EXTENDS Membership, TLC

CONSTANTS
  u1, u2, u3,                         \* users; u1 creates the team
  file, other,                        \* files of a team
  Files, Links, Browsers,             \* all of them; links to join; page users
  JoinKeys, JoinChanges,
  Flows, Subjects,                    \* of an OIDC provider
  NameOf, LocalNames, IdpChanges,
  Workers, Officers, RankOf,          \* servers; administrators and their tiers
  SettingKeys, SeededKeys, EscrowOrder, DefaultOf,
  SettingUpdates, SettingLocks, EscrowUpdates, SettingImports,
  SettingEdits, SettingStops,
  RuleIds, Attributes, Likeness,      \* rules on sharing; what users are
  RuleBodies, RuleChanges, RuleProfiles, RuleQueries, RuleEdits,
  StartOf, SystemRoles, RoleTier, AdminRoles, RootRole, CustomRoles,
  RoleFlags, Sensitive, ManageFlag, CreateFlag, SharingFlag, CarriedFlags,
  RoleBodies, FlagChanges, RoleExports, RoleEdits

VARIABLES
  focus,
  joinKey, joinKeys, joinMember, joinHeld, joinConfirmed, joinFiles,
  joinLink, joinWraps, joinTask, joinChanges, joinLost, joinPassed,
  idpKind, idpProvider, idpLeaving, idpStates, idpBegun, idpCode, idpSpent,
  idpUsers, idpLink, idpFactor, idpReset, idpExempt, idpChal, idpTask,
  idpChanges, idpGiven,
  rulesRows, rulesConds, rulesEdit, rulesEval, rulesEdits, rulesMeant, rulesTorn,
  setValue, setLock, setAudit, setCache, setPhase, setSnap, setInbox,
  setMine, setTask, setEdits, setStops, setStale, setSplit,
  rolePerms, roleGranted, roleIsAdmin, roleReq, roleEdits, roleBlurred,
  roleDeposed

\* A second owner has an older role as well; and two subjects have one
\* username.
MembersJoined ==
  {[u \in {u1, u2, u3} |->
      CASE u = u1 -> {"owner"} [] u = u2 -> {"owner", "member"} [] u = u3 -> {}]}
SameName == [s \in Subjects |-> "bob"]

\* u1 is a server admin, u2 an org admin; they differ in what sharing rules
\* compare.
TierOf == [a \in {u1, u2} |-> IF a = u1 THEN 1 ELSE 2]
MCAttributes ==
  [u \in {u1, u2} |-> [dept |-> IF u = u1 THEN "x" ELSE "y", mail |-> IF u = u1 THEN "x" ELSE None]]
Test(op, path, value, block) ==
  [op |-> op, path |-> path, path2 |-> path, value |-> value, block |-> block]
Rule(name, prio, subject, type, effect, lock, conds) ==
  [name |-> name, active |-> TRUE, prio |-> prio, subject |-> subject, type |-> type,
   effect |-> effect, locked |-> lock # None, tier |-> lock, conds |-> conds]
MCRuleBodies ==
  {Rule("n", 1, "recipient", None, "deny", 1,
        <<Test("eq", "dept", "y", TRUE), Test("eq", "mail", "x", FALSE)>>),
   Rule("m", 2, "sender", "user", "allow", None, <<Test("eq", "dept", "x", FALSE)>>)}
MCRuleChanges ==
  {[prio |-> 1], [locked |-> TRUE, tier |-> 2], [active |-> FALSE],
   [subject |-> "cross", conds |-> <<Test("cross_neq", "dept", "", TRUE)>>]}
RuleProfile ==
  <<Rule("n", 1, "sender", "link", "deny", 1, <<Test("in", "dept", {"x"}, TRUE)>>),
    Rule("p", 2, "cross", None, "deny", None, <<Test("cross_eq", "dept", "", TRUE)>>)>>
MCRuleProfiles == {RuleProfile, <<RuleProfile[1]>>, <<RuleProfile[2]>>}
MCRuleQueries ==
  {[kind |-> "share", sender |-> u1, recipient |-> u2, type |-> "user"],
   [kind |-> "test", sender |-> u1, recipient |-> None, type |-> "link"]}

MCOfficers == {u1, u2}
MCDefaultOf == [k \in {"rate", "coverage", "agents"} |-> 0]
Lock(on, tier) == [on |-> on, tier |-> tier]
MCSettingUpdates == {[rate |-> 1], [rate |-> 2]}
MCSettingLocks == {[rate |-> Lock(TRUE, 1)]}
MCEscrowOrder == <<"agents", "coverage">>
MCEscrowUpdates ==
  {[values |-> <<[key |-> "agents", value |-> 2]>>, lock |-> Lock(TRUE, 1)],
   [values |-> <<>>, lock |-> [tier |-> 1]]}
MCSettingImports == {<<[key |-> "coverage", value |-> 3, lock |-> <<>>]>>}

MCStartOf == [u \in {u1, u2, u3} |-> IF u = u3 THEN {"org"} ELSE {"root"}]
MCRoleTier == [root |-> 1, org |-> 2]
MCCarriedFlags ==
  [root |-> {"manage", "create", "sharing", "all"}, org |-> {"manage", "create", "sharing"},
   user |-> {}]
MCRoleBodies == {[id |-> "custom", flags |-> [sharing |-> "1", all |-> "0"]]}
FlagEntry(value, on, tier) == [value |-> value, on |-> on, tier |-> tier]
MCFlagChanges ==
  {[sharing |-> FlagEntry("1", TRUE, 1)], [sharing |-> FlagEntry("0", FALSE, None)]}
MCRoleExports == {[custom |-> [manage |-> FlagEntry("1", TRUE, 1)]], [org |-> <<>>], <<>>}

Join == INSTANCE EphemeralJoin WITH
  Users <- Users, Owner <- Creator, Browsers <- Browsers,
  Files <- Files, Links <- Links, None <- None, MaxKeys <- JoinKeys,
  Changes <- JoinChanges, key <- joinKey, keys <- joinKeys, member <- joinMember,
  held <- joinHeld, confirmed <- joinConfirmed, files <- joinFiles,
  link <- joinLink, wraps <- joinWraps, task <- joinTask,
  changes <- joinChanges, lost <- joinLost, passed <- joinPassed

Idp == INSTANCE IdpLogin WITH
  Flows <- Flows, Subjects <- Subjects, Name <- NameOf, Taken <- LocalNames,
  Requests <- Requests, None <- None, Changes <- IdpChanges, kind <- idpKind,
  provider <- idpProvider, leaving <- idpLeaving, states <- idpStates,
  begun <- idpBegun, code <- idpCode, spent <- idpSpent, users <- idpUsers,
  link <- idpLink, factor <- idpFactor, reset <- idpReset,
  exempt <- idpExempt, chal <- idpChal, task <- idpTask,
  changes <- idpChanges, given <- idpGiven

Rules == INSTANCE SharingRules WITH
  Admins <- Officers, Tier <- RankOf, Attr <- Attributes, Like <- Likeness,
  Rules <- RuleIds, Bodies <- RuleBodies, Amendments <- RuleChanges,
  Profiles <- RuleProfiles, Asks <- RuleQueries, None <- None,
  Edits <- RuleEdits, rows <- rulesRows, conds <- rulesConds,
  edit <- rulesEdit, eval <- rulesEval, edits <- rulesEdits,
  meant <- rulesMeant, torn <- rulesTorn

Set == INSTANCE Settings WITH
  Workers <- Workers, Admins <- Officers, Tier <- RankOf,
  Keys <- SettingKeys, Seeded <- SeededKeys,
  EscrowKeys <- EscrowOrder, Default <- DefaultOf,
  Updates <- SettingUpdates, Locks <- SettingLocks,
  EscrowBodies <- EscrowUpdates, Imports <- SettingImports, None <- None,
  Edits <- SettingEdits, Stops <- SettingStops, value <- setValue, lock <- setLock,
  audit <- setAudit, cache <- setCache, phase <- setPhase, snap <- setSnap,
  inbox <- setInbox, mine <- setMine, task <- setTask, edits <- setEdits,
  stops <- setStops, stale <- setStale, split <- setSplit

Role == INSTANCE Roles WITH
  Users <- Users, Start <- StartOf, System <- SystemRoles, Tier <- RoleTier,
  AdminRoles <- AdminRoles, Root <- RootRole, Custom <- CustomRoles,
  Flags <- RoleFlags, Sensitive <- Sensitive, Manage <- ManageFlag,
  Create <- CreateFlag, Sharing <- SharingFlag, Carries <- CarriedFlags,
  NewRoles <- RoleBodies, Permissions <- FlagChanges, Exports <- RoleExports,
  Requests <- Requests, None <- None, Edits <- RoleEdits,
  perms <- rolePerms, granted <- roleGranted, isAdmin <- roleIsAdmin,
  req <- roleReq, edits <- roleEdits, blurred <- roleBlurred,
  deposed <- roleDeposed

ASSUME MembersAssumption == ConstantsOK
ASSUME JoinAssumption == Join!ConstantsOK
ASSUME IdpAssumption == Idp!ConstantsOK
ASSUME RulesAssumption == Rules!ConstantsOK
ASSUME SettingsAssumption == Set!ConstantsOK
ASSUME RolesAssumption == Role!ConstantsOK

joinVars ==
  <<joinKey, joinKeys, joinMember, joinHeld, joinConfirmed, joinFiles,
    joinLink, joinWraps, joinTask, joinChanges, joinLost, joinPassed>>
idpVars ==
  <<idpKind, idpProvider, idpLeaving, idpStates, idpBegun, idpCode,
    idpSpent, idpUsers, idpLink, idpFactor, idpReset, idpExempt, idpChal,
    idpTask, idpChanges, idpGiven>>
rulesVars ==
  <<rulesRows, rulesConds, rulesEdit, rulesEval, rulesEdits, rulesMeant, rulesTorn>>
setVars ==
  <<setValue, setLock, setAudit, setCache, setPhase, setSnap, setInbox,
    setMine, setTask, setEdits, setStops, setStale, setSplit>>
roleVars ==
  <<rolePerms, roleGranted, roleIsAdmin, roleReq, roleEdits, roleBlurred,
    roleDeposed>>

\* One component moves in a behaviour; the others stay as they start.
MCInit ==
  /\ Init
  /\ Join!Init
  /\ Idp!Init
  /\ Rules!Init
  /\ Set!Init
  /\ Role!Init
  /\ focus \in {"members", "join", "idp", "rules", "settings", "roles"}
  /\ focus = "join" \/ (joinFiles[file] = 0 /\ joinFiles[other] = 0)
  /\ focus = "idp" \/ (idpKind = "oidc" /\ ~idpExempt)

MCNext ==
  \/ /\ focus = "members" /\ Next
     /\ UNCHANGED <<focus, joinVars, idpVars, rulesVars, setVars, roleVars>>
  \/ /\ focus = "join" /\ Join!Next
     /\ UNCHANGED <<focus, vars, idpVars, rulesVars, setVars, roleVars>>
  \/ /\ focus = "idp" /\ Idp!Next
     /\ UNCHANGED <<focus, vars, joinVars, rulesVars, setVars, roleVars>>
  \/ /\ focus = "rules" /\ Rules!Next
     /\ UNCHANGED <<focus, vars, joinVars, idpVars, setVars, roleVars>>
  \/ /\ focus = "settings" /\ Set!Next
     /\ UNCHANGED <<focus, vars, joinVars, idpVars, rulesVars, roleVars>>
  \/ /\ focus = "roles" /\ Role!Next
     /\ UNCHANGED <<focus, vars, joinVars, idpVars, rulesVars, setVars>>

mcVars == <<focus, vars, joinVars, idpVars, rulesVars, setVars, roleVars>>

MCSpec == MCInit /\ [][MCNext]_mcVars

Symmetry ==
  Permutations(Requests) \cup Permutations(Flows) \cup Permutations(Workers)

-----------------------------------------------------------------------------
\* A join that is done leaves every member and file with the team's new key,
\* and its link serves nobody else (EphemeralJoin).
JoinIsWhole == Join!JoinIsWhole

\* An external_id has one account, every login ends in it, and a flow ends in
\* one login at most, of whoever authenticated in it (IdpLogin).
LoginsKeptApart == Idp!OneAccountEach /\ Idp!FlowsKeptApart

\* A share, or a dry run, is decided as the last requests meant the rules,
\* unless they were edited meanwhile or left half written (SharingRules).
RulesDecide == Rules!RulesDecide

\* Nobody puts a rule before a locked rule of a more privileged administrator,
\* or writes to a rule, a setting or a role's flag that is locked above him,
\* unless it was locked after his request had been checked, or by a page that
\* does not look: the locks of settings, escrow rows but one, the values of
\* sharing capabilities, the deletion of a role (SharingRules, Settings, Roles).
AuthorityKept == Rules!AuthorityKept /\ Set!LocksHold /\ Role!FlagLocksHold

\* A worker reads the settings as they are stored, but for what it was never
\* told of, and its audit key is the stored one (Settings).
WorkersAgree == Set!WorkersAgree

\* A server admin remains, and is_admin says who is an administrator, but for
\* the races the property names (Roles).
AdminsRemain == Role!AdminsRemain
=============================================================================
