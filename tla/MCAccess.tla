------------------------------ MODULE MCAccess ------------------------------
(***************************************************************************)
(* What opens a folder to others, one component at a time: a link share,   *)
(* first its files that wait for their keys and then a visitor of it       *)
(* (ShareKeying), and the policies that give a user a team role and a      *)
(* permission on it (PolicyGrants).                                        *)
(***************************************************************************)
EXTENDS ShareKeying

CONSTANTS
  f1, f2,                             \* files of a shared folder
  d1, d2,                             \* the folder and its subfolder
  p, q, c1, c2, e1, e2, e3,           \* policies, conditions, effects
  u1, t1, t2,                         \* a user, and tasks on policies
  LeftToVisits,                       \* bound: changes not made while a visitor reads
  None

VARIABLES
  focus,
  polPolicy, polEffect, polConds, polSat, polLocked, polExempt, polRole,
  polSlot, polAcl, polTgrant, polFgrant, polTask, polLeft

KeyingHome == [f \in Files |-> IF f = f1 THEN d1 ELSE d2]

\* An organisation's policy p with a membership and a folder permission, the
\* latter created in the run; a team's policy q with the same membership,
\* whose row may stand in for the one of p.
CondsOf == [c \in {c1, c2} |-> IF c = c1 THEN p ELSE q]
EffectsOf == [e \in {e1, e2, e3} |-> IF e = e2 THEN q ELSE p]

Policy == INSTANCE PolicyGrants WITH
  Users <- {u1}, Policies <- {p, q}, Org <- {p}, Conds <- {c1, c2},
  CondOf <- CondsOf, Scoped <- {c2}, Effects <- {e1, e2, e3},
  Of <- EffectsOf, Known <- {e1, e2}, TeamKind <- {e1, e2},
  Tasks <- {t1, t2}, Changes <- 2, None <- None,
  policy <- polPolicy, effect <- polEffect, conds <- polConds,
  sat <- polSat, locked <- polLocked, exempt <- polExempt, role <- polRole,
  slot <- polSlot, acl <- polAcl, tgrant <- polTgrant, fgrant <- polFgrant,
  task <- polTask, left <- polLeft

ASSUME KeyingAssumption == ConstantsOK
ASSUME PolicyAssumption == Policy!ConstantsOK

policyVars ==
  <<polPolicy, polEffect, polConds, polSat, polLocked, polExempt, polRole,
    polSlot, polAcl, polTgrant, polFgrant, polTask, polLeft>>

\* One component moves in a behaviour; the other stays as it starts. The user
\* matches both policies at first, and was not evaluated yet. Where a visitor
\* reads, at most the file in the subfolder is still being uploaded.
MCInit ==
  /\ Init /\ barred = {}
  /\ Policy!Init /\ \A c \in {c1, c2} : polSat[c] = {u1}
  /\ focus \in {"keying", "visits", "policies"}
  /\ focus = "visits" => file[f1] = "complete"
  /\ focus = "policies" => \A f \in Files : file[f] = "complete"

MCNext ==
  \/ /\ focus = "keying" /\ UNCHANGED reader
     /\ Next
     /\ UNCHANGED <<focus, policyVars>>
  \/ /\ focus = "visits" /\ Next
     /\ left' >= LeftToVisits
     /\ UNCHANGED <<focus, policyVars>>
  \/ /\ focus = "policies" /\ Policy!Next
     /\ UNCHANGED <<focus, vars>>

mcVars == <<focus, vars, policyVars>>

\* The fairness of PolicyGrants, for the behaviours in which it moves.
PoliciesRun ==
  /\ \A t \in {t1, t2} : WF_policyVars(focus = "policies" /\ Policy!Continue(t))
  /\ SF_policyVars(focus = "policies" /\ \E t \in {t1, t2} : Policy!Login(t, u1))
  /\ SF_policyVars(/\ focus = "policies"
                   /\ \E t \in {t1, t2}, e \in {e1, e2, e3} : Policy!DeliverCheck(t, u1, e))

MCSpec == MCInit /\ [][MCNext]_mcVars /\ PoliciesRun

-----------------------------------------------------------------------------
\* Once nothing changes any more the user has what the organisation's policy
\* grants, key included, and no row of a policy that does not match or of an
\* effect that was deleted (PolicyGrants).
PoliciesTakeHold == Policy!PoliciesTakeHold
=============================================================================
