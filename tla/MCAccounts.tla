----------------------------- MODULE MCAccounts -----------------------------
(***************************************************************************)
(* Accounts: the refresh tokens of Sessions, the second factors of Login,  *)
(* and the accounts of Registration, one at a time. Login ends where       *)
(* Sessions begins, with the row of a session; Registration creates the    *)
(* accounts the other two start from.                                      *)
(***************************************************************************)
EXTENDS Sessions, TLC

CONSTANTS
  Twos,                               \* login exchanges, invites, worker starts
  Totp, Keys,                         \* the second factors
  Changes                             \* bound: changes of the password

VARIABLES
  focus,
  loginCred, loginCodes, loginReset, loginPrf, loginRecord, loginStart,
  loginSeen, loginPending, loginChal, loginLive, loginKept, loginTask,
  loginMinted, loginPlain, loginBare,
  signupUser, signupInvite, signupToken, signupStart, signupOpen, signupReg,
  signupBy

Factors == INSTANCE Login WITH
  Proofs <- Twos, Requests <- Requests, Totp <- Totp, Keys <- Keys,
  Changes <- Changes, None <- None, cred <- loginCred, codes <- loginCodes,
  reset <- loginReset, prf <- loginPrf, record <- loginRecord,
  start <- loginStart, seen <- loginSeen, pending <- loginPending,
  chal <- loginChal, live <- loginLive, kept <- loginKept,
  task <- loginTask, minted <- loginMinted, plain <- loginPlain,
  bare <- loginBare

Signup == INSTANCE Registration WITH
  Names <- Tokens, Invites <- Twos, Starts <- Twos, Requests <- Requests,
  None <- None, user <- signupUser, invite <- signupInvite,
  token <- signupToken, start <- signupStart, open <- signupOpen, reg <- signupReg, by <- signupBy

ASSUME FactorsAssumption == Factors!ConstantsOK
ASSUME SignupAssumption == Signup!ConstantsOK

loginVars ==
  <<loginCred, loginCodes, loginReset, loginPrf, loginRecord, loginStart,
    loginSeen, loginPending, loginChal, loginLive, loginKept, loginTask,
    loginMinted, loginPlain, loginBare>>
signupVars ==
  <<signupUser, signupInvite, signupToken, signupStart, signupOpen, signupReg,
    signupBy>>

\* One component moves in a behaviour; the others stay as they start.
MCInit ==
  /\ Init
  /\ Factors!Init
  /\ Signup!Init
  /\ focus \in {"sessions", "login", "signup"}

MCNext ==
  \/ /\ focus = "sessions" /\ Next
     /\ UNCHANGED <<focus, loginVars, signupVars>>
  \/ /\ focus = "login" /\ Factors!Next
     /\ UNCHANGED <<focus, vars, signupVars>>
  \/ /\ focus = "signup" /\ Signup!Next
     /\ UNCHANGED <<focus, vars, loginVars>>

mcVars == <<focus, vars, loginVars, signupVars>>

MCSpec == MCInit /\ [][MCNext]_mcVars

Symmetry ==
  Permutations(Tokens) \cup Permutations(Requests) \cup Permutations(Twos)

\* Of Sessions, what something still reads: not the age and the login of a
\* dead row that no task works on, nor dead rows in the list of a revocation;
\* of Login, not what only PrfIsActive and OldPasswordOut read.
Worked == Live \cup ({task[r].tok : r \in Requests} \ {None})
Logins == [t \in Worked |-> login[t]]

View ==
  <<row, [t \in Live |-> age[t]], Logins, {t \in Worked : login[t] \in ended},
    [r \in Requests |-> [task[r] EXCEPT !.todo = @ \cap Live]],
    active, steps, reaper, focus,
    loginCred, loginCodes, loginReset, loginRecord, loginStart, loginPending,
    loginChal, loginTask, loginMinted, loginPlain, loginBare, signupVars>>

-----------------------------------------------------------------------------
\* One use of the password yields one session at most (Login).
OneSessionEach == Factors!OneSessionEach

\* A session on the password alone is one of an account that had no second
\* factor while the login was under way (Login).
FactorAsked == Factors!FactorAsked

\* The bootstrap makes one administrator, however many workers start
\* (Registration).
OneBootstrap == Signup!OneBootstrap
=============================================================================
