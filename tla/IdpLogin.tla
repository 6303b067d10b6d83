------------------------------ MODULE IdpLogin ------------------------------
(***************************************************************************)
(* Logins through an identity provider (routes/idp_auth.py and             *)
(* idp_admin.py, auth/oidc_provider.py and ldap_provider.py): the OIDC     *)
(* flow with its single-use state row and the code the browser brings back *)
(* from the provider, the LDAP bind, the account made at the first login,  *)
(* the session or MFA challenge it ends in, and the provider's removal.    *)
(* One provider of either kind.  What the factors then ask is in Login,    *)
(* what becomes of sessions in Sessions.                                   *)
(***************************************************************************)
EXTENDS Naturals, Sequences, FiniteSets

CONSTANTS
  Flows,     \* runs of the OIDC flow, each with its state, nonce and code
  Subjects,  \* external_ids: OIDC subjects, or LDAP usernames as typed
  Name,      \* the username of each; Bob and bob are one (CITEXT)
  Taken,     \* usernames of local accounts
  Requests,  \* handlers under way at once
  None,      \* no subject
  Changes    \* bound on administrators' and users' changes, and on LDAP logins

ConstantsOK ==
  /\ DOMAIN Name = Subjects /\ None \notin Subjects /\ Changes \in Nat

Fresh == "suffixed"   \* a username with eight random characters added

VARIABLES
  kind,      \* identity_providers.provider_type
  provider,  \* its row: "active", "inactive" (is_active = 0) or "gone"
  leaving,   \* delete_provider is between its statements
  states,    \* oidc_states: the flows that may be completed
  begun,     \* flows ever begun
  code,      \* the subject who authenticated at the provider in each flow
  spent,     \* codes the provider has exchanged
  users,     \* the accounts made, in order: username, identity_provider_id
             \* set, and, as history, whom it was made for
  link,      \* identity_provider_users: the account of each external_id
  factor,    \* accounts with an active method
  reset,     \* accounts with mfa_reset_required
  exempt,    \* mfa_oidc_exempt
  chal,      \* _oidc_mfa_challenges: flows whose pending token waits
  task,      \* requests under way
  changes,   \* bound counter
  given      \* history: what the logins ended in

idp == <<kind, provider, leaving>>
flow == <<states, begun, code, spent>>
mfa == <<factor, reset, exempt>>
vars == <<idp, flow, users, link, mfa, chal, task, changes, given>>

Idle == [pc |-> "idle", state |-> None, code |-> None, sub |-> None, user |-> 0]

Init ==
  /\ kind \in {"oidc", "ldap"} /\ provider = "active" /\ leaving = FALSE
  /\ states = {} /\ begun = {} /\ spent = {}
  /\ code = [f \in Flows |-> None]
  /\ users = <<>> /\ link = [s \in Subjects |-> 0]
  /\ factor = {} /\ reset = {} /\ exempt \in BOOLEAN
  /\ chal = {} /\ changes = 0 /\ given = {}
  /\ task = [r \in Requests |-> Idle]

Goes(r, pc) == task' = [task EXCEPT ![r].pc = pc]
Ends(r) == task' = [task EXCEPT ![r] = Idle]
At(r, pc) == task[r].pc = pc

-----------------------------------------------------------------------------
(* The OIDC flow                                                           *)

OidcBegin(f) ==
  /\ kind = "oidc" /\ provider = "active" /\ f \notin begun
  /\ begun' = begun \cup {f} /\ states' = states \cup {f}
  /\ UNCHANGED <<idp, code, spent, users, link, mfa, chal, task, changes, given>>

\* Someone logs in at the provider, which sends the browser back with a code.
Authenticate(f, s) ==
  /\ f \in begun /\ code[f] = None
  /\ code' = [code EXCEPT ![f] = s]
  /\ UNCHANGED <<idp, states, begun, spent, users, link, mfa, chal, task,
                 changes, given>>

\* oidc_callback with the state of one flow and a code, of that flow or not.
OidcCallback(r, f, g) ==
  /\ At(r, "idle")
  /\ code[g] # None
  /\ f \in states /\ provider = "active"
  /\ task' = [task EXCEPT ![r] = [Idle EXCEPT !.pc = "consume", !.state = f, !.code = g]]
  /\ UNCHANGED <<idp, flow, users, link, mfa, chal, changes, given>>

\* DELETE FROM oidc_states ... RETURNING
Consume(r) ==
  /\ At(r, "consume")
  /\ states' = states \ {task[r].state}
  /\ IF task[r].state \in states THEN Goes(r, "exchange") ELSE Ends(r)
  /\ UNCHANGED <<idp, begun, code, spent, users, link, mfa, chal, changes, given>>

\* The ID token carries the nonce of the flow its code is of.
Bound(t) == t.code = t.state

\* The provider exchanges a code once; whatever fails ends the login.
Exchange(r) ==
  LET t == task[r] IN
  /\ At(r, "exchange")
  /\ \/ /\ t.code \notin spent
        /\ spent' = spent \cup {t.code}
        /\ IF Bound(t)
           THEN task' = [task EXCEPT ![r].pc = "find", ![r].sub = code[t.code]]
           ELSE Ends(r)
     \/ Ends(r) /\ UNCHANGED spent
  /\ UNCHANGED <<idp, states, begun, code, users, link, mfa, chal, changes, given>>

\* sweep_expired_oidc_states, and a state whose time is up.
SweepStates(f) ==
  /\ f \in states
  /\ states' = states \ {f}
  /\ UNCHANGED <<idp, begun, code, spent, users, link, mfa, chal, task, changes,
                 given>>

(* LDAP: the provider is read, then the directory checks the password.     *)
LdapLogin(r, s) ==
  /\ At(r, "idle")
  /\ kind = "ldap" /\ provider = "active"
  /\ Cardinality(given) < Changes
  /\ task' = [task EXCEPT ![r] = [Idle EXCEPT !.pc = "bind", !.sub = s]]
  /\ UNCHANGED <<idp, flow, users, link, mfa, chal, changes, given>>

LdapAuthenticate(r) ==
  /\ At(r, "bind")
  /\ Goes(r, "find") \/ Ends(r)
  /\ UNCHANGED <<idp, flow, users, link, mfa, chal, changes, given>>

-----------------------------------------------------------------------------
(* The account                                                             *)

\* _ensure_idp_user: by the mapping, if there is one.
FindUser(r) ==
  LET u == link[task[r].sub] IN
  /\ At(r, "find")
  /\ task' = [task EXCEPT ![r].pc = IF u = 0 THEN "create" ELSE "issue",
                          ![r].user = u]
  /\ UNCHANGED <<idp, flow, users, link, mfa, chal, changes, given>>

\* UNIQUE(provider_id, external_id)
Unmapped_Overwrite(s) == TRUE
Unmapped(s) == link[s] = 0

\* The transaction of users, identity_provider_users and user_roles.
Insert(r, name) ==
  LET s == task[r].sub IN
  /\ users' = Append(users, [name |-> name, linked |-> TRUE, of |-> s])
  /\ link' = [link EXCEPT ![s] = Len(users')]
  /\ task' = [task EXCEPT ![r].pc = "issue", ![r].user = Len(users')]

NameFree(n) ==
  n \notin Taken /\ \A u \in DOMAIN users : users[u].name # n

\* A duplicate, of the name or of the mapping, is tried again with a suffix;
\* a second one, like a provider that is gone, fails the login.
CreateUser(r) ==
  LET s == task[r].sub IN
  /\ At(r, "create")
  /\ IF provider = "gone" THEN Ends(r) /\ UNCHANGED <<users, link>>
     ELSE IF NameFree(Name[s]) /\ Unmapped(s) THEN Insert(r, Name[s])
     ELSE Goes(r, "retry") /\ UNCHANGED <<users, link>>
  /\ UNCHANGED <<idp, flow, mfa, chal, changes, given>>

RetryUser(r) ==
  /\ At(r, "retry")
  /\ IF provider # "gone" /\ Unmapped(task[r].sub)
     THEN Insert(r, Fresh)
     ELSE Ends(r) /\ UNCHANGED <<users, link>>
  /\ UNCHANGED <<idp, flow, mfa, chal, changes, given>>

-----------------------------------------------------------------------------
(* The session                                                             *)

\* _issue_session_or_mfa_challenge; the challenge of an OIDC login is kept in
\* memory until the browser comes for it.
Issue(r) ==
  LET t == task[r]
      asked == t.user \in reset \/ (t.user \in factor /\ ~exempt)
      what == IF asked THEN "pending" ELSE "session" IN
  /\ At(r, "issue")
  /\ given' = given \cup
       {[user |-> t.user, sub |-> t.sub, state |-> t.state, code |-> t.code,
         what |-> what, nth |-> Cardinality({g \in given : g.state = t.state})]}
  /\ chal' = IF asked /\ kind = "oidc" THEN chal \cup {t.state} ELSE chal
  /\ Ends(r)
  /\ UNCHANGED <<idp, flow, users, link, mfa, changes>>

\* exchange_mfa_challenge pops it; its 120 seconds may be over.
TakeChallenge(f) ==
  /\ f \in chal
  /\ chal' = chal \ {f}
  /\ UNCHANGED <<idp, flow, users, link, mfa, task, changes, given>>

-----------------------------------------------------------------------------
(* Administration                                                          *)

Change == changes < Changes /\ changes' = changes + 1

SetFactors(u) ==
  /\ Change
  /\ \/ factor' = factor \cup {u} /\ UNCHANGED reset
     \/ factor' = factor \ {u} /\ reset' = reset \cup {u}
  /\ UNCHANGED <<idp, flow, users, link, exempt, chal, task, given>>

\* update_provider
SetActive(s) ==
  /\ Change
  /\ provider # "gone" /\ s # provider
  /\ provider' = s
  /\ UNCHANGED <<kind, leaving, flow, users, link, mfa, chal, task, given>>

\* delete_provider takes the reference off the accounts, and then deletes the
\* row, which an account made in between forbids; states and mappings cascade.
Delink ==
  /\ Change
  /\ provider # "gone" /\ ~leaving
  /\ leaving' = TRUE
  /\ users' = [u \in DOMAIN users |-> [users[u] EXCEPT !.linked = FALSE]]
  /\ UNCHANGED <<kind, provider, flow, link, mfa, chal, task, given>>

DeleteProvider ==
  /\ leaving
  /\ leaving' = FALSE
  /\ IF \E u \in DOMAIN users : users[u].linked
     THEN UNCHANGED <<provider, states, link>>
     ELSE /\ provider' = "gone" /\ states' = {}
          /\ link' = [s \in Subjects |-> 0]
  /\ UNCHANGED <<kind, begun, code, spent, users, mfa, chal, task, changes, given>>

\* The process restarts: requests and challenges in memory are lost.
Restart ==
  /\ Change
  /\ task' = [r \in Requests |-> Idle]
  /\ chal' = {} /\ leaving' = FALSE
  /\ UNCHANGED <<kind, provider, flow, users, link, mfa, given>>

Next ==
  \/ \E f \in Flows :
       \/ OidcBegin(f) \/ SweepStates(f) \/ TakeChallenge(f)
       \/ \E s \in Subjects : Authenticate(f, s)
       \/ \E r \in Requests, g \in Flows : OidcCallback(r, f, g)
  \/ \E r \in Requests :
       \/ \E s \in Subjects : LdapLogin(r, s)
       \/ Consume(r) \/ Exchange(r) \/ LdapAuthenticate(r)
       \/ FindUser(r) \/ CreateUser(r) \/ RetryUser(r) \/ Issue(r)
  \/ \E u \in DOMAIN users : SetFactors(u)
  \/ \E s \in {"active", "inactive"} : SetActive(s)
  \/ Delink \/ DeleteProvider \/ Restart

Spec == Init /\ [][Next]_vars

-----------------------------------------------------------------------------
(* Properties                                                              *)

\* However first logins interleave with each other, with restarts and with
\* the provider's removal, an external_id has one account at most, its mapping
\* leads to it as long as the provider is there, and every login ends in it.
OneAccountEach ==
  /\ \A u, v \in DOMAIN users : users[u].of = users[v].of => u = v
  /\ \A u \in DOMAIN users : provider # "gone" => link[users[u].of] = u
  /\ \A g \in given : users[g.user].of = g.sub

\* A flow ends in one session or challenge at most, for whoever authenticated
\* in that flow: neither its state nor a code of another flow serves twice.
FlowsKeptApart ==
  kind = "oidc" => \A g \in given :
    g.nth = 0 /\ g.code = g.state /\ g.sub = code[g.state]

TypeOK ==
  /\ kind \in {"oidc", "ldap"} /\ provider \in {"active", "inactive", "gone"}
  /\ leaving \in BOOLEAN /\ exempt \in BOOLEAN
  /\ states \subseteq begun /\ begun \subseteq Flows /\ spent \subseteq Flows
  /\ chal \subseteq Flows
  /\ code \in [Flows -> Subjects \cup {None}]
  /\ link \in [Subjects -> 0..Len(users)]
  /\ factor \cup reset \subseteq DOMAIN users
  /\ changes \in 0..Changes
=============================================================================
