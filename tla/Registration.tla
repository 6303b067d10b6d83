---------------------------- MODULE Registration ----------------------------
(***************************************************************************)
(* How accounts come into being: with the bootstrap token of an empty      *)
(* server, with an invite, or in open registration                         *)
(* (routes/opaque_auth.py, routes/admin.py, main.py).  The first rounds    *)
(* only look; each second round looks again and then writes in one         *)
(* transaction, which other requests run beside.                           *)
(***************************************************************************)
EXTENDS Naturals, FiniteSets

CONSTANTS
  Names,    \* user names
  Invites,  \* invites, each created once
  Starts,   \* starts of workers, and the token each of them may make
  Requests, \* handler tasks
  None

ConstantsOK == None \notin Names \cup Invites \cup Starts

VARIABLES
  user,    \* users by name: "none", "user" or "admin"
  invite,  \* "none", "pending", "used", or "gone"
  token,   \* admin_settings bootstrap_token_hash
  start,   \* starts: what each has read, and whether its token is logged
  open,    \* admin_settings open_registration
  reg,     \* second rounds under way
  by       \* history: the invite an account was made with

vars == <<user, invite, token, start, open, reg, by>>

Idle == [pc |-> "idle", name |-> None, inv |-> None, key |-> None]

Init ==
  /\ user = [n \in Names |-> "none"]
  /\ invite = [i \in Invites |-> "none"]
  /\ token = None
  /\ start = [s \in Starts |-> "new"]
  /\ open = FALSE
  /\ reg = [r \in Requests |-> Idle]
  /\ by = [n \in Names |-> None]

Accounts == {n \in Names : user[n] # "none"}
Admins   == {n \in Names : user[n] = "admin"}

At(r, pc) == reg[r].pc = pc
Reply(r)  == reg' = [reg EXCEPT ![r] = Idle]
Take(r, pc, n, i, t) ==
  /\ At(r, "idle")
  /\ reg' = [reg EXCEPT ![r] = [pc |-> pc, name |-> n, inv |-> i, key |-> t]]

(***************************************************************************)
(* _bootstrap_admin, three statements of every worker that starts: no      *)
(* user is there, no token is pending, a token is written, and logged.     *)
(* ON CONFLICT it replaces one that another start has written since.       *)
(***************************************************************************)
StartCounts(s) ==
  /\ start[s] = "new"
  /\ start' = [start EXCEPT ![s] = IF Accounts = {} THEN "counted" ELSE "over"]
  /\ UNCHANGED <<user, invite, token, open, reg, by>>

StartLooks(s) ==
  /\ start[s] = "counted"
  /\ start' = [start EXCEPT ![s] = IF token = None THEN "looked" ELSE "over"]
  /\ UNCHANGED <<user, invite, token, open, reg, by>>

StartWrites(s) ==
  /\ start[s] = "looked"
  /\ token' = s
  /\ start' = [start EXCEPT ![s] = "logged"]
  /\ UNCHANGED <<user, invite, open, reg, by>>

SetOpen ==
  /\ Admins # {}
  /\ open' = ~open
  /\ UNCHANGED <<user, invite, token, reg, by, start>>

Invite(i) ==
  /\ Admins # {}
  /\ invite[i] = "none"
  /\ invite' = [invite EXCEPT ![i] = "pending"]
  /\ UNCHANGED <<user, token, open, reg, by, start>>

(* revoke_invite; expiry, and the sweep of expired ones.                   *)
Withdraw(i) ==
  /\ invite[i] = "pending"
  /\ invite' = [invite EXCEPT ![i] = "gone"]
  /\ UNCHANGED <<user, token, open, reg, by, start>>

(* The looks of the second rounds: the table of users is empty, then the   *)
(* token, which its bearer has from the log, is the stored one; the invite *)
(* is unused; registration is open.                                        *)
BootstrapCount(r, n, t) ==
  /\ Accounts = {}
  /\ start[t] = "logged"
  /\ Take(r, "counted", n, None, t)
  /\ UNCHANGED <<user, invite, token, start, open, by>>

BootstrapLook(r) ==
  /\ At(r, "counted")
  /\ token = reg[r].key
  /\ reg' = [reg EXCEPT ![r].pc = "bootstrap"]
  /\ UNCHANGED <<user, invite, token, start, open, by>>

InviteLook(r, n, i) ==
  /\ invite[i] = "pending"
  /\ Take(r, "invite", n, i, None)
  /\ UNCHANGED <<user, invite, token, open, by, start>>

OpenLook(r, n) ==
  /\ open
  /\ Take(r, "open", n, None, None)
  /\ UNCHANGED <<user, invite, token, open, by, start>>

Free(n) == user[n] = "none"

Consumed_Looked(t) == TRUE
Consumed(t)        == token = t

(* DELETE ... RETURNING the row that has this token; it waits for a        *)
(* transaction that holds the row.                                         *)
BootstrapCommit(r) ==
  LET n == reg[r].name IN
  /\ At(r, "bootstrap")
  /\ IF Consumed(reg[r].key) /\ Free(n)
       THEN user' = [user EXCEPT ![n] = "admin"] /\ token' = None
       ELSE UNCHANGED <<user, token>>
  /\ Reply(r)
  /\ UNCHANGED <<invite, open, by, start>>

(* The invite is marked by its id, whatever became of it since the look:   *)
(* used by another request, or deleted, in which case no row is marked.    *)
InviteCommit(r) ==
  LET n == reg[r].name  i == reg[r].inv IN
  /\ At(r, "invite")
  /\ IF Free(n)
       THEN /\ user' = [user EXCEPT ![n] = "user"]
            /\ by' = [by EXCEPT ![n] = i]
            /\ invite' = [invite EXCEPT ![i] = IF @ = "gone" THEN @ ELSE "used"]
       ELSE UNCHANGED <<user, by, invite>>
  /\ Reply(r)
  /\ UNCHANGED <<token, open, start>>

OpenCommit(r) ==
  LET n == reg[r].name IN
  /\ At(r, "open")
  /\ user' = [user EXCEPT ![n] = IF Free(n) THEN "user" ELSE @]
  /\ Reply(r)
  /\ UNCHANGED <<invite, token, open, by, start>>

Fail(r) ==
  /\ ~At(r, "idle")
  /\ Reply(r)
  /\ UNCHANGED <<user, invite, token, open, by, start>>

Next ==
  \/ \E s \in Starts : StartCounts(s) \/ StartLooks(s) \/ StartWrites(s)
  \/ SetOpen
  \/ \E i \in Invites : Invite(i) \/ Withdraw(i)
  \/ \E r \in Requests :
       \/ BootstrapLook(r) \/ BootstrapCommit(r) \/ InviteCommit(r) \/ OpenCommit(r) \/ Fail(r)
       \/ \E n \in Names :
            \/ OpenLook(r, n)
            \/ \E i \in Invites : InviteLook(r, n, i)
            \/ \E t \in Starts : BootstrapCount(r, n, t)

Spec == Init /\ [][Next]_vars

-----------------------------------------------------------------------------
(* Rows and requests keep their types.                                     *)
TypeOK ==
  /\ user \in [Names -> {"none", "user", "admin"}]
  /\ invite \in [Invites -> {"none", "pending", "used", "gone"}]
  /\ token \in Starts \cup {None} /\ open \in BOOLEAN
  /\ start \in [Starts -> {"new", "counted", "looked", "logged", "over"}]
  /\ \A r \in Requests : /\ reg[r].name \in Names \cup {None}
                         /\ reg[r].inv \in Invites \cup {None}
                         /\ reg[r].key \in Starts \cup {None}
  /\ by \in [Names -> Invites \cup {None}]

(* However many workers start together and however many registrations hold *)
(* a token of theirs, one administrator is made.  A slow start may write   *)
(* its token after that; no request under way has it.                      *)
OneBootstrap ==
  /\ Cardinality(Admins) <= 1
  /\ Accounts # {} /\ token # None => \A r \in Requests : reg[r].key # token

(* An invite makes one account.                                            *)
InviteOnce == \A m, n \in Names : by[m] = by[n] /\ by[m] # None => m = n
=============================================================================
