------------------------------- MODULE Login --------------------------------
(***************************************************************************)
(* How one account logs in: the OPAQUE exchange (routes/opaque_auth.py),   *)
(* the second factor asked after it (routes/mfa.py, auth/mfa.py, totp.py,  *)
(* webauthn_helper.py), the factors the account enrols and loses, what an  *)
(* administrator wipes (routes/admin_mfa.py), and the changes of password. *)
(*                                                                         *)
(* A proof is one use of the password: the row of its first round, then    *)
(* the pending token or the session of its second.  Access tokens outlive  *)
(* the revocation of their session, so whoever has had a session is let in.*)
(***************************************************************************)
EXTENDS Naturals, FiniteSets

CONSTANTS
  Proofs,    \* login and recovery exchanges
  Requests,  \* handler tasks
  Totp,      \* TOTP credentials (their ids)
  Keys,      \* WebAuthn credentials
  Changes,   \* bound: changes of the password
  None       \* no proof, no credential

ConstantsOK == None \notin Proofs \cup Totp \cup Keys

Creds == Totp \cup Keys

VARIABLES
  cred,     \* user_mfa_credentials: "none", "inactive" or "active"
  codes,    \* an active recovery row holds an unused code
  reset,    \* users.mfa_reset_required
  prf,      \* users.prf_credential_id
  record,   \* which password the OPAQUE record is of
  start,    \* first round of a proof: "none", a row ("login", "recover"), "gone"
  seen,     \* the record its server state was made from
  pending,  \* proofs with a row in mfa_pending_tokens
  chal,     \* purposes with a row in webauthn_challenges
  live,     \* proofs whose refresh token is not revoked
  kept,     \* the session that changed the password last
  task,     \* the handler tasks
  minted,   \* history: sessions issued to a proof
  plain,    \* history: proofs given one without a second factor
  bare      \* history: proofs under way while no factor was active

factors  == <<cred, codes, reset, prf>>
password == <<record, start, seen>>
bridge   == <<pending, chal>>
history  == <<minted, plain>>
vars     == <<factors, password, bridge, live, kept, task, history, bare>>

Idle == [pc |-> "idle", p |-> None]

Init ==
  /\ cred = [c \in Creds |-> "none"]
  /\ codes = FALSE
  /\ reset = FALSE
  /\ prf = None
  /\ record = 0
  /\ start = [p \in Proofs |-> "none"]
  /\ seen = [p \in Proofs |-> 0]
  /\ pending = {}
  /\ chal = {}
  /\ live = {}
  /\ kept = None
  /\ task = [r \in Requests |-> Idle]
  /\ minted = [p \in Proofs |-> 0]
  /\ plain = {}
  /\ bare = {}

At(r, pc)      == task[r].pc = pc
Goto(r, pc)    == task' = [task EXCEPT ![r].pc = pc]
Take(r, pc, p) == task' = [task EXCEPT ![r] = [pc |-> pc, p |-> p]]
Reply(r)       == task' = [task EXCEPT ![r] = Idle]
Free(r)        == At(r, "idle")

SignedIn == {p \in Proofs : minted[p] > 0}

Active_Totp == {c \in Totp : cred[c] = "active"}
Active      == {c \in Creds : cred[c] = "active"}

Set(c, s) == cred' = [cred EXCEPT ![c] = s]

(***************************************************************************)
(* The OPAQUE exchange.  The first round stores the server's state, made   *)
(* from the record of that moment; the second consumes the row, and the    *)
(* client knows the password that record was of.  A wrong proof ends in    *)
(* Fail.                                                                   *)
(***************************************************************************)
LoginStart(r, p) ==
  /\ Free(r)
  /\ start[p] = "none"
  /\ start' = [start EXCEPT ![p] = "login"]
  /\ seen' = [seen EXCEPT ![p] = record]
  /\ UNCHANGED <<factors, record, bridge, live, kept, task, history>>

LoginFinish_Unconsumed(r, p) ==
  /\ Free(r)
  /\ start[p] = "login"
  /\ Take(r, "reset", p)
  /\ UNCHANGED <<factors, password, bridge, live, kept, history>>

LoginFinish(r, p) ==
  /\ Free(r)
  /\ start[p] = "login"
  /\ start' = [start EXCEPT ![p] = "gone"]
  /\ Take(r, "reset", p)
  /\ UNCHANGED <<factors, record, seen, bridge, live, kept, history>>

Expire(p) ==
  /\ \/ start[p] \in {"login", "recover"} /\ start' = [start EXCEPT ![p] = "gone"] /\ UNCHANGED pending
     \/ p \in pending /\ pending' = pending \ {p} /\ UNCHANGED start
  /\ UNCHANGED <<factors, record, seen, chal, live, kept, task, history>>

Challenge(r) ==
  /\ pending' = pending \cup {task[r].p}
  /\ Reply(r)

ReadReset(r) ==
  /\ At(r, "reset")
  /\ Goto(r, IF reset THEN "challenge" ELSE "methods")
  /\ UNCHANGED <<factors, password, bridge, live, kept, history>>

Asked_Totp == Active_Totp # {}
Asked      == Active # {}

ReadMethods(r) ==
  /\ At(r, "methods")
  /\ Goto(r, IF Asked THEN "challenge" ELSE "plain")
  /\ UNCHANGED <<factors, password, bridge, live, kept, history>>

StorePending(r) ==
  /\ At(r, "challenge")
  /\ Challenge(r)
  /\ UNCHANGED <<factors, password, chal, live, kept, history>>

Issue(r) ==
  /\ \E f \in {"plain", "proven"} :
       /\ At(r, f)
       /\ plain' = IF f = "plain" THEN plain \cup {task[r].p} ELSE plain
  /\ minted' = [minted EXCEPT ![task[r].p] = @ + 1]
  /\ live' = live \cup {task[r].p}
  /\ Reply(r)
  /\ UNCHANGED <<factors, password, bridge, kept>>

(***************************************************************************)
(* The second factor.  TOTP and recovery codes look at the pending token,  *)
(* check the code and then consume the token; a WebAuthn assertion         *)
(* consumes it first.                                                      *)
(***************************************************************************)
Peek(r, p) ==
  /\ Free(r)
  /\ p \in pending
  /\ \E pc \in {"totp", "code"} : Take(r, pc, p)
  /\ UNCHANGED <<factors, password, bridge, live, kept, history>>

VerifyTotp(r) ==
  /\ At(r, "totp")
  /\ Active_Totp # {}
  /\ Goto(r, "consume")
  /\ UNCHANGED <<factors, password, bridge, live, kept, history>>

(* verify_recovery_code reads the hashes, compares, and writes the rest.   *)
ReadCodes(r) ==
  /\ At(r, "code")
  /\ codes
  /\ Goto(r, "strike")
  /\ UNCHANGED <<factors, password, bridge, live, kept, history>>

StrikeCode(r) ==
  /\ At(r, "strike")
  /\ codes' = FALSE
  /\ Goto(r, "consume")
  /\ UNCHANGED <<cred, reset, prf, password, bridge, live, kept, history>>

Consume(r) ==
  /\ At(r, "consume")
  /\ IF task[r].p \in pending
       THEN pending' = pending \ {task[r].p} /\ Goto(r, "proven")
       ELSE Reply(r) /\ UNCHANGED pending
  /\ UNCHANGED <<factors, password, chal, live, kept, history>>

ConsumeFirst(r, p) ==
  /\ Free(r)
  /\ p \in pending
  /\ pending' = pending \ {p}
  /\ Take(r, "assert", p)
  /\ UNCHANGED <<factors, password, chal, live, kept, history>>

(* begin_authentication, begin_registration, begin_prf_enroll.             *)
Begin(purpose) ==
  /\ purpose \in {"registration", "prf"} => SignedIn # {}
  /\ purpose = "prf" => Active \cap Keys # {}
  /\ purpose \notin chal
  /\ chal' = chal \cup {purpose}
  /\ UNCHANGED <<factors, password, pending, live, kept, task, history>>

(* finish_authentication: the challenge row, then an active key.           *)
AssertKey(r) ==
  /\ At(r, "assert")
  /\ "authentication" \in chal
  /\ chal' = chal \ {"authentication"}
  /\ IF Active \cap Keys # {} THEN Goto(r, "proven") ELSE Reply(r)
  /\ UNCHANGED <<factors, password, pending, live, kept, history>>

(* A wrong password, code or assertion; a request or a process that ends.  *)
Fail(r) ==
  /\ ~Free(r)
  /\ Reply(r)
  /\ UNCHANGED <<factors, password, bridge, live, kept, history>>

(***************************************************************************)
(* Factors come and go.  Removing one only makes it inactive: a TOTP       *)
(* credential that was removed is again one whose enrolment can finish.    *)
(***************************************************************************)
EnrollStart(c) ==
  /\ SignedIn # {}
  /\ c \in Totp
  /\ cred[c] = "none"
  /\ cred' = [d \in Creds |-> IF d = c THEN "inactive"
                              ELSE IF d \in Totp /\ cred[d] = "inactive" THEN "none" ELSE cred[d]]
  /\ UNCHANGED <<codes, reset, prf, password, bridge, live, kept, task, history>>

(* A wrong code deletes the inactive row.                                  *)
EnrollFinish(c) ==
  /\ SignedIn # {}
  /\ c \in Totp
  /\ cred[c] = "inactive"
  /\ \/ Set(c, "active") /\ codes' = TRUE
     \/ Set(c, "none") /\ UNCHANGED codes
  /\ UNCHANGED <<reset, prf, password, bridge, live, kept, task, history>>

Register(c) ==
  /\ SignedIn # {}
  /\ c \in Keys
  /\ cred[c] = "none"
  /\ "registration" \in chal
  /\ chal' = chal \ {"registration"}
  /\ Set(c, "active")
  /\ UNCHANGED <<codes, reset, prf, password, pending, live, kept, task, history>>

PrfEnroll(c) ==
  /\ SignedIn # {}
  /\ c \in Active \cap Keys
  /\ "prf" \in chal
  /\ chal' = chal \ {"prf"}
  /\ prf' = c
  /\ UNCHANGED <<cred, codes, reset, password, pending, live, kept, task, history>>

PrfRemove ==
  /\ SignedIn # {}
  /\ prf # None
  /\ prf' = None
  /\ UNCHANGED <<cred, codes, reset, password, bridge, live, kept, task, history>>

(* The row was selected without its credential column: the look-up of the  *)
(* key id raises, the exception is swallowed and the binding stays.        *)
RemoveCred(c) ==
  /\ SignedIn # {}
  /\ c \in Active
  /\ Set(c, "inactive")
  /\ UNCHANGED <<codes, reset, prf, password, bridge, live, kept, task, history>>

RevokeAll == live' = {}

AdminRemove(c) ==
  /\ c \in Active
  /\ Set(c, "inactive")
  /\ RevokeAll
  /\ UNCHANGED <<codes, reset, prf, password, bridge, kept, task, history>>

(* admin_wipe_mfa (b = FALSE) and admin_reset_mfa (b = TRUE).              *)
AdminWipe(b) ==
  /\ reset # b \/ Active # {}
  /\ cred' = [c \in Creds |-> IF cred[c] = "active" THEN "inactive" ELSE cred[c]]
  /\ codes' = FALSE
  /\ reset' = b
  /\ RevokeAll
  /\ UNCHANGED <<prf, password, bridge, kept, task, history>>

(***************************************************************************)
(* New passwords: a change by someone signed in and stepped up, keeping    *)
(* his session, and a recovery, that consumes its row before the key's     *)
(* proof is compared and the account is written.                           *)
(***************************************************************************)
Replace ==
  /\ record < Changes
  /\ record' = record + 1

ChangePassword(p) ==
  /\ p \in SignedIn
  /\ Replace
  /\ live' = live \cap {p}
  /\ kept' = p
  /\ UNCHANGED <<factors, start, seen, bridge, task, history>>

RecoverStart(p) ==
  /\ start[p] = "none"
  /\ start' = [start EXCEPT ![p] = "recover"]
  /\ UNCHANGED <<factors, record, seen, bridge, live, kept, task, history>>

RecoverFinish(r, p) ==
  /\ Free(r)
  /\ start[p] = "recover"
  /\ start' = [start EXCEPT ![p] = "gone"]
  /\ Take(r, "recover", p)
  /\ UNCHANGED <<factors, record, seen, bridge, live, kept, history>>

RecoverCommit(r) ==
  /\ At(r, "recover")
  /\ Replace
  /\ RevokeAll
  /\ kept' = None
  /\ Reply(r)
  /\ UNCHANGED <<factors, start, seen, bridge, history>>

Step ==
  \/ \E r \in Requests, p \in Proofs :
       LoginStart(r, p) \/ LoginFinish(r, p) \/ Peek(r, p) \/ ConsumeFirst(r, p) \/ RecoverFinish(r, p)
  \/ \E r \in Requests :
       \/ ReadReset(r) \/ ReadMethods(r) \/ StorePending(r) \/ Issue(r) \/ VerifyTotp(r) \/ ReadCodes(r)
       \/ StrikeCode(r) \/ Consume(r) \/ AssertKey(r) \/ Fail(r) \/ RecoverCommit(r)
  \/ \E p \in Proofs : Expire(p) \/ ChangePassword(p) \/ RecoverStart(p)
  \/ \E c \in Creds :
       EnrollStart(c) \/ EnrollFinish(c) \/ Register(c) \/ PrfEnroll(c) \/ RemoveCred(c) \/ AdminRemove(c)
  \/ \E purpose \in {"authentication", "registration", "prf"} : Begin(purpose)
  \/ \E b \in BOOLEAN : AdminWipe(b)
  \/ PrfRemove

(* Proofs whose password is checked and whose session is not yet issued.   *)
UnderWay == {task[r].p : r \in {q \in Requests : task[q].pc \in {"reset", "methods", "plain"}}}

Observe == bare' = bare \cup (IF \A c \in Creds : cred'[c] # "active" THEN UnderWay' ELSE {})

Next == Step /\ Observe

Spec == Init /\ [][Next]_vars

-----------------------------------------------------------------------------
(* Rows, tokens, sessions and tasks keep their types.                      *)
TypeOK ==
  /\ cred \in [Creds -> {"none", "inactive", "active"}]
  /\ codes \in BOOLEAN /\ reset \in BOOLEAN
  /\ prf \in Keys \cup {None}
  /\ record \in 0..Changes
  /\ start \in [Proofs -> {"none", "login", "recover", "gone"}]
  /\ seen \in [Proofs -> 0..Changes]
  /\ pending \subseteq Proofs
  /\ chal \subseteq {"authentication", "registration", "prf"}
  /\ live \subseteq Proofs
  /\ kept \in Proofs \cup {None}
  /\ \A r \in Requests : task[r].p \in Proofs \cup {None}
  /\ minted \in [Proofs -> Nat]
  /\ plain \subseteq Proofs /\ bare \subseteq Proofs

(* One use of the password yields at most one session, however the second  *)
(* rounds, codes and assertions of concurrent requests interleave.         *)
OneSessionEach == \A p \in Proofs : minted[p] <= 1

(* A session issued on the password alone was issued to a login that was   *)
(* under way at a moment when the account had no active second factor.     *)
FactorAsked == plain \subseteq bare

(* After a change of password the live sessions are those of logins with   *)
(* the new one, and the session that made the change.                      *)
OldPasswordOut == \A p \in live : seen[p] = record \/ p = kept

(* The master key that is wrapped for a WebAuthn key is wrapped for one of *)
(* the account's active credentials.                                       *)
PrfIsActive == prf # None => cred[prf] = "active"
=============================================================================
