------------------------------ MODULE TeamKeys -------------------------------
(***************************************************************************)
(* The key of one team: routes/teams.py with its client, teams.js.         *)
(* Every member has a slot holding the team's secret key wrapped for it;   *)
(* every shared file has a proxy-re-encryption ciphertext that the secret  *)
(* key opens.  Members are invited and removed, files are added, and any   *)
(* member replaces the key: its client makes a new key and the server,     *)
(* after verifying it against the tables, rewrites every ciphertext and    *)
(* every slot in one transaction.                                          *)
(*                                                                         *)
(* A key stands for a key pair, an encryption for the randomness of one    *)
(* file-key envelope.  The server checks a rotation against the tables in  *)
(* one step and writes it in a later one, on what that step saw.           *)
(***************************************************************************)
EXTENDS Naturals, FiniteSets

CONSTANTS
  Users,        \* accounts
  Clients,      \* the accounts' devices: pairs of an account and a device
  Owner,        \* created the team; cannot be removed
  Managers,     \* have the supervisor role when they are members
  Files,        \* files in the team's folders
  Keys,         \* key pairs; one that nothing refers to is as good as new
  FirstKey,     \* the key the team was created with
  Encryptions,  \* encryptions of a file key
  None,         \* no row
  Lost,         \* opened by no key
  Racing        \* operations that may run while another of them does

Ops == {"rotate", "confirm", "add", "invite", "remove"}

ASSUME OwnerAssumption == Owner \in Managers /\ Managers \subseteq Users
ASSUME ClientsAssumption == \A c \in Clients : c[1] \in Users
ASSUME KeysAssumption == FirstKey \in Keys /\ None \notin Keys /\ Lost \notin Keys /\ None # Lost
ASSUME EncryptionsAssumption == None \notin Encryptions
ASSUME RacingAssumption == Racing \subseteq Ops

VARIABLES
  pk,       \* teams.pre_public_key
  pending,  \* teams.rotation_pending
  member,   \* users with a user_roles row for the team
  active,   \* users.is_active
  slot,     \* user_team_keys: the wrapped key, and key_confirmed
  file,     \* file_team_keys: the key that opens pre_c1, the encryption it
            \* belongs to, and the one encrypted_file_key belongs to
  client    \* what each client, and the handler it called, is doing

team == <<pk, pending, member, active, slot, file>>
vars == <<team, client>>

User(c) == c[1]

NoSlot == [key |-> None, confirmed |-> FALSE]
NoFile == [key |-> None, c1 |-> None, body |-> None]
Idle   == [op |-> "idle", at |-> "start", sk |-> None, new |-> None,
           rows |-> [f \in Files |-> NoFile], users |-> {}]

Init ==
  /\ pk = FirstKey
  /\ pending = FALSE
  /\ member = {Owner}
  /\ active = Users
  /\ slot = [u \in Users |-> IF u = Owner THEN [key |-> FirstKey, confirmed |-> TRUE]
                             ELSE NoSlot]
  /\ file = [f \in Files |-> NoFile]
  /\ client = [c \in Clients |-> Idle]

Running == {client[c].op : c \in Clients} \ {"idle"}

(* An operation starts when nothing runs that it may not race with.        *)
Begin(c, t) ==
  /\ User(c) \in active
  /\ client[c] = Idle
  /\ Running # {} => Running \cup {t.op} \subseteq Racing
  /\ client' = [client EXCEPT ![c] = t]

Goto(c, at)  == client' = [client EXCEPT ![c].at = at]
Finish(c)    == client' = [client EXCEPT ![c] = Idle]
At(c, op, p) == client[c].op = op /\ client[c].at = p

Member(u)  == u \in member /\ u \in active
Manager(u) == Member(u) /\ u \in Managers
Present    == {f \in Files : file[f].key # None}

InUse ==
  {pk} \cup {slot[u].key : u \in Users} \cup {file[f].key : f \in Files}
  \cup UNION {{client[c].sk, client[c].new} \cup {client[c].rows[f].key : f \in Files}
              : c \in Clients}
Fresh == Keys \ InUse

(***************************************************************************)
(* Rotation.  The client unwraps its key, generates the next one, fetches  *)
(* the file keys and the active members, and posts new ciphertexts and     *)
(* slots.                                                                  *)
(***************************************************************************)
RotateRead(c, k) ==
  /\ Member(User(c))
  /\ slot[User(c)].key # None
  /\ k \in Fresh
  /\ Begin(c, [Idle EXCEPT !.op = "rotate", !.sk = slot[User(c)].key, !.new = k])
  /\ UNCHANGED team

RotateFetch(c) ==
  /\ At(c, "rotate", "start")
  /\ Member(User(c))
  /\ client' = [client EXCEPT ![c].at = "post", ![c].rows = file,
                             ![c].users = member \cap active]
  /\ UNCHANGED team

Listed(c) == {f \in Files : client[c].rows[f].key # None}

CoversFiles(c)  == Listed(c) # {} => Listed(c) = Present
CoversMembers(c) == client[c].users = member

AllConfirmed == \A v \in Users : slot[v].key # None => slot[v].confirmed

KeyMatches_FilesOnly(c) ==
  \A f \in Listed(c) : <<client[c].rows[f].key, client[c].rows[f].c1>> =
                        <<file[f].key, file[f].c1>>
(* The pairing check ties the new key to the current one through the old   *)
(* secret key; the DLEQ proofs tie each new C1 to the stored one.          *)
KeyMatches(c) ==
  /\ client[c].sk = pk
  /\ \A f \in Listed(c) : <<client[c].rows[f].key, client[c].rows[f].c1>> =
                          <<file[f].key, file[f].c1>>

RotateValidate(c) ==
  /\ At(c, "rotate", "post")
  /\ Member(User(c))
  /\ CoversFiles(c)
  /\ User(c) \in client[c].users
  /\ CoversMembers(c)
  /\ AllConfirmed
  /\ KeyMatches(c)
  /\ Goto(c, "commit")
  /\ UNCHANGED team

(* rk takes a C1 from the old key to the new one, and any other key's to   *)
(* nothing.                                                                *)
Rotated(c, f) ==
  [file[f] EXCEPT !.key = IF client[c].rows[f].key = client[c].sk THEN client[c].new ELSE Lost,
                  !.c1 = client[c].rows[f].c1]

NewSlots_KeepOthers(c) ==
  [v \in Users |-> IF v \in client[c].users
                   THEN [key |-> client[c].new, confirmed |-> FALSE] ELSE slot[v]]
NewSlots(c) ==
  [v \in Users |-> IF v \in client[c].users
                   THEN [key |-> client[c].new, confirmed |-> FALSE] ELSE NoSlot]

RotateCommit(c) ==
  /\ At(c, "rotate", "commit")
  /\ file' = [f \in Files |-> IF f \in Listed(c) \cap Present THEN Rotated(c, f) ELSE file[f]]
  /\ slot' = NewSlots(c)
  /\ pk' = client[c].new
  /\ pending' = FALSE
  /\ Finish(c)
  /\ UNCHANGED <<member, active>>

(***************************************************************************)
(* Confirmation: a proof that the member holds the secret key.             *)
(***************************************************************************)
ConfirmRead(c) ==
  /\ Member(User(c))
  /\ slot[User(c)].key # None
  /\ ~slot[User(c)].confirmed
  /\ Begin(c, [Idle EXCEPT !.op = "confirm", !.sk = slot[User(c)].key])
  /\ UNCHANGED team

ProofHolds(c) == client[c].sk = pk

ConfirmVerify(c) ==
  /\ At(c, "confirm", "start")
  /\ Member(User(c))
  /\ ProofHolds(c)
  /\ Goto(c, "write")
  /\ UNCHANGED team

ConfirmWrite(c) ==
  /\ At(c, "confirm", "write")
  /\ slot' = [slot EXCEPT ![User(c)].confirmed = slot[User(c)].key # None]
  /\ Finish(c)
  /\ UNCHANGED <<pk, pending, member, active, file>>

(***************************************************************************)
(* A file is added, or its envelope replaced, under the public key that    *)
(* the client had when the page was opened.                                *)
(***************************************************************************)
AddRead(c) ==
  /\ Member(User(c))
  /\ Begin(c, [Idle EXCEPT !.op = "add", !.sk = pk])
  /\ UNCHANGED team

AddWrite(c, f, e) ==
  /\ At(c, "add", "start")
  /\ Member(User(c))
  /\ e # file[f].body
  /\ file' = [file EXCEPT ![f] = [key |-> client[c].sk, c1 |-> e, body |-> e]]
  /\ Finish(c)
  /\ UNCHANGED <<pk, pending, member, active, slot>>

(* The file is deleted, or moved out of the team's folders.                *)
DropFile(f) ==
  /\ f \in Present
  /\ file' = [file EXCEPT ![f] = NoFile]
  /\ UNCHANGED <<pk, pending, member, active, slot, client>>

(***************************************************************************)
(* Membership.  Each statement commits by itself.                          *)
(***************************************************************************)
InviteRead(c, v) ==
  /\ Manager(User(c))
  /\ slot[User(c)].key # None
  /\ Begin(c, [Idle EXCEPT !.op = "invite", !.sk = slot[User(c)].key, !.users = {v}])
  /\ UNCHANGED team

InviteRole(c) ==
  /\ At(c, "invite", "start")
  /\ Manager(User(c))
  /\ client[c].users \subseteq active \ member
  /\ member' = member \cup client[c].users
  /\ Goto(c, "slot")
  /\ UNCHANGED <<pk, pending, active, slot, file>>

InviteSlot(c) ==
  /\ At(c, "invite", "slot")
  /\ \E v \in client[c].users :
       /\ slot[v] = NoSlot
       /\ slot' = [slot EXCEPT ![v] = [key |-> client[c].sk, confirmed |-> FALSE]]
  /\ Finish(c)
  /\ UNCHANGED <<pk, pending, member, active, file>>

MayRemove_Anyone(u, v) == v \in member /\ (u = Owner \/ v \notin Managers)
MayRemove(u, v) == v \in member \ {Owner} /\ (u = Owner \/ v \notin Managers)

RemoveRole(c, v) ==
  /\ Manager(User(c))
  /\ MayRemove(User(c), v)
  /\ Begin(c, [Idle EXCEPT !.op = "remove", !.at = "slot", !.users = {v}])
  /\ member' = member \ {v}
  /\ UNCHANGED <<pk, pending, active, slot, file>>

RemoveSlot(c) ==
  /\ At(c, "remove", "slot")
  /\ slot' = [v \in Users |-> IF v \in client[c].users THEN NoSlot ELSE slot[v]]
  /\ Goto(c, "flag")
  /\ UNCHANGED <<pk, pending, member, active, file>>

RemoveFlag(c) ==
  /\ At(c, "remove", "flag")
  /\ pending' = TRUE
  /\ Finish(c)
  /\ UNCHANGED <<pk, member, active, slot, file>>

(* An admin schedules the account's deletion: one transaction.             *)
Deactivate(v) ==
  /\ v \in active
  /\ active' = active \ {v}
  /\ slot' = [slot EXCEPT ![v] = NoSlot]
  /\ pending' = (pending \/ slot[v] # NoSlot)
  /\ UNCHANGED <<pk, member, file, client>>

(* A request is refused, a statement of it fails, or its process dies.     *)
Abandon(c) ==
  /\ client[c] # Idle
  /\ Finish(c)
  /\ UNCHANGED team

Start(c) ==
  \/ \E k \in Keys : RotateRead(c, k)
  \/ ConfirmRead(c)
  \/ AddRead(c)
  \/ \E v \in Users : InviteRead(c, v) \/ RemoveRole(c, v)

Step(c) ==
  \/ RotateFetch(c) \/ RotateValidate(c) \/ RotateCommit(c)
  \/ ConfirmVerify(c) \/ ConfirmWrite(c)
  \/ \E f \in Files, e \in Encryptions : AddWrite(c, f, e)
  \/ InviteRole(c) \/ InviteSlot(c)
  \/ RemoveSlot(c) \/ RemoveFlag(c)

Next ==
  \/ \E c \in Clients : Start(c) \/ Step(c) \/ Abandon(c)
  \/ \E f \in Files : DropFile(f)
  \/ \E v \in Users : Deactivate(v)

Spec == Init /\ [][Next]_vars

(* Members log in now and then, and their client's hook then rotates and   *)
(* confirms what is due; requests that are under way end.                  *)
Fairness ==
  \A c \in Clients :
    /\ SF_vars(pending /\ \E k \in Keys : RotateRead(c, k))
    /\ SF_vars(RotateFetch(c)) /\ SF_vars(RotateValidate(c)) /\ SF_vars(RotateCommit(c))
    /\ SF_vars(ConfirmRead(c)) /\ SF_vars(ConfirmVerify(c)) /\ SF_vars(ConfirmWrite(c))
    /\ WF_vars(Step(c) \/ Abandon(c))

FairSpec == Spec /\ Fairness

-----------------------------------------------------------------------------
Client == [op : Ops \cup {"idle"}, at : {"start", "post", "commit", "write", "slot", "flag"},
           sk : Keys \cup {None}, new : Keys \cup {None},
           rows : [Files -> [key : Keys \cup {None, Lost}, c1 : Encryptions \cup {None},
                             body : Encryptions \cup {None}]],
           users : SUBSET Users]

(* The tables and the clients' records have the types of their columns,    *)
(* and a slot without a key is not confirmed.                              *)
TypeOK ==
  /\ pk \in Keys
  /\ pending \in BOOLEAN
  /\ member \in SUBSET Users
  /\ active \in SUBSET Users
  /\ slot \in [Users -> [key : Keys \cup {None}, confirmed : BOOLEAN]]
  /\ \A u \in Users : slot[u].confirmed => slot[u].key # None
  /\ file \in [Files -> [key : Keys \cup {None, Lost}, c1 : Encryptions \cup {None},
                         body : Encryptions \cup {None}]]
  /\ client \in [Clients -> Client]

(* The key is never lost: until the owner's account goes, the owner's slot *)
(* holds the team's current key, through every race of rotations,          *)
(* confirmations, invitations, removals and uploads.                       *)
OwnerHoldsKey == Owner \in active => slot[Owner].key = pk

(* When only rotations and confirmations race, every file key opens with   *)
(* the current key: of rotations verified against the same key, the last   *)
(* to commit overwrites all that the others wrote.                         *)
FilesOpen == \A f \in Present : file[f].key = pk /\ file[f].c1 = file[f].body

(* Under the same condition no slot holds a key of the past, not even one  *)
(* that a half-done removal left behind.                                   *)
SlotsCurrent == \A u \in Users : slot[u].key \in {None, pk}

-----------------------------------------------------------------------------
(* What comments of the code say and the code does not do.                 *)

(* teams.py, "Rotation must include all ... file keys": what is added      *)
(* while a rotation is verified, or under a key read before it, is not in. *)
FilesAlwaysOpen == \A f \in Present : file[f].key = pk

(* teams.js: "Teams with rotation_pending=1: any member silently executes  *)
(* the rotation."                                                          *)
RotationCompletes == pending ~> ~pending \/ Owner \notin active
=============================================================================
