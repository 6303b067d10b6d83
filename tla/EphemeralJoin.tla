---------------------------- MODULE EphemeralJoin ----------------------------
(***************************************************************************)
(* Joining a team through a one-time link (routes/teams.py, with the join  *)
(* page of teams.js).  A supervisor stores the team key wrapped for a      *)
(* link; who opens the link unwraps it, makes a new key, and asks for a    *)
(* role and a rotation to it in one request.  The request has no           *)
(* transaction: each of its statements stands by itself.  The rotation of  *)
(* members, whose own races are in TeamKeys, is one step here.             *)
(***************************************************************************)
EXTENDS Naturals, FiniteSets

CONSTANTS
  Users, Owner,  \* accounts, and who created the team
  Browsers,      \* those who use the join page; the others call the API and
                 \* have the team's lists from a member
  Files,         \* files that may have a key of the team
  Links,         \* team_ephemeral_slots rows
  None,          \* no link
  MaxKeys,       \* bound on keys, which are numbered
  Changes        \* bound on what others do to the team

ConstantsOK ==
  /\ Owner \in Users /\ Browsers \subseteq Users
  /\ None \notin Links /\ MaxKeys \in Nat /\ Changes \in Nat

VARIABLES
  key,        \* teams.pre_public_key
  keys,       \* keys made so far
  member,     \* user_roles of the team
  held,       \* user_team_keys: the key each user has a copy of, 0 for none
  confirmed,  \* key_confirmed
  files,      \* file_team_keys: the key that opens pre_c1, 0 for no row
  link,       \* the rows: "none", "open", "used" (consumed) or "expired"
  wraps,      \* the key a link's row carries
  task,       \* each user's join
  changes,    \* bound counter
  lost,       \* history: users and files that may be without the key
  passed      \* history: the joins each link has let through

team == <<key, member, held, confirmed, files>>
links == <<link, wraps>>
vars == <<team, keys, links, task, changes, lost, passed>>

Idle == [pc |-> "idle", link |-> None, sk |-> 0, new |-> 0, files |-> {}, users |-> {}]

Init ==
  /\ key = 1 /\ keys = 1 /\ member = {Owner}
  /\ held = [u \in Users |-> IF u = Owner THEN 1 ELSE 0]
  /\ confirmed = {Owner}
  /\ files \in [Files -> {0, 1}]
  /\ link = [l \in Links |-> "none"] /\ wraps = [l \in Links |-> 0]
  /\ task = [u \in Users |-> Idle]
  /\ changes = 0 /\ lost = {} /\ passed = [l \in Links |-> 0]

Rows == {f \in Files : files[f] # 0}
Writing == {"role", "files", "delete", "insert", "key", "consume"}
Joining == {u \in Users : task[u].pc \in Writing}

At(u, pc) == task[u].pc = pc
Goes(u, pc) == task' = [task EXCEPT ![u].pc = pc]
Ends(u) == task' = [task EXCEPT ![u] = Idle]

-----------------------------------------------------------------------------
(* The link                                                                *)

\* create_ephemeral_slot, with the key its client has unwrapped.
CreateSlot(l) ==
  /\ link[l] = "none" /\ held[Owner] # 0
  /\ link' = [link EXCEPT ![l] = "open"]
  /\ wraps' = [wraps EXCEPT ![l] = held[Owner]]
  /\ UNCHANGED <<team, keys, task, changes, lost, passed>>

Expire(l) ==
  /\ link[l] = "open"
  /\ link' = [link EXCEPT ![l] = "expired"]
  /\ UNCHANGED <<team, keys, wraps, task, changes, lost, passed>>

\* renderEphemeralJoinPage: get_ephemeral_slot does not consume the row.
Open(u, l) ==
  /\ At(u, "idle")
  /\ link[l] = "open"
  /\ task' = [task EXCEPT ![u] = [Idle EXCEPT !.pc = "list", !.link = l, !.sk = wraps[l]]]
  /\ UNCHANGED <<team, keys, links, changes, lost, passed>>

\* The lists are given to members only.
Lists(u) == u \in member \/ u \notin Browsers

\* _performEphemeralJoin reads the team's file keys and members, and adds the
\* user to the members.
FetchLists(u) ==
  /\ At(u, "list")
  /\ IF Lists(u)
     THEN /\ task' = [task EXCEPT ![u] = [@ EXCEPT !.pc = "submit",
               !.files = {<<f, files[f]>> : f \in Rows},
               !.users = member \cup {u}, !.new = keys + 1]]
          /\ keys < MaxKeys /\ keys' = keys + 1
     ELSE Ends(u) /\ UNCHANGED keys
  /\ UNCHANGED <<team, links, changes, lost, passed>>

-----------------------------------------------------------------------------
(* ephemeral_join                                                          *)

\* The submitted files are all of the team's, or none are submitted; their
\* proofs are of the ciphertexts now there.
FilesMatch_Subset(t) == t.files \subseteq {<<f, files[f]>> : f \in Rows}
FilesMatch(t) == t.files = {} \/ t.files = {<<f, files[f]>> : f \in Rows}

Everyone == Users \cup Files

\* Everything is checked before anything is written.
Check(u) ==
  LET t == task[u] IN
  /\ At(u, "submit")
  /\ IF /\ u \notin member
        /\ link[t.link] = "open"
        /\ FilesMatch(t)
        /\ \A v \in Users : held[v] # 0 => v \in confirmed
        /\ t.sk = key
     THEN /\ Goes(u, "role")
          /\ lost' = IF Joining = {} THEN lost ELSE Everyone
     ELSE Ends(u) /\ UNCHANGED lost
  /\ UNCHANGED <<team, keys, links, changes, passed>>

GrantRole(u) ==
  /\ At(u, "role")
  /\ IF u \in member THEN Ends(u) /\ UNCHANGED member
     ELSE member' = member \cup {u} /\ Goes(u, "files")
  /\ UNCHANGED <<key, held, confirmed, files, keys, links, changes, lost, passed>>

\* UPDATE file_team_keys, for the files submitted.
UpdateFiles(u) ==
  LET mine == {p[1] : p \in task[u].files} IN
  /\ At(u, "files")
  /\ files' = [f \in Files |-> IF f \in mine /\ files[f] # 0 THEN task[u].new ELSE files[f]]
  /\ lost' = IF mine = {} THEN lost \cup Rows ELSE lost
  /\ Goes(u, "delete")
  /\ UNCHANGED <<key, member, held, confirmed, keys, links, changes, passed>>

DeleteKeys(u) ==
  /\ At(u, "delete")
  /\ held' = [v \in Users |-> 0] /\ confirmed' = {}
  /\ Goes(u, "insert")
  /\ UNCHANGED <<key, member, files, keys, links, changes, lost, passed>>

\* UNIQUE (team_id, user_id): the request fails at a row that is there
\* already.  A page that got the lists was a member's, and adds the user, who
\* is among them, once more at the end.
InsertKeys(u) ==
  LET t == task[u]
      new == {v \in t.users : held[v] = 0}
      fails == new # t.users \/ u \in Browsers IN
  /\ At(u, "insert")
  /\ \E done \in SUBSET new :
       /\ new = t.users => done = new
       /\ held' = [v \in Users |-> IF v \in done THEN t.new ELSE held[v]]
  /\ lost' = IF fails THEN Everyone ELSE lost \cup (member \ t.users)
  /\ IF fails THEN Ends(u) ELSE Goes(u, "key")
  /\ UNCHANGED <<key, member, confirmed, files, keys, links, changes, passed>>

SetKey(u) ==
  /\ At(u, "key")
  /\ key' = task[u].new
  /\ Goes(u, "consume")
  /\ UNCHANGED <<member, held, confirmed, files, keys, links, changes, lost, passed>>

\* UPDATE team_ephemeral_slots SET consumed = 1
ConsumeSlot(u) ==
  LET l == task[u].link IN
  /\ At(u, "consume")
  /\ link' = [link EXCEPT ![l] = "used"]
  /\ passed' = [passed EXCEPT ![l] = @ + 1]
  /\ Ends(u)
  /\ UNCHANGED <<team, keys, wraps, changes, lost>>

-----------------------------------------------------------------------------
(* The others, one statement or transaction each                           *)

\* What a join that is writing may leave without its key.
Disturbs(what) == lost' = IF Joining = {} THEN lost ELSE lost \cup what

Change == changes < Changes /\ changes' = changes + 1

AddFile(f) ==
  /\ Change
  /\ files[f] = 0 /\ held[Owner] = key
  /\ files' = [files EXCEPT ![f] = key]
  /\ Disturbs({f})
  /\ UNCHANGED <<key, member, held, confirmed, keys, links, task, passed>>

\* invite_member and remove_member, done.
Invite(u) ==
  /\ Change
  /\ u \notin member /\ held[Owner] = key
  /\ member' = member \cup {u}
  /\ held' = [held EXCEPT ![u] = IF @ = 0 THEN key ELSE @]
  /\ Disturbs({u})
  /\ UNCHANGED <<key, confirmed, files, keys, links, task, passed>>

Remove(u) ==
  /\ Change
  /\ u \in member \ {Owner}
  /\ member' = member \ {u}
  /\ held' = [held EXCEPT ![u] = 0] /\ confirmed' = confirmed \ {u}
  /\ UNCHANGED <<key, files, keys, links, task, lost, passed>>

\* confirm_team_key: the key the member holds is the team's.
Confirm(u) ==
  /\ u \in member \ confirmed
  /\ held[u] = key
  /\ confirmed' = confirmed \cup {u}
  /\ UNCHANGED <<key, member, held, files, keys, links, task, changes, lost, passed>>

\* rotate_team_keys by the owner, in its transaction.
Rotate ==
  /\ Change
  /\ keys < MaxKeys
  /\ held[Owner] = key
  /\ \A v \in Users : held[v] # 0 => v \in confirmed
  /\ keys' = keys + 1 /\ key' = keys'
  /\ files' = [f \in Files |-> IF files[f] = key THEN keys' ELSE files[f]]
  /\ held' = [v \in Users |-> IF v \in member THEN keys' ELSE 0]
  /\ confirmed' = {}
  /\ Disturbs(Everyone)
  /\ UNCHANGED <<member, links, task, passed>>

\* The process stops, or the connection is lost, between two statements.
Crash(u) ==
  /\ task[u].pc \in Writing
  /\ lost' = Everyone
  /\ Ends(u)
  /\ UNCHANGED <<team, keys, links, changes, passed>>

Next ==
  \/ \E l \in Links : CreateSlot(l) \/ Expire(l) \/ \E u \in Users : Open(u, l)
  \/ \E u \in Users :
       \/ FetchLists(u) \/ Check(u) \/ GrantRole(u) \/ UpdateFiles(u)
       \/ DeleteKeys(u) \/ InsertKeys(u) \/ SetKey(u) \/ ConsumeSlot(u)
       \/ Invite(u) \/ Remove(u) \/ Confirm(u) \/ Crash(u)
  \/ \E f \in Files : AddFile(f)
  \/ Rotate

Spec == Init /\ [][Next]_vars

-----------------------------------------------------------------------------
(* Properties                                                              *)

\* A join that is done leaves every member and every file with the team's new
\* key, and its link serves nobody else: unless it was cut short, overlapped
\* another writer, or worked on lists that a member or a file had since been
\* added to.
JoinIsWhole ==
  Joining = {} =>
    /\ \A u \in member \ lost : held[u] = key
    /\ \A f \in Rows \ lost : files[f] = key
    /\ lost = Everyone \/ \A l \in Links : passed[l] <= 1

\* Whoever has opened a link gets as far as asking to join while it is open
\* (violated: the page reads lists that only members are given).
LinkLetsAsk ==
  [][\A u \in Users :
       At(u, "list") /\ link[task[u].link] = "open" => task'[u] # Idle]_vars

TypeOK ==
  /\ key \in 1..keys /\ keys \in 1..MaxKeys
  /\ Owner \in member /\ member \subseteq Users /\ confirmed \subseteq Users
  /\ held \in [Users -> 0..keys] /\ files \in [Files -> 0..keys]
  /\ link \in [Links -> {"none", "open", "used", "expired"}]
  /\ changes \in 0..Changes
=============================================================================
