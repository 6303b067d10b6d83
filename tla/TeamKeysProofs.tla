--------------------------- MODULE TeamKeysProofs ----------------------------
(***************************************************************************)
(* Safety of a team's key for every number of members, devices, files and  *)
(* keys.                                                                   *)
(***************************************************************************)
EXTENDS MCTeams, TLAPS

Places == {"start", "post", "commit", "write", "slot", "flag"}
FileRow == [key : Keys \cup {None, Lost}, c1 : Encryptions \cup {None},
            body : Encryptions \cup {None}]
SlotRow == [key : Keys \cup {None}, confirmed : BOOLEAN]

(* A rotation under way has made its key.                                  *)
HasNewKey == \A c \in Clients : client[c].op = "rotate" => client[c].new \in Keys

-----------------------------------------------------------------------------
(***************************************************************************)
(* Types.                                                                  *)
(***************************************************************************)

(* A client that begins, or goes on, is a client still.                    *)
LEMMA IdleClient == Idle \in Client
BY DEF Idle, Client, NoFile, Ops

LEMMA BegunClient ==
  ASSUME NEW op \in Ops, NEW at \in Places, NEW sk \in Keys \cup {None},
         NEW new \in Keys \cup {None}, NEW us \in SUBSET Users
  PROVE  /\ [Idle EXCEPT !.op = op, !.sk = sk, !.new = new] \in Client
         /\ [Idle EXCEPT !.op = op, !.sk = sk] \in Client
         /\ [Idle EXCEPT !.op = op, !.sk = sk, !.users = us] \in Client
         /\ [Idle EXCEPT !.op = op, !.at = at, !.users = us] \in Client
BY DEF Idle, Client, NoFile, Ops, Places

LEMMA GoneOnClient ==
  ASSUME NEW x \in Client, NEW at \in Places, NEW rows \in [Files -> FileRow],
         NEW us \in SUBSET Users
  PROVE  /\ [x EXCEPT !.at = at] \in Client
         /\ [x EXCEPT !.at = at, !.rows = rows, !.users = us] \in Client
BY DEF Client, Places, FileRow

LEMMA InitType == Init => TypeOK
<1>. SUFFICES ASSUME Init PROVE TypeOK
  OBVIOUS
<1>1. slot \in [Users -> SlotRow] /\ \A u \in Users : slot[u].confirmed => slot[u].key # None
  BY KeysAssumption DEF Init, NoSlot, SlotRow
<1>2. file \in [Files -> FileRow]
  BY DEF Init, NoFile, FileRow
<1>3. client \in [Clients -> Client]
  BY IdleClient DEF Init
<1>. QED
  BY <1>1, <1>2, <1>3, OwnerAssumption, KeysAssumption DEF Init, TypeOK, SlotRow, FileRow

(* What an operation begins with.                                          *)
LEMMA BeginType ==
  ASSUME TypeOK, NEW c \in Clients, NEW t \in Client, Begin(c, t)
  PROVE  client' \in [Clients -> Client]
BY DEF Begin, TypeOK

LEMMA GotoType ==
  ASSUME TypeOK, NEW c \in Clients, NEW at \in Places, Goto(c, at)
  PROVE  client' \in [Clients -> Client]
<1>1. [client[c] EXCEPT !.at = at] \in Client
  BY DEF TypeOK, Client, Places
<1>2. client' = [client EXCEPT ![c] = [client[c] EXCEPT !.at = at]]
  BY DEF Goto
<1>. QED
  BY <1>1, <1>2 DEF TypeOK

LEMMA FinishType ==
  ASSUME TypeOK, NEW c \in Clients, Finish(c)
  PROVE  client' \in [Clients -> Client]
BY IdleClient DEF Finish, TypeOK

(* What a client holds.                                                    *)
LEMMA Holds ==
  ASSUME TypeOK, NEW c \in Clients
  PROVE  /\ User(c) \in Users
         /\ slot[User(c)] \in SlotRow
         /\ client[c].op \in Ops \cup {"idle"} /\ client[c].at \in Places
         /\ client[c].sk \in Keys \cup {None} /\ client[c].new \in Keys \cup {None}
         /\ client[c].rows \in [Files -> FileRow] /\ client[c].users \in SUBSET Users
BY ClientsAssumption DEF TypeOK, Client, User, SlotRow, FileRow, Places

LEMMA TeamType ==
  ASSUME TypeOK, UNCHANGED team, client' \in [Clients -> Client]
  PROVE  TypeOK'
BY DEF TypeOK, team

LEMMA StartType ==
  ASSUME TypeOK, NEW c \in Clients, Start(c)
  PROVE  TypeOK'
<1>. USE Holds
<1>1. ASSUME NEW k \in Keys, RotateRead(c, k) PROVE TypeOK'
  BY <1>1, BegunClient, BeginType, TeamType DEF RotateRead, Ops, SlotRow
<1>2. ASSUME ConfirmRead(c) PROVE TypeOK'
  BY <1>2, BegunClient, BeginType, TeamType DEF ConfirmRead, Ops, SlotRow
<1>3. ASSUME AddRead(c) PROVE TypeOK'
  <2>1. [Idle EXCEPT !.op = "add", !.sk = pk] \in Client
    BY IdleClient DEF TypeOK, Client, Ops
  <2>2. client' \in [Clients -> Client]
    BY <1>3, <2>1, BeginType DEF AddRead
  <2>. QED
    BY <1>3, <2>2, TeamType DEF AddRead
<1>4. ASSUME NEW v \in Users, InviteRead(c, v) PROVE TypeOK'
  <2>1. slot[User(c)].key \in Keys \cup {None} /\ {v} \in SUBSET Users
    BY DEF SlotRow
  <2>2. [Idle EXCEPT !.op = "invite", !.sk = slot[User(c)].key, !.users = {v}] \in Client
    BY <2>1, IdleClient DEF Client, Ops
  <2>3. client' \in [Clients -> Client]
    BY <1>4, <2>2, BeginType DEF InviteRead
  <2>. QED
    BY <1>4, <2>3, TeamType DEF InviteRead
<1>5. ASSUME NEW v \in Users, RemoveRole(c, v) PROVE TypeOK'
  <2>1. [Idle EXCEPT !.op = "remove", !.at = "slot", !.users = {v}] \in Client
    BY IdleClient DEF Client, Ops
  <2>. QED
    BY <1>5, <2>1, BeginType DEF RemoveRole, TypeOK
<1>. QED
  BY <1>1, <1>2, <1>3, <1>4, <1>5 DEF Start

LEMMA StepType ==
  ASSUME TypeOK, HasNewKey, NEW c \in Clients, Step(c)
  PROVE  TypeOK'
<1>. USE Holds
<1>1. CASE RotateFetch(c)
  <2>1. [client[c] EXCEPT !.at = "post", !.rows = file, !.users = member \cap active] \in Client
    <3>1. client[c] \in Client /\ file \in [Files -> FileRow] /\ member \cap active \in SUBSET Users
      BY DEF TypeOK, FileRow
    <3>. QED
      BY <3>1, GoneOnClient DEF Places
  <2>2. client' = [client EXCEPT ![c] =
                     [client[c] EXCEPT !.at = "post", !.rows = file, !.users = member \cap active]]
    BY <1>1 DEF RotateFetch
  <2>3. client' \in [Clients -> Client]
    BY <2>1, <2>2 DEF TypeOK
  <2>. QED
    BY <1>1, <2>3, TeamType DEF RotateFetch
<1>2. CASE RotateValidate(c)
  BY <1>2, GotoType, TeamType DEF RotateValidate, Places
<1>3. CASE RotateCommit(c)
  <2>1. client[c].new \in Keys
    BY <1>3 DEF RotateCommit, At, HasNewKey
  <2>2. slot' \in [Users -> SlotRow] /\ \A u \in Users : slot'[u].confirmed => slot'[u].key # None
    BY <1>3, <2>1 DEF RotateCommit, NewSlots, NoSlot, TypeOK, SlotRow
  <2>3. \A f \in Files : Rotated(c, f) \in FileRow
    <3>. SUFFICES ASSUME NEW f \in Files PROVE Rotated(c, f) \in FileRow
      OBVIOUS
    <3>1. file[f] \in FileRow /\ client[c].rows[f] \in FileRow
      BY DEF TypeOK, FileRow
    <3>2. client[c].rows[f].c1 \in Encryptions \cup {None}
      BY <3>1 DEF FileRow
    <3>. QED
      BY <2>1, <3>1, <3>2 DEF Rotated, FileRow
  <2>4. file' \in [Files -> FileRow]
    BY <1>3, <2>3 DEF RotateCommit, TypeOK, FileRow
  <2>. QED
    BY <1>3, <2>1, <2>2, <2>4, FinishType DEF RotateCommit, TypeOK, SlotRow, FileRow
<1>4. CASE ConfirmVerify(c)
  BY <1>4, GotoType, TeamType DEF ConfirmVerify, Places
<1>5. CASE ConfirmWrite(c)
  <2>1. slot' \in [Users -> SlotRow] /\ \A u \in Users : slot'[u].confirmed => slot'[u].key # None
    BY <1>5 DEF ConfirmWrite, TypeOK, SlotRow
  <2>. QED
    BY <1>5, <2>1, FinishType DEF ConfirmWrite, TypeOK, SlotRow
<1>6. ASSUME NEW f \in Files, NEW e \in Encryptions, AddWrite(c, f, e) PROVE TypeOK'
  <2>1. file' \in [Files -> FileRow]
    BY <1>6 DEF AddWrite, TypeOK, FileRow
  <2>. QED
    BY <1>6, <2>1, FinishType DEF AddWrite, TypeOK, FileRow
<1>7. CASE InviteRole(c)
  BY <1>7, GotoType DEF InviteRole, TypeOK, Places
<1>8. CASE InviteSlot(c)
  <2>1. slot' \in [Users -> SlotRow] /\ \A u \in Users : slot'[u].confirmed => slot'[u].key # None
    BY <1>8 DEF InviteSlot, TypeOK, SlotRow
  <2>. QED
    BY <1>8, <2>1, FinishType DEF InviteSlot, TypeOK, SlotRow
<1>9. CASE RemoveSlot(c)
  <2>1. slot' \in [Users -> SlotRow] /\ \A u \in Users : slot'[u].confirmed => slot'[u].key # None
    BY <1>9 DEF RemoveSlot, TypeOK, SlotRow, NoSlot
  <2>. QED
    BY <1>9, <2>1, GotoType DEF RemoveSlot, TypeOK, SlotRow, Places
<1>10. CASE RemoveFlag(c)
  BY <1>10, FinishType DEF RemoveFlag, TypeOK
<1>. QED
  BY <1>1, <1>2, <1>3, <1>4, <1>5, <1>6, <1>7, <1>8, <1>9, <1>10 DEF Step

LEMMA NextType ==
  ASSUME TypeOK, HasNewKey, [Next]_vars
  PROVE  TypeOK'
<1>1. ASSUME NEW c \in Clients, Abandon(c) PROVE TypeOK'
  BY <1>1, FinishType, TeamType DEF Abandon
<1>2. ASSUME NEW f \in Files, DropFile(f) PROVE TypeOK'
  BY <1>2 DEF DropFile, TypeOK, NoFile
<1>3. ASSUME NEW v \in Users, Deactivate(v) PROVE TypeOK'
  BY <1>3 DEF Deactivate, TypeOK, NoSlot
<1>4. CASE UNCHANGED vars
  BY <1>4 DEF vars, team, TypeOK
<1>. QED
  BY <1>1, <1>2, <1>3, <1>4, StartType, StepType DEF Next

LEMMA NextHasNewKey == TypeOK /\ HasNewKey /\ [Next]_vars => HasNewKey'
<1>. SUFFICES ASSUME TypeOK, HasNewKey, [Next]_vars PROVE HasNewKey'
  OBVIOUS
<1>1. ASSUME NEW c \in Clients, Start(c) PROVE HasNewKey'
  <2>1. ASSUME NEW k \in Keys, RotateRead(c, k) PROVE HasNewKey'
    BY <2>1 DEF RotateRead, Begin, Idle, HasNewKey, TypeOK
  <2>2. CASE ConfirmRead(c)
    BY <2>2 DEF ConfirmRead, Begin, Idle, HasNewKey, TypeOK
  <2>3. CASE AddRead(c)
    BY <2>3 DEF AddRead, Begin, Idle, HasNewKey, TypeOK
  <2>4. ASSUME NEW v \in Users, InviteRead(c, v) \/ RemoveRole(c, v) PROVE HasNewKey'
    BY <2>4 DEF InviteRead, RemoveRole, Begin, Idle, HasNewKey, TypeOK
  <2>. QED
    BY <1>1, <2>1, <2>2, <2>3, <2>4 DEF Start
<1>2. ASSUME NEW c \in Clients, Finish(c) PROVE HasNewKey'
  BY <1>2 DEF Finish, Idle, HasNewKey, TypeOK
<1>3. ASSUME NEW c \in Clients, NEW at, Goto(c, at) PROVE HasNewKey'
  <2>1. \A d \in Clients : /\ client'[d].op = client[d].op /\ client'[d].new = client[d].new
    BY <1>3 DEF Goto, TypeOK, Client
  <2>. QED
    BY <2>1 DEF HasNewKey
<1>4. ASSUME NEW c \in Clients, Step(c) PROVE HasNewKey'
  <2>1. CASE RotateFetch(c)
    BY <2>1 DEF RotateFetch, HasNewKey, TypeOK, Client
  <2>2. CASE RotateValidate(c) \/ ConfirmVerify(c) \/ InviteRole(c) \/ RemoveSlot(c)
    BY <1>3, <2>2 DEF RotateValidate, ConfirmVerify, InviteRole, RemoveSlot
  <2>3. CASE \/ RotateCommit(c) \/ ConfirmWrite(c) \/ InviteSlot(c) \/ RemoveFlag(c)
             \/ \E f \in Files, e \in Encryptions : AddWrite(c, f, e)
    BY <1>2, <2>3 DEF RotateCommit, ConfirmWrite, InviteSlot, RemoveFlag, AddWrite
  <2>. QED
    BY <1>4, <2>1, <2>2, <2>3 DEF Step
<1>5. CASE UNCHANGED client
  BY <1>5 DEF HasNewKey
<1>. QED
  BY <1>1, <1>2, <1>4, <1>5 DEF Next, Abandon, DropFile, Deactivate, vars

LEMMA InitHasNewKey == Init => HasNewKey
BY DEF Init, HasNewKey, Idle

(* The tables and the clients keep their types, whatever races.            *)
THEOREM TypeCorrect == Spec => []TypeOK
<1>1. TypeOK /\ HasNewKey /\ [Next]_vars => TypeOK'
  BY NextType
<1>. QED
  BY <1>1, InitType, InitHasNewKey, NextHasNewKey, PTL DEF Spec

-----------------------------------------------------------------------------
(***************************************************************************)
(* The owner's slot, whatever races.  A rotation that was verified names   *)
(* the owner among its members, a removal never does, and a slot that      *)
(* exists is not written by an invitation.                                 *)
(***************************************************************************)
ClientFields == {"op", "at", "sk", "new", "rows", "users"}
IsClient(x) == DOMAIN x = ClientFields /\ x = [a \in ClientFields |-> x[a]]
SlotFields == {"key", "confirmed"}
IsSlot(x) == DOMAIN x = SlotFields /\ x = [a \in SlotFields |-> x[a]]

RacesTypes ==
  /\ racesPk # None
  /\ racesSlot = [u \in Users |-> racesSlot[u]] /\ \A u \in Users : IsSlot(racesSlot[u])
  /\ racesClient = [c \in RaceClients |-> racesClient[c]]

Racer(x) ==
  /\ IsClient(x)
  /\ x.op = "rotate" => x.new # None
  /\ x.op = "remove" => Owner \notin x.users
  /\ x.op = "rotate" /\ x.at = "commit" => Owner \in x.users


KeyHeld ==
  /\ RacesTypes
  /\ \A c \in RaceClients : Racer(racesClient[c])
  /\ Owner \in racesMember
  /\ Races!OwnerHoldsKey

LEMMA RacesConstants ==
  /\ Owner \in Users
  /\ FirstKey # None /\ \A k \in {FirstKey} \cup OtherKeys : k # None
  /\ \A c \in RaceClients : Races!User(c) \in Users
<1>1. Owner \in Users /\ FirstKey # None /\ \A k \in {FirstKey} \cup OtherKeys : k # None
  BY OwnerAssumption, KeysAssumption, OtherKeysAssumption
<1>. QED
  BY <1>1, RaceClientsAssumption DEF Races!User

LEMMA IdleRacer == Racer(Races!Idle) /\ Races!Idle.op = "idle"
BY DEF Racer, IsClient, ClientFields, Races!Idle

LEMMA RacesInit == Races!Init => KeyHeld
<1>. SUFFICES ASSUME Races!Init PROVE KeyHeld
  OBVIOUS
<1>1. RacesTypes
  BY RacesConstants DEF Races!Init, Races!NoSlot, RacesTypes, IsSlot, SlotFields
<1>2. \A c \in RaceClients : Racer(racesClient[c])
  BY IdleRacer DEF Races!Init
<1>. QED
  BY <1>1, <1>2, RacesConstants DEF Races!Init, KeyHeld, Races!OwnerHoldsKey

(* A step in which one client moves on, and the tables keep their promise. *)
LEMMA RacerMoves ==
  ASSUME KeyHeld, NEW c \in RaceClients, NEW x, Racer(x),
         racesClient' = [racesClient EXCEPT ![c] = x],
         racesPk' # None,
         racesSlot' = [u \in Users |-> racesSlot'[u]], \A u \in Users : IsSlot(racesSlot'[u]),
         Owner \in racesMember', Races!OwnerHoldsKey'
  PROVE  KeyHeld'
<1>1. \A d \in RaceClients : racesClient'[d] = IF d = c THEN x ELSE racesClient[d]
  BY DEF KeyHeld, RacesTypes
<1>2. racesClient' = [d \in RaceClients |-> racesClient'[d]]
  BY DEF KeyHeld, RacesTypes
<1>3. \A d \in RaceClients : Racer(racesClient'[d])
  BY <1>1 DEF KeyHeld
<1>. QED
  BY <1>2, <1>3 DEF KeyHeld, RacesTypes

LEMMA RacerBegins ==
  ASSUME KeyHeld, NEW c \in RaceClients, NEW x, Racer(x), Races!Begin(c, x),
         UNCHANGED <<racesPk, racesSlot, racesActive>>, Owner \in racesMember'
  PROVE  KeyHeld'
BY RacerMoves DEF Races!Begin, KeyHeld, RacesTypes, Races!OwnerHoldsKey

LEMMA RacesStart ==
  ASSUME KeyHeld, NEW c \in RaceClients, Races!Start(c)
  PROVE  KeyHeld'
<1>. USE DEF Races!team
<1>1. ASSUME NEW k \in {FirstKey} \cup OtherKeys, Races!RotateRead(c, k) PROVE KeyHeld'
  <2>. DEFINE x == [Races!Idle EXCEPT !.op = "rotate", !.sk = racesSlot[Races!User(c)].key, !.new = k]
  <2>1. Racer(x)
    BY RacesConstants DEF Racer, IsClient, ClientFields, Races!Idle
  <2>3. Races!Begin(c, x) /\ UNCHANGED <<racesPk, racesSlot, racesActive>> /\ Owner \in racesMember'
    BY <1>1 DEF Races!RotateRead, KeyHeld
  <2>. HIDE DEF x
  <2>. QED
    BY <2>1, <2>3, RacerBegins
<1>2. ASSUME Races!ConfirmRead(c) PROVE KeyHeld'
  <2>. DEFINE x == [Races!Idle EXCEPT !.op = "confirm", !.sk = racesSlot[Races!User(c)].key]
  <2>1. Racer(x)
    BY DEF Racer, IsClient, ClientFields, Races!Idle
  <2>3. Races!Begin(c, x) /\ UNCHANGED <<racesPk, racesSlot, racesActive>> /\ Owner \in racesMember'
    BY <1>2 DEF Races!ConfirmRead, KeyHeld
  <2>. HIDE DEF x
  <2>. QED
    BY <2>1, <2>3, RacerBegins
<1>3. ASSUME Races!AddRead(c) PROVE KeyHeld'
  <2>. DEFINE x == [Races!Idle EXCEPT !.op = "add", !.sk = racesPk]
  <2>1. Racer(x)
    BY DEF Racer, IsClient, ClientFields, Races!Idle
  <2>3. Races!Begin(c, x) /\ UNCHANGED <<racesPk, racesSlot, racesActive>> /\ Owner \in racesMember'
    BY <1>3 DEF Races!AddRead, KeyHeld
  <2>. HIDE DEF x
  <2>. QED
    BY <2>1, <2>3, RacerBegins
<1>4. ASSUME NEW v \in Users, Races!InviteRead(c, v) PROVE KeyHeld'
  <2>. DEFINE x == [Races!Idle EXCEPT !.op = "invite", !.sk = racesSlot[Races!User(c)].key, !.users = {v}]
  <2>1. Racer(x)
    BY DEF Racer, IsClient, ClientFields, Races!Idle
  <2>3. Races!Begin(c, x) /\ UNCHANGED <<racesPk, racesSlot, racesActive>> /\ Owner \in racesMember'
    BY <1>4 DEF Races!InviteRead, KeyHeld
  <2>. HIDE DEF x
  <2>. QED
    BY <2>1, <2>3, RacerBegins
<1>5. ASSUME NEW v \in Users, Races!RemoveRole(c, v) PROVE KeyHeld'
  <2>1. v # Owner
    BY <1>5 DEF Races!RemoveRole, Races!MayRemove
  <2>. DEFINE x == [Races!Idle EXCEPT !.op = "remove", !.at = "slot", !.users = {v}]
  <2>2. Racer(x)
    BY <2>1 DEF Racer, IsClient, ClientFields, Races!Idle
  <2>3. Owner \in racesMember'
    BY <1>5, <2>1 DEF Races!RemoveRole, KeyHeld
  <2>4. Races!Begin(c, x) /\ UNCHANGED <<racesPk, racesSlot, racesActive>>
    BY <1>5 DEF Races!RemoveRole
  <2>. HIDE DEF x
  <2>. QED
    BY <2>2, <2>3, <2>4, RacerBegins
<1>. QED
  BY <1>1, <1>2, <1>3, <1>4, <1>5 DEF Races!Start

(* A client that goes on without a table.                                  *)
LEMMA RacerGoes ==
  ASSUME KeyHeld, NEW c \in RaceClients, NEW x, Racer(x),
         racesClient' = [racesClient EXCEPT ![c] = x],
         UNCHANGED <<racesPk, racesSlot, racesActive>>, Owner \in racesMember'
  PROVE  KeyHeld'
BY RacerMoves DEF KeyHeld, RacesTypes, Races!OwnerHoldsKey

LEMMA RacerGoto ==
  ASSUME KeyHeld, NEW c \in RaceClients, NEW at, Races!Goto(c, at),
         racesClient[c].op = "rotate" /\ at = "commit" => Owner \in racesClient[c].users
  PROVE  \E x : Racer(x) /\ racesClient' = [racesClient EXCEPT ![c] = x]
<1>1. Racer(racesClient[c])
  BY DEF KeyHeld
<1>2. Racer([racesClient[c] EXCEPT !.at = at])
  BY <1>1 DEF Racer, IsClient, ClientFields
<1>. QED
  BY <1>2 DEF Races!Goto

LEMMA RacesStep ==
  ASSUME KeyHeld, NEW c \in RaceClients, Races!Step(c)
  PROVE  KeyHeld'
<1>. USE DEF Races!team, Races!Finish, Races!At
<1>1. Racer(racesClient[c]) /\ IsClient(racesClient[c])
  BY DEF KeyHeld, Racer
<1>2. CASE Races!RotateFetch(c)
  <2>. DEFINE x == [racesClient[c] EXCEPT !.at = "post", !.rows = racesFile,
                                          !.users = racesMember \cap racesActive]
  <2>1. Racer(x)
    BY <1>1, <1>2 DEF Racer, IsClient, ClientFields, Races!RotateFetch
  <2>2. racesClient' = [racesClient EXCEPT ![c] = x]
    BY <1>2 DEF Races!RotateFetch, KeyHeld, RacesTypes
  <2>. HIDE DEF x
  <2>. QED
    BY <1>2, <2>1, <2>2, RacerGoes DEF Races!RotateFetch, KeyHeld
<1>3. CASE Races!RotateValidate(c)
  <2>1. Owner \in racesClient[c].users
    BY <1>3 DEF Races!RotateValidate, Races!CoversMembers, KeyHeld
  <2>2. PICK x : Racer(x) /\ racesClient' = [racesClient EXCEPT ![c] = x]
    BY <1>3, <2>1, RacerGoto DEF Races!RotateValidate
  <2>. QED
    BY <1>3, <2>2, RacerGoes DEF Races!RotateValidate, KeyHeld
<1>4. CASE Races!RotateCommit(c)
  <2>1. Owner \in racesClient[c].users /\ racesClient[c].new # None
    BY <1>1, <1>4 DEF Races!RotateCommit, Racer
  <2>2. /\ racesSlot' = [v \in Users |-> racesSlot'[v]] /\ \A v \in Users : IsSlot(racesSlot'[v])
        /\ racesSlot'[Owner].key = racesClient[c].new
    BY <1>4, <2>1, RacesConstants DEF Races!RotateCommit, Races!NewSlots, Races!NoSlot, IsSlot, SlotFields
  <2>3. Races!OwnerHoldsKey' /\ racesPk' # None /\ Owner \in racesMember'
    BY <1>4, <2>1, <2>2 DEF Races!RotateCommit, Races!OwnerHoldsKey, KeyHeld
  <2>. QED
    BY <1>4, <2>2, <2>3, IdleRacer, RacerMoves DEF Races!RotateCommit
<1>5. CASE Races!ConfirmVerify(c)
  <2>1. PICK x : Racer(x) /\ racesClient' = [racesClient EXCEPT ![c] = x]
    BY <1>5, RacerGoto DEF Races!ConfirmVerify
  <2>. QED
    BY <1>5, <2>1, RacerGoes DEF Races!ConfirmVerify, KeyHeld
<1>6. CASE Races!ConfirmWrite(c)
  <2>1. /\ racesSlot' = [v \in Users |-> racesSlot'[v]]
        /\ \A v \in Users : IsSlot(racesSlot'[v]) /\ racesSlot'[v].key = racesSlot[v].key
    BY <1>6, RacesConstants DEF Races!ConfirmWrite, KeyHeld, RacesTypes, IsSlot, SlotFields
  <2>2. Races!OwnerHoldsKey' /\ racesPk' # None /\ Owner \in racesMember'
    BY <1>6, <2>1, RacesConstants DEF Races!ConfirmWrite, Races!OwnerHoldsKey, KeyHeld, RacesTypes
  <2>. QED
    BY <1>6, <2>1, <2>2, IdleRacer, RacerMoves DEF Races!ConfirmWrite
<1>7. ASSUME NEW f \in Files, NEW e \in OtherEncryptions, Races!AddWrite(c, f, e) PROVE KeyHeld'
  BY <1>7, IdleRacer, RacerGoes DEF Races!AddWrite, KeyHeld
<1>8. CASE Races!InviteRole(c)
  <2>1. PICK x : Racer(x) /\ racesClient' = [racesClient EXCEPT ![c] = x]
    BY <1>8, RacerGoto DEF Races!InviteRole
  <2>. QED
    BY <1>8, <2>1, RacerGoes DEF Races!InviteRole, KeyHeld
<1>9. CASE Races!InviteSlot(c)
  <2>1. PICK v \in racesClient[c].users :
          /\ racesSlot[v] = Races!NoSlot
          /\ racesSlot' = [racesSlot EXCEPT ![v] = [key |-> racesClient[c].sk, confirmed |-> FALSE]]
    BY <1>9 DEF Races!InviteSlot
  <2>2. Owner \in racesActive => v # Owner
    BY <2>1 DEF KeyHeld, RacesTypes, Races!OwnerHoldsKey, Races!NoSlot
  <2>3. racesSlot' = [u \in Users |-> racesSlot'[u]] /\ \A u \in Users : IsSlot(racesSlot'[u])
    BY <2>1 DEF KeyHeld, RacesTypes, IsSlot, SlotFields
  <2>4. Races!OwnerHoldsKey'
    BY <1>9, <2>1, <2>2, RacesConstants DEF Races!InviteSlot, Races!OwnerHoldsKey, KeyHeld, RacesTypes
  <2>. QED
    BY <1>9, <2>3, <2>4, IdleRacer, RacerMoves DEF Races!InviteSlot, KeyHeld, RacesTypes
<1>10. CASE Races!RemoveSlot(c)
  <2>1. Owner \notin racesClient[c].users
    BY <1>1, <1>10 DEF Races!RemoveSlot, Racer
  <2>2. PICK x : Racer(x) /\ racesClient' = [racesClient EXCEPT ![c] = x]
    BY <1>10, RacerGoto DEF Races!RemoveSlot
  <2>3. /\ racesSlot' = [v \in Users |-> racesSlot'[v]] /\ \A v \in Users : IsSlot(racesSlot'[v])
        /\ racesSlot'[Owner] = racesSlot[Owner]
    BY <1>10, <2>1, RacesConstants DEF Races!RemoveSlot, Races!NoSlot, IsSlot, SlotFields, KeyHeld, RacesTypes
  <2>4. Races!OwnerHoldsKey'
    BY <1>10, <2>3 DEF Races!RemoveSlot, Races!OwnerHoldsKey, KeyHeld
  <2>. QED
    BY <1>10, <2>2, <2>3, <2>4, RacerMoves DEF Races!RemoveSlot, KeyHeld, RacesTypes
<1>11. CASE Races!RemoveFlag(c)
  BY <1>11, IdleRacer, RacerGoes DEF Races!RemoveFlag, KeyHeld
<1>. QED
  BY <1>2, <1>3, <1>4, <1>5, <1>6, <1>7, <1>8, <1>9, <1>10, <1>11 DEF Races!Step

LEMMA RacesNext == KeyHeld /\ [Races!Next]_(Races!vars) => KeyHeld'
<1>. SUFFICES ASSUME KeyHeld, [Races!Next]_(Races!vars) PROVE KeyHeld'
  OBVIOUS
<1>1. ASSUME NEW c \in RaceClients, Races!Abandon(c) PROVE KeyHeld'
  BY <1>1, IdleRacer, RacerGoes DEF Races!Abandon, Races!Finish, Races!team, KeyHeld
<1>2. ASSUME NEW f \in Files, Races!DropFile(f) PROVE KeyHeld'
  BY <1>2 DEF Races!DropFile, KeyHeld, RacesTypes, Races!OwnerHoldsKey
<1>3. ASSUME NEW v \in Users, Races!Deactivate(v) PROVE KeyHeld'
  <2>1. racesSlot' = [u \in Users |-> racesSlot'[u]] /\ \A u \in Users : IsSlot(racesSlot'[u])
    BY <1>3 DEF Races!Deactivate, Races!NoSlot, KeyHeld, RacesTypes, IsSlot, SlotFields
  <2>2. Races!OwnerHoldsKey'
    BY <1>3 DEF Races!Deactivate, Races!OwnerHoldsKey, KeyHeld, RacesTypes
  <2>. QED
    BY <1>3, <2>1, <2>2 DEF Races!Deactivate, KeyHeld, RacesTypes
<1>4. CASE UNCHANGED Races!vars
  BY <1>4 DEF Races!vars, Races!team, KeyHeld, RacesTypes, Races!OwnerHoldsKey
<1>. QED
  BY <1>1, <1>2, <1>3, <1>4, RacesStart, RacesStep DEF Races!Next

(* Until the owner's account goes, the owner's slot holds the team's       *)
(* current key, however rotations, confirmations, invitations, removals    *)
(* and uploads of any number of members and devices interleave: no         *)
(* rotation of routes/teams.py can lock everybody out.                     *)
THEOREM KeyNeverLost == Races!Spec => []OwnerKeepsKey
<1>1. KeyHeld => OwnerKeepsKey
  BY DEF KeyHeld, OwnerKeepsKey
<1>. QED
  BY <1>1, RacesInit, RacesNext, PTL DEF Races!Spec

-----------------------------------------------------------------------------
(***************************************************************************)
(* The files and the slots, when only rotations and confirmations race.    *)
(* What an addition or an invitation writes comes from a key read while    *)
(* nothing else ran.  A rotation holds a copy of the file keys; the last   *)
(* one committed rewrites every file, and what it writes was checked.      *)
(***************************************************************************)
OneByOne ==
  \A c, d \in Clients :
    c # d /\ client[c].op # "idle" /\ client[d].op # "idle" => client[c].op \in Racing

KeysRead == \A c \in Clients : client[c].op \in {"add", "invite"} => client[c].sk = pk

FilesCopied ==
  \A c \in Clients, f \in Present :
    /\ At(c, "rotate", "post") \/ At(c, "rotate", "commit") =>
         client[c].rows[f].key # None /\ client[c].rows[f].c1 = file[f].body
    /\ At(c, "rotate", "commit") => client[c].rows[f].key = client[c].sk

Waits == OneByOne /\ KeysRead /\ FilesCopied

FilesKept == TypeOK /\ HasNewKey /\ Waits /\ FilesOpen /\ SlotsCurrent

LEMMA InitFilesKept == Init => FilesKept
<1>. SUFFICES ASSUME Init PROVE FilesKept
  OBVIOUS
<1>1. \A c \in Clients : client[c] = Idle
  BY DEF Init
<1>2. Present = {}
  BY DEF Init, Present, NoFile
<1>3. HasNewKey /\ Waits
  BY <1>1, <1>2 DEF HasNewKey, Waits, OneByOne, KeysRead, FilesCopied, At, Idle
<1>4. FilesOpen /\ SlotsCurrent
  BY <1>2 DEF Init, FilesOpen, SlotsCurrent, NoSlot
<1>. QED
  BY <1>3, <1>4, InitType DEF FilesKept

(* The rest of the clients' records do not matter.                         *)
LEMMA Unmoved ==
  ASSUME FilesKept, UNCHANGED <<pk, slot, file>>
  PROVE  (FilesOpen /\ SlotsCurrent)'
BY DEF FilesKept, FilesOpen, SlotsCurrent, Present

LEMMA BeginKept ==
  ASSUME FilesKept, NEW c \in Clients, NEW t \in Client, Begin(c, t),
         t.at # "post", t.at # "commit", t.op # "idle",
         t.op = "rotate" => t.new \in Keys,
         t.op \in {"add", "invite"} => t.sk = pk,
         UNCHANGED <<pk, slot, file>>
  PROVE  (HasNewKey /\ Waits)'
<1>. USE DEF FilesKept
<1>1. client[c] = Idle /\ client'[c] = t /\ \A d \in Clients \ {c} : client'[d] = client[d]
  BY DEF Begin, TypeOK
<1>2. OneByOne'
  <2>1. ASSUME NEW d \in Clients, client[d].op # "idle"
        PROVE  client[d].op \in Racing /\ t.op \in Racing
    BY <2>1 DEF Begin, Running
  <2>. QED
    BY <1>1, <2>1 DEF OneByOne, Waits
<1>3. KeysRead' /\ HasNewKey'
  BY <1>1 DEF KeysRead, HasNewKey, Waits
<1>4. FilesCopied'
  BY <1>1 DEF FilesCopied, Waits, At, Present
<1>. QED
  BY <1>2, <1>3, <1>4 DEF Waits

LEMMA StartFilesKept ==
  ASSUME FilesKept, NEW c \in Clients, Start(c)
  PROVE  FilesKept'
<1>. USE DEF FilesKept
<1>1. TypeOK'
  BY StartType
<1>2. slot[User(c)].key \in {None, pk} /\ slot[User(c)].key \in Keys \cup {None}
  BY Holds DEF SlotsCurrent, SlotRow
<1>3. ASSUME NEW k \in Keys, RotateRead(c, k) PROVE FilesKept'
  <2>. DEFINE t == [Idle EXCEPT !.op = "rotate", !.sk = slot[User(c)].key, !.new = k]
  <2>1. t \in Client /\ t.at = "start" /\ t.op = "rotate" /\ t.new = k
    BY <1>2, IdleClient DEF Client, Ops, Idle
  <2>2. UNCHANGED <<pk, slot, file>> /\ Begin(c, t)
    BY <1>3 DEF RotateRead, team
  <2>. HIDE DEF t
  <2>. QED
    BY <1>1, <2>1, <2>2, BeginKept, Unmoved
<1>4. ASSUME ConfirmRead(c) PROVE FilesKept'
  <2>. DEFINE t == [Idle EXCEPT !.op = "confirm", !.sk = slot[User(c)].key]
  <2>1. t \in Client /\ t.at = "start" /\ t.op = "confirm"
    BY <1>2, IdleClient DEF Client, Ops, Idle
  <2>2. UNCHANGED <<pk, slot, file>> /\ Begin(c, t)
    BY <1>4 DEF ConfirmRead, team
  <2>. HIDE DEF t
  <2>. QED
    BY <1>1, <2>1, <2>2, BeginKept, Unmoved
<1>5. ASSUME AddRead(c) PROVE FilesKept'
  <2>. DEFINE t == [Idle EXCEPT !.op = "add", !.sk = pk]
  <2>1. t \in Client /\ t.at = "start" /\ t.op = "add" /\ t.sk = pk
    BY IdleClient DEF Client, Ops, Idle, TypeOK
  <2>2. UNCHANGED <<pk, slot, file>> /\ Begin(c, t)
    BY <1>5 DEF AddRead, team
  <2>. HIDE DEF t
  <2>. QED
    BY <1>1, <2>1, <2>2, BeginKept, Unmoved
<1>6. ASSUME NEW v \in Users, InviteRead(c, v) PROVE FilesKept'
  <2>. DEFINE t == [Idle EXCEPT !.op = "invite", !.sk = slot[User(c)].key, !.users = {v}]
  <2>1. t \in Client /\ t.at = "start" /\ t.op = "invite" /\ t.sk = slot[User(c)].key
    BY <1>2, IdleClient DEF Client, Ops, Idle
  <2>2. UNCHANGED <<pk, slot, file>> /\ Begin(c, t) /\ slot[User(c)].key # None
    BY <1>6 DEF InviteRead, team
  <2>. HIDE DEF t
  <2>. QED
    BY <1>1, <1>2, <2>1, <2>2, BeginKept, Unmoved
<1>7. ASSUME NEW v \in Users, RemoveRole(c, v) PROVE FilesKept'
  <2>. DEFINE t == [Idle EXCEPT !.op = "remove", !.at = "slot", !.users = {v}]
  <2>1. t \in Client /\ t.at = "slot" /\ t.op = "remove"
    BY IdleClient DEF Client, Ops, Idle
  <2>2. UNCHANGED <<pk, slot, file>> /\ Begin(c, t)
    BY <1>7 DEF RemoveRole
  <2>. HIDE DEF t
  <2>. QED
    BY <1>1, <2>1, <2>2, BeginKept, Unmoved
<1>. QED
  BY <1>3, <1>4, <1>5, <1>6, <1>7 DEF Start

(* Dropped files and finished operations leave the rest as it was.         *)
LEMMA FinishKept ==
  ASSUME FilesKept, NEW c \in Clients, Finish(c),
         pk' = pk \/ \A d \in Clients \ {c} : client[d].op \notin {"add", "invite"},
         \/ \A f \in Present' : f \in Present /\ file'[f].body = file[f].body
         \/ \A d \in Clients \ {c} : client[d].op # "rotate"
  PROVE  (HasNewKey /\ Waits)'
<1>. USE DEF FilesKept, Waits
<1>1. client'[c] = Idle /\ \A d \in Clients \ {c} : client'[d] = client[d]
  BY DEF Finish, TypeOK
<1>2. OneByOne' /\ HasNewKey'
  BY <1>1 DEF OneByOne, HasNewKey, Idle
<1>3. KeysRead'
  BY <1>1 DEF KeysRead, Idle
<1>4. FilesCopied'
  BY <1>1 DEF FilesCopied, At, Idle
<1>. QED
  BY <1>2, <1>3, <1>4

LEMMA GotoKept ==
  ASSUME FilesKept, NEW c \in Clients, NEW at \in Places \ {"post", "commit"}, Goto(c, at),
         UNCHANGED <<pk, file>>
  PROVE  (HasNewKey /\ Waits)'
<1>. USE DEF FilesKept, Waits
<1>1. /\ client'[c].op = client[c].op /\ client'[c].sk = client[c].sk
      /\ client'[c].new = client[c].new /\ client'[c].at = at
      /\ \A d \in Clients \ {c} : client'[d] = client[d]
  BY DEF Goto, TypeOK, Client
<1>2. OneByOne' /\ HasNewKey' /\ KeysRead'
  BY <1>1 DEF OneByOne, HasNewKey, KeysRead
<1>3. FilesCopied'
  BY <1>1 DEF FilesCopied, At, Present
<1>. QED
  BY <1>2, <1>3

(* The rotation itself.                                                    *)
LEMMA FetchKept ==
  ASSUME FilesKept, NEW c \in Clients, RotateFetch(c)
  PROVE  (HasNewKey /\ Waits)'
<1>. USE DEF FilesKept, Waits
<1>1. /\ client'[c].op = client[c].op /\ client'[c].sk = client[c].sk
      /\ client'[c].new = client[c].new /\ client'[c].at = "post"
      /\ client'[c].rows = file
      /\ \A d \in Clients \ {c} : client'[d] = client[d]
  BY DEF RotateFetch, TypeOK, Client
<1>2. UNCHANGED <<pk, file>>
  BY DEF RotateFetch, team
<1>3. OneByOne' /\ HasNewKey' /\ KeysRead'
  BY <1>1, <1>2 DEF OneByOne, HasNewKey, KeysRead
<1>4. FilesCopied'
  BY <1>1, <1>2 DEF FilesCopied, FilesOpen, At, Present
<1>. QED
  BY <1>3, <1>4

LEMMA ValidateKept ==
  ASSUME FilesKept, NEW c \in Clients, RotateValidate(c)
  PROVE  (HasNewKey /\ Waits)'
<1>. USE DEF FilesKept, Waits
<1>1. /\ client'[c].op = client[c].op /\ client'[c].sk = client[c].sk
      /\ client'[c].new = client[c].new /\ client'[c].at = "commit"
      /\ client'[c].rows = client[c].rows
      /\ \A d \in Clients \ {c} : client'[d] = client[d]
  BY DEF RotateValidate, Goto, TypeOK, Client
<1>2. UNCHANGED <<pk, file>>
  BY DEF RotateValidate, team
<1>3. OneByOne' /\ HasNewKey' /\ KeysRead'
  BY <1>1, <1>2 DEF OneByOne, HasNewKey, KeysRead
<1>4. ASSUME NEW f \in Present
      PROVE  /\ client[c].rows[f].key = client[c].sk
             /\ client[c].rows[f].key # None /\ client[c].rows[f].c1 = file[f].body
  <2>1. client[c].rows[f].key # None /\ client[c].rows[f].c1 = file[f].body
    BY DEF RotateValidate, FilesCopied
  <2>2. f \in Listed(c)
    BY <2>1 DEF Listed, Present
  <2>3. client[c].rows[f].key = file[f].key /\ client[c].sk = pk
    BY <2>2 DEF RotateValidate, KeyMatches
  <2>. QED
    BY <2>1, <2>3 DEF FilesOpen
<1>5. FilesCopied'
  BY <1>1, <1>2, <1>4 DEF FilesCopied, At, Present
<1>. QED
  BY <1>3, <1>5

LEMMA CommitKept ==
  ASSUME FilesKept, NEW c \in Clients, RotateCommit(c), Racing \subseteq {"rotate", "confirm"}
  PROVE  (HasNewKey /\ Waits /\ FilesOpen /\ SlotsCurrent)'
<1>. USE DEF FilesKept, Waits
<1>1. client[c].new \in Keys /\ pk' = client[c].new
  BY DEF RotateCommit, At, HasNewKey
<1>2. \A d \in Clients \ {c} : client[d].op \notin {"add", "invite"}
  BY DEF RotateCommit, At, OneByOne
<1>3. ASSUME NEW f \in Files, f \in Present
      PROVE  file'[f].key = client[c].new /\ file'[f].c1 = file[f].body
             /\ file'[f].body = file[f].body
  <2>1. /\ client[c].rows[f].key = client[c].sk
        /\ client[c].rows[f].key # None /\ client[c].rows[f].c1 = file[f].body
    BY <1>3 DEF RotateCommit, FilesCopied
  <2>2. file'[f] = Rotated(c, f)
    BY <1>3, <2>1 DEF RotateCommit, Listed
  <2>3. file[f] \in FileRow
    BY DEF TypeOK, FileRow
  <2>. QED
    BY <2>1, <2>2, <2>3 DEF Rotated, FileRow
<1>4. ASSUME NEW f \in Files, f \notin Present PROVE f \notin Present'
  BY <1>4 DEF RotateCommit, Present
<1>5. (HasNewKey /\ Waits)'
  <2>1. \A f \in Present' : f \in Present /\ file'[f].body = file[f].body
    BY <1>3, <1>4 DEF Present
  <2>. QED
    BY <1>2, <2>1, FinishKept DEF RotateCommit
<1>6. FilesOpen'
  BY <1>1, <1>3, <1>4 DEF FilesOpen, Present
<1>7. SlotsCurrent'
  BY <1>1 DEF RotateCommit, NewSlots, NoSlot, SlotsCurrent
<1>. QED
  BY <1>5, <1>6, <1>7

LEMMA StepFilesKept ==
  ASSUME FilesKept, NEW c \in Clients, Step(c), Racing \subseteq {"rotate", "confirm"}
  PROVE  FilesKept'
<1>. USE DEF FilesKept
<1>1. TypeOK'
  BY StepType
<1>2. CASE RotateFetch(c)
  BY <1>1, <1>2, FetchKept, Unmoved DEF RotateFetch, team
<1>3. CASE RotateValidate(c)
  BY <1>1, <1>3, ValidateKept, Unmoved DEF RotateValidate, team
<1>4. CASE RotateCommit(c)
  BY <1>1, <1>4, CommitKept
<1>5. CASE ConfirmVerify(c)
  <2>1. UNCHANGED <<pk, slot, file>> /\ Goto(c, "write")
    BY <1>5 DEF ConfirmVerify, team
  <2>. QED
    BY <1>1, <2>1, GotoKept, Unmoved DEF Places
<1>6. CASE ConfirmWrite(c)
  <2>1. (HasNewKey /\ Waits)'
    BY <1>6, FinishKept DEF ConfirmWrite, Present
  <2>2. FilesOpen' /\ SlotsCurrent'
    BY <1>6 DEF ConfirmWrite, FilesOpen, SlotsCurrent, Present, TypeOK
  <2>. QED
    BY <1>1, <2>1, <2>2
<1>7. ASSUME NEW f \in Files, NEW e \in Encryptions, AddWrite(c, f, e) PROVE FilesKept'
  <2>1. \A d \in Clients \ {c} : client[d].op # "rotate"
    BY <1>7 DEF AddWrite, At, Waits, OneByOne
  <2>2. (HasNewKey /\ Waits)'
    BY <1>7, <2>1, FinishKept DEF AddWrite
  <2>3. client[c].sk = pk
    BY <1>7 DEF AddWrite, At, Waits, KeysRead
  <2>4. FilesOpen' /\ SlotsCurrent'
    BY <1>7, <2>3 DEF AddWrite, FilesOpen, SlotsCurrent, Present, TypeOK
  <2>. QED
    BY <1>1, <2>2, <2>4
<1>8. CASE InviteRole(c)
  <2>1. UNCHANGED <<pk, slot, file>> /\ Goto(c, "slot")
    BY <1>8 DEF InviteRole
  <2>. QED
    BY <1>1, <2>1, GotoKept, Unmoved DEF Places
<1>9. CASE InviteSlot(c)
  <2>1. (HasNewKey /\ Waits)'
    BY <1>9, FinishKept DEF InviteSlot, Present
  <2>2. client[c].sk = pk
    BY <1>9 DEF InviteSlot, At, Waits, KeysRead
  <2>3. FilesOpen' /\ SlotsCurrent'
    BY <1>9, <2>2 DEF InviteSlot, FilesOpen, SlotsCurrent, Present, TypeOK
  <2>. QED
    BY <1>1, <2>1, <2>3
<1>10. CASE RemoveSlot(c)
  <2>1. (HasNewKey /\ Waits)'
    BY <1>10, GotoKept DEF RemoveSlot, Places
  <2>2. FilesOpen' /\ SlotsCurrent'
    BY <1>10 DEF RemoveSlot, FilesOpen, SlotsCurrent, Present, NoSlot
  <2>. QED
    BY <1>1, <2>1, <2>2
<1>11. CASE RemoveFlag(c)
  <2>1. (HasNewKey /\ Waits)'
    BY <1>11, FinishKept DEF RemoveFlag, Present
  <2>. QED
    BY <1>1, <1>11, <2>1, Unmoved DEF RemoveFlag
<1>. QED
  BY <1>2, <1>3, <1>4, <1>5, <1>6, <1>7, <1>8, <1>9, <1>10, <1>11 DEF Step

LEMMA NextFilesKept ==
  ASSUME FilesKept, [Next]_vars, Racing \subseteq {"rotate", "confirm"}
  PROVE  FilesKept'
<1>. USE DEF FilesKept
<1>1. TypeOK'
  BY NextType
<1>2. ASSUME NEW c \in Clients, Abandon(c) PROVE FilesKept'
  <2>1. (HasNewKey /\ Waits)'
    BY <1>2, FinishKept DEF Abandon, team, Present
  <2>. QED
    BY <1>1, <1>2, <2>1, Unmoved DEF Abandon, team
<1>3. ASSUME NEW f \in Files, DropFile(f) PROVE FilesKept'
  <2>1. \A g \in Present' : g \in Present /\ file'[g] = file[g]
    BY <1>3 DEF DropFile, NoFile, Present, TypeOK
  <2>2. HasNewKey' /\ Waits' /\ FilesOpen' /\ SlotsCurrent'
    BY <1>3, <2>1 DEF DropFile, HasNewKey, Waits, OneByOne, KeysRead, FilesCopied, At,
                      FilesOpen, SlotsCurrent
  <2>. QED
    BY <1>1, <2>2
<1>4. ASSUME NEW v \in Users, Deactivate(v) PROVE FilesKept'
  <2>1. HasNewKey' /\ Waits' /\ FilesOpen'
    BY <1>4 DEF Deactivate, HasNewKey, Waits, OneByOne, KeysRead, FilesCopied, At,
                FilesOpen, Present
  <2>2. SlotsCurrent'
    BY <1>4 DEF Deactivate, SlotsCurrent, NoSlot, TypeOK
  <2>. QED
    BY <1>1, <2>1, <2>2
<1>5. CASE UNCHANGED vars
  BY <1>1, <1>5 DEF vars, team, HasNewKey, Waits, OneByOne, KeysRead, FilesCopied, At,
                    FilesOpen, SlotsCurrent, Present
<1>. QED
  BY <1>2, <1>3, <1>4, <1>5, StartFilesKept, StepFilesKept DEF Next

(* When additions, invitations and removals come one at a time, every file *)
(* key opens with the team's current key, however many rotations of        *)
(* however many members overlap: the transaction of the last one rewrites  *)
(* whatever those before it wrote.                                         *)
THEOREM FilesKeptOpen ==
  ASSUME Racing \subseteq {"rotate", "confirm"}
  PROVE  Spec => []FilesOpen
<1>1. FilesKept /\ [Next]_vars => FilesKept'
  BY NextFilesKept
<1>2. FilesKept => FilesOpen
  BY DEF FilesKept
<1>. QED
  BY <1>1, <1>2, InitFilesKept, PTL DEF Spec

(* Under the same condition nobody's slot holds a key of the past.         *)
THEOREM SlotsKeptCurrent ==
  ASSUME Racing \subseteq {"rotate", "confirm"}
  PROVE  Spec => []SlotsCurrent
<1>1. FilesKept /\ [Next]_vars => FilesKept'
  BY NextFilesKept
<1>2. FilesKept => SlotsCurrent
  BY DEF FilesKept
<1>. QED
  BY <1>1, <1>2, InitFilesKept, PTL DEF Spec
=============================================================================
