------------------------------ MODULE MCTeams -------------------------------
(***************************************************************************)
(* TeamKeys twice, one at a time: rotations and confirmations from several *)
(* devices while everything else comes one by one, and a smaller team in   *)
(* which all five operations race.                                         *)
(***************************************************************************)
EXTENDS TeamKeys, TLC

CONSTANTS
  Devices,                            \* of a member, where rotations race
  RaceClients,                        \* the accounts' devices, where all race
  Device, OtherKeys, OtherEncryptions \* there

VARIABLES
  focus,
  racesPk, racesPending, racesMember, racesActive, racesSlot, racesFile,
  racesClient

\* The owner has one device.
Own == "own"
With(devices) == {<<Owner, Own>>} \cup ((Users \ {Owner}) \X devices)
MCClients == With(Devices)
MCRaceClients == With({Device})

Races == INSTANCE TeamKeys WITH
  Clients <- RaceClients, Keys <- {FirstKey} \cup OtherKeys,
  Encryptions <- OtherEncryptions, Racing <- Ops, pk <- racesPk,
  pending <- racesPending, member <- racesMember, active <- racesActive,
  slot <- racesSlot, file <- racesFile, client <- racesClient

ASSUME RaceClientsAssumption == \A c \in RaceClients : c[1] \in Users
ASSUME OtherKeysAssumption == None \notin OtherKeys

racesVars ==
  <<racesPk, racesPending, racesMember, racesActive, racesSlot, racesFile,
    racesClient>>

\* One component moves in a behaviour; the others stay as they start.
MCInit ==
  /\ Init
  /\ Races!Init
  /\ focus \in {"rotations", "races"}

MCNext ==
  \/ /\ focus = "rotations" /\ Next
     /\ UNCHANGED <<focus, racesVars>>
  \/ /\ focus = "races" /\ Races!Next
     /\ UNCHANGED <<focus, vars>>

mcVars == <<focus, vars, racesVars>>

MCSpec == MCInit /\ [][MCNext]_mcVars

Symmetry ==
  Permutations(Keys \ {FirstKey}) \cup Permutations(Files)
    \cup Permutations(OtherKeys) \cup Permutations(OtherEncryptions)

-----------------------------------------------------------------------------
\* When all five operations race, the owner's slot still holds the team's
\* current key: the key is never lost (TeamKeys).
OwnerKeepsKey == Races!OwnerHoldsKey
=============================================================================
