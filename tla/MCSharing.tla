----------------------------- MODULE MCSharing ------------------------------
(***************************************************************************)
(* The visitors of a share (ShareAccess), folders and access to them,      *)
(* batches, direct uploads, and uploads whose PATCHes do not overlap: what *)
(* a file meets on its way into a shared folder and out of it, one         *)
(* component at a time. They touch different tables, so a behaviour in     *)
(* which several move shows nothing that the behaviours of one do not; one *)
(* run then stands for six.                                                *)
(***************************************************************************)
EXTENDS ShareAccess, TLC

CONSTANTS
  f1, f2, a1,                         \* files; one of them is shared
  v1, v2, v3,                         \* the visitors of its share
  Items,                              \* folders of the tree, uploads of batches, and requests of an upload
  Batches, Requests,                  \* batches, and the requests on them
  u1, Ciphers, Hole,                  \* an upload, and encryptions of its chunks
  RightsChanges,                      \* bound on the changes to grants (FolderAccess)
  TreeMoves                           \* bound on the changes to the tree (FolderTree)

VARIABLES
  focus,
  batchUpload, batchOf, batchBatch, batchOrder, batchTask,
  treeState, treeParent, treeRoot, treeTask, treeAdrift, treeTorn,
  treeCrossed, treeChanges,
  rightsState, rightsParent, rightsClosed, rightsGrant, rightsRole,
  rightsTeam, rightsMute, rightsKeyed, rightsChanges,
  serialFile, serialTusRow, serialOffset, serialNextChunk, serialExpired,
  serialChunks, serialLocated, serialDiskUsed, serialFinished,
  serialStaging, serialBlob, serialTask, serialSweep,
  directPost, directStored, directBlob, directUsed, directTold, directLost,
  directLeft

AccessSize == [x \in Files \cup Visitors |-> IF x = v1 THEN 2 ELSE 1]
DirectGroup == [b \in {"first", "second"} |-> IF b = "first" THEN <<f1, f2>> ELSE <<a1>>]
DirectSize == [f \in {f1, f2, a1} |-> IF f = a1 THEN 2 ELSE 1]

Batch == INSTANCE BatchUpload WITH
  Uploads <- Items, Batches <- Batches, Requests <- Requests,
  Overlap <- FALSE, None <- None, upload <- batchUpload, of <- batchOf,
  batch <- batchBatch, order <- batchOrder, task <- batchTask

Tree == INSTANCE FolderTree WITH
  Folders <- Items, Requests <- Requests, NoFolder <- None,
  MaxChanges <- TreeMoves, state <- treeState, parent <- treeParent,
  root <- treeRoot, task <- treeTask, adrift <- treeAdrift,
  torn <- treeTorn, crossed <- treeCrossed, changes <- treeChanges

Rights == INSTANCE FolderAccess WITH
  Folders <- Items, NoFolder <- None, MaxChanges <- RightsChanges, state <- rightsState,
  parent <- rightsParent, closed <- rightsClosed, grant <- rightsGrant,
  role <- rightsRole, team <- rightsTeam, mute <- rightsMute,
  keyed <- rightsKeyed, changes <- rightsChanges

Serial == INSTANCE TusUpload WITH
  Uploads <- {u1}, Requests <- Items, Ciphers <- Ciphers, Size <- 3,
  Quota <- 4, Overlap <- FALSE, None <- None, Hole <- Hole,
  file <- serialFile, tusRow <- serialTusRow, offset <- serialOffset,
  nextChunk <- serialNextChunk, expired <- serialExpired,
  chunks <- serialChunks, located <- serialLocated,
  diskUsed <- serialDiskUsed, finished <- serialFinished,
  staging <- serialStaging, blob <- serialBlob, task <- serialTask,
  sweep <- serialSweep

Direct == INSTANCE DirectUpload WITH
  Files <- {f1, f2, a1}, Batches <- {"first", "second"},
  Group <- DirectGroup, Size <- DirectSize, Quota <- 3, Meta <- "metadata",
  None <- None, Faults <- 2, post <- directPost, stored <- directStored,
  blob <- directBlob, used <- directUsed, told <- directTold,
  lost <- directLost, left <- directLeft

ASSUME AccessAssumption == ConstantsOK
ASSUME BatchAssumption == Batch!ConstantsOK
ASSUME TreeAssumption == Tree!ConstantsOK /\ Rights!ConstantsOK
ASSUME DirectAssumption == Direct!ConstantsOK

batchVars ==
  <<batchUpload, batchOf, batchBatch, batchOrder, batchTask>>
treeVars ==
  <<treeState, treeParent, treeRoot, treeTask, treeAdrift, treeTorn,
    treeCrossed, treeChanges>>
rightsVars ==
  <<rightsState, rightsParent, rightsClosed, rightsGrant, rightsRole,
    rightsTeam, rightsMute, rightsKeyed, rightsChanges>>
serialVars ==
  <<serialFile, serialTusRow, serialOffset, serialNextChunk, serialExpired,
    serialChunks, serialLocated, serialDiskUsed, serialFinished,
    serialStaging, serialBlob, serialTask, serialSweep>>
directVars ==
  <<directPost, directStored, directBlob, directUsed, directTold,
    directLost, directLeft>>

\* One component moves in a behaviour; the others stay as they start.
MCInit ==
  /\ Init
  /\ Batch!Init
  /\ Tree!Init
  /\ Rights!Init
  /\ Serial!Init
  /\ Direct!Init
  /\ focus \in {"access", "batch", "tree", "rights", "serial", "direct"}

MCNext ==
  \/ /\ focus = "access" /\ Next
     /\ UNCHANGED <<focus, batchVars, treeVars, rightsVars, serialVars, directVars>>
  \/ /\ focus = "batch" /\ Batch!Next
     /\ UNCHANGED <<focus, vars, treeVars, rightsVars, serialVars, directVars>>
  \/ /\ focus = "tree" /\ Tree!Next
     /\ UNCHANGED <<focus, vars, batchVars, rightsVars, serialVars, directVars>>
  \/ /\ focus = "rights" /\ Rights!Next
     /\ UNCHANGED <<focus, vars, batchVars, treeVars, serialVars, directVars>>
  \/ /\ focus = "serial" /\ Serial!Next
     /\ UNCHANGED <<focus, vars, batchVars, treeVars, rightsVars, directVars>>
  \/ /\ focus = "direct" /\ Direct!Next
     /\ UNCHANGED <<focus, vars, batchVars, treeVars, rightsVars, serialVars>>

mcVars == <<focus, vars, batchVars, treeVars, rightsVars, serialVars, directVars>>

MCSpec == MCInit /\ [][MCNext]_mcVars

Symmetry == Permutations(Items)

-----------------------------------------------------------------------------
\* The lock of a batch follows its progress, and of registrations that come
\* one at a time one active batch at most holds it (BatchUpload).
BatchLock == Batch!LockFollowsProgress /\ Batch!PacingLock

\* Two folder moves make a cycle only where one changes what the other has
\* checked before that one writes, and root_folder_id is the top of the tree,
\* but for the folders that a restore, a move cut short or a late write set
\* adrift (FolderTree).
TreeKept == Tree!NoCycle /\ Tree!RootsKept

\* The permission chain grants exactly what the rows that allow and deny and
\* the boundaries say; search, manifest, team walk and explicit permissions
\* lead only where it does, but under a row that denies, and but for the
\* listings of a team in which the user's role lets him read nothing
\* (FolderAccess).
AccessFollowsRules == Rights!ReadIsGranted /\ Rights!ListedMayRead

\* When PATCHes of an upload do not overlap, what the tables record is what
\* the staging and the permanent file hold, through retries with another
\* encryption and crashes (TusUpload); and small files posted together are
\* stored and charged once when the browser lists them as uploaded, and not
\* at all when it lists them as failed, unless an answer was lost
\* (DirectUpload).
UploadsReadBack ==
  /\ Serial!RecordedBytesAreHeld /\ Serial!CompletedReadsBack
  /\ Direct!AnswersAreTrue
=============================================================================
