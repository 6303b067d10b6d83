-------------------------- MODULE ShareAccessProofs --------------------------
(***************************************************************************)
(* Limits hold and uploads are accounted for: proofs about ShareAccess,    *)
(* for every number of files and visitors; and the lock that paces batch   *)
(* uploads, for every number of batches and requests.  The first part says *)
(* what Total is: the model sums sizes with a fold of the community        *)
(* modules, which picks the elements in an order of its own.  The last     *)
(* parts are about the folder tree and about who reaches a folder, for     *)
(* every finite number of folders and for trees of any depth.              *)
(***************************************************************************)
EXTENDS MCSharing, FiniteSetTheorems, SequenceTheorems, TLAPS

(* The function the fold of Total(S) is made of.                           *)
Pick(s) == CHOOSE x \in s : TRUE
Sums(f, S) ==
  f = [s \in SUBSET S |-> IF s = {} THEN 0 ELSE Size[Pick(s)] + f[s \ {Pick(s)}]]

LEMMA TotalDef == ASSUME NEW S PROVE Total(S) = (CHOOSE f : Sums(f, S))[S]
BY Zenon DEF Total, MapThenSumSet, MapThenFoldSet, Sums, Pick

LEMMA Picked == ASSUME NEW s, s # {} PROVE Pick(s) \in s
BY DEF Pick

(* A set of finite sets has a smallest one.                                *)
LEMMA Smallest ==
  ASSUME NEW U, IsFiniteSet(U), NEW B \in SUBSET SUBSET U, B # {}
  PROVE  \E S \in B : \A T \in B : T \subseteq S => T = S
<1>. DEFINE R == StrictSubsetOrdering(U)
<1>1. IsWellFoundedOn(R, SUBSET U)
  BY FS_StrictSubsetOrderingWellFounded, FS_FiniteSubsetsOfFinite, Zenon
<1>. HIDE DEF R
<1>2. PICK S \in B : \A T \in B : <<T, S>> \notin R
  BY <1>1, WFMin, Zenon
<1>3. \A T \in B : T \subseteq S /\ T # S => <<T, S>> \in R
  BY DEF R, StrictSubsetOrdering
<1>4. \A T \in B : T \subseteq S => T = S
  BY <1>2, <1>3
<1>. QED
  BY <1>4, Zenon

(* Two such functions agree where both are defined.                        *)
LEMMA SumsAgree ==
  ASSUME NEW U, IsFiniteSet(U), NEW S \in SUBSET U, NEW T \in SUBSET S,
         NEW f, NEW g, Sums(f, S), Sums(g, T)
  PROVE  \A s \in SUBSET T : f[s] = g[s]
<1>. DEFINE B == {s \in SUBSET T : f[s] # g[s]}
<1>. SUFFICES ASSUME B # {} PROVE FALSE
  OBVIOUS
<1>1. PICK s \in B : \A t \in B : t \subseteq s => t = s
  <2>1. B \in SUBSET SUBSET U
    OBVIOUS
  <2>. HIDE DEF B
  <2>. QED
    BY <2>1, Smallest
<1>2. /\ f[s] = IF s = {} THEN 0 ELSE Size[Pick(s)] + f[s \ {Pick(s)}]
      /\ g[s] = IF s = {} THEN 0 ELSE Size[Pick(s)] + g[s \ {Pick(s)}]
  BY DEF Sums
<1>3. s # {}
  BY <1>2
<1>4. s \ {Pick(s)} \notin B /\ s \ {Pick(s)} \in SUBSET T
  BY <1>1, <1>3, Picked
<1>. QED
  BY <1>2, <1>4

LEMMA SumsExist ==
  ASSUME NEW U, IsFiniteSet(U)
  PROVE  \A S \in SUBSET U : Sums(CHOOSE f : Sums(f, S), S)
<1>. DEFINE F(S) == CHOOSE f : Sums(f, S)
            B == {S \in SUBSET U : ~Sums(F(S), S)}
<1>. SUFFICES ASSUME B # {} PROVE FALSE
  OBVIOUS
<1>1. PICK S \in B : \A T \in B : T \subseteq S => T = S
  <2>1. B \in SUBSET SUBSET U
    OBVIOUS
  <2>. HIDE DEF B
  <2>. QED
    BY <2>1, Smallest
<1>. DEFINE g == [s \in SUBSET S |-> IF s = {} THEN 0
                                     ELSE Size[Pick(s)] + F(s \ {Pick(s)})[s \ {Pick(s)}]]
<1>2. ASSUME NEW s \in SUBSET S, s # {} PROVE g[s \ {Pick(s)}] = F(s \ {Pick(s)})[s \ {Pick(s)}]
  <2>. DEFINE t == s \ {Pick(s)}
              r == t \ {Pick(t)}
  <2>1. t \in SUBSET S /\ t \in SUBSET U /\ t # S
    BY <1>2, Picked
  <2>2. Sums(F(t), t)
    BY <1>1, <2>1
  <2>3. t \in SUBSET t /\ r \in SUBSET t /\ r \in SUBSET U /\ r \in SUBSET S
    BY <2>1
  <2>. HIDE DEF F, r
  <2>4. F(t)[t] = IF t = {} THEN 0 ELSE Size[Pick(t)] + F(t)[r]
    BY <2>2, <2>3 DEF Sums, r
  <2>5. g[t] = IF t = {} THEN 0 ELSE Size[Pick(t)] + F(r)[r]
    BY <2>1 DEF r
  <2>6. r # S
    BY <2>1, <2>3
  <2>7. Sums(F(r), r)
    BY <1>1, <2>3, <2>6 DEF F
  <2>8. F(t)[r] = F(r)[r]
    BY <2>1, <2>2, <2>3, <2>7, SumsAgree
  <2>. QED
    BY <2>4, <2>5, <2>8
<1>. HIDE DEF F
<1>3. \A s \in SUBSET S : g[s] = IF s = {} THEN 0 ELSE Size[Pick(s)] + g[s \ {Pick(s)}]
  BY <1>2
<1>4. g = [s \in SUBSET S |-> g[s]]
  OBVIOUS
<1>. HIDE DEF g
<1>5. Sums(g, S)
  BY <1>3, <1>4 DEF Sums
<1>. QED
  BY <1>5 DEF F

LEMMA TotalPick ==
  ASSUME NEW U, IsFiniteSet(U), NEW S \in SUBSET U
  PROVE  Total(S) = IF S = {} THEN 0 ELSE Size[Pick(S)] + Total(S \ {Pick(S)})
<1>. DEFINE F(T) == CHOOSE f : Sums(f, T)
            T == S \ {Pick(S)}
<1>1. Sums(F(S), S) /\ Sums(F(T), T)
  BY SumsExist
<1>2. Total(S) = F(S)[S] /\ Total(T) = F(T)[T]
  BY TotalDef
<1>. HIDE DEF F
<1>3. F(S)[S] = IF S = {} THEN 0 ELSE Size[Pick(S)] + F(S)[T]
  BY <1>1 DEF Sums
<1>4. F(S)[T] = F(T)[T]
  <2>1. T \in SUBSET S /\ T \in SUBSET T
    OBVIOUS
  <2>2. \A s \in SUBSET T : F(S)[s] = F(T)[s]
    <3>. HIDE DEF T
    <3>. QED
      BY <1>1, <2>1, SumsAgree
  <2>. QED
    BY <2>1, <2>2
<1>. QED
  BY <1>2, <1>3, <1>4

LEMMA TotalNat ==
  ASSUME NEW U, IsFiniteSet(U), Size \in [U -> Nat]
  PROVE  \A S \in SUBSET U : Total(S) \in Nat
<1>. DEFINE B == {S \in SUBSET U : Total(S) \notin Nat}
<1>. SUFFICES ASSUME B # {} PROVE FALSE
  OBVIOUS
<1>1. PICK S \in B : \A T \in B : T \subseteq S => T = S
  <2>1. B \in SUBSET SUBSET U
    OBVIOUS
  <2>. HIDE DEF B
  <2>. QED
    BY <2>1, Smallest
<1>2. Total(S) = IF S = {} THEN 0 ELSE Size[Pick(S)] + Total(S \ {Pick(S)})
  BY TotalPick
<1>3. S # {}
  BY <1>2
<1>4. Pick(S) \in U /\ S \ {Pick(S)} \in SUBSET U /\ S \ {Pick(S)} \notin B
  BY <1>1, <1>3, Picked
<1>. QED
  BY <1>2, <1>3, <1>4

LEMMA TotalEmpty == Total({}) = 0
BY TotalPick, FS_EmptySet

LEMMA TotalRemove ==
  ASSUME NEW U, IsFiniteSet(U), Size \in [U -> Nat]
  PROVE  \A S \in SUBSET U : \A x \in S : Total(S) = Size[x] + Total(S \ {x})
<1>. DEFINE B == {S \in SUBSET U : \E x \in S : Total(S) # Size[x] + Total(S \ {x})}
<1>. SUFFICES ASSUME B # {} PROVE FALSE
  OBVIOUS
<1>1. PICK S \in B : \A T \in B : T \subseteq S => T = S
  <2>1. B \in SUBSET SUBSET U
    OBVIOUS
  <2>. HIDE DEF B
  <2>. QED
    BY <2>1, Smallest
<1>2. PICK x \in S : Total(S) # Size[x] + Total(S \ {x})
  OBVIOUS
<1>. DEFINE p == Pick(S)
<1>3. p \in S
  BY <1>2, Picked
<1>. HIDE DEF p
<1>4. Total(S) = Size[p] + Total(S \ {p})
  BY <1>2, TotalPick DEF p
<1>5. p # x
  BY <1>2, <1>4
<1>6. S \ {p} \notin B /\ S \ {x} \notin B
  BY <1>1, <1>2, <1>3
<1>7. S \ {p} \in SUBSET U /\ S \ {x} \in SUBSET U /\ x \in S \ {p} /\ p \in S \ {x}
  BY <1>2, <1>3, <1>5
<1>8. /\ Total(S \ {p}) = Size[x] + Total((S \ {p}) \ {x})
      /\ Total(S \ {x}) = Size[p] + Total((S \ {x}) \ {p})
  BY <1>6, <1>7
<1>9. (S \ {p}) \ {x} = (S \ {x}) \ {p} /\ (S \ {p}) \ {x} \in SUBSET U
  OBVIOUS
<1>10. Size[x] \in Nat /\ Size[p] \in Nat /\ Total((S \ {p}) \ {x}) \in Nat
  BY <1>2, <1>3, <1>9, TotalNat
<1>. HIDE DEF B
<1>11. Total(S \ {p}) = Size[x] + Total((S \ {p}) \ {x})
  BY <1>8
<1>12. Total(S \ {x}) = Size[p] + Total((S \ {p}) \ {x})
  BY <1>8, <1>9
<1>. QED
  BY <1>2, <1>4, <1>10, <1>11, <1>12

-----------------------------------------------------------------------------
(***************************************************************************)
(* The inductive invariant.                                                *)
(***************************************************************************)
Served  == {v \in Visitors : visit[v].pc = "served"}
Given   == {v \in Visitors : visit[v].pc = "stored"}

Typed ==
  /\ share \in Shares \cup {None}
  /\ made \in BOOLEAN /\ top \in {0} \cup Limits
  /\ items \subseteq Files \cup Visitors
  /\ file \in [Files \cup Visitors -> {"none", "live", "trashed", "gone"}]
  /\ access \subseteq Foreign
  /\ used \in Nat
  /\ blob \subseteq Visitors
  /\ slug \in {"none", "live", "expired"}
  /\ session \subseteq Visitors
  /\ visit \in [Visitors -> [pc : Pcs, file : Files \cup Visitors \cup {None},
                             whole : BOOLEAN, limit : Limits \cup {None}]]
  /\ purge \in [Purges -> [pc : {"new", "found", "over"}, file : Files \cup Visitors \cup {None}]]
  /\ again \subseteq Files \cup Visitors
  /\ left \in 0..Changes

(* Nobody has come before there is a share.                                *)
NobodyBefore == ~made => share = None /\ \A v \in Visitors : visit[v].pc = "new"

(* The limit and the budget of the row are at most what they may be.       *)
Bounds ==
  share # None => /\ share.limit # None => share.limit <= top
                  /\ share.budget <= Default

(* The row that an upload's transaction has locked is not deleted.         *)
LockedRow == \A v \in Visitors : visit[v].pc = "claim" => share # None

(* A visitor's file is there from the claim on.                            *)
FilesGiven == \A v \in Visitors : file[v] # "none" => visit[v].pc = "stored"

(* What a purge has found has been there.                                  *)
Found ==
  \A p \in Purges : purge[p].pc = "found" =>
    purge[p].file \in Files \cup Visitors /\ file[purge[p].file] # "none"

IInv ==
  /\ Typed /\ NobodyBefore /\ Bounds /\ LockedRow /\ FilesGiven /\ Found
  /\ LimitHolds /\ UploadsAccounted

LEMMA FiniteSets ==
  ASSUME ConstantsOK
  PROVE  /\ IsFiniteSet(Files \cup Visitors)
         /\ Size \in [Files \cup Visitors -> Nat]
         /\ \A S \in SUBSET (Files \cup Visitors) : IsFiniteSet(S)
<1>1. IsFiniteSet(Files \cup Visitors)
  BY FS_Union DEF ConstantsOK
<1>2. \A S \in SUBSET (Files \cup Visitors) : IsFiniteSet(S)
  BY <1>1, FS_Subset
<1>. QED
  BY <1>1, <1>2 DEF ConstantsOK

LEMMA InitIInv == ASSUME ConstantsOK, Init PROVE IInv
<1>1. Typed
  <2>1. Total(Files \ Foreign) \in Nat
    BY FiniteSets, TotalNat
  <2>2. Arrived \in [pc : Pcs, file : Files \cup Visitors \cup {None},
                     whole : BOOLEAN, limit : Limits \cup {None}]
    BY DEF Arrived, Pcs
  <2>3. left \in 0..Changes
    BY DEF Init, ConstantsOK
  <2>. QED
    BY <2>1, <2>2, <2>3 DEF Typed, Init
<1>2. NobodyBefore /\ Bounds /\ LockedRow /\ FilesGiven /\ Found /\ LimitHolds
  BY DEF Init, NobodyBefore, Bounds, LockedRow, FilesGiven, Found, LimitHolds, Arrived, ConstantsOK
<1>3. UploadsAccounted
  <2>1. Existing = Files \ Foreign
    BY DEF Init, ConstantsOK, Existing
  <2>2. used \in Nat /\ used = Total(Existing)
    BY <1>1, <2>1 DEF Init, Typed
  <2>. QED
    BY <2>2 DEF Init, UploadsAccounted
<1>. QED
  BY <1>1, <1>2, <1>3 DEF IInv

(* The properties in terms of the three sets.                              *)
LEMMA Counted ==
  /\ LimitHolds <=> (share # None => Cardinality(Served) = share.count /\ share.count <= top)
  /\ UploadsAccounted <=>
       /\ share # None => share.uploaded = Total(Given) /\ share.uploaded <= share.budget
       /\ used <= Total(Existing) /\ (again \subseteq Foreign => used = Total(Existing))
       /\ \A v \in blob : \/ file[v] \in {"live", "trashed"}
                         \/ visit[v].pc \in {"claim", "cleanup", "unclean", "lost"}
BY DEF LimitHolds, UploadsAccounted, Served, Given

(***************************************************************************)
(* Steps that leave the visits, the files and what is charged alone.       *)
(***************************************************************************)
(* The row stays, or its limit, its openness or its being there change.    *)
LEMMA ShareSteps ==
  ASSUME ConstantsOK, IInv, Typed', UNCHANGED <<file, used, blob, visit, purge, again>>,
         made' = made \/ (~made /\ made'),
         share' # None =>
           \/ /\ ~made /\ share'.count = 0 /\ share'.uploaded = 0
              /\ share'.budget <= Default
           \/ /\ share # None /\ share'.count = share.count
              /\ share'.uploaded = share.uploaded /\ share'.budget = share.budget,
         share' # None /\ share'.limit # None => share'.limit <= top',
         made' \/ share' = None,
         top' >= top,
         (\E v \in Visitors : visit[v].pc = "claim") /\ share # None => share' # None
  PROVE  IInv'
<1>1. /\ Typed /\ NobodyBefore /\ Bounds /\ LockedRow /\ FilesGiven /\ Found
      /\ LimitHolds /\ UploadsAccounted
  BY DEF IInv
<1>2. Served' = Served /\ Given' = Given /\ Existing' = Existing
  BY DEF Served, Given, Existing
<1>3. ~made => Served = {} /\ Given = {}
  BY <1>1 DEF NobodyBefore, Served, Given
<1>4. NobodyBefore' /\ LockedRow' /\ FilesGiven' /\ Found'
  BY <1>1 DEF NobodyBefore, LockedRow, FilesGiven, Found, Typed
<1>5. Bounds'
  BY <1>1 DEF Bounds
<1>6. LimitHolds'
  <2>. SUFFICES ASSUME share' # None
                PROVE  Cardinality(Served) = share'.count /\ share'.count <= top'
    BY <1>2 DEF LimitHolds, Served
  <2>1. top \in Nat /\ top' \in Nat
    BY <1>1 DEF Typed, ConstantsOK
  <2>2. CASE ~made /\ share'.count = 0
    BY <1>3, <2>1, <2>2, FS_EmptySet
  <2>3. CASE share # None /\ share'.count = share.count
    <3>1. share.count \in Nat
      BY <1>1, <2>3 DEF Typed, Shares
    <3>. QED
      BY <1>1, <2>1, <2>3, <3>1, Counted
  <2>. QED
    BY <2>2, <2>3
<1>7. UploadsAccounted'
  <2>1. ASSUME share' # None
        PROVE  share'.uploaded = Total(Given) /\ share'.uploaded <= share'.budget
    <3>1. share' \in Shares
      BY <2>1 DEF Typed
    <3>2. CASE ~made /\ share'.uploaded = 0
      BY <1>3, <3>1, <3>2, TotalEmpty DEF Shares
    <3>3. CASE share # None /\ share'.uploaded = share.uploaded /\ share'.budget = share.budget
      BY <1>1, <3>3, Counted
    <3>. QED
      BY <2>1, <3>2, <3>3
  <2>2. used' <= Total(Existing) /\ (again' \subseteq Foreign => used' = Total(Existing)) /\ \A v \in blob' : file'[v] \in {"live", "trashed"}
                                    \/ visit'[v].pc \in {"claim", "cleanup", "unclean", "lost"}
    BY <1>1, Counted
  <2>3. (share' # None => share'.uploaded = Total(Given') /\ share'.uploaded <= share'.budget)
        /\ used' <= Total(Existing') /\ (again' \subseteq Foreign => used' = Total(Existing'))
    BY <1>2, <2>1, <2>2
  <2>. QED
    BY <2>2, <2>3 DEF UploadsAccounted, Given
<1>. QED
  BY <1>4, <1>5, <1>6, <1>7 DEF IInv

(* A row that is changed in one field is a row.                            *)
LEMMA RowFields ==
  ASSUME NEW t \in Shares
  PROVE  /\ [t EXCEPT !.open = ~@] \in Shares
         /\ \A lim \in Limits : [t EXCEPT !.limit = lim] \in Shares
         /\ [t EXCEPT !.count = @ + 1] \in Shares
         /\ \A n \in Nat : [t EXCEPT !.uploaded = @ + n] \in Shares
<1>1. [t EXCEPT !.open = ~@] \in Shares
  <2>1. t.open \in BOOLEAN /\ (~t.open) \in BOOLEAN
    BY DEF Shares
  <2>. QED
    BY <2>1 DEF Shares
<1>2. \A lim \in Limits : [t EXCEPT !.limit = lim] \in Shares
  BY DEF Shares
<1>3. [t EXCEPT !.count = @ + 1] \in Shares
  BY DEF Shares
<1>4. \A n \in Nat : [t EXCEPT !.uploaded = @ + n] \in Shares
  BY DEF Shares
<1>. QED
  BY <1>1, <1>2, <1>3, <1>4

LEMMA RowFieldsKept ==
  ASSUME NEW t \in Shares, NEW n
  PROVE  /\ LET o == [t EXCEPT !.open = ~@] IN
              /\ o.count = t.count /\ o.uploaded = t.uploaded
              /\ o.budget = t.budget /\ o.limit = t.limit
         /\ LET o == [t EXCEPT !.limit = n] IN
              /\ o.count = t.count /\ o.uploaded = t.uploaded
              /\ o.budget = t.budget /\ o.limit = n
         /\ LET o == [t EXCEPT !.count = @ + 1] IN
              /\ o.count = t.count + 1 /\ o.uploaded = t.uploaded
              /\ o.budget = t.budget /\ o.limit = t.limit
         /\ LET o == [t EXCEPT !.uploaded = @ + n] IN
              /\ o.count = t.count /\ o.uploaded = t.uploaded + n
              /\ o.budget = t.budget /\ o.limit = t.limit
BY DEF Shares

LEMMA FreshRow ==
  ASSUME ConstantsOK, Typed, NEW kind \in {"user", "upload"}, NEW lim \in Limits \cup {None},
         NEW n \in Asked
  PROVE  LET b == IF kind = "upload" THEN Budget(n) ELSE 0
             o == Fresh(kind, lim, b) IN
         /\ o \in Shares /\ o.count = 0 /\ o.uploaded = 0 /\ o.limit = lim
         /\ o.budget <= Default
<1>1. used \in Nat /\ Quota \in Nat /\ Default \in Nat /\ n \in Nat
  BY DEF ConstantsOK, Typed
<1>. DEFINE b == IF kind = "upload" THEN Budget(n) ELSE 0
<1>2. b \in Nat /\ b <= Default
  BY <1>1 DEF Budget, Least
<1>. HIDE DEF b
<1>3. LET o == Fresh(kind, lim, b) IN
      /\ o \in Shares /\ o.count = 0 /\ o.uploaded = 0 /\ o.limit = lim /\ o.budget = b
  BY <1>2 DEF Fresh, Shares
<1>. QED
  BY <1>2, <1>3 DEF b

LEMMA RaisedTop ==
  ASSUME ConstantsOK, Typed, NEW lim \in Limits \cup {None}, Raise(lim)
  PROVE  /\ top \in Nat /\ top' \in {0} \cup Limits /\ top' >= top
         /\ lim # None => lim <= top'
BY DEF ConstantsOK, Typed, Raise

(* What the creator does to the row.                                       *)
LEMMA CreatorKeeps ==
  ASSUME ConstantsOK, IInv,
         \/ \E kind \in {"user", "upload"}, lim \in Limits \cup {None}, n \in Asked :
              CreateShare(kind, lim, n)
         \/ OpenOrClose \/ DeleteShare
         \/ \E lim \in Limits : ChangeLimit(lim)
  PROVE  IInv'
<1>1. /\ Typed /\ NobodyBefore /\ Bounds /\ LockedRow
      /\ share # None => share \in Shares
      /\ top \in Nat /\ top >= top
      /\ left > 0 /\ left' = left - 1 => left' \in 0..Changes
  BY DEF IInv, Typed, ConstantsOK
<1>2. ASSUME NEW kind \in {"user", "upload"}, NEW lim \in Limits \cup {None}, NEW n \in Asked,
             CreateShare(kind, lim, n)
      PROVE  IInv'
  <2>1. /\ share' \in Shares /\ share'.count = 0 /\ share'.uploaded = 0 /\ share'.limit = lim
        /\ share'.budget <= Default
    BY <1>1, <1>2, FreshRow DEF CreateShare
  <2>2. /\ top' \in {0} \cup Limits /\ top' >= top /\ (lim # None => lim <= top')
    BY <1>1, <1>2, RaisedTop DEF CreateShare
  <2>3. /\ ~made /\ made' = TRUE /\ items' \subseteq Files \cup Visitors
        /\ UNCHANGED <<file, access, used, blob, slug, session, visit, purge, again, left>>
    BY <1>2 DEF CreateShare, purged
  <2>4. Typed'
    BY <1>1, <2>1, <2>2, <2>3 DEF Typed
  <2>5. share' # None
    BY <2>1 DEF ConstantsOK
  <2>. QED
    BY <2>1, <2>2, <2>3, <2>4, <2>5, ShareSteps
<1>3. CASE OpenOrClose
  <2>1. /\ share # None /\ share' = [share EXCEPT !.open = ~@] /\ left > 0 /\ left' = left - 1
        /\ UNCHANGED <<made, top, slug, items, file, access, used, blob, session, visit,
                       purge, again>>
    BY <1>3 DEF OpenOrClose, Disturb, store, purged
  <2>2. /\ share' \in Shares /\ share'.count = share.count /\ share'.uploaded = share.uploaded
        /\ share'.budget = share.budget /\ share'.limit = share.limit
    BY <1>1, <2>1, RowFields, RowFieldsKept
  <2>3. Typed' /\ share' # None /\ made
    BY <1>1, <2>1, <2>2 DEF Typed, ConstantsOK, NobodyBefore
  <2>4. share'.limit # None => share'.limit <= top'
    BY <1>1, <2>1, <2>2 DEF Bounds
  <2>. QED
    BY <1>1, <2>1, <2>2, <2>3, <2>4, ShareSteps
<1>4. CASE DeleteShare
  <2>1. /\ share # None /\ share' = None /\ left > 0 /\ left' = left - 1
        /\ \A v \in Visitors : visit[v].pc # "claim"
        /\ slug' = "none" /\ items' = {}
        /\ UNCHANGED <<made, top, file, access, used, blob, session, visit, purge, again>>
    BY <1>4 DEF DeleteShare, Disturb, Drop, Unlocked, purged
  <2>2. Typed' /\ made
    BY <1>1, <2>1 DEF Typed, NobodyBefore
  <2>. QED
    BY <1>1, <2>1, <2>2, ShareSteps
<1>5. ASSUME NEW lim \in Limits, ChangeLimit(lim) PROVE IInv'
  <2>1. /\ share # None /\ share' = [share EXCEPT !.limit = lim] /\ left > 0 /\ left' = left - 1
        /\ UNCHANGED <<made, slug, items, file, access, used, blob, session, visit, purge, again>>
    BY <1>5 DEF ChangeLimit, Disturb, store, purged
  <2>2. /\ share' \in Shares /\ share'.count = share.count /\ share'.uploaded = share.uploaded
        /\ share'.budget = share.budget /\ share'.limit = lim
    BY <1>1, <2>1, RowFields, RowFieldsKept
  <2>3. top' \in {0} \cup Limits /\ top' >= top /\ (lim # None => lim <= top')
    BY <1>1, <1>5, RaisedTop DEF ChangeLimit
  <2>4. Typed' /\ share' # None /\ made
    BY <1>1, <2>1, <2>2, <2>3 DEF Typed, ConstantsOK, NobodyBefore
  <2>. QED
    BY <1>1, <2>1, <2>2, <2>3, <2>4, ShareSteps
<1>. QED
  BY <1>2, <1>3, <1>4, <1>5

(* What changes neither the row nor a counter.                             *)
LEMMA LinkSteps ==
  ASSUME ConstantsOK, IInv,
         \/ CreateShortLink \/ ExpireShortLink
         \/ \E f \in Foreign : MoveFile(f)
         \/ \E v \in Visitors : Resolve(v) \/ ResolveShortLink(v)
  PROVE  IInv'
<1>1. /\ Typed /\ NobodyBefore /\ Bounds /\ top \in Nat
      /\ left > 0 /\ left' = left - 1 => left' \in 0..Changes
  BY DEF IInv, Typed, ConstantsOK
<1>2. UNCHANGED <<share, made, top, items, file, used, blob, visit, purge, again>>
  BY DEF CreateShortLink, ExpireShortLink, MoveFile, Resolve, ResolveShortLink, row, store, purged
<1>3. /\ slug' \in {"none", "live", "expired"} /\ access' \subseteq Foreign
      /\ session' \subseteq Visitors /\ left' \in 0..Changes
  BY <1>1 DEF CreateShortLink, ExpireShortLink, MoveFile, Resolve, ResolveShortLink, row, store,
     Disturb, Typed
<1>4. Typed'
  BY <1>1, <1>2, <1>3 DEF Typed
<1>5. share # None => /\ made /\ share.budget <= Default
                      /\ share.limit # None => share.limit <= top
  BY <1>1 DEF NobodyBefore, Bounds
<1>. QED
  BY <1>1, <1>2, <1>4, <1>5, ShareSteps DEF NobodyBefore

(***************************************************************************)
(* A file goes to the trash or is purged.                                  *)
(***************************************************************************)
LEMMA TrashKeeps ==
  ASSUME ConstantsOK, IInv, NEW x \in Files \cup Visitors, TrashFile(x)
  PROVE  IInv'
<1>1. /\ Typed /\ NobodyBefore /\ Bounds /\ LockedRow /\ FilesGiven /\ Found
      /\ LimitHolds /\ UploadsAccounted
      /\ left > 0 /\ left' = left - 1 => left' \in 0..Changes
  BY DEF IInv, Typed, ConstantsOK
<1>2. /\ UNCHANGED <<share, made, top, slug, items, access, used, blob, session, visit, purge, again>>
      /\ left > 0 /\ left' = left - 1 /\ file[x] = "live"
  BY DEF TrashFile, Disturb, row, purged
<1>3. /\ file' \in [Files \cup Visitors -> {"none", "live", "trashed", "gone"}]
      /\ \A y \in Files \cup Visitors : file'[y] = IF y = x THEN "trashed" ELSE file[y]
  BY <1>1 DEF TrashFile, Typed
<1>4. Typed'
  BY <1>1, <1>2, <1>3 DEF Typed
<1>5. Existing' = Existing
  BY <1>2, <1>3 DEF Existing
<1>6. NobodyBefore' /\ Bounds' /\ LockedRow' /\ FilesGiven' /\ Found'
  BY <1>1, <1>2, <1>3 DEF NobodyBefore, Bounds, LockedRow, FilesGiven, Found
<1>7. LimitHolds'
  BY <1>1, <1>2 DEF LimitHolds
<1>8. UploadsAccounted'
  BY <1>1, <1>2, <1>3, <1>5 DEF UploadsAccounted, Typed
<1>. QED
  BY <1>4, <1>6, <1>7, <1>8 DEF IInv

LEMMA PurgeReadKeeps ==
  ASSUME ConstantsOK, IInv, NEW p \in Purges, NEW x \in Files \cup Visitors, PurgeRead(p, x)
  PROVE  IInv'
<1>1. /\ Typed /\ NobodyBefore /\ Bounds /\ LockedRow /\ FilesGiven /\ Found
      /\ LimitHolds /\ UploadsAccounted
  BY DEF IInv
<1>2. /\ UNCHANGED <<share, made, top, slug, items, file, access, used, blob, session, visit, again>>
      /\ file[x] \in {"live", "trashed"} /\ left' \in 0..Changes
  BY <1>1 DEF PurgeRead, Disturb, row, store, Typed, ConstantsOK
<1>3. /\ purge' \in [Purges -> [pc : {"new", "found", "over"}, file : Files \cup Visitors \cup {None}]]
      /\ \A q \in Purges : purge'[q] = IF q = p THEN [pc |-> "found", file |-> x] ELSE purge[q]
  BY <1>1 DEF PurgeRead, Typed
<1>4. Typed'
  BY <1>1, <1>2, <1>3 DEF Typed
<1>5. NobodyBefore' /\ Bounds' /\ LockedRow' /\ FilesGiven' /\ LimitHolds'
  BY <1>1, <1>2 DEF NobodyBefore, Bounds, LockedRow, FilesGiven, LimitHolds
<1>6. UploadsAccounted'
  BY <1>1, <1>2 DEF UploadsAccounted, Existing
<1>7. Found'
  BY <1>1, <1>2, <1>3 DEF Found
<1>. QED
  BY <1>4, <1>5, <1>6, <1>7 DEF IInv

(* The first purge of a file gives back what it was charged for; another   *)
(* one is recorded in again, and takes disk_used no higher.                *)
LEMMA PurgeKeeps ==
  ASSUME ConstantsOK, IInv, NEW p \in Purges, PurgeFile(p)
  PROVE  IInv'
<1>. DEFINE x == purge[p].file
<1>1. /\ Typed /\ NobodyBefore /\ Bounds /\ LockedRow /\ FilesGiven /\ Found
      /\ LimitHolds /\ UploadsAccounted
      /\ IsFiniteSet(Files \cup Visitors) /\ Size \in [Files \cup Visitors -> Nat]
      /\ Files \cap Visitors = {} /\ Foreign \subseteq Files
  BY FiniteSets DEF IInv, ConstantsOK
<1>2. /\ UNCHANGED <<made, top, access, session, visit, left>>
      /\ x \in Files \cup Visitors /\ file[x] \in {"live", "trashed", "gone"}
  BY <1>1 DEF PurgeFile, Found, Typed
<1>3. /\ \/ share' = share /\ slug' = slug
         \/ share' = None /\ slug' = "none" /\ \A v \in Visitors : visit[v].pc # "claim"
      /\ items' \subseteq items /\ blob' = blob \ {x}
  BY DEF PurgeFile, Drop, Unlocked
<1>4. /\ file' \in [Files \cup Visitors -> {"none", "live", "trashed", "gone"}]
      /\ \A y \in Files \cup Visitors : file'[y] = IF y = x THEN "gone" ELSE file[y]
  BY <1>1 DEF PurgeFile, Typed
<1>5. /\ purge' \in [Purges -> [pc : {"new", "found", "over"}, file : Files \cup Visitors \cup {None}]]
      /\ \A q \in Purges : purge'[q] = IF q = p THEN [pc |-> "over", file |-> None] ELSE purge[q]
  BY <1>1 DEF PurgeFile, Typed
<1>6. /\ used' = IF Refund(x) > used THEN 0 ELSE used - Refund(x)
      /\ again' = IF file[x] = "gone" THEN again \cup {x} ELSE again
      /\ used \in Nat /\ Refund(x) \in Nat
      /\ Refund(x) = IF x \in Foreign THEN 0 ELSE Size[x]
  BY <1>1, <1>2 DEF PurgeFile, Refund, Typed
<1>. HIDE DEF x
<1>7. used' \in Nat /\ again' \subseteq Files \cup Visitors
  BY <1>1, <1>2, <1>6 DEF Typed
<1>8. used' <= Total(Existing') /\ (again' \subseteq Foreign => used' = Total(Existing'))
  <2>1. /\ used <= Total(Existing) /\ (again \subseteq Foreign => used = Total(Existing))
        /\ Existing \in SUBSET (Files \cup Visitors) /\ Total(Existing) \in Nat
    BY <1>1, FiniteSets, TotalNat DEF UploadsAccounted, Existing
  <2>2. CASE file[x] = "gone"
    <3>1. Existing' = Existing
      BY <1>2, <1>4, <2>2 DEF Existing
    <3>2. again' = again \cup {x}
      BY <1>6, <2>2
    <3>3. again' \subseteq Foreign => used' = used /\ again \subseteq Foreign
      BY <1>6, <3>2
    <3>. QED
      BY <1>6, <2>1, <3>1, <3>3
  <2>3. CASE file[x] \in {"live", "trashed"} /\ x \in Foreign
    <3>1. Existing' = Existing /\ used' = used /\ again' = again
      BY <1>1, <1>4, <1>6, <2>3 DEF Existing
    <3>. QED
      BY <2>1, <3>1
  <2>4. CASE file[x] \in {"live", "trashed"} /\ x \notin Foreign
    <3>1. x \in Existing /\ Existing' = Existing \ {x} /\ again' = again /\ Refund(x) = Size[x]
      BY <1>1, <1>2, <1>4, <1>6, <2>4 DEF Existing
    <3>2. /\ Total(Existing) = Size[x] + Total(Existing \ {x})
          /\ Total(Existing \ {x}) \in Nat /\ Size[x] \in Nat
      BY <1>1, <2>1, <3>1, FiniteSets, TotalRemove, TotalNat
    <3>3. Total(Existing') = Total(Existing \ {x})
      BY <3>1
    <3>. QED
      BY <1>6, <2>1, <3>1, <3>2, <3>3
  <2>. QED
    BY <1>2, <2>2, <2>3, <2>4
<1>9. Typed'
  BY <1>1, <1>2, <1>3, <1>4, <1>5, <1>7 DEF Typed
<1>10. NobodyBefore' /\ Bounds' /\ LockedRow' /\ FilesGiven' /\ Found'
  BY <1>1, <1>2, <1>3, <1>4, <1>5 DEF NobodyBefore, Bounds, LockedRow, FilesGiven, Found
<1>11. LimitHolds'
  BY <1>1, <1>2, <1>3 DEF LimitHolds
<1>12. UploadsAccounted'
  <2>1. share' # None => /\ share'.uploaded = Total({v \in Visitors : visit'[v].pc = "stored"})
                         /\ share'.uploaded <= share'.budget
    BY <1>1, <1>2, <1>3 DEF UploadsAccounted
  <2>2. ASSUME NEW v \in blob'
        PROVE  \/ file'[v] \in {"live", "trashed"}
               \/ visit'[v].pc \in {"claim", "cleanup", "unclean", "lost"}
    BY <1>1, <1>2, <1>3, <1>4 DEF UploadsAccounted, Typed
  <2>. QED
    BY <1>8, <2>1, <2>2 DEF UploadsAccounted
<1>. QED
  BY <1>9, <1>10, <1>11, <1>12 DEF IInv

(***************************************************************************)
(* A visit goes on.                                                        *)
(***************************************************************************)
(* To a place that is neither "served" nor "stored", and from one.         *)
LEMMA VisitSteps ==
  ASSUME ConstantsOK, IInv, NEW v \in Visitors,
         visit' \in [Visitors -> [pc : Pcs, file : Files \cup Visitors \cup {None},
                                  whole : BOOLEAN, limit : Limits \cup {None}]],
         \A w \in Visitors : w # v => visit'[w] = visit[w],
         visit[v].pc \notin {"served", "stored"}, visit'[v].pc \notin {"served", "stored"},
         share # None \/ (visit[v].pc # "new" /\ visit'[v].pc # "claim"),
         UNCHANGED <<row, items, file, access, used, session, purge, again, left>>,
         blob' \subseteq blob \cup {v},
         v \in blob' => visit'[v].pc \in {"claim", "cleanup", "unclean", "lost"}
  PROVE  IInv'
<1>1. /\ Typed /\ NobodyBefore /\ Bounds /\ LockedRow /\ FilesGiven /\ Found
      /\ LimitHolds /\ UploadsAccounted
  BY DEF IInv
<1>. USE DEF row
<1>2. Typed'
  BY <1>1 DEF Typed
<1>3. NobodyBefore' /\ Bounds' /\ LockedRow' /\ FilesGiven' /\ Found'
  BY <1>1 DEF NobodyBefore, Bounds, LockedRow, FilesGiven, Found
<1>4. Served' = Served /\ Given' = Given
  BY DEF Served, Given
<1>5. LimitHolds'
  BY <1>1, <1>4 DEF LimitHolds, Served
<1>6. \A w \in blob' : file'[w] \in {"live", "trashed"}
                       \/ visit'[w].pc \in {"claim", "cleanup", "unclean", "lost"}
  BY <1>1 DEF UploadsAccounted, Typed
<1>7. UploadsAccounted'
  BY <1>1, <1>4, <1>6 DEF UploadsAccounted, Given, Existing
<1>. QED
  BY <1>2, <1>3, <1>5, <1>7 DEF IInv

LEMMA Goes ==
  ASSUME Typed, NEW v \in Visitors, NEW p \in Pcs, Goto(v, p)
  PROVE  /\ visit' \in [Visitors -> [pc : Pcs, file : Files \cup Visitors \cup {None},
                                     whole : BOOLEAN, limit : Limits \cup {None}]]
         /\ \A w \in Visitors : w # v => visit'[w] = visit[w]
         /\ visit'[v].pc = p
<1>. DEFINE V == [pc : Pcs, file : Files \cup Visitors \cup {None},
                  whole : BOOLEAN, limit : Limits \cup {None}]
            n == [visit[v] EXCEPT !.pc = p]
<1>1. visit \in [Visitors -> V] /\ visit' = [visit EXCEPT ![v] = n]
  BY DEF Typed, Goto
<1>2. n \in V /\ n.pc = p
  BY <1>1
<1>. HIDE DEF V, n
<1>3. visit' \in [Visitors -> V] /\ \A w \in Visitors : visit'[w] = IF w = v THEN n ELSE visit[w]
  BY <1>1, <1>2
<1>. QED
  BY <1>2, <1>3 DEF V

LEMMA VisitsKeep ==
  ASSUME ConstantsOK, IInv, NEW v \in Visitors,
         \/ \E x \in Files \cup Visitors, w \in BOOLEAN : OpenDownload(v, x, w)
         \/ Verify(v) \/ Manifest(v) \/ ServeUncounted(v)
         \/ OpenUpload(v) \/ WriteUpload(v) \/ CleanBlob(v)
  PROVE  IInv'
<1>1. /\ Typed /\ UploadsAccounted /\ FilesGiven /\ blob \subseteq blob \cup {v}
  BY DEF IInv
<1>2. visit[v].pc \notin {"stored", "claim", "cleanup", "unclean", "lost"} => v \notin blob
  BY <1>1 DEF UploadsAccounted, FilesGiven
<1>3. /\ {"refused", "unclean", "listed", "free", "cleanup", "claim", "count", "write"} \subseteq Pcs
      /\ "verify" \in Pcs
  BY DEF Pcs, InFlight
<1>. USE DEF row, store, purged
<1>4. ASSUME NEW x \in Files \cup Visitors, NEW w \in BOOLEAN, OpenDownload(v, x, w)
      PROVE  IInv'
  <2>. DEFINE V == [pc : Pcs, file : Files \cup Visitors \cup {None},
                    whole : BOOLEAN, limit : Limits \cup {None}]
              n == [pc |-> "verify", file |-> x, whole |-> w, limit |-> share.limit]
  <2>1. visit[v].pc = "new" /\ share # None /\ visit' = [visit EXCEPT ![v] = n]
        /\ UNCHANGED <<row, items, file, access, used, session, purge, again, left, blob>>
    BY <1>4 DEF OpenDownload, Open
  <2>2. n \in V /\ n.pc = "verify"
    BY <1>1, <1>3, <2>1 DEF Typed, Shares
  <2>3. visit \in [Visitors -> V]
    BY <1>1 DEF Typed
  <2>. HIDE DEF V, n
  <2>4. visit' \in [Visitors -> V] /\ visit'[v].pc = "verify"
        /\ \A u \in Visitors : u # v => visit'[u] = visit[u]
    BY <2>1, <2>2, <2>3
  <2>. QED
    BY <1>2, <2>1, <2>4, VisitSteps DEF V
<1>5. ASSUME Verify(v) \/ Manifest(v) \/ ServeUncounted(v) PROVE IInv'
  <2>1. PICK p \in {"count", "refused", "listed", "free"} : Goto(v, p)
    BY <1>5 DEF Verify, Manifest, ServeUncounted
  <2>2. visit[v].pc \in {"verify", "count"}
        /\ UNCHANGED <<row, items, file, access, used, session, purge, again, left, blob>>
    BY <1>5 DEF Verify, Manifest, ServeUncounted
  <2>. QED
    BY <1>1, <1>2, <1>3, <2>1, <2>2, Goes, VisitSteps
<1>6. CASE OpenUpload(v)
  <2>1. PICK p \in {"write", "refused"} : Goto(v, p)
    BY <1>6 DEF OpenUpload
  <2>2. visit[v].pc = "new" /\ share # None
        /\ UNCHANGED <<row, items, file, access, used, session, purge, again, left, blob>>
    BY <1>6 DEF OpenUpload, Open
  <2>. QED
    BY <1>1, <1>2, <1>3, <2>1, <2>2, Goes, VisitSteps
<1>7. CASE WriteUpload(v)
  <2>1. PICK p \in {"claim", "cleanup"} : Goto(v, p) /\ (p = "claim" => share # None)
    BY <1>7 DEF WriteUpload
  <2>2. visit[v].pc = "write" /\ blob' = blob \cup {v}
        /\ UNCHANGED <<row, items, file, access, used, session, purge, again, left>>
    BY <1>7 DEF WriteUpload
  <2>. QED
    BY <1>1, <1>3, <2>1, <2>2, Goes, VisitSteps
<1>8. CASE CleanBlob(v)
  <2>1. /\ visit[v].pc = "cleanup"
        /\ UNCHANGED <<row, items, file, access, used, session, purge, again, left>>
    BY <1>8 DEF CleanBlob
  <2>2. CASE blob' = blob \ {v} /\ Goto(v, "refused")
    BY <1>1, <1>3, <2>1, <2>2, Goes, VisitSteps
  <2>3. CASE blob' = blob /\ Goto(v, "unclean")
    BY <1>1, <1>3, <2>1, <2>3, Goes, VisitSteps
  <2>. QED
    BY <1>8, <2>2, <2>3 DEF CleanBlob
<1>. QED
  BY <1>4, <1>5, <1>6, <1>7, <1>8

(* A download that is counted, or finds the limit used up.                 *)
LEMMA CountKeeps ==
  ASSUME ConstantsOK, IInv, NEW v \in Visitors, Count(v)
  PROVE  IInv'
<1>1. /\ Typed /\ NobodyBefore /\ Bounds /\ LockedRow /\ FilesGiven /\ Found
      /\ LimitHolds /\ UploadsAccounted
      /\ visit[v].pc = "count"
      /\ UNCHANGED <<made, top, slug, items, file, access, used, blob, session, purge, again, left>>
      /\ {"served", "refused"} \subseteq Pcs
  BY DEF IInv, Count, store, purged, Pcs
<1>2. CASE UNCHANGED share /\ Goto(v, "refused")
  <2>1. v \notin blob /\ made
    BY <1>1 DEF UploadsAccounted, FilesGiven, NobodyBefore
  <2>2. UNCHANGED row
    BY <1>1, <1>2 DEF row
  <2>. QED
    BY <1>1, <1>2, <2>1, <2>2, Goes, VisitSteps
<1>3. CASE /\ Claimable /\ share' = [share EXCEPT !.count = @ + 1]
           /\ Goto(v, "served")
  <2>1. /\ visit' \in [Visitors -> [pc : Pcs, file : Files \cup Visitors \cup {None},
                                    whole : BOOLEAN, limit : Limits \cup {None}]]
        /\ \A w \in Visitors : w # v => visit'[w] = visit[w]
        /\ visit'[v].pc = "served"
    BY <1>1, <1>3, Goes
  <2>2. share # None /\ share \in Shares /\ share.limit # None /\ share.count < share.limit
    BY <1>1, <1>3 DEF Claimable, Typed
  <2>3. /\ share' \in Shares /\ share'.count = share.count + 1
        /\ share'.uploaded = share.uploaded /\ share'.budget = share.budget
        /\ share'.limit = share.limit /\ share' # None
    <3>. DEFINE n == [share EXCEPT !.count = @ + 1]
    <3>1. n \in Shares
      BY <2>2, RowFields
    <3>2. n.count = share.count + 1 /\ n.uploaded = share.uploaded
          /\ n.budget = share.budget /\ n.limit = share.limit
      BY <2>2, RowFieldsKept
    <3>3. share' = n
      BY <1>3
    <3>. HIDE DEF n
    <3>. QED
      BY <3>1, <3>2, <3>3 DEF ConstantsOK
  <2>4. Typed'
    BY <1>1, <2>1, <2>3 DEF Typed
  <2>5. NobodyBefore' /\ Bounds' /\ LockedRow' /\ FilesGiven' /\ Found'
    BY <1>1, <2>1, <2>2, <2>3 DEF NobodyBefore, Bounds, LockedRow, FilesGiven, Found
  <2>6. LimitHolds'
    <3>1. Served' = Served \cup {v} /\ v \notin Served /\ IsFiniteSet(Served)
      BY <1>1, <2>1, FiniteSets, FS_Subset DEF Served, ConstantsOK
    <3>2. Cardinality(Served') = Cardinality(Served) + 1
      BY <3>1, FS_AddElement
    <3>3. Cardinality(Served) = share.count
      BY <1>1, <2>2, Counted
    <3>4. share.count + 1 <= top
      <4>1. share.count \in Nat /\ share.limit \in Limits
        BY <2>2 DEF Shares
      <4>2. Limits \subseteq Nat
        BY <1>1 DEF ConstantsOK
      <4>3. top \in Nat
        BY <1>1, <4>2 DEF Typed
      <4>4. share.limit <= top
        BY <1>1, <2>2 DEF Bounds
      <4>5. share.count \in Nat /\ share.limit \in Nat
        BY <4>1, <4>2
      <4>. QED
        BY <2>2, <4>3, <4>4, <4>5
    <3>. QED
      BY <1>1, <2>3, <3>2, <3>3, <3>4 DEF LimitHolds, Served
  <2>7. UploadsAccounted'
    <3>1. Given' = Given
      BY <1>1, <2>1 DEF Given
    <3>2. \A w \in blob : file[w] \in {"live", "trashed"}
                          \/ visit'[w].pc \in {"claim", "cleanup", "unclean", "lost"}
      BY <1>1, <2>1 DEF UploadsAccounted, Typed
    <3>. QED
      BY <1>1, <2>2, <2>3, <3>1, <3>2 DEF UploadsAccounted, Given, Existing
  <2>. QED
    BY <2>4, <2>5, <2>6, <2>7 DEF IInv
<1>. QED
  BY <1>2, <1>3 DEF Count

(* An upload that is stored, or no longer fits.                            *)
LEMMA ClaimKeeps ==
  ASSUME ConstantsOK, IInv, NEW v \in Visitors, ClaimUpload(v)
  PROVE  IInv'
<1>1. /\ Typed /\ NobodyBefore /\ Bounds /\ LockedRow /\ FilesGiven /\ Found
      /\ LimitHolds /\ UploadsAccounted
      /\ visit[v].pc = "claim" /\ share # None /\ share \in Shares
      /\ UNCHANGED <<made, top, slug, access, blob, session, purge, again, left>>
      /\ {"stored", "cleanup"} \subseteq Pcs
      /\ IsFiniteSet(Files \cup Visitors) /\ Size \in [Files \cup Visitors -> Nat]
      /\ Size[v] \in Nat
      /\ Files \cap Visitors = {} /\ Foreign \subseteq Files
  BY FiniteSets DEF IInv, ClaimUpload, purged, Pcs, InFlight, LockedRow, Typed, ConstantsOK
<1>2. CASE Goto(v, "cleanup") /\ UNCHANGED <<share, used, items, file>>
  <2>1. UNCHANGED row /\ blob \subseteq blob \cup {v}
    BY <1>1, <1>2 DEF row
  <2>. QED
    BY <1>1, <1>2, <2>1, Goes, VisitSteps
<1>3. CASE /\ Fits(v) /\ share' = [share EXCEPT !.uploaded = @ + Size[v]]
           /\ used' = used + Size[v] /\ items' = items \cup {v}
           /\ file' = [file EXCEPT ![v] = "live"] /\ Goto(v, "stored")
  <2>1. /\ visit' \in [Visitors -> [pc : Pcs, file : Files \cup Visitors \cup {None},
                                    whole : BOOLEAN, limit : Limits \cup {None}]]
        /\ \A w \in Visitors : w # v => visit'[w] = visit[w]
        /\ visit'[v].pc = "stored"
    BY <1>1, <1>3, Goes
  <2>2. /\ share' \in Shares /\ share'.count = share.count
        /\ share'.uploaded = share.uploaded + Size[v] /\ share'.budget = share.budget
        /\ share'.limit = share.limit /\ share' # None
    <3>. DEFINE n == [share EXCEPT !.uploaded = @ + Size[v]]
    <3>1. n \in Shares
      BY <1>1, RowFields
    <3>2. n.uploaded = share.uploaded + Size[v] /\ n.count = share.count
          /\ n.budget = share.budget /\ n.limit = share.limit
      BY <1>1, RowFieldsKept
    <3>3. share' = n
      BY <1>3
    <3>. HIDE DEF n
    <3>. QED
      BY <3>1, <3>2, <3>3 DEF ConstantsOK
  <2>3. /\ file' \in [Files \cup Visitors -> {"none", "live", "trashed", "gone"}]
        /\ \A y \in Files \cup Visitors : file'[y] = IF y = v THEN "live" ELSE file[y]
        /\ file[v] = "none"
    BY <1>1, <1>3 DEF Typed, FilesGiven
  <2>4. used' \in Nat /\ items' \subseteq Files \cup Visitors
    BY <1>1, <1>3 DEF Typed
  <2>5. Typed'
    BY <1>1, <2>1, <2>2, <2>3, <2>4 DEF Typed
  <2>6. NobodyBefore' /\ Bounds' /\ LockedRow' /\ FilesGiven' /\ Found'
    BY <1>1, <2>1, <2>2, <2>3 DEF NobodyBefore, Bounds, LockedRow, FilesGiven, Found
  <2>7. LimitHolds'
    <3>1. Served' = Served
      BY <1>1, <2>1 DEF Served
    <3>. QED
      BY <1>1, <2>2, <3>1 DEF LimitHolds, Served
  <2>8. /\ share'.uploaded = Total(Given') /\ share'.uploaded <= share'.budget
    <3>1. v \in Given' /\ Given' \ {v} = Given /\ Given' \in SUBSET (Files \cup Visitors)
      BY <1>1, <2>1 DEF Given
    <3>2. Total(Given') = Size[v] + Total(Given' \ {v})
      BY <1>1, <3>1, TotalRemove
    <3>3. Total(Given' \ {v}) = share.uploaded /\ share.uploaded \in Nat
      BY <1>1, <3>1, Counted DEF Shares
    <3>4. share.uploaded + Size[v] <= share.budget
      BY <1>3 DEF Fits
    <3>. QED
      BY <1>1, <2>2, <3>2, <3>3, <3>4
  <2>9. used' <= Total(Existing') /\ (again' \subseteq Foreign => used' = Total(Existing'))
    <3>1. v \in Existing' /\ Existing' \ {v} = Existing /\ Existing' \in SUBSET (Files \cup Visitors)
      BY <1>1, <2>3 DEF Existing
    <3>2. Total(Existing') = Size[v] + Total(Existing' \ {v})
      BY <1>1, <3>1, TotalRemove
    <3>3. /\ used <= Total(Existing' \ {v}) /\ used \in Nat
          /\ again \subseteq Foreign => used = Total(Existing' \ {v})
      BY <1>1, <3>1, Counted DEF Typed
    <3>4. Total(Existing' \ {v}) \in Nat
      BY <1>1, <3>1, FiniteSets, TotalNat
    <3>. QED
      BY <1>1, <1>3, <3>2, <3>3, <3>4
  <2>10. \A w \in blob' : file'[w] \in {"live", "trashed"}
                          \/ visit'[w].pc \in {"claim", "cleanup", "unclean", "lost"}
    BY <1>1, <2>1, <2>3 DEF UploadsAccounted, Typed
  <2>11. UploadsAccounted'
    BY <2>8, <2>9, <2>10 DEF UploadsAccounted, Given
  <2>. QED
    BY <2>5, <2>6, <2>7, <2>11 DEF IInv
<1>. QED
  BY <1>2, <1>3 DEF ClaimUpload

LEMMA CrashKeeps == ASSUME ConstantsOK, IInv, Crash PROVE IInv'
<1>1. /\ Typed /\ NobodyBefore /\ Bounds /\ LockedRow /\ FilesGiven /\ Found
      /\ LimitHolds /\ UploadsAccounted
      /\ UNCHANGED <<share, made, top, slug, items, file, access, used, blob, session, again>>
      /\ purge' = [p \in Purges |-> [pc |-> "over", file |-> None]]
      /\ left' \in 0..Changes
  BY DEF IInv, Crash, Disturb, row, store, Typed, ConstantsOK
<1>2. ASSUME NEW w \in Visitors
      PROVE  \/ visit[w].pc \notin InFlight /\ visit'[w] = visit[w]
             \/ visit[w].pc \in InFlight /\ visit'[w] = [visit[w] EXCEPT !.pc = "lost"]
  BY DEF Crash
<1>. DEFINE V == [pc : Pcs, file : Files \cup Visitors \cup {None},
                  whole : BOOLEAN, limit : Limits \cup {None}]
<1>3. ASSUME NEW t \in V
      PROVE  [t EXCEPT !.pc = "lost"] \in V /\ [t EXCEPT !.pc = "lost"].pc = "lost"
  BY DEF Pcs
<1>4. visit \in [Visitors -> V] /\ visit' = [w \in Visitors |-> visit'[w]]
  BY <1>1 DEF Typed, Crash
<1>. HIDE DEF V
<1>5. ASSUME NEW w \in Visitors
      PROVE  /\ visit'[w] \in V
             /\ \/ visit'[w] = visit[w] /\ visit[w].pc \notin InFlight
                \/ visit[w].pc \in InFlight /\ visit'[w].pc = "lost"
  <2>. DEFINE t == visit[w]
              n == [t EXCEPT !.pc = "lost"]
  <2>1. t \in V /\ n \in V /\ n.pc = "lost"
    BY <1>3, <1>4
  <2>2. \/ t.pc \notin InFlight /\ visit'[w] = t
        \/ t.pc \in InFlight /\ visit'[w] = n
    BY <1>2
  <2>. HIDE DEF n
  <2>. QED
    BY <2>1, <2>2
<1>6. visit' \in [Visitors -> V]
  BY <1>4, <1>5
<1>7. Typed'
  BY <1>1, <1>6 DEF Typed, V
<1>. USE DEF InFlight
<1>8. NobodyBefore' /\ Bounds' /\ LockedRow' /\ FilesGiven' /\ Found'
  BY <1>1, <1>5 DEF NobodyBefore, Bounds, LockedRow, FilesGiven, Found
<1>9. Served' = Served /\ Given' = Given
  BY <1>5 DEF Served, Given
<1>10. LimitHolds'
  BY <1>1, <1>9 DEF LimitHolds, Served
<1>11. \A w \in blob' : file'[w] \in {"live", "trashed"}
                        \/ visit'[w].pc \in {"claim", "cleanup", "unclean", "lost"}
  BY <1>1, <1>5 DEF UploadsAccounted, Typed
<1>12. UploadsAccounted'
  BY <1>1, <1>9, <1>11 DEF UploadsAccounted, Given, Existing
<1>. QED
  BY <1>7, <1>8, <1>10, <1>12 DEF IInv

-----------------------------------------------------------------------------
LEMMA NextIInv == ConstantsOK /\ IInv /\ [Next]_vars => IInv'
<1>1. IInv /\ UNCHANGED vars => IInv'
  BY DEF vars, row, store, purged, IInv, Existing, Typed, NobodyBefore, Bounds, LockedRow, FilesGiven, Found, LimitHolds,
     UploadsAccounted
<1>2. ConstantsOK /\ IInv /\ Next => IInv'
  BY CreatorKeeps, LinkSteps, TrashKeeps, PurgeReadKeeps, PurgeKeeps, VisitsKeep, CountKeeps, ClaimKeeps, CrashKeeps DEF Next
<1>. QED
  BY <1>1, <1>2

(* The rows and the visits keep their types; disk_used, which a purge      *)
(* lowers by the size of the file, does not become negative, and a share   *)
(* counts no more downloads than there are visitors.                       *)
THEOREM TypeCorrect == ASSUME ConstantsOK PROVE Spec => []TypeOK
<1>1. ConstantsOK /\ IInv => TypeOK
  <2>. SUFFICES ASSUME ConstantsOK, IInv PROVE TypeOK
    OBVIOUS
  <2>1. Typed /\ Bounds /\ LimitHolds
    BY DEF IInv
  <2>2. Cardinality(Served) <= Cardinality(Visitors)
    BY FS_Subset DEF Served, ConstantsOK
  <2>3. share # None => share.count <= Cardinality(Visitors)
    BY <2>1, <2>2, Counted
  <2>. QED
    BY <2>1, <2>3 DEF Typed, Bounds, TypeOK
<1>. QED
  BY <1>1, ConstantsOK, InitIInv, NextIInv, PTL DEF Spec

(* _enforce_download_limit claims a turn with one UPDATE: however downloads *)
(* overlap, the count is that of those served, and at most the largest      *)
(* limit the share has had.                                                 *)
THEOREM LimitKept == ASSUME ConstantsOK PROVE Spec => []LimitHolds
<1>1. IInv => LimitHolds
  BY DEF IInv
<1>. QED
  BY <1>1, ConstantsOK, InitIInv, NextIInv, PTL DEF Spec

(* upload_to_share: what was stored is what the budget has been charged;    *)
(* the creator's disk_used is the size of the files there are, or less if   *)
(* two purges gave one back; and bytes without a file are on their way out, *)
(* of a request that a stop has cut off, or of a removal that failed.       *)
THEOREM UploadsKept == ASSUME ConstantsOK PROVE Spec => []UploadsAccounted
<1>1. IInv => UploadsAccounted
  BY DEF IInv
<1>. QED
  BY <1>1, ConstantsOK, InitIInv, NextIInv, PTL DEF Spec

-----------------------------------------------------------------------------
(* BatchUpload: the lock of a batch                                        *)

BatchTypes ==
  /\ batchBatch \in [Batches -> Batch!Batch]
  /\ batchOrder \in Seq(Batches)
  /\ batchTask \in [Requests -> Batch!Task]

(* Every active batch has its place in the order of creation, and only the *)
(* last of them may hold the lock.                                         *)
Paced ==
  /\ \A i, j \in DOMAIN batchOrder : batchOrder[i] = batchOrder[j] => i = j
  /\ \A b \in Batches :
       batchBatch[b].status = "active" => \E i \in DOMAIN batchOrder : batchOrder[i] = b
  /\ \A i \in DOMAIN batchOrder : Batch!Locking(batchOrder[i]) => Batch!Latest(i)

(* A registration that has looked is alone, no batch is locked until it    *)
(* inserts, and what it inserts is the last of the order.                  *)
Registers(r) == batchTask[r].pc \in {"stamp", "insert"}
Registering ==
  /\ \A q, r \in Requests : Registers(q) /\ Registers(r) => q = r
  /\ \A r \in Requests : Registers(r) => \A b \in Batches : ~Batch!Locking(b)
  /\ \A r \in Requests : batchTask[r].pc = "insert" =>
       batchOrder # <<>> /\ batchTask[r].batch = batchOrder[Len(batchOrder)]

BatchInv == BatchTypes /\ Batch!LockFollowsProgress /\ Paced /\ Registering

LEMMA BatchRecords ==
  /\ Batch!NoBatch \in Batch!Batch
  /\ Batch!Idle \in Batch!Task
BY DEF Batch!NoBatch, Batch!Batch, Batch!Idle, Batch!Task

LEMMA BatchInit == Batch!Init => BatchInv
<1>. SUFFICES ASSUME Batch!Init PROVE BatchInv
  OBVIOUS
<1>1. BatchTypes
  BY BatchRecords DEF Batch!Init, BatchTypes
<1>. QED
  BY <1>1 DEF Batch!Init, Batch!NoBatch, Batch!Idle, BatchInv, Batch!LockFollowsProgress, Paced,
              Registering, Registers, Batch!Locking

(* The tasks after a request moved.                                        *)
LEMMA BatchTasks ==
  ASSUME BatchInv, NEW r \in Requests, NEW t \in Batch!Task,
         batchTask' = [batchTask EXCEPT ![r] = t]
  PROVE  /\ batchTask' \in [Requests -> Batch!Task]
         /\ \A q \in Requests : batchTask'[q] = IF q = r THEN t ELSE batchTask[q]
BY DEF BatchInv, BatchTypes

(* No step but a registration activates a batch or locks one.              *)
LEMMA BatchQuiet ==
  ASSUME BatchInv, batchOrder' = batchOrder, batchTask' \in [Requests -> Batch!Task],
         batchBatch' \in [Batches -> Batch!Batch], Batch!LockFollowsProgress',
         \A b \in Batches : /\ batchBatch'[b].status = "active" => batchBatch[b].status = "active"
                            /\ Batch!Locking(b)' => Batch!Locking(b),
         \A q \in Requests : Registers(q)' => batchTask'[q] = batchTask[q]
  PROVE  BatchInv'
<1>1. BatchTypes'
  BY DEF BatchInv, BatchTypes
<1>2. Paced'
  <2>1. \A i \in DOMAIN batchOrder : batchOrder[i] \in Batches
    BY DEF BatchInv, BatchTypes
  <2>2. Batch!Actives' \subseteq Batch!Actives
    BY <2>1 DEF Batch!Actives
  <2>3. \A i \in DOMAIN batchOrder : Batch!Latest(i) => Batch!Latest(i)'
    BY <2>2 DEF Batch!Latest
  <2>. QED
    BY <2>1, <2>3 DEF BatchInv, Paced
<1>3. Registering'
  BY DEF BatchInv, Registering, Registers
<1>. QED
  BY <1>1, <1>2, <1>3 DEF BatchInv

(* A task that moves while no row does.                                    *)
LEMMA BatchTaskOnly ==
  ASSUME BatchInv, NEW r \in Requests, NEW t \in Batch!Task, t.pc \notin {"stamp", "insert"},
         batchTask' = [batchTask EXCEPT ![r] = t], UNCHANGED <<batchOrder, batchBatch>>
  PROVE  BatchInv'
<1>1. /\ batchTask' \in [Requests -> Batch!Task]
      /\ \A q \in Requests : batchTask'[q] = IF q = r THEN t ELSE batchTask[q]
  BY BatchTasks
<1>2. batchBatch' \in [Batches -> Batch!Batch] /\ Batch!LockFollowsProgress'
  BY DEF BatchInv, BatchTypes, Batch!LockFollowsProgress
<1>3. \A q \in Requests : Registers(q)' => batchTask'[q] = batchTask[q]
  BY <1>1 DEF Registers
<1>4. \A b \in Batches : /\ batchBatch'[b].status = "active" => batchBatch[b].status = "active"
                         /\ Batch!Locking(b)' => Batch!Locking(b)
  BY DEF Batch!Locking
<1>. QED
  BY <1>1, <1>2, <1>3, <1>4, BatchQuiet

LEMMA BatchCardinality == \A S : Batch!Cardinality(S) = Cardinality(S)
BY DEF Batch!Cardinality, Cardinality

LEMMA BatchRegisters ==
  ASSUME BatchInv, NEW r \in Requests, Batch!RegisterRead(r)
  PROVE  BatchInv'
<1>. DEFINE t == [Batch!Idle EXCEPT !.pc = "stamp"]
<1>1. t \in Batch!Task /\ batchTask' = [batchTask EXCEPT ![r] = t]
  BY BatchRecords DEF Batch!RegisterRead, Batch!Begin, Batch!Task
<1>2. /\ batchTask' \in [Requests -> Batch!Task]
      /\ \A q \in Requests : batchTask'[q] = IF q = r THEN t ELSE batchTask[q]
  BY <1>1, BatchTasks
<1>3. t.pc = "stamp"
  BY DEF Batch!Idle
<1>4. UNCHANGED <<batchOrder, batchBatch>>
  BY DEF Batch!RegisterRead, Batch!tables
<1>5. \A q \in Requests : ~Registers(q)
  BY DEF Batch!RegisterRead, Registers
<1>6. \A b \in Batches : ~Batch!Locking(b)
  BY DEF Batch!RegisterRead, Batch!Locking, Batch!Actives, BatchInv, Paced
<1>. HIDE DEF t
<1>7. Registering'
  BY <1>2, <1>3, <1>4, <1>5, <1>6 DEF Registering, Registers, Batch!Locking
<1>8. Paced'
  BY <1>4 DEF BatchInv, Paced, Batch!Locking, Batch!Latest, Batch!Actives
<1>. QED
  BY <1>2, <1>4, <1>7, <1>8 DEF BatchInv, BatchTypes, Batch!LockFollowsProgress

LEMMA BatchStamps ==
  ASSUME BatchInv, NEW r \in Requests, NEW b \in Batches, Batch!RegisterStamp(r, b)
  PROVE  BatchInv'
<1>. DEFINE t == [batchTask[r] EXCEPT !.pc = "insert", !.batch = b]
<1>1. t \in Batch!Task /\ t.pc = "insert" /\ t.batch = b
      /\ batchTask' = [batchTask EXCEPT ![r] = t]
  <2>1. batchTask[r] \in Batch!Task
    BY DEF BatchInv, BatchTypes
  <2>2. t \in Batch!Task /\ t.pc = "insert" /\ t.batch = b
    BY <2>1 DEF Batch!Task
  <2>. QED
    BY <2>2 DEF Batch!RegisterStamp, BatchInv, BatchTypes
<1>. HIDE DEF t
<1>2. /\ batchTask' \in [Requests -> Batch!Task]
      /\ \A q \in Requests : batchTask'[q] = IF q = r THEN t ELSE batchTask[q]
  BY <1>1, BatchTasks
<1>3. /\ batchOrder' \in Seq(Batches) /\ Len(batchOrder') = Len(batchOrder) + 1
      /\ Len(batchOrder) \in Nat /\ DOMAIN batchOrder = 1..Len(batchOrder)
      /\ DOMAIN batchOrder' = 1..Len(batchOrder')
      /\ \A i \in 1..Len(batchOrder) : batchOrder'[i] = batchOrder[i]
      /\ batchOrder'[Len(batchOrder')] = b
  BY DEF Batch!RegisterStamp, BatchInv, BatchTypes
<1>4. batchBatch' = batchBatch /\ \A i \in DOMAIN batchOrder : batchOrder[i] # b
  BY DEF Batch!RegisterStamp, Batch!tables
<1>5. batchBatch[b].status # "active"
  BY <1>4 DEF BatchInv, Paced
<1>6. Batch!Actives' = Batch!Actives
  BY <1>3, <1>4, <1>5 DEF Batch!Actives
<1>7. Paced'
  <2>1. \A i, j \in DOMAIN batchOrder' : batchOrder'[i] = batchOrder'[j] => i = j
    BY <1>3, <1>4 DEF BatchInv, Paced
  <2>2. \A a \in Batches :
          batchBatch'[a].status = "active" => \E i \in DOMAIN batchOrder' : batchOrder'[i] = a
    BY <1>3, <1>4 DEF BatchInv, Paced
  <2>3. \A i \in DOMAIN batchOrder' : Batch!Locking(batchOrder[i])' => Batch!Latest(i)'
    BY <1>3, <1>4, <1>5, <1>6 DEF BatchInv, Paced, Batch!Locking, Batch!Latest
  <2>. QED
    BY <2>1, <2>2, <2>3 DEF Paced
<1>8. Registering'
  <2>1. Registers(r) /\ \A q \in Requests : Registers(q)' => Registers(q)
    BY <1>2 DEF Batch!RegisterStamp, Registers
  <2>2. \A q \in Requests : Registers(q) => q = r
    BY <2>1 DEF BatchInv, Registering
  <2>3. \A a \in Batches : ~Batch!Locking(a)'
    BY <1>4, <2>1 DEF BatchInv, Registering, Batch!Locking
  <2>4. batchOrder' # <<>> /\ batchTask'[r].batch = batchOrder'[Len(batchOrder')]
    BY <1>1, <1>2, <1>3
  <2>5. \A q \in Requests : batchTask'[q].pc = "insert" => q = r
    BY <2>1, <2>2 DEF Registers
  <2>. QED
    BY <2>1, <2>2, <2>3, <2>4, <2>5 DEF Registering
<1>. QED
  BY <1>2, <1>3, <1>4, <1>7, <1>8 DEF BatchInv, BatchTypes, Batch!LockFollowsProgress

LEMMA BatchInserts ==
  ASSUME Batch!ConstantsOK, BatchInv, NEW r \in Requests, NEW us \in SUBSET Items,
         Batch!RegisterInsert(r, us)
  PROVE  BatchInv'
<1>1. PICK b : b = batchTask[r].batch
  OBVIOUS
<1>2. /\ batchTask' \in [Requests -> Batch!Task]
      /\ \A q \in Requests : batchTask'[q] = IF q = r THEN Batch!Idle ELSE batchTask[q]
  BY BatchTasks, BatchRecords DEF Batch!RegisterInsert, Batch!Reply
<1>3. Batch!Total(us) \in Nat /\ Batch!Total(us) > 0
  <2>1. IsFiniteSet(Items) /\ us # {}
    BY DEF Batch!ConstantsOK, Batch!IsFiniteSet, IsFiniteSet, Batch!RegisterInsert
  <2>2. IsFiniteSet(us)
    BY <2>1, FS_Subset
  <2>3. Cardinality(us) \in Nat /\ Cardinality(us) # 0
    BY <2>1, <2>2, FS_CardinalityType, FS_EmptySet
  <2>. QED
    BY <2>3, BatchCardinality DEF Batch!Total
<1>4. /\ b \in Batches /\ batchOrder # <<>> /\ b = batchOrder[Len(batchOrder)]
      /\ Len(batchOrder) \in DOMAIN batchOrder
  BY <1>1 DEF Batch!RegisterInsert, BatchInv, Registering, BatchTypes
<1>5. /\ batchBatch' = [batchBatch EXCEPT ![b] =
            [Batch!NoBatch EXCEPT !.total = Batch!Total(us), !.status = "active"]]
      /\ batchOrder' = batchOrder
  BY <1>1 DEF Batch!RegisterInsert
<1>6. /\ batchBatch' \in [Batches -> Batch!Batch]
      /\ \A a \in Batches : a # b => batchBatch'[a] = batchBatch[a]
      /\ batchBatch'[b].total = Batch!Total(us) /\ batchBatch'[b].status = "active"
      /\ batchBatch'[b].count = 0 /\ batchBatch'[b].released = FALSE
  BY <1>3, <1>4, <1>5 DEF BatchInv, BatchTypes, Batch!NoBatch, Batch!Batch
<1>7. Batch!LockFollowsProgress'
  BY <1>3, <1>6 DEF BatchInv, Batch!LockFollowsProgress
<1>8. Registers(r) /\ ~Registers(r)' /\ \A q \in Requests : Registers(q)' => q = r
  BY <1>2 DEF Batch!RegisterInsert, BatchInv, Registering, Registers, Batch!Idle
<1>9. Registering'
  BY <1>8 DEF Registering, Registers
<1>10. \A a \in Batches : Batch!Locking(a)' => a = b
  BY <1>6, <1>8 DEF BatchInv, Registering, Batch!Locking
<1>11. Paced'
  <2>1. \A i \in DOMAIN batchOrder : batchOrder[i] \in Batches /\ i \in Int /\ i <= Len(batchOrder)
    BY DEF BatchInv, BatchTypes
  <2>2. \A i \in DOMAIN batchOrder : batchOrder[i] = b => i = Len(batchOrder)
    BY <1>4 DEF BatchInv, Paced
  <2>3. \A i \in DOMAIN batchOrder' : Batch!Locking(batchOrder[i])' => Batch!Latest(i)'
    BY <1>5, <1>10, <2>1, <2>2 DEF Batch!Latest, Batch!Actives
  <2>. QED
    BY <1>4, <1>5, <1>6, <2>3 DEF BatchInv, Paced
<1>. QED
  BY <1>2, <1>5, <1>6, <1>7, <1>9, <1>11 DEF BatchInv, BatchTypes

LEMMA BatchFinishes ==
  ASSUME BatchInv, NEW r \in Requests, NEW u \in Items, Batch!FinishCommit(r, u)
  PROVE  BatchInv'
<1>1. PICK b : b = batchOf[u]
  OBVIOUS
<1>2. /\ batchTask' \in [Requests -> Batch!Task]
      /\ \A q \in Requests : batchTask'[q] = IF q = r THEN Batch!Idle ELSE batchTask[q]
  BY BatchTasks, BatchRecords DEF Batch!FinishCommit, Batch!Reply
<1>3. /\ batchBatch' = [batchBatch EXCEPT ![b] = Batch!Progressed(@)]
      /\ batchOrder' = batchOrder
  BY <1>1 DEF Batch!FinishCommit
<1>4. ASSUME NEW x \in Batch!Batch
      PROVE  /\ Batch!Progressed(x) \in Batch!Batch
             /\ Batch!Progressed(x).total = x.total /\ Batch!Progressed(x).count = x.count + 1
             /\ Batch!Progressed(x).released <=> x.released \/ 2 * (x.count + 1) >= x.total
             /\ Batch!Progressed(x).status = IF x.count + 1 >= x.total THEN "complete" ELSE x.status
  <2>. DEFINE half == x.released \/ 2 * (x.count + 1) >= x.total
              status == IF x.count + 1 >= x.total THEN "complete" ELSE x.status
  <2>1. half \in BOOLEAN /\ x.count + 1 \in Nat
        /\ status \in {"none", "active", "complete", "cancelled"}
    BY DEF Batch!Batch
  <2>2. Batch!Progressed(x) = [x EXCEPT !.count = x.count + 1, !.released = half, !.status = status]
    BY DEF Batch!Progressed, Batch!Half
  <2>. HIDE DEF half, status
  <2>3. /\ Batch!Progressed(x) \in Batch!Batch /\ Batch!Progressed(x).total = x.total
        /\ Batch!Progressed(x).count = x.count + 1 /\ Batch!Progressed(x).released = half
        /\ Batch!Progressed(x).status = status
    BY <2>1, <2>2 DEF Batch!Batch
  <2>. QED
    BY <2>1, <2>3 DEF half, status
<1>5. /\ batchBatch' \in [Batches -> Batch!Batch]
      /\ \A a \in Batches : a # b => batchBatch'[a] = batchBatch[a]
      /\ b \in Batches => batchBatch'[b] = Batch!Progressed(batchBatch[b])
      /\ \A a \in Batches : batchBatch[a] \in Batch!Batch
  BY <1>3, <1>4 DEF BatchInv, BatchTypes
<1>6. ASSUME NEW a \in Batches, batchBatch'[a].status # "none"
      PROVE  batchBatch'[a].released <=> 2 * batchBatch'[a].count >= batchBatch'[a].total
                                          \/ batchBatch'[a].status = "cancelled"
  BY <1>4, <1>5, <1>6 DEF BatchInv, Batch!LockFollowsProgress, Batch!Batch
<1>7. \A a \in Batches : /\ batchBatch'[a].status = "active" => batchBatch[a].status = "active"
                         /\ Batch!Locking(a)' => Batch!Locking(a)
  BY <1>4, <1>5 DEF Batch!Locking
<1>8. \A q \in Requests : Registers(q)' => batchTask'[q] = batchTask[q]
  BY <1>2 DEF Registers, Batch!Idle
<1>9. Batch!LockFollowsProgress'
  BY <1>6 DEF Batch!LockFollowsProgress
<1>. QED
  BY <1>2, <1>3, <1>5, <1>7, <1>8, <1>9, BatchQuiet

LEMMA BatchCancels ==
  ASSUME BatchInv, NEW r \in Requests, Batch!CancelCommit(r)
  PROVE  BatchInv'
<1>1. PICK b : b = batchTask[r].batch
  OBVIOUS
<1>2. /\ batchTask' \in [Requests -> Batch!Task]
      /\ \A q \in Requests : batchTask'[q] = IF q = r THEN Batch!Idle ELSE batchTask[q]
  BY BatchTasks, BatchRecords DEF Batch!CancelCommit, Batch!Reply
<1>3. /\ batchBatch' = [batchBatch EXCEPT ![b].status = "cancelled", ![b].released = TRUE]
      /\ batchOrder' = batchOrder
  BY <1>1 DEF Batch!CancelCommit
<1>4. /\ batchBatch' \in [Batches -> Batch!Batch]
      /\ \A a \in Batches : a # b => batchBatch'[a] = batchBatch[a]
      /\ b \in Batches => batchBatch'[b].status = "cancelled" /\ batchBatch'[b].released = TRUE
  BY <1>3 DEF BatchInv, BatchTypes, Batch!Batch
<1>5. Batch!LockFollowsProgress'
  BY <1>4 DEF BatchInv, Batch!LockFollowsProgress
<1>6. \A a \in Batches : /\ batchBatch'[a].status = "active" => batchBatch[a].status = "active"
                         /\ Batch!Locking(a)' => Batch!Locking(a)
  BY <1>4 DEF Batch!Locking
<1>7. \A q \in Requests : Registers(q)' => batchTask'[q] = batchTask[q]
  BY <1>2 DEF Registers, Batch!Idle
<1>. QED
  BY <1>2, <1>3, <1>4, <1>5, <1>6, <1>7, BatchQuiet

LEMMA BatchStep == Batch!ConstantsOK /\ BatchInv /\ [Batch!Next]_(Batch!vars) => BatchInv'
<1>. SUFFICES ASSUME Batch!ConstantsOK, BatchInv, [Batch!Next]_(Batch!vars) PROVE BatchInv'
  OBVIOUS
<1>1. CASE \/ UNCHANGED Batch!vars \/ Batch!Crash \/ \E u \in Items : Batch!Remove(u)
  <2>1. UNCHANGED <<batchOrder, batchBatch>>
    BY <1>1 DEF Batch!vars, Batch!tables, Batch!Crash, Batch!Remove
  <2>2. /\ batchTask' \in [Requests -> Batch!Task]
        /\ \A q \in Requests : batchTask'[q] = batchTask[q] \/ batchTask'[q] = Batch!Idle
    BY <1>1, BatchRecords DEF Batch!vars, Batch!Crash, Batch!Remove, BatchInv, BatchTypes
  <2>3. batchBatch' \in [Batches -> Batch!Batch] /\ Batch!LockFollowsProgress'
    BY <2>1 DEF BatchInv, BatchTypes, Batch!LockFollowsProgress
  <2>4. \A q \in Requests : Registers(q)' => batchTask'[q] = batchTask[q]
    BY <2>2 DEF Registers, Batch!Idle
  <2>5. \A b \in Batches : /\ batchBatch'[b].status = "active" => batchBatch[b].status = "active"
                           /\ Batch!Locking(b)' => Batch!Locking(b)
    BY <2>1 DEF Batch!Locking
  <2>. QED
    BY <2>1, <2>2, <2>3, <2>4, <2>5, BatchQuiet
<1>2. ASSUME NEW r \in Requests, NEW u \in Items, Batch!FinishBegin(r, u) PROVE BatchInv'
  <2>. DEFINE t == [Batch!Idle EXCEPT !.pc = "finish", !.todo = {u}]
  <2>1. t \in Batch!Task /\ t.pc = "finish" /\ batchTask' = [batchTask EXCEPT ![r] = t]
    BY <1>2, BatchRecords DEF Batch!FinishBegin, Batch!Begin, Batch!Task, Batch!Idle
  <2>2. UNCHANGED <<batchOrder, batchBatch>>
    BY <1>2 DEF Batch!FinishBegin
  <2>. HIDE DEF t
  <2>. QED
    BY <2>1, <2>2, BatchTaskOnly
<1>3. ASSUME NEW r \in Requests, NEW b \in Batches, Batch!CancelRead(r, b) PROVE BatchInv'
  <2>. DEFINE t == [Batch!Idle EXCEPT !.pc = "list", !.batch = b]
  <2>1. t \in Batch!Task /\ t.pc = "list" /\ batchTask' = [batchTask EXCEPT ![r] = t]
    BY <1>3, BatchRecords DEF Batch!CancelRead, Batch!Begin, Batch!Task, Batch!Idle
  <2>2. UNCHANGED <<batchOrder, batchBatch>>
    BY <1>3 DEF Batch!CancelRead, Batch!tables
  <2>. HIDE DEF t
  <2>. QED
    BY <2>1, <2>2, BatchTaskOnly
<1>4. ASSUME NEW r \in Requests, Batch!CancelList(r) PROVE BatchInv'
  <2>. DEFINE t == [batchTask[r] EXCEPT !.pc = "cancel", !.todo = Batch!Doomed(batchTask[r].batch)]
  <2>1. t \in Batch!Task /\ t.pc = "cancel" /\ batchTask' = [batchTask EXCEPT ![r] = t]
    <3>1. batchTask[r] \in Batch!Task
      BY DEF BatchInv, BatchTypes
    <3>2. Batch!Doomed(batchTask[r].batch) \in SUBSET Items
      BY DEF Batch!Doomed, Batch!Members
    <3>3. t \in Batch!Task /\ t.pc = "cancel"
      BY <3>1, <3>2 DEF Batch!Task
    <3>. QED
      BY <1>4, <3>3 DEF Batch!CancelList, BatchInv, BatchTypes
  <2>2. UNCHANGED <<batchOrder, batchBatch>>
    BY <1>4 DEF Batch!CancelList, Batch!tables
  <2>. HIDE DEF t
  <2>. QED
    BY <2>1, <2>2, BatchTaskOnly
<1>5. ASSUME NEW r \in Requests, Batch!Fail(r) PROVE BatchInv'
  <2>1. Batch!Idle \in Batch!Task /\ Batch!Idle.pc = "idle"
        /\ batchTask' = [batchTask EXCEPT ![r] = Batch!Idle]
    BY <1>5, BatchRecords DEF Batch!Fail, Batch!Reply, Batch!Idle
  <2>2. UNCHANGED <<batchOrder, batchBatch>>
    BY <1>5 DEF Batch!Fail, Batch!tables
  <2>. QED
    BY <2>1, <2>2, BatchTaskOnly
<1>. QED
  BY <1>1, <1>2, <1>3, <1>4, <1>5, BatchRegisters, BatchStamps, BatchInserts, BatchFinishes,
     BatchCancels
  DEF Batch!Next

LEMMA BatchPaces == BatchInv => BatchLock
<1>. SUFFICES ASSUME BatchInv PROVE BatchLock
  OBVIOUS
<1>1. ASSUME NEW a \in Batches, NEW b \in Batches, Batch!Locking(a), Batch!Locking(b)
      PROVE  a = b
  <2>1. PICK i \in DOMAIN batchOrder : batchOrder[i] = a
    BY <1>1 DEF BatchInv, Paced, Batch!Locking
  <2>2. PICK j \in DOMAIN batchOrder : batchOrder[j] = b
    BY <1>1 DEF BatchInv, Paced, Batch!Locking
  <2>3. i \in Batch!Actives /\ j \in Batch!Actives /\ i \in Int /\ j \in Int
    BY <1>1, <2>1, <2>2 DEF Batch!Locking, Batch!Actives, BatchInv, BatchTypes
  <2>4. i <= j /\ j <= i
    BY <1>1, <2>1, <2>2, <2>3 DEF BatchInv, Paced, Batch!Latest
  <2>. QED
    BY <2>1, <2>2, <2>3, <2>4
<1>. QED
  BY <1>1 DEF BatchInv, BatchLock, Batch!PacingLock

(* The batch routes of files.py: through counts, retries, cancels and      *)
(* expiry the lock of a batch is released when half of its files are       *)
(* complete or it is cancelled, and not before; and of registrations that  *)
(* come one at a time one active batch at most holds it.                   *)
THEOREM LockPaces == Batch!Spec => []BatchLock
<1>1. Batch!ConstantsOK
  BY BatchAssumption
<1>. QED
  BY <1>1, BatchInit, BatchStep, BatchPaces, PTL DEF Batch!Spec

-----------------------------------------------------------------------------
-----------------------------------------------------------------------------
(***************************************************************************)
(* The folder tree (FolderTree), for every number of folders.  First what  *)
(* a walk up the tree finds: the least set of folders with the first that  *)
(* has the parent of each of its own, whatever the parents are.            *)
(***************************************************************************)
TreeParents == [Items -> Items \cup {None}]

TreeClosed(p, S) == S \subseteq Items /\ \A g \in S : p[g] \in S \cup {None}

TreeIsAbove(p, f, A) ==
  /\ TreeClosed(p, A) /\ f \in A
  /\ \A S : TreeClosed(p, S) /\ f \in S => A \subseteq S

TreeUps(p, f, u, m) ==
  u = [n \in 0..m |->
        IF n = 0 THEN {f}
        ELSE LET below == u[n - 1] IN below \cup {p[g] : g \in below \ {None}}]

TreeWalkFor(p, f, m) == (CHOOSE u : TreeUps(p, f, u, m))[m] \ {None}

TreeWalk(p, f) == TreeWalkFor(p, f, Tree!Cardinality(Items))

LEMMA TreeAbove == ASSUME NEW f PROVE Tree!Above(f) = TreeWalk(treeParent, f)
BY Zenon DEF Tree!Above, TreeWalk, TreeWalkFor, TreeUps

LEMMA TreeLeast ==
  ASSUME NEW B \in SUBSET Nat, B # {} PROVE \E n \in B : \A m \in B : n <= m
<1>1. IsWellFoundedOn(OpToRel(<, Nat), Nat)
  BY NatLessThanWellFounded
<1>2. PICK n \in B : \A m \in B : <<m, n>> \notin OpToRel(<, Nat)
  BY <1>1, WFMin
<1>3. \A m \in B : ~(m < n)
  BY <1>2 DEF OpToRel
<1>. QED
  BY <1>3

LEMMA TreeUpsExist ==
  ASSUME NEW p, NEW f, NEW m \in Nat PROVE \E u : TreeUps(p, f, u, m)
<1>. DEFINE B == {k \in Nat : ~\E u : TreeUps(p, f, u, k)}
<1>. SUFFICES ASSUME B # {} PROVE FALSE
  OBVIOUS
<1>1. PICK k \in B : \A j \in B : k <= j
  <2>1. B \in SUBSET Nat
    OBVIOUS
  <2>. HIDE DEF B
  <2>. QED
    BY <2>1, TreeLeast
<1>2. k # 0
  <2>1. TreeUps(p, f, [n \in 0..0 |-> {f}], 0)
    BY DEF TreeUps
  <2>. QED
    BY <1>1, <2>1
<1>3. k - 1 \in Nat /\ k - 1 \notin B
  BY <1>1, <1>2
<1>4. PICK u : TreeUps(p, f, u, k - 1)
  BY <1>3
<1>. DEFINE v == [n \in 0..k |-> IF n < k THEN u[n]
                                ELSE u[k - 1] \cup {p[g] : g \in u[k - 1] \ {None}}]
<1>5. \A n \in 0..k - 1 :
        u[n] = IF n = 0 THEN {f}
               ELSE LET below == u[n - 1] IN below \cup {p[g] : g \in below \ {None}}
  BY <1>4 DEF TreeUps
<1>6. \A n \in 0..k - 1 : v[n] = u[n]
  BY <1>3
<1>7. \A n \in 0..k :
        v[n] = IF n = 0 THEN {f}
               ELSE LET below == v[n - 1] IN below \cup {p[g] : g \in below \ {None}}
  <2>1. SUFFICES ASSUME NEW n \in 0..k
                 PROVE  v[n] = IF n = 0 THEN {f}
                               ELSE v[n - 1] \cup {p[g] : g \in v[n - 1] \ {None}}
    OBVIOUS
  <2>2. n # 0 => n - 1 \in 0..k - 1
    BY <1>3, <2>1
  <2>3. CASE n < k
    <3>1. n \in 0..k - 1 /\ v[n] = u[n]
      BY <1>3, <2>1, <2>3
    <3>2. n # 0 => v[n - 1] = u[n - 1]
      BY <1>6, <2>2
    <3>. HIDE DEF v
    <3>. QED
      BY <1>5, <3>1, <3>2
  <2>4. CASE n = k
    <3>1. v[n] = u[k - 1] \cup {p[g] : g \in u[k - 1] \ {None}}
      BY <1>3, <2>4
    <3>2. v[n - 1] = u[k - 1]
      BY <1>2, <1>6, <2>2, <2>4
    <3>. HIDE DEF v
    <3>. QED
      BY <1>2, <2>4, <3>1, <3>2
  <2>. QED
    BY <1>3, <2>1, <2>3, <2>4
<1>8. v = [n \in 0..k |-> v[n]]
  OBVIOUS
<1>. HIDE DEF v
<1>9. TreeUps(p, f, v, k)
  BY <1>7, <1>8 DEF TreeUps
<1>. QED
  BY <1>1, <1>9

LEMMA TreeCount ==
  /\ IsFiniteSet(Items) /\ None \notin Items
  /\ Tree!Cardinality(Items) = Cardinality(Items) /\ Cardinality(Items) \in Nat
<1>1. Tree!IsFiniteSet(Items) /\ None \notin Items
  BY TreeAssumption DEF Tree!ConstantsOK
<1>2. IsFiniteSet(Items)
  BY <1>1 DEF Tree!IsFiniteSet, IsFiniteSet
<1>3. Tree!Cardinality(Items) = Cardinality(Items)
  BY DEF Tree!Cardinality, Cardinality
<1>. QED
  BY <1>1, <1>2, <1>3, FS_CardinalityType

(* A walk that has not come to its end yet has met another folder with     *)
(* every step it took, so there is none left after as many steps as there  *)
(* are folders.                                                            *)
LEMMA TreeWalked ==
  ASSUME NEW p \in TreeParents, NEW f \in Items
  PROVE  TreeIsAbove(p, f, TreeWalk(p, f))
<1>. DEFINE N == Cardinality(Items)
            u == CHOOSE w : TreeUps(p, f, w, N)
            V(n) == u[n] \ {None}
            Good(n) == /\ V(n) \subseteq Items /\ f \in V(n)
                       /\ \A S : TreeClosed(p, S) /\ f \in S => V(n) \subseteq S
                       /\ TreeClosed(p, V(n)) \/ Cardinality(V(n)) >= n + 1
            B == {n \in 0..N : ~Good(n)}
<1>1. TreeUps(p, f, u, N) /\ N \in Nat
  BY TreeUpsExist, TreeCount
<1>2. TreeWalk(p, f) = V(N)
  BY TreeCount DEF TreeWalk, TreeWalkFor
<1>. HIDE DEF u, N
<1>3. /\ u[0] = {f}
      /\ \A n \in 1..N : u[n] = u[n - 1] \cup {p[g] : g \in u[n - 1] \ {None}}
  <2>1. \A n \in 0..N : u[n] = IF n = 0 THEN {f}
                               ELSE LET below == u[n - 1]
                                    IN  below \cup {p[g] : g \in below \ {None}}
    BY <1>1 DEF TreeUps
  <2>2. 0 \in 0..N /\ \A n \in 1..N : n \in 0..N /\ n # 0
    BY <1>1
  <2>3. u[0] = {f}
    BY <2>1, <2>2
  <2>4. ASSUME NEW n \in 1..N PROVE u[n] = u[n - 1] \cup {p[g] : g \in u[n - 1] \ {None}}
    BY <2>1, <2>2
  <2>. QED
    BY <2>3, <2>4
<1>4. Good(0)
  <2>1. V(0) = {f} /\ f # None
    BY <1>3, TreeCount
  <2>. QED
    BY <2>1, FS_Singleton
<1>5. ASSUME NEW n \in 1..N, Good(n - 1) PROVE Good(n)
  <2>. DEFINE A == V(n - 1)
              C == V(n)
  <2>1. C = A \cup ({p[g] : g \in A} \ {None})
    BY <1>3
  <2>2. A \subseteq Items /\ f \in A
    BY <1>5
  <2>3. C \subseteq Items /\ f \in C /\ A \subseteq C
    BY <2>1, <2>2 DEF TreeParents
  <2>4. ASSUME NEW S, TreeClosed(p, S), f \in S PROVE C \subseteq S
    <3>1. A \subseteq S
      BY <1>5, <2>4
    <3>. HIDE DEF A, C
    <3>. QED
      BY <2>1, <2>4, <3>1 DEF TreeClosed
  <2>5. CASE TreeClosed(p, A)
    <3>. HIDE DEF A, C
    <3>1. C = A
      BY <2>1, <2>5 DEF TreeClosed
    <3>2. TreeClosed(p, C)
      BY <2>5, <3>1
    <3>. QED
      BY <2>3, <2>4, <3>2 DEF C
  <2>6. CASE ~TreeClosed(p, A)
    <3>1. Cardinality(A) >= (n - 1) + 1
      BY <1>5, <2>6
    <3>. HIDE DEF A, C
    <3>2. PICK g \in A : p[g] \notin A \cup {None}
      BY <2>2, <2>6 DEF TreeClosed
    <3>3. p[g] \in C
      BY <2>1, <3>2
    <3>4. IsFiniteSet(A) /\ IsFiniteSet(C) /\ Cardinality(A) \in Nat /\ Cardinality(C) \in Nat
      BY <2>2, <2>3, TreeCount, FS_Subset, FS_CardinalityType
    <3>5. Cardinality(A \cup {p[g]}) = Cardinality(A) + 1
      BY <3>2, <3>4, FS_AddElement
    <3>6. Cardinality(A \cup {p[g]}) <= Cardinality(C)
      <4>1. A \cup {p[g]} \subseteq C
        BY <2>3, <3>3
      <4>. QED
        BY <3>4, <4>1, FS_Subset
    <3>7. Cardinality(C) >= n + 1
      BY <3>1, <3>4, <3>5, <3>6
    <3>. QED
      BY <2>3, <2>4, <3>7 DEF C
  <2>. QED
    BY <2>5, <2>6
<1>6. \A n \in 0..N : Good(n)
  <2>. HIDE DEF Good
  <2>. SUFFICES ASSUME B # {} PROVE FALSE
    OBVIOUS
  <2>1. PICK k \in B : \A j \in B : k <= j
    <3>1. B \in SUBSET Nat
      OBVIOUS
    <3>. HIDE DEF B
    <3>. QED
      BY <3>1, TreeLeast
  <2>2. k \in 1..N
    BY <1>1, <1>4, <2>1
  <2>3. k - 1 \in 0..N /\ k - 1 \notin B
    BY <1>1, <2>1, <2>2
  <2>. QED
    BY <1>5, <2>1, <2>2, <2>3
<1>7. Good(N)
  <2>. HIDE DEF Good
  <2>. QED
    BY <1>1, <1>6
<1>8. TreeClosed(p, V(N))
  <2>. HIDE DEF V
  <2>1. IsFiniteSet(Items) /\ V(N) \subseteq Items
    BY <1>7, TreeCount
  <2>2. Cardinality(V(N)) \in Nat /\ Cardinality(V(N)) <= N
    BY <2>1, FS_Subset, FS_CardinalityType DEF N
  <2>. QED
    BY <1>1, <1>7, <2>2
<1>. QED
  BY <1>2, <1>7, <1>8 DEF TreeIsAbove

(***************************************************************************)
(* What follows for walks: from a folder above, from the parent, after a   *)
(* change of the parents.                                                  *)
(***************************************************************************)
LEMMA TreeHigher ==
  ASSUME NEW p \in TreeParents, NEW f \in Items, NEW g \in TreeWalk(p, f)
  PROVE  g \in Items /\ TreeWalk(p, g) \subseteq TreeWalk(p, f)
<1>1. TreeClosed(p, TreeWalk(p, f)) /\ g \in Items
  BY TreeWalked DEF TreeIsAbove, TreeClosed
<1>. QED
  BY <1>1, TreeWalked DEF TreeIsAbove

LEMMA TreeUp ==
  ASSUME NEW p \in TreeParents, NEW f \in Items
  PROVE  /\ p[f] = None => TreeWalk(p, f) = {f}
         /\ p[f] # None => p[f] \in Items /\ TreeWalk(p, f) = {f} \cup TreeWalk(p, p[f])
<1>1. TreeIsAbove(p, f, TreeWalk(p, f))
  BY TreeWalked
<1>2. ASSUME p[f] = None PROVE TreeWalk(p, f) = {f}
  <2>1. TreeClosed(p, {f})
    BY <1>2 DEF TreeClosed
  <2>. QED
    BY <1>1, <2>1 DEF TreeIsAbove
<1>3. ASSUME p[f] # None PROVE p[f] \in Items /\ TreeWalk(p, f) = {f} \cup TreeWalk(p, p[f])
  <2>1. p[f] \in Items
    BY <1>3 DEF TreeParents
  <2>2. TreeIsAbove(p, p[f], TreeWalk(p, p[f]))
    BY <2>1, TreeWalked
  <2>3. TreeClosed(p, {f} \cup TreeWalk(p, p[f]))
    BY <2>2 DEF TreeIsAbove, TreeClosed
  <2>4. p[f] \in TreeWalk(p, f)
    BY <1>1, <1>3 DEF TreeIsAbove, TreeClosed
  <2>5. TreeWalk(p, p[f]) \subseteq TreeWalk(p, f)
    BY <2>4, TreeHigher
  <2>. QED
    BY <1>1, <2>1, <2>3, <2>5 DEF TreeIsAbove
<1>. QED
  BY <1>2, <1>3

LEMMA TreeSame ==
  ASSUME NEW p \in TreeParents, NEW q \in TreeParents, NEW f \in Items,
         \A g \in TreeWalk(p, f) : q[g] = p[g]
  PROVE  TreeWalk(q, f) = TreeWalk(p, f)
<1>1. TreeIsAbove(p, f, TreeWalk(p, f)) /\ TreeIsAbove(q, f, TreeWalk(q, f))
  BY TreeWalked
<1>2. TreeClosed(q, TreeWalk(p, f))
  BY <1>1 DEF TreeIsAbove, TreeClosed
<1>3. TreeWalk(q, f) \subseteq TreeWalk(p, f)
  BY <1>1, <1>2 DEF TreeIsAbove
<1>4. TreeClosed(p, TreeWalk(q, f))
  BY <1>1, <1>3 DEF TreeIsAbove, TreeClosed
<1>. QED
  BY <1>1, <1>3, <1>4 DEF TreeIsAbove

(* A walk passes z or never comes back to it: the folders of a walk that   *)
(* still have z above them have their parents among them, but for z.       *)
LEMMA TreePasses ==
  ASSUME NEW p \in TreeParents, NEW f \in Items, NEW z \in TreeWalk(p, f),
         p[z] = None \/ z \in TreeWalk(p, p[z])
  PROVE  \A g \in TreeWalk(p, f) : z \in TreeWalk(p, g)
<1>. DEFINE C == {g \in TreeWalk(p, f) : z \in TreeWalk(p, g)}
<1>1. TreeIsAbove(p, f, TreeWalk(p, f))
  BY TreeWalked
<1>2. f \in C
  BY <1>1 DEF TreeIsAbove
<1>3. ASSUME NEW g \in C PROVE p[g] \in C \cup {None}
  <2>1. CASE p[g] = None
    BY <2>1
  <2>2. CASE p[g] # None
    <3>1. g \in Items /\ p[g] \in TreeWalk(p, f)
      BY <1>1, <2>2 DEF TreeIsAbove, TreeClosed
    <3>2. TreeWalk(p, g) = {g} \cup TreeWalk(p, p[g])
      BY <2>2, <3>1, TreeUp
    <3>3. z \in TreeWalk(p, p[g])
      BY <2>2, <3>2
    <3>. QED
      BY <3>1, <3>3
  <2>. QED
    BY <2>1, <2>2
<1>4. TreeClosed(p, C)
  BY <1>1, <1>3 DEF TreeIsAbove, TreeClosed
<1>. QED
  BY <1>1, <1>2, <1>4 DEF TreeIsAbove

LEMMA TreeOneTop ==
  ASSUME NEW p \in TreeParents, NEW f \in Items,
         NEW g \in TreeWalk(p, f), NEW h \in TreeWalk(p, f), p[g] = None, p[h] = None
  PROVE  g = h
<1>1. g \in TreeWalk(p, h) /\ h \in Items
  BY TreePasses, TreeHigher
<1>. QED
  BY <1>1, TreeUp

LEMMA TreeNoLoop ==
  ASSUME NEW p \in TreeParents, NEW f \in Items, p[f] # None,
         NEW h \in TreeWalk(p, f), p[h] = None
  PROVE  f \notin TreeWalk(p, p[f])
<1>1. SUFFICES ASSUME f \in TreeWalk(p, p[f]) PROVE FALSE
  OBVIOUS
<1>2. f \in TreeWalk(p, f)
  BY TreeWalked DEF TreeIsAbove
<1>3. f \in TreeWalk(p, h) /\ h \in Items
  BY <1>1, <1>2, TreePasses, TreeHigher
<1>. QED
  BY <1>3, TreeUp

LEMMA TreeMoved ==
  ASSUME NEW p \in TreeParents, NEW m \in Items, NEW d \in Items \cup {None},
         NEW q \in TreeParents, q[m] = d, \A x \in Items : x # m => q[x] = p[x],
         NEW f \in Items
  PROVE  /\ m \notin TreeWalk(p, f) => TreeWalk(q, f) = TreeWalk(p, f)
         /\ m \in TreeWalk(p, f) => m \in TreeWalk(q, f)
         /\ m \in TreeWalk(p, f) /\ d # None /\ m \notin TreeWalk(p, d)
              => TreeWalk(p, d) \subseteq TreeWalk(q, f)
<1>2. ASSUME NEW g \in Items, m \notin TreeWalk(p, g) PROVE TreeWalk(q, g) = TreeWalk(p, g)
  <2>1. \A x \in TreeWalk(p, g) : q[x] = p[x]
    BY <1>2, TreeWalked DEF TreeIsAbove, TreeClosed
  <2>. QED
    BY <2>1, TreeSame
<1>3. ASSUME m \in TreeWalk(p, f) PROVE m \in TreeWalk(q, f)
  <2>1. SUFFICES ASSUME m \notin TreeWalk(q, f) PROVE FALSE
    OBVIOUS
  <2>2. \A x \in TreeWalk(q, f) : p[x] = q[x]
    BY <2>1, TreeWalked DEF TreeIsAbove, TreeClosed
  <2>3. TreeWalk(p, f) = TreeWalk(q, f)
    BY <2>2, TreeSame
  <2>. QED
    BY <1>3, <2>1, <2>3
<1>4. ASSUME m \in TreeWalk(p, f), d # None, m \notin TreeWalk(p, d)
      PROVE  TreeWalk(p, d) \subseteq TreeWalk(q, f)
  <2>1. d \in TreeWalk(q, f)
    <3>1. TreeClosed(q, TreeWalk(q, f)) /\ m \in TreeWalk(q, f)
      BY <1>3, <1>4, TreeWalked DEF TreeIsAbove
    <3>. QED
      BY <1>4, <3>1 DEF TreeClosed
  <2>2. TreeWalk(q, d) \subseteq TreeWalk(q, f) /\ d \in Items
    BY <2>1, TreeHigher
  <2>. QED
    BY <1>2, <1>4, <2>2
<1>. QED
  BY <1>2, <1>3, <1>4

(***************************************************************************)
(* The invariant.  A parent is a row; the id of a folder to be created is  *)
(* in no other request's hands; what a request has read stays true until   *)
(* it writes, unless it is late; and a folder's root_folder_id is a top of *)
(* its tree, if nothing exempts it.                                        *)
(***************************************************************************)
TreeTasks ==
  [pc : {"idle", "insert", "parent", "look", "root", "restore"},
   folder : Items \cup {None}, dest : Items \cup {None},
   root : Items \cup {None}, late : BOOLEAN]

TreeLinked ==
  \A f \in Items : /\ treeParent[f] \in Tree!Rows \cup {None}
                   /\ f \notin Tree!Rows => treeParent[f] = None

TreeFresh ==
  \A r, q \in Requests :
    r # q /\ treeTask[r].pc = "insert"
      => treeTask[q].folder # treeTask[r].folder /\ treeTask[q].dest # treeTask[r].folder

TreePending(r) ==
  LET t == treeTask[r] IN
  /\ t.pc # "idle" => t.folder \in Items
  /\ t.pc = "insert" => /\ t.folder \notin Tree!Rows /\ t.dest # t.folder
                        /\ t.dest = None => t.root = t.folder
                        /\ t.dest \in Tree!Rows /\ ~t.late => t.root = treeRoot[t.dest]
  /\ t.pc = "parent" /\ ~t.late /\ t.folder \in Tree!Rows /\ t.dest \in Tree!Rows
       => t.folder \notin TreeWalk(treeParent, t.dest)
  /\ t.pc \in {"look", "root"} /\ ~t.late /\ t.folder \in Tree!Rows
       => treeParent[t.folder] = t.dest
  /\ t.pc = "root" /\ ~t.late /\ t.folder \in Tree!Rows
       => t.root = IF t.dest = None THEN t.folder ELSE treeRoot[t.dest]
  /\ t.pc = "restore" => t.dest \in {t.root, None}

TreeTopped(f) ==
  \E g \in TreeWalk(treeParent, f) : treeParent[g] = None \/ g \in treeCrossed

TreeAtTop(f) == treeRoot[f] \in TreeWalk(treeParent, f) /\ treeParent[treeRoot[f]] = None

TreeExempt(f) ==
  \/ \E g \in TreeWalk(treeParent, f) : g \in treeAdrift \cup treeTorn \cup treeCrossed
  \/ \E r \in Requests : /\ treeTask[r].pc \in {"look", "root"}
                         /\ treeTask[r].folder \in TreeWalk(treeParent, f)

TreeRooted(f) == TreeAtTop(f) \/ TreeExempt(f)

TreeRows == \A f \in Tree!Rows : TreeTopped(f) /\ TreeRooted(f)

TreeInv ==
  /\ Tree!TypeOK /\ TreeLinked /\ TreeFresh
  /\ \A r \in Requests : TreePending(r)
  /\ TreeRows

LEMMA TreeTypes ==
  ASSUME TreeInv
  PROVE  /\ treeState \in [Items -> {"none", "live", "trash"}]
         /\ treeParent \in TreeParents
         /\ treeRoot \in [Items -> Items \cup {None}]
         /\ treeTask \in [Requests -> TreeTasks]
         /\ treeAdrift \subseteq Items /\ treeTorn \subseteq Items /\ treeCrossed \subseteq Items
         /\ treeChanges \in Nat
         /\ Tree!Rows \subseteq Items /\ None \notin Items
BY TreeCount DEF TreeInv, Tree!TypeOK, TreeParents, TreeTasks, Tree!Rows

LEMMA TreeInRows ==
  ASSUME TreeInv, NEW f \in Tree!Rows
  PROVE  TreeWalk(treeParent, f) \subseteq Tree!Rows
<1>1. TreeClosed(treeParent, Tree!Rows) /\ f \in Items
  BY TreeTypes DEF TreeInv, TreeLinked, TreeClosed
<1>. QED
  BY <1>1, TreeTypes, TreeWalked DEF TreeIsAbove

LEMMA TreeSelf ==
  ASSUME TreeInv, NEW f \in Items
  PROVE  f \in TreeWalk(treeParent, f) /\ TreeWalk(treeParent, f) \subseteq Items
BY TreeTypes, TreeWalked DEF TreeIsAbove, TreeClosed

LEMMA TreeBelow ==
  ASSUME NEW f
  PROVE  Tree!Subtree(f) = {g \in Tree!Rows : f \in TreeWalk(treeParent, g)}
BY TreeAbove DEF Tree!Subtree

(* How a request goes on, and what the others see of it.                   *)
TreeGoesOn(r, t) ==
  /\ treeTask' \in [Requests -> TreeTasks] /\ treeTask'[r] = t
  /\ \A q \in Requests \ {r} :
       /\ treeTask'[q].pc = treeTask[q].pc /\ treeTask'[q].folder = treeTask[q].folder
       /\ treeTask'[q].dest = treeTask[q].dest /\ treeTask'[q].root = treeTask[q].root
       /\ treeTask[q].late => treeTask'[q].late

TreeWarns(r, f) ==
  \A q \in Requests \ {r} :
    treeTask[q].pc # "idle" /\ ~treeTask'[q].late
      => f # treeTask[q].folder /\ f \notin TreeWalk(treeParent, treeTask[q].dest)

LEMMA TreeIdle == Tree!Idle \in TreeTasks /\ Tree!Idle.pc = "idle"
BY DEF Tree!Idle, TreeTasks

LEMMA TreeBecomes ==
  ASSUME TreeInv, NEW r \in Requests, NEW t \in TreeTasks, Tree!Becomes(r, t)
  PROVE  TreeGoesOn(r, t)
<1>. USE TreeTypes
<1>1. treeTask' = [treeTask EXCEPT ![r] = t]
  BY DEF Tree!Becomes
<1>. QED
  BY <1>1 DEF TreeGoesOn

LEMMA TreeLater ==
  ASSUME NEW t \in TreeTasks, NEW b \in BOOLEAN
  PROVE  LET s == [t EXCEPT !.late = @ \/ b] IN
         /\ s \in TreeTasks /\ s.pc = t.pc /\ s.folder = t.folder /\ s.dest = t.dest
         /\ s.root = t.root /\ s.late = (t.late \/ b)
BY DEF TreeTasks

LEMMA TreeCrosses ==
  ASSUME TreeInv, NEW r \in Requests, NEW t \in TreeTasks, NEW f, Tree!Crosses(r, t, f)
  PROVE  TreeGoesOn(r, t) /\ TreeWarns(r, f)
<1>. USE TreeTypes
<1>. DEFINE hit(q) == /\ treeTask[q] # Tree!Idle
                      /\ f = treeTask[q].folder \/ f \in Tree!Above(treeTask[q].dest)
            next(q) == [treeTask[q] EXCEPT !.late = @ \/ hit(q)]
<1>1. treeTask' = [q \in Requests |-> IF q = r THEN t ELSE next(q)]
  BY Zenon DEF Tree!Crosses
<1>2. ASSUME NEW q \in Requests
      PROVE  /\ next(q) \in TreeTasks /\ next(q).pc = treeTask[q].pc
             /\ next(q).folder = treeTask[q].folder /\ next(q).dest = treeTask[q].dest
             /\ next(q).root = treeTask[q].root /\ next(q).late = (treeTask[q].late \/ hit(q))
  <2>1. treeTask[q] \in TreeTasks /\ hit(q) \in BOOLEAN
    OBVIOUS
  <2>. HIDE DEF hit
  <2>. QED
    BY <2>1, TreeLater
<1>. HIDE DEF next
<1>3. treeTask' \in [Requests -> TreeTasks]
  BY <1>1, <1>2
<1>4. treeTask'[r] = t /\ \A q \in Requests \ {r} : treeTask'[q] = next(q)
  BY <1>1
<1>5. ASSUME NEW q \in Requests \ {r}, treeTask[q].pc # "idle", ~treeTask'[q].late
      PROVE  f # treeTask[q].folder /\ f \notin TreeWalk(treeParent, treeTask[q].dest)
  <2>1. ~hit(q) /\ treeTask[q] # Tree!Idle
    BY <1>2, <1>4, <1>5, TreeIdle
  <2>. QED
    BY <2>1, TreeAbove
<1>. HIDE DEF hit
<1>. QED
  BY <1>2, <1>3, <1>4, <1>5 DEF TreeGoesOn, TreeWarns

(* A step that leaves the tree alone, and no pending exemption behind.     *)
LEMMA TreeReads ==
  ASSUME TreeInv, NEW r \in Requests, NEW t \in TreeTasks, TreeGoesOn(r, t),
         UNCHANGED <<treeState, treeParent, treeRoot, treeAdrift, treeTorn, treeCrossed>>,
         treeChanges' \in Nat, TreeFresh', TreePending(r)',
         treeTask[r].pc \in {"look", "root"}
           => t.pc \in {"look", "root"} /\ t.folder = treeTask[r].folder
  PROVE  TreeInv'
<1>. USE TreeTypes
<1>1. Tree!Rows' = Tree!Rows
  BY DEF Tree!Rows
<1>2. TreeLinked' /\ Tree!TypeOK'
  BY <1>1 DEF TreeInv, TreeLinked, TreeGoesOn, Tree!TypeOK, TreeTasks, TreeParents
<1>3. ASSUME NEW f \in Tree!Rows PROVE TreeTopped(f)' /\ TreeRooted(f)'
  <2>1. TreeTopped(f) /\ TreeRooted(f)
    BY DEF TreeInv, TreeRows
  <2>2. TreeExempt(f) => TreeExempt(f)'
    BY DEF TreeExempt, TreeGoesOn
  <2>. QED
    BY <2>1, <2>2 DEF TreeTopped, TreeRooted, TreeAtTop
<1>4. ASSUME NEW q \in Requests \ {r} PROVE TreePending(q)'
  BY <1>1 DEF TreeInv, TreePending, TreeGoesOn
<1>. QED
  BY <1>1, <1>2, <1>3, <1>4 DEF TreeInv, TreeRows

LEMMA TreeFreshly ==
  ASSUME TreeInv, NEW r \in Requests, NEW t \in TreeTasks, TreeGoesOn(r, t),
         t.pc # "insert",
         t.folder \in {treeTask[r].folder, None}, t.dest \in {treeTask[r].dest, None}
  PROVE  TreeFresh'
<1>. USE TreeTypes
<1>1. \A q \in Requests : treeTask[q].pc = "insert" => treeTask[q].folder # None
  BY DEF TreeInv, TreePending
<1>. QED
  BY <1>1 DEF TreeInv, TreeFresh, TreeGoesOn

LEMMA TreeInitially == Tree!Init => TreeInv
<1>. SUFFICES ASSUME Tree!Init PROVE TreeInv
  OBVIOUS
<1>1. Tree!Rows = {}
  BY DEF Tree!Init, Tree!Rows
<1>2. Tree!TypeOK
  BY DEF Tree!Init, Tree!TypeOK, Tree!Idle
<1>3. \A r \in Requests : treeTask[r].pc = "idle"
  BY DEF Tree!Init, Tree!Idle
<1>4. TreeLinked
  BY DEF Tree!Init, TreeLinked
<1>. QED
  BY <1>1, <1>2, <1>3, <1>4 DEF TreeInv, TreePending, TreeFresh, TreeRows

LEMMA TreeReadsKeep ==
  ASSUME TreeInv, NEW r \in Requests, NEW f \in Items, NEW p \in Items \cup {None},
         Tree!CreateRead(r, f, p) \/ Tree!MoveRead(r, f, p) \/ Tree!RestoreRead(r, f)
  PROVE  TreeInv'
<1>. USE TreeTypes
<1>1. treeTask[r].pc = "idle" /\ treeChanges' \in Nat
  BY DEF Tree!CreateRead, Tree!MoveRead, Tree!RestoreRead, Tree!Idle, Tree!Change
<1>2. UNCHANGED <<treeState, treeParent, treeRoot, treeAdrift, treeTorn, treeCrossed>>
  BY DEF Tree!CreateRead, Tree!MoveRead, Tree!RestoreRead, Tree!tree, Tree!history
<1>3. Tree!Rows' = Tree!Rows
  BY <1>2 DEF Tree!Rows
<1>4. \A q \in Requests : treeTask[q].pc = "insert" => treeTask[q].folder \in Items \ Tree!Rows
  BY DEF TreeInv, TreePending
<1>5. CASE Tree!CreateRead(r, f, p)
  <2>. DEFINE t == [Tree!Idle EXCEPT !.pc = "insert", !.folder = f, !.dest = p,
                                     !.root = IF p = None THEN f ELSE treeRoot[p]]
  <2>1. /\ Tree!Becomes(r, t)
        /\ treeState[f] = "none" /\ (p = None \/ p \in Tree!Rows)
        /\ \A q \in Requests : treeTask[q].folder # f /\ treeTask[q].dest # f
    BY <1>5 DEF Tree!CreateRead
  <2>2. f \notin Tree!Rows /\ p # f
    BY <2>1 DEF Tree!Rows
  <2>3. /\ t \in TreeTasks /\ t.pc = "insert" /\ t.folder = f /\ t.dest = p
        /\ t.root = IF p = None THEN f ELSE treeRoot[p]
    <3>1. treeRoot[p] \in Items \cup {None} \/ p = None
      OBVIOUS
    <3>. QED
      BY <3>1 DEF Tree!Idle, TreeTasks
  <2>. HIDE DEF t
  <2>4. TreeGoesOn(r, t)
    BY <2>1, <2>3, TreeBecomes
  <2>5. TreeFresh'
    BY <1>4, <2>1, <2>2, <2>3, <2>4 DEF TreeInv, TreeFresh, TreeGoesOn
  <2>6. TreePending(r)'
    BY <1>2, <1>3, <2>1, <2>2, <2>3, <2>4 DEF TreePending, TreeGoesOn
  <2>. QED
    BY <1>1, <1>2, <2>3, <2>4, <2>5, <2>6, TreeReads
<1>6. CASE Tree!MoveRead(r, f, p)
  <2>. DEFINE t == [Tree!Idle EXCEPT !.pc = "parent", !.folder = f, !.dest = p]
  <2>1. /\ Tree!Becomes(r, t)
        /\ p = None \/ f \notin TreeWalk(treeParent, p)
        /\ f \in Tree!Rows /\ p \in Tree!Rows \cup {None}
    BY <1>6, TreeAbove, Zenon DEF Tree!MoveRead, Tree!Descends
  <2>3. t \in TreeTasks /\ t.pc = "parent" /\ t.folder = f /\ t.dest = p
    BY DEF Tree!Idle, TreeTasks
  <2>. HIDE DEF t
  <2>4. TreeGoesOn(r, t)
    BY <2>1, <2>3, TreeBecomes
  <2>5. TreeFresh'
    BY <1>4, <2>1, <2>3, <2>4 DEF TreeInv, TreeFresh, TreeGoesOn
  <2>6. TreePending(r)'
    BY <1>2, <1>3, <2>1, <2>3, <2>4 DEF TreePending, TreeGoesOn
  <2>. QED
    BY <1>1, <1>2, <2>3, <2>4, <2>5, <2>6, TreeReads
<1>7. CASE Tree!RestoreRead(r, f)
  <2>. DEFINE d == IF treeParent[f] # None /\ treeState[treeParent[f]] = "live"
                   THEN treeParent[f] ELSE None
              t == [Tree!Idle EXCEPT !.pc = "restore", !.folder = f, !.dest = d,
                                     !.root = treeParent[f]]
  <2>1. Tree!Becomes(r, t) /\ treeState[f] = "trash"
    BY <1>7, Zenon DEF Tree!RestoreRead
  <2>2. treeParent[f] \in Tree!Rows \cup {None} /\ f \in Tree!Rows
    BY <2>1 DEF TreeInv, TreeLinked, Tree!Rows
  <2>3. /\ t \in TreeTasks /\ t.pc = "restore" /\ t.folder = f
        /\ t.dest \in {t.root, None} /\ t.dest \in Tree!Rows \cup {None}
    BY <2>2 DEF Tree!Idle, TreeTasks
  <2>. HIDE DEF t
  <2>4. TreeGoesOn(r, t)
    BY <2>1, <2>3, TreeBecomes
  <2>5. TreeFresh'
    BY <1>4, <2>2, <2>3, <2>4 DEF TreeInv, TreeFresh, TreeGoesOn
  <2>6. TreePending(r)'
    BY <1>2, <1>3, <2>3, <2>4 DEF TreePending, TreeGoesOn
  <2>. QED
    BY <1>1, <1>2, <2>3, <2>4, <2>5, <2>6, TreeReads
<1>. QED
  BY <1>5, <1>6, <1>7

LEMMA TreeInsert ==
  ASSUME TreeInv, NEW r \in Requests, Tree!Insert(r) PROVE TreeInv'
<1>0. PICK t : t = treeTask[r]
  OBVIOUS
<1>. DEFINE f == t.folder
            d == t.dest
<1>. USE TreeTypes
<1>1. /\ TreeGoesOn(r, Tree!Idle) /\ t.pc = "insert"
      /\ UNCHANGED <<treeAdrift, treeTorn, treeChanges>>
  BY <1>0, TreeIdle, TreeBecomes DEF Tree!Insert
<1>2. treeTask'[r].pc = "idle" /\ TreeFresh'
  <2>1. Tree!Idle.folder = None /\ Tree!Idle.dest = None
    BY DEF Tree!Idle
  <2>. QED
    BY <1>1, <2>1, TreeIdle, TreeFreshly DEF TreeGoesOn
<1>3. /\ f \in Items \ Tree!Rows /\ d # f
      /\ d = None => t.root = f
      /\ d \in Tree!Rows /\ ~t.late => t.root = treeRoot[d]
      /\ d \in Items \cup {None} /\ t.root \in Items \cup {None}
      /\ \A q \in Requests \ {r} : treeTask[q].folder # f /\ treeTask[q].dest # f
  BY <1>0, <1>1 DEF TreeInv, TreePending, TreeFresh, TreeTasks
<1>4. CASE {d, t.root} \subseteq Tree!Rows \cup {None, f}
  <2>1. /\ treeState' = [treeState EXCEPT ![f] = "live"]
        /\ treeParent' = [treeParent EXCEPT ![f] = d]
        /\ treeRoot' = [treeRoot EXCEPT ![f] = t.root]
        /\ treeCrossed' = IF t.late THEN treeCrossed \cup {f} ELSE treeCrossed
    BY <1>0, <1>4 DEF Tree!Insert
  <2>. HIDE DEF f, d
  <2>2. Tree!TypeOK'
    BY <1>1, <1>3, <2>1 DEF Tree!TypeOK, TreeParents, TreeGoesOn, TreeTasks
  <2>3. Tree!Rows' = Tree!Rows \cup {f}
    BY <1>3, <2>1 DEF Tree!Rows
  <2>4. TreeLinked'
    BY <1>3, <1>4, <2>1, <2>3 DEF TreeInv, TreeLinked, TreeParents
  <2>5. treeParent' \in TreeParents
    BY <1>3, <2>1 DEF TreeParents
  <2>6. ASSUME NEW g \in Tree!Rows
        PROVE  /\ TreeWalk(treeParent', g) = TreeWalk(treeParent, g)
               /\ \A x \in TreeWalk(treeParent, g) : treeParent'[x] = treeParent[x]
               /\ treeRoot'[g] = treeRoot[g] /\ treeParent'[g] = treeParent[g]
    <3>1. TreeWalk(treeParent, g) \subseteq Tree!Rows
      BY TreeInRows
    <3>2. \A x \in TreeWalk(treeParent, g) : treeParent'[x] = treeParent[x]
      BY <1>3, <2>1, <3>1 DEF TreeParents
    <3>3. g # f /\ treeRoot'[g] = treeRoot[g] /\ treeParent'[g] = treeParent[g]
      BY <1>3, <2>1 DEF TreeParents
    <3>4. TreeWalk(treeParent', g) = TreeWalk(treeParent, g)
      BY <2>5, <3>2, TreeSame
    <3>. QED
      BY <3>2, <3>3, <3>4
  <2>7. ASSUME NEW g \in Tree!Rows
        PROVE  TreeTopped(g)' /\ (TreeAtTop(g) => TreeAtTop(g)') /\ (TreeExempt(g) => TreeExempt(g)')
    <3>1. TreeTopped(g)
      BY DEF TreeInv, TreeRows
    <3>2. TreeExempt(g) => TreeExempt(g)'
      BY <1>0, <1>1, <2>1, <2>6 DEF TreeExempt, TreeGoesOn
    <3>. QED
      BY <2>1, <2>6, <3>1, <3>2 DEF TreeTopped, TreeAtTop
  <2>8. treeParent'[f] = d /\ treeRoot'[f] = t.root
    BY <1>3, <2>1 DEF TreeParents
  <2>9. TreeTopped(f)' /\ TreeRooted(f)'
    <3>0. f \in TreeWalk(treeParent', f)
      BY <1>3, <2>5, TreeWalked DEF TreeIsAbove
    <3>1. CASE d = None
      BY <1>3, <2>8, <3>0, <3>1 DEF TreeTopped, TreeRooted, TreeAtTop
    <3>2. CASE d # None
      <4>1. d \in Tree!Rows
        BY <1>3, <1>4, <3>2
      <4>2. TreeWalk(treeParent', f) = {f} \cup TreeWalk(treeParent', d)
        BY <1>3, <2>5, <2>8, <3>2, TreeUp
      <4>3. TreeTopped(d)' /\ TreeTopped(f)'
        BY <2>7, <4>1, <4>2 DEF TreeTopped
      <4>4. CASE t.late
        BY <2>1, <3>0, <4>3, <4>4 DEF TreeRooted, TreeExempt
      <4>5. CASE ~t.late
        <5>1. TreeRooted(d)' /\ treeRoot'[d] = treeRoot[d] /\ t.root = treeRoot[d]
          BY <1>3, <2>6, <2>7, <4>1, <4>5 DEF TreeInv, TreeRows, TreeRooted
        <5>2. TreeAtTop(d)' => TreeAtTop(f)'
          BY <2>8, <4>2, <5>1 DEF TreeAtTop
        <5>3. TreeExempt(d)' => TreeExempt(f)'
          BY <4>2 DEF TreeExempt
        <5>. QED
          BY <4>3, <5>1, <5>2, <5>3 DEF TreeRooted
      <4>. QED
        BY <4>4, <4>5
    <3>. QED
      BY <3>1, <3>2
  <2>10. TreeRows'
    <3>1. ASSUME NEW g \in Tree!Rows PROVE TreeTopped(g)' /\ TreeRooted(g)'
      BY <2>7 DEF TreeInv, TreeRows, TreeRooted
    <3>. QED
      BY <2>3, <2>9, <3>1 DEF TreeRows
  <2>11. ASSUME NEW q \in Requests PROVE TreePending(q)'
    <3>1. CASE q = r
      BY <1>2, <3>1 DEF TreePending
    <3>2. CASE q # r
      <4>1. TreePending(q) /\ treeTask[q].folder # f /\ treeTask[q].dest # f
        BY <1>3, <3>2 DEF TreeInv
      <4>. QED
        BY <1>1, <2>3, <2>6, <3>2, <4>1 DEF TreePending, TreeGoesOn, TreeInv, TreeLinked
    <3>. QED
      BY <3>1, <3>2
  <2>. QED
    BY <1>2, <2>2, <2>4, <2>10, <2>11 DEF TreeInv
<1>5. CASE ~({d, t.root} \subseteq Tree!Rows \cup {None, f})
  <2>1. UNCHANGED <<treeState, treeParent, treeRoot, treeCrossed>>
    BY <1>0, <1>5 DEF Tree!Insert, Tree!tree
  <2>2. TreePending(r)'
    BY <1>2 DEF TreePending
  <2>. QED
    BY <1>0, <1>1, <1>2, <2>1, <2>2, TreeIdle, TreeReads
<1>. QED
  BY <1>4, <1>5

LEMMA TreeMoveParent ==
  ASSUME TreeInv, NEW r \in Requests, Tree!MoveParent(r) PROVE TreeInv'
<1>0. PICK t : t = treeTask[r]
  OBVIOUS
<1>. DEFINE f == t.folder
            d == t.dest
            s == [t EXCEPT !.pc = "look", !.late = FALSE]
<1>. USE TreeTypes
<1>1. t.pc = "parent" /\ UNCHANGED <<treeState, treeRoot, treeAdrift, treeTorn, treeChanges>>
  BY <1>0 DEF Tree!MoveParent
<1>2. /\ f \in Items /\ d \in Items \cup {None} /\ t \in TreeTasks
      /\ ~t.late /\ f \in Tree!Rows /\ d \in Tree!Rows => f \notin TreeWalk(treeParent, d)
  BY <1>0, <1>1 DEF TreeInv, TreePending, TreeTasks
<1>3. Tree!Rows' = Tree!Rows
  BY <1>1 DEF Tree!Rows
<1>4. CASE f \in Tree!Rows /\ d \in Tree!Rows \cup {None}
  <2>1. /\ treeParent' = [treeParent EXCEPT ![f] = d]
        /\ treeCrossed' = IF t.late THEN treeCrossed \cup {f} ELSE treeCrossed \ {f}
        /\ Tree!Crosses(r, s, f)
    BY <1>0, <1>4 DEF Tree!MoveParent
  <2>2. /\ s \in TreeTasks /\ s.pc = "look" /\ ~s.late /\ s.folder = f /\ s.dest = d
    BY <1>2 DEF TreeTasks
  <2>. HIDE DEF f, d, s
  <2>3. TreeGoesOn(r, s) /\ TreeWarns(r, f)
    BY <2>1, <2>2, TreeCrosses
  <2>4. Tree!TypeOK'
    BY <1>1, <1>2, <2>1, <2>3 DEF Tree!TypeOK, TreeParents, TreeGoesOn, TreeTasks
  <2>5. TreeLinked'
    BY <1>2, <1>3, <1>4, <2>1 DEF TreeInv, TreeLinked, TreeParents
  <2>6. treeParent' \in TreeParents
    BY <1>2, <2>1 DEF TreeParents
  <2>7. treeParent'[f] = d /\ \A x \in Items : x # f => treeParent'[x] = treeParent[x]
    BY <1>2, <2>1 DEF TreeParents
  <2>8. TreeFresh'
    <3>1. s.folder = treeTask[r].folder /\ s.dest = treeTask[r].dest
      BY <1>0, <2>2 DEF f, d
    <3>. QED
      BY <2>2, <2>3, <3>1, TreeFreshly
  <2>9. ASSUME NEW g \in Items
        PROVE  /\ f \notin TreeWalk(treeParent, g)
                    => TreeWalk(treeParent', g) = TreeWalk(treeParent, g)
               /\ f \in TreeWalk(treeParent, g)
                    => /\ f \in TreeWalk(treeParent', g)
                       /\ d # None /\ f \notin TreeWalk(treeParent, d)
                            => TreeWalk(treeParent, d) \subseteq TreeWalk(treeParent', g)
    BY <1>2, <2>6, <2>7, TreeMoved
  <2>10. ASSUME NEW g \in Tree!Rows PROVE TreeTopped(g)' /\ TreeRooted(g)'
    <3>1. CASE f \notin TreeWalk(treeParent, g)
      <4>1. TreeTopped(g) /\ TreeRooted(g)
        BY DEF TreeInv, TreeRows
      <4>2. \A x \in TreeWalk(treeParent, g) :
              treeParent'[x] = treeParent[x] /\ (x \in treeCrossed => x \in treeCrossed')
        BY <2>1, <2>7, <3>1, TreeSelf
      <4>3. TreeWalk(treeParent', g) = TreeWalk(treeParent, g)
        BY <2>9, <3>1
      <4>4. TreeTopped(g)'
        BY <4>1, <4>2, <4>3 DEF TreeTopped
      <4>5. TreeAtTop(g) => TreeAtTop(g)'
        BY <1>1, <4>2, <4>3 DEF TreeAtTop
      <4>6. TreeExempt(g) => TreeExempt(g)'
        BY <1>0, <1>1, <2>3, <4>2, <4>3 DEF TreeExempt, TreeGoesOn
      <4>. QED
        BY <4>1, <4>4, <4>5, <4>6 DEF TreeRooted
    <3>2. CASE f \in TreeWalk(treeParent, g)
      <4>1. f \in TreeWalk(treeParent', g)
        BY <2>9, <3>2
      <4>2. TreeRooted(g)'
        BY <2>2, <2>3, <4>1 DEF TreeRooted, TreeExempt, TreeGoesOn
      <4>3. CASE d = None
        BY <2>7, <4>1, <4>2, <4>3 DEF TreeTopped
      <4>4. CASE t.late
        BY <2>1, <4>1, <4>2, <4>4 DEF TreeTopped
      <4>5. CASE d # None /\ ~t.late
        <5>1. d \in Tree!Rows /\ f \notin TreeWalk(treeParent, d)
          BY <1>2, <1>4, <4>5
        <5>2. PICK h \in TreeWalk(treeParent, d) : treeParent[h] = None \/ h \in treeCrossed
          BY <5>1 DEF TreeInv, TreeRows, TreeTopped
        <5>3. h # f /\ h \in Items
          BY <5>1, <5>2, TreeSelf
        <5>4. h \in TreeWalk(treeParent', g)
          BY <2>9, <3>2, <4>5, <5>1, <5>2
        <5>5. treeParent'[h] = None \/ h \in treeCrossed'
          BY <2>1, <2>7, <5>2, <5>3
        <5>. QED
          BY <4>2, <5>4, <5>5 DEF TreeTopped
      <4>. QED
        BY <4>3, <4>4, <4>5
    <3>. QED
      BY <3>1, <3>2
  <2>11. ASSUME NEW q \in Requests PROVE TreePending(q)'
    <3>1. CASE q = r
      BY <1>2, <1>3, <2>2, <2>3, <2>7, <3>1 DEF TreePending, TreeGoesOn
    <3>2. CASE q # r
      <4>1. TreePending(q) /\ treeTask[q] \in TreeTasks
        BY DEF TreeInv
      <4>2. CASE treeTask'[q].late
        BY <1>1, <1>3, <2>3, <3>2, <4>1, <4>2 DEF TreePending, TreeGoesOn
      <4>3. CASE ~treeTask'[q].late /\ treeTask[q].pc # "idle"
        <5>1. f # treeTask[q].folder /\ f \notin TreeWalk(treeParent, treeTask[q].dest)
          BY <2>3, <3>2, <4>3 DEF TreeWarns
        <5>2. \A x \in Items : treeTask[q].dest = x
                => TreeWalk(treeParent', x) = TreeWalk(treeParent, x)
          BY <2>9, <5>1
        <5>3. treeTask[q].folder \in Items
                => treeParent'[treeTask[q].folder] = treeParent[treeTask[q].folder]
          BY <2>7, <5>1
        <5>. QED
          BY <1>1, <1>3, <2>3, <3>2, <4>1, <4>3, <5>2, <5>3 DEF TreePending, TreeGoesOn
      <4>4. CASE treeTask[q].pc = "idle"
        BY <2>3, <3>2, <4>4 DEF TreePending, TreeGoesOn
      <4>. QED
        BY <4>2, <4>3, <4>4
    <3>. QED
      BY <3>1, <3>2
  <2>. QED
    BY <1>3, <2>4, <2>5, <2>8, <2>10, <2>11 DEF TreeInv, TreeRows
<1>5. CASE ~(f \in Tree!Rows /\ d \in Tree!Rows \cup {None})
  <2>1. UNCHANGED <<treeParent, treeCrossed>> /\ TreeGoesOn(r, Tree!Idle)
    BY <1>0, <1>5, TreeIdle, TreeBecomes DEF Tree!MoveParent
  <2>2. TreePending(r)' /\ TreeFresh'
    <3>1. Tree!Idle.folder = None /\ Tree!Idle.dest = None
      BY DEF Tree!Idle
    <3>2. TreeFresh'
      BY <2>1, <3>1, TreeIdle, TreeFreshly
    <3>. QED
      BY <2>1, <3>2, TreeIdle DEF TreePending, TreeGoesOn
  <2>. QED
    BY <1>0, <1>1, <2>1, <2>2, TreeIdle, TreeReads
<1>. QED
  BY <1>4, <1>5

LEMMA TreeMoveLook ==
  ASSUME TreeInv, NEW r \in Requests, Tree!MoveLook(r) PROVE TreeInv'
<1>0. PICK t : t = treeTask[r]
  OBVIOUS
<1>. DEFINE new == IF t.dest = None THEN t.folder
                   ELSE IF t.dest \in Tree!Rows THEN treeRoot[t.dest] ELSE t.dest
            s == [t EXCEPT !.pc = "root", !.root = new]
<1>. USE TreeTypes
<1>1. /\ t.pc = "look" /\ Tree!Becomes(r, s)
      /\ UNCHANGED <<treeState, treeParent, treeRoot, treeAdrift, treeTorn, treeCrossed, treeChanges>>
  BY <1>0 DEF Tree!MoveLook, Tree!tree, Tree!history
<1>2. new \in Items \cup {None} /\ t \in TreeTasks
  BY <1>0 DEF TreeTasks
<1>. HIDE DEF new
<1>3. /\ s \in TreeTasks /\ s.pc = "root" /\ s.folder = t.folder /\ s.dest = t.dest
      /\ s.root = new /\ s.late = t.late
  BY <1>2 DEF TreeTasks
<1>. HIDE DEF s
<1>4. TreeGoesOn(r, s) /\ TreeFresh'
  BY <1>0, <1>1, <1>3, TreeBecomes, TreeFreshly
<1>5. Tree!Rows' = Tree!Rows
  BY <1>1 DEF Tree!Rows
<1>6. TreePending(r)'
  <2>1. /\ t.folder \in Items
        /\ ~t.late /\ t.folder \in Tree!Rows
             => treeParent[t.folder] = t.dest /\ t.dest \in Tree!Rows \cup {None}
    BY <1>0, <1>1 DEF TreeInv, TreePending, TreeLinked
  <2>. QED
    BY <1>1, <1>3, <1>4, <1>5, <2>1 DEF TreePending, TreeGoesOn, new
<1>. QED
  BY <1>0, <1>1, <1>3, <1>4, <1>6, TreeReads

(* The cascade writes one root to the whole subtree: the one its           *)
(* destination has, or the folder itself.  What exempts the destination is *)
(* above it, and so not in the subtree.                                    *)
LEMMA TreeMoveRoot ==
  ASSUME TreeInv, NEW r \in Requests, Tree!MoveRoot(r) PROVE TreeInv'
<1>0. PICK t : t = treeTask[r]
  OBVIOUS
<1>. DEFINE f == t.folder
            d == t.dest
            sub == {g \in Tree!Rows : f \in TreeWalk(treeParent, g)}
<1>. USE TreeTypes
<1>1. t.pc = "root" /\ t \in TreeTasks /\ UNCHANGED <<treeState, treeParent, treeChanges>>
  BY <1>0 DEF Tree!MoveRoot
<1>2. TreeGoesOn(r, Tree!Idle)
  BY TreeIdle, TreeBecomes, TreeCrosses DEF Tree!MoveRoot
<1>3. treeTask'[r].pc = "idle" /\ TreeFresh'
  <2>1. Tree!Idle.folder = None /\ Tree!Idle.dest = None
    BY DEF Tree!Idle
  <2>. QED
    BY <1>2, <2>1, TreeIdle, TreeFreshly DEF TreeGoesOn
<1>4. /\ f \in Items /\ d \in Items \cup {None} /\ t.root \in Items \cup {None}
      /\ f \in Tree!Rows /\ ~t.late
           => treeParent[f] = d /\ t.root = IF d = None THEN f ELSE treeRoot[d]
      /\ treeParent[f] # None => f \notin TreeWalk(treeParent, treeParent[f])
  <2>1. treeParent[f] # None => f \notin TreeWalk(treeParent, treeParent[f])
    BY <1>0, TreeAbove DEF Tree!MoveRoot, Tree!OnCycle
  <2>. QED
    BY <1>0, <1>1, <2>1 DEF TreeInv, TreePending, TreeTasks
<1>5. Tree!Rows' = Tree!Rows /\ TreeLinked'
  BY <1>1 DEF TreeInv, TreeLinked, Tree!Rows
<1>6. Tree!Subtree(f) = sub
  BY TreeBelow
<1>7. CASE sub = {} \/ t.root \in Tree!Rows
  <2>1. /\ treeRoot' = [g \in Items |-> IF g \in sub THEN t.root ELSE treeRoot[g]]
        /\ treeAdrift' = IF t.late THEN treeAdrift ELSE treeAdrift \ sub
        /\ treeTorn' = IF t.late THEN treeTorn ELSE treeTorn \ sub
        /\ treeCrossed' = IF t.late THEN treeCrossed \cup ({f} \cap Tree!Rows)
                                    ELSE treeCrossed \ sub
        /\ Tree!Crosses(r, Tree!Idle, f)
    BY <1>0, <1>6, <1>7 DEF Tree!MoveRoot, Tree!Cascade
  <2>2. TreeWarns(r, f)
    BY <2>1, TreeIdle, TreeCrosses
  <2>3. \A g \in Items : g \in sub <=> g \in Tree!Rows /\ f \in TreeWalk(treeParent, g)
    OBVIOUS
  <2>. HIDE DEF f, d, sub
  <2>4. Tree!TypeOK'
    BY <1>1, <1>2, <1>4, <2>1 DEF Tree!TypeOK, TreeParents, TreeGoesOn, TreeTasks
  <2>5. ASSUME NEW g \in Tree!Rows PROVE TreeTopped(g)' /\ TreeRooted(g)'
    <3>0. TreeTopped(g) /\ TreeRooted(g) /\ g \in Items
      BY DEF TreeInv, TreeRows
    <3>1. CASE f \notin TreeWalk(treeParent, g)
      <4>1. treeRoot'[g] = treeRoot[g]
        BY <2>1, <2>3, <3>1
      <4>2. \A x \in TreeWalk(treeParent, g) : x \notin sub
        BY <2>3, <3>1, TreeHigher
      <4>3. TreeTopped(g)'
        BY <1>1, <2>1, <3>0, <4>2 DEF TreeTopped
      <4>4. TreeAtTop(g) => TreeAtTop(g)'
        BY <1>1, <4>1 DEF TreeAtTop
      <4>5. TreeExempt(g) => TreeExempt(g)'
        BY <1>0, <1>1, <1>2, <2>1, <3>1, <4>2 DEF TreeExempt, TreeGoesOn, f
      <4>. QED
        BY <3>0, <4>3, <4>4, <4>5 DEF TreeRooted
    <3>2. CASE f \in TreeWalk(treeParent, g) /\ t.late
      <4>1. f \in treeCrossed'
        BY <2>1, <3>2, TreeInRows
      <4>. QED
        BY <1>1, <3>2, <4>1 DEF TreeTopped, TreeRooted, TreeExempt
    <3>3. CASE f \in TreeWalk(treeParent, g) /\ ~t.late
      <4>1. f \in Tree!Rows /\ treeParent[f] = d /\ d \in Tree!Rows \cup {None}
        <5>1. f \in Tree!Rows
          BY <3>3, TreeInRows
        <5>. QED
          BY <1>4, <3>3, <5>1 DEF TreeInv, TreeLinked
      <4>2. treeRoot'[g] = t.root
        BY <2>1, <2>3, <3>3
      <4>3. CASE d = None
        BY <1>1, <1>4, <3>3, <4>1, <4>2, <4>3 DEF TreeTopped, TreeRooted, TreeAtTop
      <4>4. CASE d # None
        <5>1. d \in Tree!Rows /\ d \in Items /\ t.root = treeRoot[d]
          BY <1>4, <3>3, <4>1, <4>4
        <5>2. TreeWalk(treeParent, d) \subseteq TreeWalk(treeParent, g)
          <6>1. TreeWalk(treeParent, f) \subseteq TreeWalk(treeParent, g)
            BY <3>3, TreeHigher
          <6>2. TreeWalk(treeParent, f) = {f} \cup TreeWalk(treeParent, d)
            BY <1>4, <4>1, <4>4, TreeUp
          <6>. QED
            BY <6>1, <6>2
        <5>3. f \notin TreeWalk(treeParent, d)
          BY <1>4, <4>1, <4>4
        <5>4. \A x \in TreeWalk(treeParent, d) : x \notin sub
          BY <2>3, <5>1, <5>3, TreeHigher
        <5>5. TreeTopped(d) /\ TreeRooted(d)
          BY <5>1 DEF TreeInv, TreeRows
        <5>6. TreeTopped(g)'
          BY <1>1, <2>1, <5>2, <5>4, <5>5 DEF TreeTopped
        <5>7. TreeAtTop(d) => TreeAtTop(g)'
          BY <1>1, <4>2, <5>1, <5>2 DEF TreeAtTop
        <5>8. TreeExempt(d) => TreeExempt(g)'
          BY <1>0, <1>1, <1>2, <2>1, <5>2, <5>3, <5>4 DEF TreeExempt, TreeGoesOn, f
        <5>. QED
          BY <5>5, <5>6, <5>7, <5>8 DEF TreeRooted
      <4>. QED
        BY <4>3, <4>4
    <3>. QED
      BY <3>1, <3>2, <3>3
  <2>6. ASSUME NEW q \in Requests PROVE TreePending(q)'
    <3>1. CASE q = r
      BY <1>3, <3>1 DEF TreePending
    <3>2. CASE q # r
      <4>1. TreePending(q) /\ treeTask[q] \in TreeTasks
        BY DEF TreeInv
      <4>2. CASE treeTask'[q].late
        BY <1>1, <1>2, <1>5, <3>2, <4>1, <4>2 DEF TreePending, TreeGoesOn
      <4>3. CASE ~treeTask'[q].late /\ treeTask[q].pc # "idle"
        <5>1. f \notin TreeWalk(treeParent, treeTask[q].dest)
          BY <2>2, <3>2, <4>3 DEF TreeWarns
        <5>2. treeTask[q].dest \in Items => treeRoot'[treeTask[q].dest] = treeRoot[treeTask[q].dest]
          BY <2>1, <2>3, <5>1
        <5>3. treeTask[q].dest \in Items \cup {None}
          BY <4>1 DEF TreeTasks
        <5>. QED
          BY <1>1, <1>2, <1>5, <3>2, <4>1, <4>3, <5>2, <5>3 DEF TreePending, TreeGoesOn
      <4>4. CASE treeTask[q].pc = "idle"
        BY <1>2, <3>2, <4>4 DEF TreePending, TreeGoesOn
      <4>. QED
        BY <4>2, <4>3, <4>4
    <3>. QED
      BY <3>1, <3>2
  <2>. QED
    BY <1>3, <1>5, <2>4, <2>5, <2>6 DEF TreeInv, TreeRows
<1>8. CASE ~(sub = {} \/ t.root \in Tree!Rows)
  <2>1. /\ treeTorn' = treeTorn \cup {f}
        /\ UNCHANGED <<treeRoot, treeAdrift, treeCrossed>>
    BY <1>0, <1>6, <1>8 DEF Tree!MoveRoot
  <2>. HIDE DEF sub
  <2>2. Tree!TypeOK'
    BY <1>1, <1>2, <1>4, <2>1 DEF Tree!TypeOK, TreeParents, TreeGoesOn, TreeTasks
  <2>3. ASSUME NEW g \in Tree!Rows PROVE TreeTopped(g)' /\ TreeRooted(g)'
    <3>1. TreeTopped(g) /\ TreeRooted(g)
      BY DEF TreeInv, TreeRows
    <3>2. TreeExempt(g) => TreeExempt(g)'
      BY <1>0, <1>1, <1>2, <2>1 DEF TreeExempt, TreeGoesOn
    <3>. QED
      BY <1>1, <2>1, <3>1, <3>2 DEF TreeTopped, TreeRooted, TreeAtTop
  <2>4. ASSUME NEW q \in Requests PROVE TreePending(q)'
    <3>1. CASE q = r
      BY <1>3, <3>1 DEF TreePending
    <3>2. CASE q # r
      BY <1>1, <1>2, <1>5, <2>1, <3>2 DEF TreeInv, TreePending, TreeGoesOn
    <3>. QED
      BY <3>1, <3>2
  <2>. QED
    BY <1>3, <1>5, <2>2, <2>3, <2>4 DEF TreeInv, TreeRows
<1>. QED
  BY <1>7, <1>8

LEMMA TreeRestore ==
  ASSUME TreeInv, NEW r \in Requests, Tree!Restore(r) PROVE TreeInv'
<1>0. PICK t : t = treeTask[r]
  OBVIOUS
<1>. DEFINE f == t.folder
            d == t.dest
            moves == d # t.root /\ f \in Tree!Rows
<1>. USE TreeTypes
<1>1. t.pc = "restore" /\ UNCHANGED <<treeRoot, treeTorn, treeCrossed, treeChanges>>
  BY <1>0 DEF Tree!Restore
<1>2. TreeGoesOn(r, Tree!Idle)
  BY TreeIdle, TreeBecomes, TreeCrosses DEF Tree!Restore
<1>3. treeTask'[r].pc = "idle" /\ TreeFresh'
  <2>1. Tree!Idle.folder = None /\ Tree!Idle.dest = None
    BY DEF Tree!Idle
  <2>. QED
    BY <1>2, <2>1, TreeIdle, TreeFreshly DEF TreeGoesOn
<1>4. f \in Items /\ (moves => d = None)
  BY <1>0, <1>1 DEF TreeInv, TreePending
<1>5. treeState' = [g \in Items |-> IF g \in Tree!Subtree(f) THEN "live" ELSE treeState[g]]
  BY <1>0 DEF Tree!Restore
<1>6. Tree!Rows' = Tree!Rows
  BY <1>5 DEF Tree!Rows, Tree!Subtree
<1>7. treeState' \in [Items -> {"none", "live", "trash"}]
  BY <1>5
<1>8. CASE ~moves
  <2>1. treeParent' = treeParent /\ treeAdrift' = treeAdrift
    BY <1>0, <1>8 DEF Tree!Restore
  <2>2. Tree!TypeOK'
    BY <1>1, <1>2, <1>7, <2>1 DEF Tree!TypeOK, TreeParents, TreeGoesOn, TreeTasks
  <2>3. TreeLinked'
    BY <1>6, <2>1 DEF TreeInv, TreeLinked
  <2>4. ASSUME NEW g \in Tree!Rows PROVE TreeTopped(g)' /\ TreeRooted(g)'
    <3>1. TreeTopped(g) /\ TreeRooted(g)
      BY DEF TreeInv, TreeRows
    <3>2. TreeExempt(g) => TreeExempt(g)'
      BY <1>0, <1>1, <1>2, <2>1 DEF TreeExempt, TreeGoesOn
    <3>. QED
      BY <1>1, <2>1, <3>1, <3>2 DEF TreeTopped, TreeRooted, TreeAtTop
  <2>5. ASSUME NEW q \in Requests PROVE TreePending(q)'
    <3>1. CASE q = r
      BY <1>3, <3>1 DEF TreePending
    <3>2. CASE q # r
      BY <1>1, <1>2, <1>6, <2>1, <3>2 DEF TreeInv, TreePending, TreeGoesOn
    <3>. QED
      BY <3>1, <3>2
  <2>. QED
    BY <1>3, <1>6, <2>2, <2>3, <2>4, <2>5 DEF TreeInv, TreeRows
<1>9. CASE moves
  <2>1. /\ treeParent' = [treeParent EXCEPT ![f] = None]
        /\ treeAdrift' = treeAdrift \cup {f} /\ f \in Tree!Rows
        /\ Tree!Crosses(r, Tree!Idle, f)
    BY <1>0, <1>4, <1>9 DEF Tree!Restore
  <2>2. Tree!TypeOK'
    BY <1>1, <1>2, <1>4, <1>7, <2>1 DEF Tree!TypeOK, TreeParents, TreeGoesOn, TreeTasks
  <2>3. TreeLinked'
    BY <1>4, <1>6, <2>1 DEF TreeInv, TreeLinked, TreeParents
  <2>. HIDE DEF f
  <2>4. treeParent'[f] = None /\ \A x \in Items : x # f => treeParent'[x] = treeParent[x]
    BY <1>4, <2>1 DEF TreeParents
  <2>5. ASSUME NEW g \in Items
        PROVE  /\ f \notin TreeWalk(treeParent, g)
                    => TreeWalk(treeParent', g) = TreeWalk(treeParent, g)
               /\ f \in TreeWalk(treeParent, g) => f \in TreeWalk(treeParent', g)
    <3>1. treeParent' \in TreeParents
      BY <1>4, <2>1 DEF TreeParents
    <3>. QED
      BY <1>4, <2>4, <3>1, TreeMoved
  <2>6. ASSUME NEW g \in Tree!Rows PROVE TreeTopped(g)' /\ TreeRooted(g)'
    <3>1. CASE f \in TreeWalk(treeParent, g)
      BY <2>1, <2>4, <2>5, <3>1 DEF TreeTopped, TreeRooted, TreeExempt
    <3>2. CASE f \notin TreeWalk(treeParent, g)
      <4>1. TreeTopped(g) /\ TreeRooted(g)
        BY DEF TreeInv, TreeRows
      <4>2. \A x \in TreeWalk(treeParent, g) : treeParent'[x] = treeParent[x]
        BY <2>4, <3>2, TreeSelf
      <4>3. TreeWalk(treeParent', g) = TreeWalk(treeParent, g)
        BY <2>5, <3>2
      <4>4. TreeExempt(g) => TreeExempt(g)'
        BY <1>0, <1>1, <1>2, <2>1, <4>3 DEF TreeExempt, TreeGoesOn
      <4>. QED
        BY <1>1, <4>1, <4>2, <4>3, <4>4 DEF TreeTopped, TreeRooted, TreeAtTop
    <3>. QED
      BY <3>1, <3>2
  <2>7. TreeWarns(r, f)
    BY <2>1, TreeIdle, TreeCrosses DEF f
  <2>8. ASSUME NEW q \in Requests PROVE TreePending(q)'
    <3>1. CASE q = r
      BY <1>3, <3>1 DEF TreePending
    <3>2. CASE q # r
      <4>1. TreePending(q) /\ treeTask[q] \in TreeTasks
        BY DEF TreeInv
      <4>2. CASE treeTask'[q].late
        BY <1>1, <1>2, <1>6, <3>2, <4>1, <4>2 DEF TreePending, TreeGoesOn
      <4>3. CASE ~treeTask'[q].late /\ treeTask[q].pc # "idle"
        <5>1. f # treeTask[q].folder /\ f \notin TreeWalk(treeParent, treeTask[q].dest)
          BY <2>7, <3>2, <4>3 DEF TreeWarns
        <5>2. \A x \in Items : treeTask[q].dest = x
                => TreeWalk(treeParent', x) = TreeWalk(treeParent, x)
          BY <2>5, <5>1
        <5>3. treeTask[q].folder \in Items
                => treeParent'[treeTask[q].folder] = treeParent[treeTask[q].folder]
          BY <2>4, <5>1
        <5>. QED
          BY <1>1, <1>2, <1>6, <3>2, <4>1, <4>3, <5>2, <5>3 DEF TreePending, TreeGoesOn
      <4>4. CASE treeTask[q].pc = "idle"
        BY <1>2, <3>2, <4>4 DEF TreePending, TreeGoesOn
      <4>. QED
        BY <4>2, <4>3, <4>4
    <3>. QED
      BY <3>1, <3>2
  <2>. QED
    BY <1>3, <1>6, <2>2, <2>3, <2>6, <2>8 DEF TreeInv, TreeRows
<1>. QED
  BY <1>8, <1>9

LEMMA TreeCut ==
  ASSUME TreeInv, NEW S \in SUBSET Requests, Tree!Cut(S) PROVE TreeInv'
<1>. DEFINE cut == {treeTask[r].folder : r \in {q \in S :
                      treeTask[q].pc \in {"look", "root"} /\ treeTask[q].folder \in Tree!Rows}}
<1>. USE TreeTypes
<1>1. /\ treeTask' = [r \in Requests |-> IF r \in S THEN Tree!Idle ELSE treeTask[r]]
      /\ treeTorn' = treeTorn \cup cut
      /\ UNCHANGED <<treeState, treeParent, treeRoot, treeAdrift, treeCrossed, treeChanges>>
  BY DEF Tree!Cut, Tree!tree
<1>2. /\ cut \subseteq Items
      /\ \A q \in S : treeTask[q].pc \in {"look", "root"} /\ treeTask[q].folder \in Tree!Rows
                        => treeTask[q].folder \in cut
  OBVIOUS
<1>. HIDE DEF cut
<1>3. /\ treeTask' \in [Requests -> TreeTasks]
      /\ \A q \in S : treeTask'[q] = Tree!Idle
      /\ \A q \in Requests \ S : treeTask'[q] = treeTask[q]
  BY <1>1, TreeIdle
<1>4. Tree!TypeOK'
  BY <1>1, <1>2, <1>3 DEF Tree!TypeOK, TreeParents, TreeTasks
<1>5. Tree!Rows' = Tree!Rows /\ TreeLinked'
  BY <1>1 DEF TreeInv, TreeLinked, Tree!Rows
<1>6. ASSUME NEW g \in Tree!Rows PROVE TreeTopped(g)' /\ TreeRooted(g)'
  <2>1. TreeTopped(g) /\ TreeRooted(g) /\ TreeWalk(treeParent, g) \subseteq Tree!Rows
    BY TreeInRows DEF TreeInv, TreeRows
  <2>2. TreeExempt(g) => TreeExempt(g)'
    BY <1>1, <1>2, <1>3, <2>1 DEF TreeExempt
  <2>. QED
    BY <1>1, <2>1, <2>2 DEF TreeTopped, TreeRooted, TreeAtTop
<1>7. ASSUME NEW q \in Requests PROVE TreePending(q)'
  <2>1. CASE q \in S
    BY <1>3, <2>1, TreeIdle DEF TreePending
  <2>2. CASE q \notin S
    BY <1>1, <1>3, <1>5, <2>2 DEF TreeInv, TreePending
  <2>. QED
    BY <2>1, <2>2
<1>8. TreeFresh'
  <2>1. Tree!Idle.pc = "idle" /\ Tree!Idle.folder = None /\ Tree!Idle.dest = None
    BY DEF Tree!Idle
  <2>2. \A q \in Requests : treeTask[q].pc = "insert" => treeTask[q].folder # None
    BY DEF TreeInv, TreePending
  <2>. QED
    BY <1>3, <2>1, <2>2 DEF TreeInv, TreeFresh
<1>. QED
  BY <1>4, <1>5, <1>6, <1>7, <1>8 DEF TreeInv, TreeRows

LEMMA TreeTrash ==
  ASSUME TreeInv, NEW f \in Items, Tree!Trash(f) PROVE TreeInv'
<1>. USE TreeTypes
<1>1. /\ treeState' = [g \in Items |-> IF g \in Tree!Subtree(f) THEN "trash" ELSE treeState[g]]
      /\ UNCHANGED <<treeParent, treeRoot, treeTask, treeAdrift, treeTorn, treeCrossed>>
      /\ treeChanges' \in Nat
  BY DEF Tree!Trash, Tree!history, Tree!Change
<1>2. Tree!Rows' = Tree!Rows
  BY <1>1 DEF Tree!Rows, Tree!Subtree
<1>3. Tree!TypeOK'
  BY <1>1 DEF TreeInv, Tree!TypeOK, TreeParents
<1>4. TreeLinked' /\ TreeFresh' /\ \A r \in Requests : TreePending(r)'
  BY <1>1, <1>2 DEF TreeInv, TreeLinked, TreeFresh, TreePending
<1>5. ASSUME NEW g \in Tree!Rows PROVE TreeTopped(g)' /\ TreeRooted(g)'
  BY <1>1 DEF TreeInv, TreeRows, TreeTopped, TreeRooted, TreeAtTop, TreeExempt
<1>. QED
  BY <1>2, <1>3, <1>4, <1>5 DEF TreeInv, TreeRows

(* What remains has nothing above it that goes.                            *)
LEMMA TreeHardDelete ==
  ASSUME TreeInv, NEW f \in Items, Tree!HardDelete(f) PROVE TreeInv'
<1>. DEFINE gone == {g \in Tree!Rows : f \in TreeWalk(treeParent, g)}
<1>. USE TreeTypes
<1>1. /\ treeState' = [g \in Items |-> IF g \in gone THEN "none" ELSE treeState[g]]
      /\ treeParent' = [g \in Items |-> IF g \in gone THEN None ELSE treeParent[g]]
      /\ treeRoot' = [g \in Items |-> IF g \in gone THEN None ELSE treeRoot[g]]
      /\ treeAdrift' = treeAdrift \ gone /\ treeTorn' = treeTorn \ gone
      /\ treeCrossed' = treeCrossed \ gone
      /\ UNCHANGED treeTask /\ treeChanges' \in Nat
  <2>1. Tree!Subtree(f) = gone
    BY TreeBelow
  <2>. HIDE DEF gone
  <2>. QED
    BY <2>1 DEF Tree!HardDelete, Tree!Change
<1>2. Tree!Rows' = Tree!Rows \ gone
  <2>. HIDE DEF gone
  <2>. QED
    BY <1>1 DEF Tree!Rows
<1>3. treeParent' \in TreeParents
  <2>. HIDE DEF gone
  <2>. QED
    BY <1>1 DEF TreeParents
<1>4. Tree!TypeOK'
  <2>. HIDE DEF gone
  <2>. QED
    BY <1>1 DEF TreeInv, Tree!TypeOK, TreeParents
<1>5. ASSUME NEW g \in Tree!Rows \ gone
      PROVE  /\ TreeWalk(treeParent', g) = TreeWalk(treeParent, g)
             /\ \A x \in TreeWalk(treeParent, g) : x \in Tree!Rows \ gone
             /\ \A x \in TreeWalk(treeParent, g) : treeParent'[x] = treeParent[x]
  <2>1. \A x \in TreeWalk(treeParent, g) : x \in Tree!Rows \ gone
    <3>1. ASSUME NEW x \in TreeWalk(treeParent, g) PROVE x \notin gone
      <4>1. TreeWalk(treeParent, x) \subseteq TreeWalk(treeParent, g)
        BY TreeHigher
      <4>. QED
        BY <4>1
    <3>. QED
      BY <3>1, TreeInRows
  <2>. HIDE DEF gone
  <2>2. \A x \in TreeWalk(treeParent, g) : treeParent'[x] = treeParent[x]
    BY <1>1, <2>1
  <2>3. TreeWalk(treeParent', g) = TreeWalk(treeParent, g)
    BY <1>3, <2>2, TreeSame
  <2>. QED
    BY <2>1, <2>2, <2>3
<1>6. TreeLinked'
  <2>1. ASSUME NEW g \in Items
        PROVE  /\ treeParent'[g] \in Tree!Rows' \cup {None}
               /\ g \notin Tree!Rows' => treeParent'[g] = None
    <3>1. CASE g \in Tree!Rows \ gone
      <4>1. treeParent'[g] = treeParent[g] /\ g \in TreeWalk(treeParent, g)
        BY <1>5, <3>1, TreeSelf
      <4>2. treeParent[g] = None \/ treeParent[g] \in TreeWalk(treeParent, g)
        BY <3>1, TreeWalked DEF TreeIsAbove, TreeClosed
      <4>. HIDE DEF gone
      <4>. QED
        BY <1>2, <1>5, <3>1, <4>1, <4>2
    <3>2. CASE g \notin Tree!Rows \ gone
      <4>1. treeParent'[g] = None
        <5>1. g \notin Tree!Rows => treeParent[g] = None
          BY DEF TreeInv, TreeLinked
        <5>. HIDE DEF gone
        <5>. QED
          BY <1>1, <3>2, <5>1
      <4>. QED
        BY <1>2, <3>2, <4>1
    <3>. QED
      BY <3>1, <3>2
  <2>. QED
    BY <2>1 DEF TreeLinked
<1>7. TreeFresh' /\ \A r \in Requests : TreePending(r)'
  <2>. HIDE DEF gone
  <2>1. \A x \in Tree!Rows' : /\ x \in Tree!Rows
                              /\ treeRoot'[x] = treeRoot[x] /\ treeParent'[x] = treeParent[x]
                              /\ TreeWalk(treeParent', x) = TreeWalk(treeParent, x)
    BY <1>1, <1>2, <1>5
  <2>2. \A x \in Tree!Rows' : treeParent[x] \in Tree!Rows' \cup {None}
    BY <1>6, <2>1, TreeTypes DEF TreeLinked
  <2>3. TreeFresh'
    BY <1>1 DEF TreeInv, TreeFresh
  <2>4. ASSUME NEW r \in Requests PROVE TreePending(r)'
    <3>. DEFINE t == treeTask[r]
    <3>1. TreePending(r) /\ treeTask'[r] = t
      BY <1>1 DEF TreeInv
    <3>2. t.folder \in Tree!Rows' => t.folder \in Tree!Rows /\ treeParent'[t.folder] = treeParent[t.folder]
      BY <2>1
    <3>3. t.dest \in Tree!Rows' => /\ t.dest \in Tree!Rows /\ treeRoot'[t.dest] = treeRoot[t.dest]
                                  /\ TreeWalk(treeParent', t.dest) = TreeWalk(treeParent, t.dest)
      BY <2>1
    <3>4. t.folder \in Tree!Rows' /\ treeParent[t.folder] = t.dest /\ t.dest # None
            => t.dest \in Tree!Rows'
      BY <2>2
    <3>5. t.folder \notin Tree!Rows => t.folder \notin Tree!Rows'
      BY <1>2
    <3>. HIDE DEF t
    <3>. QED
      BY <3>1, <3>2, <3>3, <3>4, <3>5 DEF TreePending, t
  <2>. QED
    BY <2>3, <2>4
<1>8. ASSUME NEW g \in Tree!Rows' PROVE TreeTopped(g)' /\ TreeRooted(g)'
  <2>. HIDE DEF gone
  <2>1. g \in Tree!Rows \ gone /\ TreeTopped(g) /\ TreeRooted(g)
    BY <1>2 DEF TreeInv, TreeRows
  <2>2. TreeWalk(treeParent', g) = TreeWalk(treeParent, g)
    BY <1>5, <2>1
  <2>3. \A x \in TreeWalk(treeParent, g) : x \notin gone /\ treeParent'[x] = treeParent[x]
    BY <1>5, <2>1
  <2>4. TreeTopped(g)'
    BY <1>1, <2>1, <2>2, <2>3 DEF TreeTopped
  <2>5. TreeRooted(g)'
    <3>1. treeRoot'[g] = treeRoot[g]
      BY <1>1, <2>1
    <3>2. TreeExempt(g) => TreeExempt(g)'
      BY <1>1, <2>2, <2>3 DEF TreeExempt
    <3>. QED
      BY <2>1, <2>2, <2>3, <3>1, <3>2 DEF TreeRooted, TreeAtTop
  <2>. QED
    BY <2>4, <2>5
<1>. QED
  BY <1>4, <1>6, <1>7, <1>8 DEF TreeInv, TreeRows

LEMMA TreeStep == TreeInv /\ [Tree!Next]_(Tree!vars) => TreeInv'
<1>. SUFFICES ASSUME TreeInv, [Tree!Next]_(Tree!vars) PROVE TreeInv'
  OBVIOUS
<1>1. ASSUME NEW r \in Requests, NEW f \in Items, NEW p \in Items \cup {None},
             Tree!CreateRead(r, f, p) \/ Tree!MoveRead(r, f, p) \/ Tree!RestoreRead(r, f)
      PROVE  TreeInv'
  BY <1>1, TreeReadsKeep
<1>2. ASSUME NEW r \in Requests,
             \/ Tree!Insert(r) \/ Tree!Restore(r)
             \/ Tree!MoveParent(r) \/ Tree!MoveLook(r) \/ Tree!MoveRoot(r)
      PROVE  TreeInv'
  BY <1>2, TreeInsert, TreeRestore, TreeMoveParent, TreeMoveLook, TreeMoveRoot
<1>3. ASSUME NEW r \in Requests, Tree!Endless(r) PROVE TreeInv'
  BY <1>3, TreeCut DEF Tree!Endless
<1>4. ASSUME NEW f \in Items, Tree!Trash(f) \/ Tree!HardDelete(f) PROVE TreeInv'
  BY <1>4, TreeTrash, TreeHardDelete
<1>5. CASE UNCHANGED Tree!vars
  <2>1. UNCHANGED <<treeState, treeParent, treeRoot, treeTask, treeAdrift, treeTorn, treeCrossed,
                    treeChanges>>
    BY <1>5 DEF Tree!vars, Tree!tree, Tree!history
  <2>2. Tree!Rows' = Tree!Rows
    BY <2>1 DEF Tree!Rows
  <2>. QED
    BY <2>1, <2>2 DEF TreeInv, Tree!TypeOK, TreeLinked, TreeFresh, TreePending, TreeRows,
                      TreeTopped, TreeRooted, TreeAtTop, TreeExempt
<1>6. CASE Tree!Crash
  BY <1>6, TreeCut DEF Tree!Crash
<1>. QED
  BY <1>1, <1>2, <1>3, <1>4, <1>5, <1>6 DEF Tree!Next

LEMMA TreeHolds == TreeInv => TreeKept
<1>. SUFFICES ASSUME TreeInv PROVE TreeKept
  OBVIOUS
<1>. USE TreeTypes
<1>1. ASSUME NEW f \in Tree!Rows
      PROVE  \E g \in Tree!Above(f) : treeParent[g] = None \/ g \in treeCrossed
  BY TreeAbove DEF TreeInv, TreeRows, TreeTopped
<1>2. ASSUME NEW f \in Tree!Rows, TreeAtTop(f) PROVE treeRoot[f] = Tree!Top(f)
  <2>. DEFINE P(g) == treeParent[g] = None
              A == TreeWalk(treeParent, f)
              highest == CHOOSE g \in A : P(g)
  <2>1. treeRoot[f] \in A /\ P(treeRoot[f])
    BY <1>2 DEF TreeAtTop
  <2>2. Tree!Top(f) = highest
    BY TreeAbove DEF Tree!Top
  <2>3. highest \in A /\ P(highest)
    BY <2>1
  <2>. HIDE DEF highest
  <2>. QED
    BY <2>1, <2>2, <2>3, TreeOneTop
<1>3. ASSUME NEW f \in Tree!Rows
      PROVE  \/ Tree!Above(f) \cap (treeAdrift \cup treeTorn \cup treeCrossed) # {}
             \/ \E r \in Requests :
                  treeTask[r].pc \in {"look", "root"} /\ treeTask[r].folder \in Tree!Above(f)
             \/ treeRoot[f] = Tree!Top(f)
  <2>1. TreeAtTop(f) \/ TreeExempt(f)
    BY DEF TreeInv, TreeRows, TreeRooted
  <2>. QED
    BY <1>2, <2>1, TreeAbove DEF TreeExempt
<1>. QED
  BY <1>1, <1>3 DEF TreeKept, Tree!NoCycle, Tree!RootsKept

(* However the statements of creates, moves and restores, any number of    *)
(* them at once, fall between each other, trashings, deletions and         *)
(* crashes: a cycle passes through a folder whose own move was late, and a *)
(* wrong root_folder_id is at or below a folder that was restored to the   *)
(* root, whose move was cut short or is under way, or that was written     *)
(* late.                                                                   *)
THEOREM TreeStays == Tree!Spec => []TreeKept
<1>1. Tree!Init => TreeInv
  BY TreeInitially
<1>2. TreeInv /\ [Tree!Next]_(Tree!vars) => TreeInv'
  BY TreeStep
<1>3. TreeInv => TreeKept
  BY TreeHolds
<1>. QED
  BY <1>1, <1>2, <1>3, PTL DEF Tree!Spec

-----------------------------------------------------------------------------
-----------------------------------------------------------------------------
(***************************************************************************)
(* Who reads in a folder (FolderAccess), for every number of folders and   *)
(* of changes.  The three walks up are of one form: at each folder own     *)
(* decides, or the walk goes on to the parent where on allows it.          *)
(***************************************************************************)
RightsPlaces == Items \cup {None}

RightsWalks(p, own, on, w, m) ==
  w = [n \in 0..m |-> [g \in RightsPlaces |->
        n > 0 /\ g # None /\ (own[g] \/ (on[g] /\ w[n - 1][p[g]]))]]

RightsGoes(p, own, on, w, m) ==
  \A n \in 0..m, g \in RightsPlaces :
    w[n][g] <=> n > 0 /\ g # None /\ (own[g] \/ (on[g] /\ w[n - 1][p[g]]))

LEMMA RightsWalksExist ==
  ASSUME NEW p \in TreeParents, NEW own, NEW on, NEW m \in Nat
  PROVE  \E w : RightsWalks(p, own, on, w, m)
<1>. DEFINE B == {k \in Nat : ~\E w : RightsWalks(p, own, on, w, k)}
<1>. SUFFICES ASSUME B # {} PROVE FALSE
  OBVIOUS
<1>1. PICK k \in B : \A j \in B : k <= j
  <2>1. B \in SUBSET Nat
    OBVIOUS
  <2>. HIDE DEF B
  <2>. QED
    BY <2>1, TreeLeast
<1>2. k # 0
  <2>. DEFINE w == [n \in 0..0 |-> [g \in RightsPlaces |-> FALSE]]
  <2>1. w = [n \in 0..0 |-> [g \in RightsPlaces |->
              n > 0 /\ g # None /\ (own[g] \/ (on[g] /\ w[n - 1][p[g]]))]]
    <3>1. ASSUME NEW n \in 0..0
          PROVE  w[n] = [g \in RightsPlaces |->
                          n > 0 /\ g # None /\ (own[g] \/ (on[g] /\ w[n - 1][p[g]]))]
      <4>1. w[n] = [g \in RightsPlaces |-> FALSE] /\ ~(n > 0)
        OBVIOUS
      <4>. HIDE DEF w
      <4>. QED
        BY <4>1
    <3>2. w = [n \in 0..0 |-> w[n]]
      OBVIOUS
    <3>. HIDE DEF w
    <3>. QED
      BY <3>1, <3>2
  <2>2. RightsWalks(p, own, on, w, 0)
    BY <2>1 DEF RightsWalks
  <2>. QED
    BY <1>1, <2>2
<1>3. k - 1 \in Nat /\ k - 1 \notin B /\ k \in Nat
  BY <1>1, <1>2
<1>4. PICK w : RightsWalks(p, own, on, w, k - 1)
  BY <1>3
<1>. DEFINE v == [n \in 0..k |->
                   IF n < k THEN w[n]
                   ELSE [g \in RightsPlaces |->
                          g # None /\ (own[g] \/ (on[g] /\ w[k - 1][p[g]]))]]
<1>5. \A n \in 0..k - 1, g \in RightsPlaces :
        w[n][g] = (n > 0 /\ g # None /\ (own[g] \/ (on[g] /\ w[n - 1][p[g]])))
  BY <1>4 DEF RightsWalks
<1>6. \A n \in 0..k - 1, g \in RightsPlaces : v[n][g] = w[n][g]
  BY <1>3
<1>7. \A g \in Items : p[g] \in RightsPlaces
  BY DEF TreeParents, RightsPlaces
<1>8. \A n \in 0..k, g \in RightsPlaces :
        v[n][g] = (n > 0 /\ g # None /\ (own[g] \/ (on[g] /\ v[n - 1][p[g]])))
  <2>1. SUFFICES ASSUME NEW n \in 0..k, NEW g \in RightsPlaces
                 PROVE  v[n][g] = (n > 0 /\ g # None /\ (own[g] \/ (on[g] /\ v[n - 1][p[g]])))
    OBVIOUS
  <2>2. n > 0 /\ g # None => n - 1 \in 0..k - 1 /\ p[g] \in RightsPlaces
    BY <1>3, <1>7 DEF RightsPlaces
  <2>3. n > 0 /\ g # None => v[n - 1][p[g]] = w[n - 1][p[g]]
    BY <1>6, <2>2
  <2>4. CASE n < k
    <3>1. n \in 0..k - 1 /\ v[n][g] = w[n][g]
      BY <1>3, <1>6, <2>4
    <3>. HIDE DEF v
    <3>. QED
      BY <1>5, <2>3, <3>1
  <2>5. CASE n = k
    <3>1. v[n][g] = (g # None /\ (own[g] \/ (on[g] /\ w[n - 1][p[g]])))
      BY <1>3, <2>5
    <3>2. n > 0
      BY <1>2, <1>3, <2>5
    <3>. HIDE DEF v
    <3>. QED
      BY <2>3, <3>1, <3>2
  <2>. QED
    BY <1>3, <2>4, <2>5
<1>9. v = [n \in 0..k |-> [g \in RightsPlaces |->
            n > 0 /\ g # None /\ (own[g] \/ (on[g] /\ v[n - 1][p[g]]))]]
  <2>1. \A n \in 0..k - 1 : w[n] = [g \in RightsPlaces |-> w[n][g]]
    BY <1>4 DEF RightsWalks
  <2>2. ASSUME NEW n \in 0..k PROVE v[n] = [g \in RightsPlaces |-> v[n][g]]
    <3>1. CASE n < k
      <4>1. n \in 0..k - 1 /\ v[n] = w[n]
        BY <1>3, <3>1
      <4>. HIDE DEF v
      <4>. QED
        BY <2>1, <4>1
    <3>2. CASE n = k
      <4>1. v[n] = [g \in RightsPlaces |-> g # None /\ (own[g] \/ (on[g] /\ w[k - 1][p[g]]))]
        BY <1>3, <3>2
      <4>. HIDE DEF v
      <4>. QED
        BY <4>1
    <3>. QED
      BY <1>3, <3>1, <3>2
  <2>3. v = [n \in 0..k |-> v[n]]
    OBVIOUS
  <2>. HIDE DEF v
  <2>4. ASSUME NEW n \in 0..k
        PROVE  v[n] = [g \in RightsPlaces |->
                        n > 0 /\ g # None /\ (own[g] \/ (on[g] /\ v[n - 1][p[g]]))]
    BY <1>8, <2>2
  <2>. QED
    BY <2>3, <2>4
<1>. HIDE DEF v
<1>10. RightsWalks(p, own, on, v, k)
  BY <1>9 DEF RightsWalks
<1>. QED
  BY <1>1, <1>10

LEMMA RightsCount ==
  /\ Rights!Depth = Cardinality(Items) /\ Rights!Depth \in Nat
  /\ Rights!Depth = Tree!Cardinality(Items)
<1>1. Rights!Cardinality(Items) = Cardinality(Items)
  BY DEF Rights!Cardinality, Cardinality
<1>. QED
  BY <1>1, TreeCount DEF Rights!Depth

LEMMA RightsAbove == ASSUME NEW f PROVE Rights!Above(f) = TreeWalk(rightsParent, f)
<1>1. Rights!Above(f) = TreeWalkFor(rightsParent, f, Rights!Depth)
  BY Zenon DEF Rights!Above, TreeWalkFor, TreeUps
<1>. QED
  BY <1>1, RightsCount DEF TreeWalk

(* The three walks of the code, each with what decides at a folder.        *)
RightsReads(f) == [g \in RightsPlaces |-> Rights!Grants(f, g)]
RightsAlong(f) == [g \in RightsPlaces |-> ~Rights!Refuses(f, g) /\ Rights!Climbs(g)]
RightsHas(f) == [g \in RightsPlaces |-> Rights!Applies(rightsGrant[g], g = f)]
RightsMine == [g \in RightsPlaces |-> Rights!Reads(g)]
RightsOpen == [g \in RightsPlaces |-> Rights!Climbs(g)]
RightsFree == [g \in RightsPlaces |-> rightsTeam[g] = "none" /\ Rights!Climbs(g)]

LEMMA RightsMayRead ==
  ASSUME rightsParent \in TreeParents, NEW f \in Items
  PROVE  \E w : /\ RightsGoes(rightsParent, RightsReads(f), RightsAlong(f), w, Rights!Depth)
                /\ Rights!MayRead(f) = w[Rights!Depth][f]
<1>. DEFINE Is(w) ==
       w = [n \in 0..Rights!Depth |-> [g \in Items \cup {None} |->
             /\ n > 0 /\ g # None
             /\ \/ Rights!Grants(f, g)
                \/ ~Rights!Refuses(f, g) /\ Rights!Climbs(g) /\ w[n - 1][rightsParent[g]]]]
            walk == CHOOSE w : Is(w)
<1>1. Rights!MayRead(f) = walk[Rights!Depth][f]
  BY Zenon DEF Rights!MayRead
<1>2. PICK w : RightsWalks(rightsParent, RightsReads(f), RightsAlong(f), w, Rights!Depth)
  BY RightsWalksExist, RightsCount
<1>3. Is(w)
  BY <1>2 DEF RightsWalks, RightsReads, RightsAlong, RightsPlaces
<1>4. Is(walk)
  BY <1>3
<1>. HIDE DEF walk
<1>5. RightsGoes(rightsParent, RightsReads(f), RightsAlong(f), walk, Rights!Depth)
  BY <1>4 DEF RightsGoes, RightsReads, RightsAlong, RightsPlaces
<1>. QED
  BY <1>1, <1>5

LEMMA RightsHasPermission ==
  ASSUME rightsParent \in TreeParents, NEW f \in Items
  PROVE  \E w : /\ RightsGoes(rightsParent, RightsHas(f), RightsOpen, w, Rights!Depth)
                /\ Rights!HasPermission(f) = w[Rights!Depth][f]
<1>. DEFINE Is(w) ==
       w = [n \in 0..Rights!Depth |-> [g \in Items \cup {None} |->
             /\ n > 0 /\ g # None
             /\ \/ Rights!Applies(rightsGrant[g], g = f)
                \/ Rights!Climbs(g) /\ w[n - 1][rightsParent[g]]]]
            walk == CHOOSE w : Is(w)
<1>1. Rights!HasPermission(f) = walk[Rights!Depth][f]
  BY Zenon DEF Rights!HasPermission
<1>2. PICK w : RightsWalks(rightsParent, RightsHas(f), RightsOpen, w, Rights!Depth)
  BY RightsWalksExist, RightsCount
<1>3. Is(w)
  BY <1>2 DEF RightsWalks, RightsHas, RightsOpen, RightsPlaces
<1>4. Is(walk)
  BY <1>3
<1>. HIDE DEF walk
<1>5. \A n \in 0..Rights!Depth, g \in Items \cup {None} :
        walk[n][g] = (/\ n > 0 /\ g # None
                      /\ \/ Rights!Applies(rightsGrant[g], g = f)
                         \/ Rights!Climbs(g) /\ walk[n - 1][rightsParent[g]])
  <2>1. ASSUME NEW n \in 0..Rights!Depth
        PROVE  walk[n] = [g \in Items \cup {None} |->
                           /\ n > 0 /\ g # None
                           /\ \/ Rights!Applies(rightsGrant[g], g = f)
                              \/ Rights!Climbs(g) /\ walk[n - 1][rightsParent[g]]]
    BY <1>4
  <2>. QED
    BY <2>1
<1>6. RightsGoes(rightsParent, RightsHas(f), RightsOpen, walk, Rights!Depth)
  <2>1. \A g \in RightsPlaces : /\ RightsHas(f)[g] = Rights!Applies(rightsGrant[g], g = f)
                              /\ RightsOpen[g] = Rights!Climbs(g)
    BY DEF RightsHas, RightsOpen
  <2>. QED
    BY <1>5, <2>1 DEF RightsGoes, RightsPlaces
<1>. QED
  BY <1>1, <1>6

LEMMA RightsTeamMember ==
  ASSUME rightsParent \in TreeParents, NEW f \in Items
  PROVE  \E w : /\ RightsGoes(rightsParent, RightsMine, RightsFree, w, Rights!Depth)
                /\ Rights!TeamMember(f) = w[Rights!Depth][f]
<1>. DEFINE Is(w) ==
       w = [n \in 0..Rights!Depth |-> [g \in Items \cup {None} |->
             /\ n > 0 /\ g # None
             /\ IF rightsTeam[g] # "none" THEN Rights!Reads(g)
                ELSE Rights!Climbs(g) /\ w[n - 1][rightsParent[g]]]]
            walk == CHOOSE w : Is(w)
<1>1. Rights!TeamMember(f) = walk[Rights!Depth][f]
  BY Zenon DEF Rights!TeamMember
<1>2. PICK w : RightsWalks(rightsParent, RightsMine, RightsFree, w, Rights!Depth)
  BY RightsWalksExist, RightsCount
<1>3. Is(w)
  BY <1>2 DEF RightsWalks, RightsMine, RightsFree, RightsPlaces, Rights!Reads
<1>4. Is(walk)
  BY <1>3
<1>. HIDE DEF walk
<1>5. \A n \in 0..Rights!Depth, g \in Items \cup {None} :
        walk[n][g] = (/\ n > 0 /\ g # None
                      /\ IF rightsTeam[g] # "none" THEN Rights!Reads(g)
                         ELSE Rights!Climbs(g) /\ walk[n - 1][rightsParent[g]])
  <2>1. ASSUME NEW n \in 0..Rights!Depth
        PROVE  walk[n] = [g \in Items \cup {None} |->
                           /\ n > 0 /\ g # None
                           /\ IF rightsTeam[g] # "none" THEN Rights!Reads(g)
                              ELSE Rights!Climbs(g) /\ walk[n - 1][rightsParent[g]]]
    BY <1>4
  <2>. QED
    BY <2>1
<1>6. RightsGoes(rightsParent, RightsMine, RightsFree, walk, Rights!Depth)
  <2>1. \A g \in RightsPlaces :
          /\ RightsMine[g] = Rights!Reads(g)
          /\ RightsFree[g] = (rightsTeam[g] = "none" /\ Rights!Climbs(g))
    BY DEF RightsMine, RightsFree
  <2>2. \A g \in RightsPlaces : Rights!Reads(g) => rightsTeam[g] # "none"
    BY DEF Rights!Reads
  <2>. QED
    BY <1>5, <2>1, <2>2 DEF RightsGoes, RightsPlaces
<1>. QED
  BY <1>1, <1>6

(***************************************************************************)
(* The invariant: a row's parent is a row, and every walk up has a top.    *)
(***************************************************************************)
RightsRows == {"none"} \cup Rights!Allows \cup Rights!Denies

RightsUp(f) == TreeWalk(rightsParent, f)

RightsToppedIn(p) == \A f \in Items : \E g \in TreeWalk(p, f) : p[g] = None

RightsInv ==
  /\ rightsState \in [Items -> {"none", "live", "trash"}]
  /\ rightsParent \in TreeParents
  /\ rightsGrant \in [Items -> RightsRows]
  /\ \A f \in Rights!Rows : rightsParent[f] \in Rights!Rows \cup {None}
  /\ RightsToppedIn(rightsParent)

(* What S holds on the way from f up to h: h is at or below each of it.    *)
RightsClear(S, f, h) == h \in RightsUp(f) /\ \A b \in S \cap RightsUp(f) : b \in RightsUp(h)

LEMMA RightsSelf ==
  ASSUME RightsInv, NEW f \in Items
  PROVE  /\ f \in RightsUp(f) /\ RightsUp(f) \subseteq Items
         /\ IsFiniteSet(RightsUp(f)) /\ Cardinality(RightsUp(f)) \in Nat
         /\ Cardinality(RightsUp(f)) <= Rights!Depth /\ Cardinality(RightsUp(f)) >= 1
<1>1. f \in RightsUp(f) /\ RightsUp(f) \subseteq Items
  BY TreeWalked DEF RightsInv, RightsUp, TreeIsAbove, TreeClosed
<1>2. IsFiniteSet(RightsUp(f)) /\ Cardinality(RightsUp(f)) <= Cardinality(Items)
  BY <1>1, TreeCount, FS_Subset
<1>3. Cardinality(RightsUp(f)) \in Nat /\ Cardinality(RightsUp(f)) # 0
  BY <1>1, <1>2, FS_CardinalityType, FS_EmptySet
<1>. QED
  BY <1>1, <1>2, <1>3, RightsCount

LEMMA RightsNext ==
  ASSUME RightsInv, NEW f \in Items, rightsParent[f] # None
  PROVE  /\ rightsParent[f] \in Items /\ RightsUp(f) = {f} \cup RightsUp(rightsParent[f])
         /\ f \notin RightsUp(rightsParent[f])
         /\ Cardinality(RightsUp(f)) = Cardinality(RightsUp(rightsParent[f])) + 1
<1>1. rightsParent[f] \in Items /\ RightsUp(f) = {f} \cup RightsUp(rightsParent[f])
  BY TreeUp DEF RightsInv, RightsUp
<1>2. f \notin RightsUp(rightsParent[f])
  BY TreeNoLoop DEF RightsInv, RightsToppedIn, RightsUp
<1>3. IsFiniteSet(RightsUp(rightsParent[f]))
  BY <1>1, RightsSelf
<1>4. Cardinality(RightsUp(rightsParent[f]) \cup {f}) = Cardinality(RightsUp(rightsParent[f])) + 1
  BY <1>2, <1>3, FS_AddElement
<1>5. RightsUp(rightsParent[f]) \cup {f} = RightsUp(f)
  BY <1>1
<1>. QED
  BY <1>1, <1>2, <1>4, <1>5

LEMMA RightsHigher ==
  ASSUME RightsInv, NEW f \in Items, NEW g \in RightsUp(f)
  PROVE  g \in Items /\ RightsUp(g) \subseteq RightsUp(f)
BY TreeHigher DEF RightsInv, RightsUp

(* One step of a walk, told by what is clear.                              *)
LEMMA RightsClearStep ==
  ASSUME RightsInv, NEW f \in Items, NEW S
  PROVE  /\ RightsClear(S, f, f)
         /\ rightsParent[f] = None => \A h : RightsClear(S, f, h) => h = f
         /\ rightsParent[f] # None =>
              \A h : RightsClear(S, f, h) <=>
                       h = f \/ (f \notin S /\ RightsClear(S, rightsParent[f], h))
<1>1. RightsClear(S, f, f)
  BY RightsSelf DEF RightsClear
<1>2. ASSUME rightsParent[f] = None, NEW h, RightsClear(S, f, h) PROVE h = f
  BY <1>2, TreeUp DEF RightsClear, RightsInv, RightsUp
<1>3. ASSUME rightsParent[f] # None, NEW h
      PROVE  RightsClear(S, f, h) <=>
               h = f \/ (f \notin S /\ RightsClear(S, rightsParent[f], h))
  <2>. DEFINE q == rightsParent[f]
  <2>1. /\ q \in Items /\ RightsUp(f) = {f} \cup RightsUp(q) /\ f \notin RightsUp(q)
    BY <1>3, RightsNext
  <2>. HIDE DEF q
  <2>2. ASSUME RightsClear(S, f, h), h # f PROVE f \notin S /\ RightsClear(S, q, h)
    <3>1. h \in RightsUp(q)
      BY <2>1, <2>2 DEF RightsClear
    <3>2. RightsUp(h) \subseteq RightsUp(q)
      BY <2>1, <3>1, RightsHigher
    <3>. QED
      BY <2>1, <2>2, <3>1, <3>2 DEF RightsClear
  <2>3. ASSUME f \notin S, RightsClear(S, q, h) PROVE RightsClear(S, f, h)
    BY <2>1, <2>3 DEF RightsClear
  <2>. QED
    BY <1>1, <2>2, <2>3 DEF q
<1>. QED
  BY <1>1, <1>2, <1>3

(* A walk with steps enough finds what is clear of where it stops.         *)
RightsStops(on, S) == \A g \in Items : on[g] <=> g \notin S

LEMMA RightsClimb ==
  ASSUME RightsInv, NEW own, NEW on, NEW S, NEW w, NEW m \in Nat,
         RightsStops(on, S),
         RightsGoes(rightsParent, own, on, w, m)
  PROVE  \A n \in 0..m, f \in Items :
           Cardinality(RightsUp(f)) <= n
             => (w[n][f] <=> \E h \in RightsUp(f) : own[h] /\ RightsClear(S, f, h))
<1>. DEFINE Good(n) == \A f \in Items :
              Cardinality(RightsUp(f)) <= n
                => (w[n][f] <=> \E h \in RightsUp(f) : own[h] /\ RightsClear(S, f, h))
            B == {n \in 0..m : ~Good(n)}
<1>1. Good(0)
  BY RightsSelf
<1>2. ASSUME NEW n \in 1..m, Good(n - 1) PROVE Good(n)
  <2>. SUFFICES ASSUME NEW f \in Items, Cardinality(RightsUp(f)) <= n
                PROVE  w[n][f] <=> \E h \in RightsUp(f) : own[h] /\ RightsClear(S, f, h)
    OBVIOUS
  <2>1. w[n][f] <=> own[f] \/ (f \notin S /\ w[n - 1][rightsParent[f]])
    <3>1. n \in 0..m /\ n > 0 /\ f \in RightsPlaces /\ f # None
      BY TreeCount DEF RightsPlaces
    <3>2. on[f] <=> f \notin S
      BY DEF RightsStops
    <3>. QED
      BY <3>1, <3>2 DEF RightsGoes
  <2>2. CASE rightsParent[f] = None
    <3>1. ~w[n - 1][None]
      <4>1. n - 1 \in 0..m /\ None \in RightsPlaces
        BY DEF RightsPlaces
      <4>. QED
        BY <4>1 DEF RightsGoes
    <3>. QED
      BY <2>1, <2>2, <3>1, RightsClearStep DEF RightsClear
  <2>3. CASE rightsParent[f] # None
    <3>. DEFINE q == rightsParent[f]
    <3>1. /\ q \in Items /\ Cardinality(RightsUp(q)) \in Nat
          /\ Cardinality(RightsUp(f)) = Cardinality(RightsUp(q)) + 1
      BY <2>3, RightsNext, RightsSelf
    <3>2. w[n - 1][q] <=> \E h \in RightsUp(q) : own[h] /\ RightsClear(S, q, h)
      <4>1. Cardinality(RightsUp(q)) <= n - 1
        BY <3>1
      <4>. QED
        BY <1>2, <3>1, <4>1
    <3>3. \A h : RightsClear(S, f, h) <=> h = f \/ (f \notin S /\ RightsClear(S, q, h))
      BY <2>3, RightsClearStep
    <3>. HIDE DEF q
    <3>4. w[n][f] <=> own[f] \/ (f \notin S /\ w[n - 1][q])
      BY <2>1 DEF q
    <3>. QED
      BY <3>2, <3>3, <3>4 DEF RightsClear
  <2>. QED
    BY <2>2, <2>3
<1>3. \A n \in 0..m : Good(n)
  <2>. HIDE DEF Good
  <2>. SUFFICES ASSUME B # {} PROVE FALSE
    OBVIOUS
  <2>1. PICK k \in B : \A j \in B : k <= j
    <3>1. B \in SUBSET Nat
      OBVIOUS
    <3>. HIDE DEF B
    <3>. QED
      BY <3>1, TreeLeast
  <2>2. k \in 1..m
    BY <1>1, <2>1
  <2>3. k - 1 \in 0..m /\ k - 1 \notin B
    BY <2>1, <2>2
  <2>. QED
    BY <1>2, <2>1, <2>2, <2>3
<1>. QED
  BY <1>3

(***************************************************************************)
(* The search and the manifest grow downwards.                             *)
(***************************************************************************)
RightsDowns(S, u, m) ==
  u = [n \in 0..m |->
        IF n = 0 THEN S
        ELSE LET above == u[n - 1] IN
             above \cup {f \in Rights!Rows : rightsParent[f] \in above /\ Rights!Opens(f)}]

LEMMA RightsDownsExist ==
  ASSUME NEW S, NEW m \in Nat PROVE \E u : RightsDowns(S, u, m)
<1>. DEFINE D(a) == a \cup {f \in Rights!Rows : rightsParent[f] \in a /\ Rights!Opens(f)}
            B == {k \in Nat : ~\E u : RightsDowns(S, u, k)}
<1>. SUFFICES ASSUME B # {} PROVE FALSE
  OBVIOUS
<1>1. PICK k \in B : \A j \in B : k <= j
  <2>1. B \in SUBSET Nat
    OBVIOUS
  <2>. HIDE DEF B
  <2>. QED
    BY <2>1, TreeLeast
<1>2. k # 0
  <2>1. RightsDowns(S, [n \in 0..0 |-> S], 0)
    BY DEF RightsDowns
  <2>. QED
    BY <1>1, <2>1
<1>3. k - 1 \in Nat /\ k - 1 \notin B
  BY <1>1, <1>2
<1>4. PICK u : RightsDowns(S, u, k - 1)
  BY <1>3
<1>. DEFINE v == [n \in 0..k |-> IF n < k THEN u[n] ELSE D(u[k - 1])]
<1>5. \A n \in 0..k - 1 : u[n] = IF n = 0 THEN S ELSE D(u[n - 1])
  BY <1>4 DEF RightsDowns
<1>6. \A n \in 0..k - 1 : v[n] = u[n]
  BY <1>3
<1>7. \A n \in 0..k : v[n] = IF n = 0 THEN S ELSE D(v[n - 1])
  <2>1. SUFFICES ASSUME NEW n \in 0..k PROVE v[n] = IF n = 0 THEN S ELSE D(v[n - 1])
    OBVIOUS
  <2>2. n # 0 => n - 1 \in 0..k - 1
    BY <1>3, <2>1
  <2>3. CASE n < k
    <3>1. n \in 0..k - 1 /\ v[n] = u[n]
      BY <1>3, <2>1, <2>3
    <3>2. n # 0 => v[n - 1] = u[n - 1]
      BY <1>6, <2>2
    <3>. HIDE DEF v, D
    <3>. QED
      BY <1>5, <3>1, <3>2
  <2>4. CASE n = k
    <3>1. v[n] = D(u[k - 1])
      BY <1>3, <2>4
    <3>2. v[n - 1] = u[k - 1]
      BY <1>2, <1>6, <2>2, <2>4
    <3>. HIDE DEF v, D
    <3>. QED
      BY <1>2, <2>4, <3>1, <3>2
  <2>. QED
    BY <1>3, <2>1, <2>3, <2>4
<1>8. v = [n \in 0..k |-> v[n]]
  OBVIOUS
<1>. HIDE DEF v
<1>9. RightsDowns(S, v, k)
  BY <1>7, <1>8 DEF RightsDowns
<1>. QED
  BY <1>1, <1>9

LEMMA RightsGrown ==
  ASSUME RightsInv, NEW S, S \subseteq Rights!Rows, NEW f \in Rights!Grow(S)
  PROVE  \E g \in S : RightsClear(rightsClosed, f, g)
<1>. DEFINE N == Rights!Depth
            u == CHOOSE d : RightsDowns(S, d, N)
            Good(n) == \A x \in u[n] : x \in Rights!Rows /\ \E g \in S : RightsClear(rightsClosed, x, g)
            B == {n \in 0..N : ~Good(n)}
<1>1. RightsDowns(S, u, N) /\ N \in Nat
  BY RightsDownsExist, RightsCount
<1>2. Rights!Grow(S) = u[N]
  BY Zenon DEF Rights!Grow, RightsDowns
<1>. HIDE DEF u, N
<1>3. \A n \in 0..N : u[n] = IF n = 0 THEN S
                             ELSE LET above == u[n - 1] IN
                                  above \cup {x \in Rights!Rows :
                                               rightsParent[x] \in above /\ Rights!Opens(x)}
  BY <1>1 DEF RightsDowns
<1>4. Good(0)
  <2>1. u[0] = S
    <3>1. 0 \in 0..N
      BY <1>1
    <3>. QED
      BY <1>3, <3>1
  <2>2. Rights!Rows \subseteq Items
    BY DEF Rights!Rows
  <2>. QED
    BY <2>1, <2>2, RightsClearStep
<1>5. ASSUME NEW n \in 1..N, Good(n - 1) PROVE Good(n)
  <2>1. u[n] = u[n - 1] \cup {x \in Rights!Rows :
                               rightsParent[x] \in u[n - 1] /\ Rights!Opens(x)}
    <3>1. n \in 0..N /\ n # 0
      BY <1>1
    <3>. QED
      BY <1>3, <3>1
  <2>2. ASSUME NEW x \in Rights!Rows, rightsParent[x] \in u[n - 1], Rights!Opens(x)
        PROVE  \E g \in S : RightsClear(rightsClosed, x, g)
    <3>1. x \in Items /\ x \notin rightsClosed /\ None \notin Items
      BY <2>2, TreeCount DEF Rights!Rows, Rights!Opens
    <3>2. PICK g \in S : RightsClear(rightsClosed, rightsParent[x], g)
      BY <1>5, <2>2
    <3>3. rightsParent[x] # None
      BY <1>5, <2>2, <3>1 DEF Rights!Rows
    <3>. QED
      BY <3>1, <3>2, <3>3, RightsClearStep
  <2>. QED
    BY <1>5, <2>1, <2>2
<1>6. \A n \in 0..N : Good(n)
  <2>. HIDE DEF Good
  <2>. SUFFICES ASSUME B # {} PROVE FALSE
    OBVIOUS
  <2>1. PICK k \in B : \A j \in B : k <= j
    <3>1. B \in SUBSET Nat
      OBVIOUS
    <3>. HIDE DEF B
    <3>. QED
      BY <3>1, TreeLeast
  <2>2. k \in 1..N
    BY <1>1, <1>4, <2>1
  <2>3. k - 1 \in 0..N /\ k - 1 \notin B
    BY <1>1, <2>1, <2>2
  <2>. QED
    BY <1>5, <2>1, <2>2, <2>3
<1>. QED
  BY <1>1, <1>2, <1>6

(* A change of the parents that makes no folder its own ancestor leaves    *)
(* every walk a top.                                                       *)
LEMMA RightsToppedMove ==
  ASSUME NEW p \in TreeParents, RightsToppedIn(p),
         NEW m \in Items, NEW d \in Items \cup {None}, d # None => m \notin TreeWalk(p, d),
         NEW q \in TreeParents, q[m] = d, \A x \in Items : x # m => q[x] = p[x]
  PROVE  RightsToppedIn(q)
<1>2. ASSUME NEW f \in Items PROVE \E g \in TreeWalk(q, f) : q[g] = None
  <2>1. /\ m \notin TreeWalk(p, f) => TreeWalk(q, f) = TreeWalk(p, f)
        /\ m \in TreeWalk(p, f) => /\ m \in TreeWalk(q, f)
                                   /\ d # None => TreeWalk(p, d) \subseteq TreeWalk(q, f)
    BY TreeMoved
  <2>2. CASE m \notin TreeWalk(p, f)
    <3>1. PICK g \in TreeWalk(p, f) : p[g] = None
      BY DEF RightsToppedIn
    <3>2. g \in Items /\ g # m
      BY <2>2, TreeHigher
    <3>. QED
      BY <2>1, <2>2, <3>1, <3>2
  <2>3. CASE m \in TreeWalk(p, f) /\ d = None
    BY <2>1, <2>3
  <2>4. CASE m \in TreeWalk(p, f) /\ d # None
    <3>1. PICK g \in TreeWalk(p, d) : p[g] = None
      BY <2>4 DEF RightsToppedIn
    <3>2. g \in Items /\ g # m
      BY <2>4, <3>1, TreeHigher
    <3>. QED
      BY <2>1, <2>4, <3>1, <3>2
  <2>. QED
    BY <2>2, <2>3, <2>4
<1>. QED
  BY <1>2 DEF RightsToppedIn

LEMMA RightsToppedCut ==
  ASSUME NEW p \in TreeParents, RightsToppedIn(p), NEW q \in TreeParents,
         \A x \in Items : q[x] \in {p[x], None}
  PROVE  RightsToppedIn(q)
<1>. SUFFICES ASSUME NEW f \in Items, \A g \in TreeWalk(q, f) : q[g] # None PROVE FALSE
  BY DEF RightsToppedIn
<1>1. \A g \in TreeWalk(q, f) : p[g] = q[g]
  BY TreeWalked DEF TreeIsAbove, TreeClosed
<1>2. TreeWalk(p, f) = TreeWalk(q, f)
  BY <1>1, TreeSame
<1>. QED
  BY <1>1, <1>2 DEF RightsToppedIn

LEMMA RightsBelow ==
  ASSUME NEW f
  PROVE  Rights!Subtree(f) = {g \in Rights!Rows : f \in RightsUp(g)}
BY RightsAbove DEF Rights!Subtree, RightsUp

LEMMA RightsInitially == Rights!Init => RightsInv
<1>. SUFFICES ASSUME Rights!Init PROVE RightsInv
  OBVIOUS
<1>1. /\ rightsState = [f \in Items |-> "none"] /\ rightsParent = [f \in Items |-> None]
      /\ rightsGrant = [f \in Items |-> "none"]
  BY DEF Rights!Init
<1>2. rightsParent \in TreeParents
  BY <1>1 DEF TreeParents
<1>3. RightsToppedIn(rightsParent)
  BY <1>1, <1>2, TreeWalked DEF RightsToppedIn, TreeIsAbove
<1>4. Rights!Rows = {}
  BY <1>1 DEF Rights!Rows
<1>. QED
  BY <1>1, <1>2, <1>3, <1>4 DEF RightsInv, RightsRows

LEMMA RightsQuiet ==
  ASSUME RightsInv, UNCHANGED <<rightsState, rightsParent>>,
         rightsGrant' \in [Items -> RightsRows]
  PROVE  RightsInv'
BY DEF RightsInv, Rights!Rows

LEMMA RightsFolders ==
  ASSUME RightsInv, NEW f \in Items, NEW p \in Items \cup {None},
         \/ Rights!Create(f, p) \/ Rights!Move(f, p)
         \/ Rights!Trash(f) \/ Rights!Restore(f) \/ Rights!HardDelete(f)
  PROVE  RightsInv'
<1>. USE DEF RightsInv
<1>1. CASE Rights!Create(f, p)
  <2>1. /\ rightsState[f] = "none" /\ (p = None \/ p \in Rights!Rows)
        /\ rightsState' = [rightsState EXCEPT ![f] = "live"]
        /\ rightsParent' = [rightsParent EXCEPT ![f] = p]
        /\ rightsGrant' = [rightsGrant EXCEPT ![f] = Rights!Copied(p)]
    BY <1>1 DEF Rights!Create
  <2>2. f \notin Rights!Rows /\ Rights!Rows' = Rights!Rows \cup {f}
    BY <2>1 DEF Rights!Rows
  <2>3. p # None => f \notin TreeWalk(rightsParent, p)
    <3>1. TreeClosed(rightsParent, Rights!Rows)
      BY DEF TreeClosed, Rights!Rows
    <3>2. p # None => TreeWalk(rightsParent, p) \subseteq Rights!Rows
      BY <2>1, <3>1, TreeWalked DEF TreeIsAbove
    <3>. QED
      BY <2>2, <3>2
  <2>4. rightsParent' \in TreeParents /\ RightsToppedIn(rightsParent')
    <3>1. /\ rightsParent' \in TreeParents /\ rightsParent'[f] = p
          /\ \A x \in Items : x # f => rightsParent'[x] = rightsParent[x]
      BY <2>1 DEF TreeParents
    <3>. QED
      BY <2>3, <3>1, RightsToppedMove
  <2>5. rightsGrant' \in [Items -> RightsRows]
    BY <2>1 DEF Rights!Copied, RightsRows
  <2>6. \A x \in Rights!Rows' : rightsParent'[x] \in Rights!Rows' \cup {None}
    BY <2>1, <2>2 DEF TreeParents
  <2>7. rightsState' \in [Items -> {"none", "live", "trash"}]
    BY <2>1
  <2>. QED
    BY <2>4, <2>5, <2>6, <2>7
<1>2. CASE Rights!Move(f, p)
  <2>1. /\ f \in Rights!Rows /\ (p = None \/ (p \in Rights!Rows /\ f \notin Rights!Above(p)))
        /\ rightsParent' = [rightsParent EXCEPT ![f] = p]
        /\ rightsGrant' = [rightsGrant EXCEPT ![f] =
                            IF @ \in {"once", "denyOnce"} THEN @ ELSE Rights!Copied(p)]
        /\ rightsState' = rightsState
    BY <1>2 DEF Rights!Move
  <2>2. Rights!Rows' = Rights!Rows
    BY <2>1 DEF Rights!Rows
  <2>3. p # None => f \notin TreeWalk(rightsParent, p)
    BY <2>1, RightsAbove
  <2>4. rightsParent' \in TreeParents /\ RightsToppedIn(rightsParent')
    <3>1. /\ rightsParent' \in TreeParents /\ rightsParent'[f] = p
          /\ \A x \in Items : x # f => rightsParent'[x] = rightsParent[x]
      BY <2>1 DEF TreeParents
    <3>. QED
      BY <2>3, <3>1, RightsToppedMove
  <2>5. rightsGrant' \in [Items -> RightsRows]
    BY <2>1 DEF Rights!Copied, RightsRows
  <2>6. \A x \in Rights!Rows' : rightsParent'[x] \in Rights!Rows' \cup {None}
    BY <2>1, <2>2 DEF TreeParents
  <2>. QED
    BY <2>1, <2>4, <2>5, <2>6
<1>3. CASE Rights!Trash(f)
  <2>1. /\ rightsState' = [g \in Items |-> IF g \in Rights!Subtree(f) THEN "trash"
                                           ELSE rightsState[g]]
        /\ UNCHANGED <<rightsParent, rightsGrant>>
    BY <1>3 DEF Rights!Trash, Rights!acl
  <2>2. Rights!Rows' = Rights!Rows
    BY <2>1 DEF Rights!Rows, Rights!Subtree
  <2>3. rightsState' \in [Items -> {"none", "live", "trash"}]
    BY <2>1
  <2>. QED
    BY <2>1, <2>2, <2>3
<1>4. CASE Rights!Restore(f)
  <2>1. /\ rightsState' = [g \in Items |-> IF g \in Rights!Subtree(f) THEN "live"
                                           ELSE rightsState[g]]
        /\ rightsParent' = [rightsParent EXCEPT ![f] =
                              IF @ # None /\ rightsState[@] = "trash" THEN None ELSE @]
        /\ rightsGrant' = rightsGrant
    BY <1>4 DEF Rights!Restore, Rights!acl
  <2>2. Rights!Rows' = Rights!Rows
    BY <2>1 DEF Rights!Rows, Rights!Subtree
  <2>3. rightsState' \in [Items -> {"none", "live", "trash"}]
    BY <2>1
  <2>4. /\ rightsParent' \in TreeParents
        /\ \A x \in Items : rightsParent'[x] \in {rightsParent[x], None}
    BY <2>1 DEF TreeParents
  <2>5. RightsToppedIn(rightsParent')
    BY <2>4, RightsToppedCut
  <2>6. \A x \in Rights!Rows' : rightsParent'[x] \in Rights!Rows' \cup {None}
    BY <2>2, <2>4 DEF Rights!Rows
  <2>. QED
    BY <2>1, <2>3, <2>4, <2>5, <2>6
<1>5. CASE Rights!HardDelete(f)
  <2>. DEFINE gone == Rights!Subtree(f)
  <2>1. /\ rightsState' = [g \in Items |-> IF g \in gone THEN "none" ELSE rightsState[g]]
        /\ rightsParent' = [g \in Items |-> IF g \in gone THEN None ELSE rightsParent[g]]
        /\ rightsGrant' = [g \in Items |-> IF g \in gone THEN "none" ELSE rightsGrant[g]]
    BY <1>5 DEF Rights!HardDelete
  <2>2. ASSUME NEW x \in Rights!Rows \ gone, rightsParent[x] # None
        PROVE  rightsParent[x] \in Rights!Rows \ gone
    <3>1. x \in Items /\ RightsUp(x) = {x} \cup RightsUp(rightsParent[x])
      BY <2>2, RightsNext DEF Rights!Rows
    <3>. QED
      BY <2>2, <3>1, RightsBelow
  <2>. HIDE DEF gone
  <2>3. Rights!Rows' = Rights!Rows \ gone
    BY <2>1 DEF Rights!Rows
  <2>4. /\ rightsParent' \in TreeParents
        /\ \A x \in Items : rightsParent'[x] \in {rightsParent[x], None}
    BY <2>1 DEF TreeParents
  <2>5. RightsToppedIn(rightsParent')
    BY <2>4, RightsToppedCut
  <2>6. \A x \in Rights!Rows' : rightsParent'[x] \in Rights!Rows' \cup {None}
    BY <2>1, <2>2, <2>3 DEF Rights!Rows
  <2>7. /\ rightsState' \in [Items -> {"none", "live", "trash"}]
        /\ rightsGrant' \in [Items -> RightsRows]
    BY <2>1 DEF RightsRows
  <2>. QED
    BY <2>4, <2>5, <2>6, <2>7
<1>. QED
  BY <1>1, <1>2, <1>3, <1>4, <1>5

LEMMA RightsStep == RightsInv /\ [Rights!Next]_(Rights!vars) => RightsInv'
<1>. SUFFICES ASSUME RightsInv, [Rights!Next]_(Rights!vars) PROVE RightsInv'
  OBVIOUS
<1>1. ASSUME NEW f \in Items, NEW p \in Items \cup {None},
             \/ Rights!Create(f, p) \/ Rights!Move(f, p)
             \/ Rights!Trash(f) \/ Rights!Restore(f) \/ Rights!HardDelete(f)
      PROVE  RightsInv'
  BY <1>1, RightsFolders
<1>2. ASSUME NEW f \in Items,
             \/ Rights!Trash(f) \/ Rights!Restore(f) \/ Rights!HardDelete(f)
      PROVE  RightsInv'
  BY <1>1, <1>2
<1>3. ASSUME NEW f \in Items,
             \/ Rights!Revoke(f) \/ Rights!RevokeRole(f) \/ Rights!Restrict(f)
             \/ Rights!RemoveTeamFolder(f)
      PROVE  RightsInv'
  <2>1. UNCHANGED <<rightsState, rightsParent>>
    BY <1>3 DEF Rights!Revoke, Rights!RevokeRole, Rights!Restrict, Rights!RemoveTeamFolder,
                Rights!Change
  <2>2. rightsGrant' \in [Items -> RightsRows]
    BY <1>3 DEF Rights!Revoke, Rights!RevokeRole, Rights!Restrict, Rights!RemoveTeamFolder,
                RightsInv, RightsRows
  <2>. QED
    BY <2>1, <2>2, RightsQuiet
<1>4. ASSUME NEW f \in Items, NEW kind \in Rights!Allows \cup Rights!Denies,
             Rights!Grant(f, kind) \/ Rights!GrantRole(f, kind)
      PROVE  RightsInv'
  <2>1. UNCHANGED <<rightsState, rightsParent>>
    BY <1>4 DEF Rights!Grant, Rights!GrantRole, Rights!Change
  <2>2. rightsGrant' \in [Items -> RightsRows]
    BY <1>4 DEF Rights!Grant, Rights!GrantRole, RightsInv, RightsRows
  <2>. QED
    BY <2>1, <2>2, RightsQuiet
<1>5. ASSUME NEW f \in Items, NEW t \in {"mine", "other"}, Rights!AddTeamFolder(f, t)
      PROVE  RightsInv'
  BY <1>5, RightsQuiet DEF Rights!AddTeamFolder, Rights!Change, RightsInv
<1>6. CASE Rights!SetLevel \/ Rights!TurnKey
  BY <1>6, RightsQuiet DEF Rights!SetLevel, Rights!TurnKey, Rights!Change, Rights!acl, RightsInv
<1>7. CASE UNCHANGED Rights!vars
  BY <1>7, RightsQuiet DEF Rights!vars, Rights!acl, RightsInv
<1>. QED
  BY <1>1, <1>2, <1>3, <1>4, <1>5, <1>6, <1>7 DEF Rights!Next

(***************************************************************************)
(* What the chain grants is what the rows and the boundaries say; the      *)
(* other ways lead nowhere else, but for the exceptions stated.            *)
(***************************************************************************)
RightsShut(f) == {g \in Items : Rights!Refuses(f, g)} \cup rightsClosed

(* Each walk from f finds a folder that decides and that is clear of where *)
(* the walk stops.                                                         *)
LEMMA RightsReadsWhatIsClear ==
  ASSUME RightsInv, NEW f \in Items
  PROVE  Rights!MayRead(f) <=>
           \E h \in RightsUp(f) : Rights!Grants(f, h) /\ RightsClear(RightsShut(f), f, h)
<1>1. PICK w : /\ RightsGoes(rightsParent, RightsReads(f), RightsAlong(f), w, Rights!Depth)
               /\ Rights!MayRead(f) = w[Rights!Depth][f]
  BY RightsMayRead DEF RightsInv
<1>2. Rights!Depth \in Nat /\ Rights!Depth \in 0..Rights!Depth
  BY RightsCount
<1>3. Cardinality(RightsUp(f)) <= Rights!Depth
  BY RightsSelf
<1>4. RightsStops(RightsAlong(f), RightsShut(f))
  BY DEF RightsStops, RightsAlong, RightsShut, RightsPlaces, Rights!Climbs
<1>5. \A h \in RightsUp(f) : RightsReads(f)[h] <=> Rights!Grants(f, h)
  BY RightsHigher DEF RightsReads, RightsPlaces
<1>6. \A n \in 0..Rights!Depth, x \in Items :
        Cardinality(RightsUp(x)) <= n
          => (w[n][x] <=> \E h \in RightsUp(x) : RightsReads(f)[h] /\ RightsClear(RightsShut(f), x, h))
  BY <1>1, <1>2, <1>4, RightsClimb
<1>7. w[Rights!Depth][f] <=>
        \E h \in RightsUp(f) : RightsReads(f)[h] /\ RightsClear(RightsShut(f), f, h)
  BY <1>1, <1>2, <1>3, <1>6
<1>. QED
  BY <1>1, <1>5, <1>7

LEMMA RightsHasWhatIsClear ==
  ASSUME RightsInv, NEW f \in Items, Rights!HasPermission(f)
  PROVE  \E h \in RightsUp(f) : /\ Rights!Applies(rightsGrant[h], h = f)
                               /\ RightsClear(rightsClosed, f, h)
<1>1. PICK w : /\ RightsGoes(rightsParent, RightsHas(f), RightsOpen, w, Rights!Depth)
               /\ Rights!HasPermission(f) = w[Rights!Depth][f]
  BY RightsHasPermission DEF RightsInv
<1>2. Rights!Depth \in Nat /\ Rights!Depth \in 0..Rights!Depth
  BY RightsCount
<1>3. Cardinality(RightsUp(f)) <= Rights!Depth
  BY RightsSelf
<1>4. RightsStops(RightsOpen, rightsClosed)
  BY DEF RightsStops, RightsOpen, RightsPlaces, Rights!Climbs
<1>5. \A h \in RightsUp(f) : RightsHas(f)[h] <=> Rights!Applies(rightsGrant[h], h = f)
  BY RightsHigher DEF RightsHas, RightsPlaces
<1>6. \A n \in 0..Rights!Depth, x \in Items :
        Cardinality(RightsUp(x)) <= n
          => (w[n][x] <=> \E h \in RightsUp(x) : RightsHas(f)[h] /\ RightsClear(rightsClosed, x, h))
  BY <1>1, <1>2, <1>4, RightsClimb
<1>7. \E h \in RightsUp(f) : RightsHas(f)[h] /\ RightsClear(rightsClosed, f, h)
  BY <1>1, <1>2, <1>3, <1>6
<1>. QED
  BY <1>5, <1>7

LEMMA RightsTeamIsClear ==
  ASSUME RightsInv, NEW f \in Items, Rights!TeamMember(f)
  PROVE  \E h \in RightsUp(f) : Rights!Reads(h) /\ RightsClear(rightsClosed, f, h)
<1>. DEFINE S == {g \in Items : rightsTeam[g] # "none"} \cup rightsClosed
<1>1. PICK w : /\ RightsGoes(rightsParent, RightsMine, RightsFree, w, Rights!Depth)
               /\ Rights!TeamMember(f) = w[Rights!Depth][f]
  BY RightsTeamMember DEF RightsInv
<1>2. Rights!Depth \in Nat /\ Rights!Depth \in 0..Rights!Depth
  BY RightsCount
<1>3. Cardinality(RightsUp(f)) <= Rights!Depth
  BY RightsSelf
<1>4. RightsStops(RightsFree, S)
  BY DEF RightsStops, RightsFree, RightsPlaces, Rights!Climbs
<1>5. \A h \in RightsUp(f) : RightsMine[h] <=> Rights!Reads(h)
  BY RightsHigher DEF RightsMine, RightsPlaces
<1>6. rightsClosed \subseteq S
  OBVIOUS
<1>. HIDE DEF S
<1>7. \A n \in 0..Rights!Depth, x \in Items :
        Cardinality(RightsUp(x)) <= n
          => (w[n][x] <=> \E h \in RightsUp(x) : RightsMine[h] /\ RightsClear(S, x, h))
  BY <1>1, <1>2, <1>4, RightsClimb
<1>8. \E h \in RightsUp(f) : RightsMine[h] /\ RightsClear(S, f, h)
  BY <1>1, <1>2, <1>3, <1>7
<1>. QED
  BY <1>5, <1>6, <1>8 DEF RightsClear

LEMMA RightsHold == RightsInv => AccessFollowsRules
<1>. SUFFICES ASSUME RightsInv PROVE AccessFollowsRules
  OBVIOUS
<1>1. \A g : Rights!Above(g) = RightsUp(g)
  BY RightsAbove DEF RightsUp
<1>2. ASSUME NEW f \in Rights!Rows
      PROVE  Rights!MayRead(f) <=>
               \E g \in Rights!Above(f) :
                 /\ Rights!Grants(f, g)
                 /\ \A b \in rightsClosed \cap Rights!Above(f) : b \in Rights!Above(g)
                 /\ \A d \in Rights!DenyRows(f) : d \in Rights!Above(g) \ {g}
  <2>1. f \in Items
    BY DEF Rights!Rows
  <2>2. RightsUp(f) \subseteq Items
    BY <2>1, RightsSelf
  <2>3. Rights!DenyRows(f) = {g \in RightsUp(f) : Rights!Refuses(f, g)}
    BY <1>1 DEF Rights!DenyRows
  <2>4. \A g : Rights!Grants(f, g) => ~Rights!Refuses(f, g)
    BY DEF Rights!Grants
  <2>5. ASSUME NEW h \in RightsUp(f), Rights!Grants(f, h)
        PROVE  RightsClear(RightsShut(f), f, h) <=>
                 /\ \A b \in rightsClosed \cap RightsUp(f) : b \in RightsUp(h)
                 /\ \A d \in Rights!DenyRows(f) : d \in RightsUp(h) \ {h}
    BY <2>2, <2>3, <2>4, <2>5 DEF RightsClear, RightsShut
  <2>. QED
    BY <1>1, <2>1, <2>5, RightsReadsWhatIsClear
<1>3. ASSUME NEW f \in Rights!Rows, Rights!DenyRows(f) = {},
             NEW h \in RightsUp(f), RightsClear(rightsClosed, f, h),
             \/ Rights!Applies(rightsGrant[h], h = f) \/ Rights!Reads(h)
      PROVE  Rights!MayRead(f)
  <2>1. f \in Items /\ ~Rights!Refuses(f, h)
    BY <1>1, <1>3 DEF Rights!Rows, Rights!DenyRows
  <2>2. RightsClear(RightsShut(f), f, h)
    BY <1>1, <1>3 DEF RightsClear, RightsShut, Rights!DenyRows
  <2>3. Rights!Grants(f, h)
    BY <1>3, <2>1 DEF Rights!Grants
  <2>. QED
    BY <2>1, <2>2, <2>3, RightsReadsWhatIsClear
<1>4. ASSUME NEW f \in Rights!Rows, Rights!DenyRows(f) = {},
             Rights!TeamMember(f) \/ Rights!HasPermission(f)
      PROVE  Rights!MayRead(f)
  <2>1. f \in Items
    BY DEF Rights!Rows
  <2>. QED
    BY <1>3, <1>4, <2>1, RightsTeamIsClear, RightsHasWhatIsClear
<1>5. ASSUME NEW f \in Rights!Rows, Rights!DenyRows(f) = {}, f \in Rights!ListedByRow
      PROVE  Rights!MayRead(f)
  <2>. DEFINE perm == {x \in Rights!Rows : rightsGrant[x] # "none"}
              deep == {x \in perm : rightsGrant[x] \in Rights!Deep}
  <2>1. f \in Items /\ f \in RightsUp(f) /\ RightsClear(rightsClosed, f, f)
    BY RightsSelf, RightsClearStep DEF Rights!Rows
  <2>2. f \in perm \/ f \in Rights!Grow(deep)
    BY <1>5 DEF Rights!ListedByRow
  <2>3. CASE f \in perm
    BY <1>3, <1>5, <2>1, <2>3 DEF Rights!Applies
  <2>4. CASE f \in Rights!Grow(deep)
    <3>1. PICK g \in deep : RightsClear(rightsClosed, f, g)
      BY <2>4, RightsGrown
    <3>2. g \in RightsUp(f) /\ Rights!Applies(rightsGrant[g], g = f)
      BY <3>1 DEF RightsClear, Rights!Applies
    <3>. QED
      BY <1>3, <1>5, <3>1, <3>2
  <2>. QED
    BY <2>2, <2>3, <2>4
<1>6. ASSUME NEW f \in Rights!Rows, Rights!DenyRows(f) = {}, f \in Rights!ListedByTeam
      PROVE  Rights!MayRead(f) \/ rightsMute
  <2>. DEFINE mine == {x \in Rights!Rows : rightsTeam[x] = "mine"}
  <2>1. f \in Rights!Grow(mine)
    BY <1>6 DEF Rights!ListedByTeam
  <2>2. PICK g \in mine : RightsClear(rightsClosed, f, g)
    BY <2>1, RightsGrown
  <2>3. g \in RightsUp(f) /\ (Rights!Reads(g) \/ rightsMute)
    BY <2>2 DEF RightsClear, Rights!Reads
  <2>. QED
    BY <1>3, <1>6, <2>2, <2>3
<1>. QED
  BY <1>2, <1>4, <1>5, <1>6
     DEF AccessFollowsRules, Rights!ReadIsGranted, Rights!ListedMayRead

(* The permission chain that guards a file grants what the rows that allow *)
(* and deny, the role's level in the team and the boundaries say; and the  *)
(* search, the manifest, the team walk and the explicit permissions lead   *)
(* only where it does, but under a deny row and, for the listings, in the  *)
(* folders of a team in which the user's role lets him read nothing:       *)
(* whatever the folders, the grants, the boundaries, the team folders and  *)
(* his seat in the team have been through.                                 *)
THEOREM RulesFollowed == Rights!Spec => []AccessFollowsRules
<1>1. Rights!Init => RightsInv
  BY RightsInitially
<1>2. RightsInv /\ [Rights!Next]_(Rights!vars) => RightsInv'
  BY RightsStep
<1>3. RightsInv => AccessFollowsRules
  BY RightsHold
<1>. QED
  BY <1>1, <1>2, <1>3, PTL DEF Rights!Spec
=============================================================================
