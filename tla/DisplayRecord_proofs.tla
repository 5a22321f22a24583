------------------------- MODULE DisplayRecord_proofs -------------------------
(***************************************************************************)
(* Proofs about DisplayRecord, for any number of files, any titles, any    *)
(* length of an ArchivesSpace record and any number of refreshes that      *)
(* overlap: no DIP path is lost to the index, an uploaded thumbnail shows, *)
(* no step takes away the object or a file that could be played, and a     *)
(* second refresh with the same answer changes nothing.                    *)
(*   Most of it is about the merge: which DIP entry a part takes, that     *)
(* every entry ends up in the manifest, on a part that can be played if    *)
(* the entry could, and that a merge over a merge's own result gives that  *)
(* result again.  What a recursive definition computes is proved by its    *)
(* least counterexample.                                                   *)
(***************************************************************************)
EXTENDS DisplayRecord, FiniteSetTheorems, WellFoundedInduction, TLAPS

-----------------------------------------------------------------------------
(* The invariant *)

Objects == Files \cup {None}
Thumbnails == Urls \cup {DipThumbnail, NoThumbnail}
PartRecords == [title : Nat, kaltura_id : BOOLEAN, object : Objects]
DipRecords == [file : Nat, kaltura_id : BOOLEAN, object : Files]
Envelopes ==
    [shape : {"none", "thin", "fat"}, object : Objects, thumbnail : Thumbnails,
     parts : Seq(PartRecords), dip : Seq(DipRecords)]
Rows == [envelope : Envelopes, thumbnail : Thumbnails, file_name : Objects]

Types ==
    /\ row \in Rows
    /\ built \in [Refreshers -> [envelope : Envelopes, crossed : BOOLEAN]]
    /\ stored \subseteq Urls /\ upload \in Urls \cup {NoThumbnail}
    /\ held \subseteq Files /\ outrun \in BOOLEAN
    /\ writes \in Nat /\ writes <= MaxWrites

\* Where the paths of an envelope are: a refresh recovers them from there.
PathsIn(e) == PathsOf(IF e.shape = "thin" THEN e.dip ELSE e.parts)
PlayableIn(parts) == {p.object : p \in {q \in Range(parts) : q.kaltura_id}} \ {None}

(* An envelope accounts for every path that the object came with.           *)
Accounts(e) ==
    /\ e.shape # "none" /\ e.object # None
    /\ held \subseteq PathsIn(e) \cup {e.object}

RowIsWhole ==
    IF row = NoRow THEN held = {} ELSE Accounts(row.envelope)
ShowsUpload ==
    /\ IsUrl(row.thumbnail) =>
          /\ row.thumbnail \in stored
          /\ ~outrun => row.envelope.thumbnail = row.thumbnail
    /\ IsUrl(upload) => upload \in stored

(* A refresh that has read a row nobody wrote since brings all of it along. *)
Builds(w) == built[w].envelope # NoEnvelope
Uncrossed(w) ==
    /\ IsUrl(row.thumbnail) => built[w].envelope.thumbnail = row.thumbnail
    /\ row.envelope.shape = "fat" =>
          PlayableIn(row.envelope.parts) \subseteq PlayableIn(built[w].envelope.parts)
BuiltIsWhole ==
    \A w \in Refreshers : Builds(w) =>
        /\ row # NoRow
        /\ Accounts(built[w].envelope) /\ built[w].envelope.shape = "fat"
        /\ built[w].envelope.object = row.envelope.object
        /\ built[w].crossed \/ Uncrossed(w)

IInv == Types /\ RowIsWhole /\ ShowsUpload /\ BuiltIsWhole

-----------------------------------------------------------------------------
(* Places and lists *)

\* A set of naturals with an element has a least one.
LEMMA LeastOf ==
    ASSUME NEW S, S \subseteq Nat, S # {}
    PROVE  \E m \in S : \A n \in S : m <= n
<1> DEFINE R == StrictSubsetOrdering(Nat)
           T == {1..n : n \in S}
<1>1. \A n \in S : 1..n \subseteq Nat /\ IsFiniteSet(1..n) BY FS_Interval
<1>2. T \subseteq FiniteSubsetsOf(Nat) /\ T # {} BY <1>1 DEF FiniteSubsetsOf
<1>3. IsWellFoundedOn(R, FiniteSubsetsOf(Nat)) BY FS_StrictSubsetOrderingWellFounded
<1> HIDE DEF R
<1>4. \E x \in T : \A y \in T : ~(<<y, x>> \in R) BY <1>2, <1>3, WFMin
<1>5. PICK m \in S : \A y \in T : ~(<<y, 1..m>> \in R) BY <1>4
<1>6. ASSUME NEW n \in S, ~(m <= n) PROVE FALSE
  <2>1. 1..n \subseteq 1..m /\ m \in 1..m /\ m \notin 1..n BY <1>6
  <2>2. <<1..n, 1..m>> \in R BY <1>1, <2>1 DEF StrictSubsetOrdering, R
  <2> QED BY <1>5, <2>2
<1> QED BY <1>6

\* The n-th place is one of the places, and every place is the n-th for some n.
LEMMA Places ==
    ASSUME NEW m \in Nat, NEW S \in SUBSET (1..m)
    PROVE  /\ IsFiniteSet(S) /\ Cardinality(S) \in Nat
           /\ \A n \in 1..Cardinality(S) :
                 /\ Place(S, n) \in S
                 /\ Cardinality({j \in S : j <= Place(S, n)}) = n
           /\ \A i \in S : /\ Cardinality({j \in S : j <= i}) \in 1..Cardinality(S)
                          /\ Place(S, Cardinality({j \in S : j <= i})) = i
<1>0. IsFiniteSet(1..m) BY FS_Interval
<1>1. IsFiniteSet(S) /\ Cardinality(S) \in Nat BY <1>0, FS_Subset, FS_CardinalityType
<1>s. S \subseteq Int OBVIOUS
<1> DEFINE upTo(i) == {j \in S : j <= i}
           rank == [i \in S |-> Cardinality(upTo(i))]
<1>2. \A i \in S : /\ IsFiniteSet(upTo(i)) /\ rank[i] = Cardinality(upTo(i))
                   /\ rank[i] \in 1..Cardinality(S)
  <2> SUFFICES ASSUME NEW i \in S
               PROVE  IsFiniteSet(upTo(i)) /\ Cardinality(upTo(i)) \in 1..Cardinality(S)
    OBVIOUS
  <2>1. upTo(i) \subseteq S /\ i \in upTo(i) BY <1>s
  <2>2. IsFiniteSet(upTo(i)) /\ Cardinality(upTo(i)) <= Cardinality(S)
    BY <1>1, <2>1, FS_Subset
  <2>3. Cardinality(upTo(i)) \in Nat /\ Cardinality(upTo(i)) # 0
    BY <2>1, <2>2, FS_CardinalityType, FS_EmptySet
  <2> QED BY <1>1, <2>2, <2>3
<1>3. \A i, k \in S : i < k => rank[i] < rank[k]
  <2> SUFFICES ASSUME NEW i \in S, NEW k \in S, i < k PROVE rank[i] < rank[k] OBVIOUS
  <2>0. k <= k /\ ~(k <= i) /\ \A j \in S : j <= i => j <= k BY <1>s
  <2>1. upTo(i) \subseteq upTo(k) /\ k \in upTo(k) /\ k \notin upTo(i) BY <2>0
  <2>2. upTo(i) # upTo(k) BY <2>1
  <2> HIDE DEF upTo
  <2>3. Cardinality(upTo(i)) <= Cardinality(upTo(k)) /\ Cardinality(upTo(i)) # Cardinality(upTo(k))
    BY <1>2, <2>1, <2>2, FS_Subset
  <2>4. rank[i] \in Nat /\ rank[k] \in Nat BY <1>1, <1>2
  <2> QED BY <1>2, <2>3, <2>4
<1> HIDE DEF rank
<1>2a. \A i \in S : rank[i] \in 1..Cardinality(S) BY <1>2, Zenon
<1>4. \A i, k \in S : rank[i] = rank[k] => i = k
  <2> SUFFICES ASSUME NEW i \in S, NEW k \in S, rank[i] = rank[k], i # k PROVE FALSE OBVIOUS
  <2>1. i < k \/ k < i BY <1>s
  <2>2. rank[i] \in Nat /\ rank[k] \in Nat BY <1>1, <1>2a
  <2> QED BY <1>3, <2>1, <2>2
<1>5. rank \in [S -> 1..Cardinality(S)] BY <1>2 DEF rank
<1>6. rank \in Injection(S, 1..Cardinality(S)) BY <1>4, <1>5 DEF Injection, IsInjective
<1>7. IsFiniteSet(1..Cardinality(S)) /\ Cardinality(1..Cardinality(S)) = Cardinality(S)
  BY <1>1, FS_Interval
<1>8. rank \in Surjection(S, 1..Cardinality(S)) BY <1>1, <1>6, <1>7, FS_Injection
<1>9. \A n \in 1..Cardinality(S) : \E i \in S : rank[i] = n BY <1>8 DEF Surjection
<1>10. \A n \in 1..Cardinality(S) : Place(S, n) \in S /\ Cardinality(upTo(Place(S, n))) = n
  BY <1>2, <1>9, Zenon DEF Place
<1>11. \A i \in S : Place(S, rank[i]) = i
  <2> TAKE i \in S
  <2>1. Place(S, rank[i]) \in S /\ rank[Place(S, rank[i])] = rank[i] BY <1>2, <1>10
  <2> QED BY <1>4, <2>1
<1> QED BY <1>1, <1>2, <1>10, <1>11

\* The places ascend.
LEMMA PlacesAscend ==
    ASSUME NEW m \in Nat, NEW S \in SUBSET (1..m),
           NEW i \in 1..Cardinality(S), NEW k \in 1..Cardinality(S), i < k
    PROVE  Place(S, i) < Place(S, k)
<1> DEFINE upTo(p) == {j \in S : j <= p}
<1>1. /\ IsFiniteSet(S) /\ Cardinality(S) \in Nat
      /\ Place(S, i) \in S /\ Place(S, k) \in S
      /\ Cardinality(upTo(Place(S, i))) = i /\ Cardinality(upTo(Place(S, k))) = k
  BY Places
<1>2. PICK a \in S, b \in S : a = Place(S, i) /\ b = Place(S, k) BY <1>1
<1>3. a \in Int /\ b \in Int /\ \A j \in S : j \in Int OBVIOUS
<1> SUFFICES ASSUME ~(a < b) PROVE FALSE BY <1>2
<1>4. upTo(b) \in SUBSET upTo(a)
  <2>1. \A j \in S : j <= b => j <= a BY <1>3
  <2> QED BY <2>1
<1>5. IsFiniteSet(upTo(a)) BY <1>1, FS_Subset
<1> HIDE DEF upTo
<1>6. Cardinality(upTo(b)) <= Cardinality(upTo(a)) BY <1>4, <1>5, FS_Subset
<1> QED BY <1>1, <1>2, <1>6

\* What a selection of a list holds.
LEMMA Selection ==
    ASSUME NEW list, NEW m \in Nat, NEW S \in SUBSET (1..m)
    PROVE  /\ Cardinality(S) \in Nat
           /\ DOMAIN At(list, S) = 1..Cardinality(S) /\ Len(At(list, S)) = Cardinality(S)
           /\ \A n \in DOMAIN At(list, S) : \E i \in S : At(list, S)[n] = list[i]
           /\ \A i \in S : \E n \in DOMAIN At(list, S) : At(list, S)[n] = list[i]
<1>1. /\ Cardinality(S) \in Nat
      /\ \A n \in 1..Cardinality(S) : Place(S, n) \in S
      /\ \A i \in S : \E n \in 1..Cardinality(S) : Place(S, n) = i
  <2>1. \A i \in S : /\ Cardinality({j \in S : j <= i}) \in 1..Cardinality(S)
                     /\ Place(S, Cardinality({j \in S : j <= i})) = i
    BY Places
  <2>2. \A i \in S : \E n \in 1..Cardinality(S) : Place(S, n) = i BY <2>1, Zenon
  <2> QED BY <2>2, Places
<1>2. At(list, S) = [n \in 1..Cardinality(S) |-> list[Place(S, n)]] BY DEF At
<1>3. DOMAIN At(list, S) = 1..Cardinality(S)
      /\ \A n \in 1..Cardinality(S) : At(list, S)[n] = list[Place(S, n)]
  BY <1>2
<1>4. Len(At(list, S)) = Cardinality(S) BY <1>1, <1>2
<1> QED BY <1>1, <1>3, <1>4

LEMMA SelectionTyped ==
    ASSUME NEW list, NEW m \in Nat, NEW S \in SUBSET (1..m), NEW T, \A i \in S : list[i] \in T
    PROVE  At(list, S) \in Seq(T)
<1>1. Cardinality(S) \in Nat /\ \A n \in 1..Cardinality(S) : Place(S, n) \in S BY Places
<1>2. \A n \in 1..Cardinality(S) : list[Place(S, n)] \in T BY <1>1
<1> QED BY <1>1, <1>2 DEF At

-----------------------------------------------------------------------------
(* The merge *)

\* The parts of an ArchivesSpace record, bare or as an envelope keeps them.
IsInner(inner) ==
    /\ Len(inner) \in Nat /\ DOMAIN inner = 1..Len(inner)
    /\ \A n \in DOMAIN inner : inner[n].title \in Nat /\ inner[n].kaltura_id \in BOOLEAN

\* The definition of Claimed as an equation: there is such a function.
LEMMA ClaimedSteps ==
    ASSUME NEW inner, NEW dip, Len(inner) \in Nat
    PROVE  /\ Claimed(inner, dip)[0] = {}
           /\ \A n \in 1..Len(inner) :
                 Claimed(inner, dip)[n] =
                     Claimed(inner, dip)[n - 1]
                       \cup ({Match(inner[n], dip, Claimed(inner, dip)[n - 1])} \ {None})
<1> DEFINE Adds(n, c) == c \cup ({Match(inner[n], dip, c)} \ {None})
           Solves(f, m) == f = [n \in 0..m |-> IF n = 0 THEN {} ELSE Adds(n, f[n - 1])]
           Unsolved == {m \in Nat : \A f : ~Solves(f, m)}
<1> HIDE DEF Adds
<1>1. \A f : \A m \in Nat : Solves(f, m) <=>
          /\ f = [n \in 0..m |-> f[n]] /\ f[0] = {}
          /\ \A n \in 1..m : f[n] = Adds(n, f[n - 1])
  <2> SUFFICES ASSUME NEW f, NEW m \in Nat
               PROVE  Solves(f, m) <=> /\ f = [n \in 0..m |-> f[n]] /\ f[0] = {}
                                       /\ \A n \in 1..m : f[n] = Adds(n, f[n - 1])
    OBVIOUS
  <2>1. ASSUME Solves(f, m)
        PROVE  /\ f = [n \in 0..m |-> f[n]] /\ f[0] = {}
               /\ \A n \in 1..m : f[n] = Adds(n, f[n - 1])
    <3> DEFINE F(n) == IF n = 0 THEN {} ELSE Adds(n, f[n - 1])
    <3>1. f = [n \in 0..m |-> F(n)] BY <2>1
    <3> HIDE DEF F
    <3>2. \A n \in 0..m : f[n] = F(n) BY <3>1
    <3>3. f = [n \in 0..m |-> f[n]] BY <3>1
    <3>4. 0 \in 0..m /\ \A n \in 1..m : n \in 0..m /\ n # 0 OBVIOUS
    <3> QED BY <3>2, <3>3, <3>4 DEF F
  <2>2. ASSUME f = [n \in 0..m |-> f[n]], f[0] = {},
               \A n \in 1..m : f[n] = Adds(n, f[n - 1])
        PROVE  Solves(f, m)
    <3> DEFINE F(n) == IF n = 0 THEN {} ELSE Adds(n, f[n - 1])
    <3>1. \A n \in 0..m : n = 0 \/ n \in 1..m OBVIOUS
    <3>2. \A n \in 0..m : f[n] = F(n) BY <2>2, <3>1
    <3> HIDE DEF F
    <3>3. f = [n \in 0..m |-> F(n)] BY <2>2, <3>2
    <3> QED BY <3>3 DEF F
  <2> QED BY <2>1, <2>2
<1> HIDE DEF Solves
<1>2. Unsolved = {}
  <2> SUFFICES ASSUME Unsolved # {} PROVE FALSE OBVIOUS
  <2>1. PICK m \in Unsolved : \A k \in Unsolved : m <= k BY LeastOf
  <2>2. CASE m = 0
    <3> DEFINE f == [n \in 0..0 |-> {}]
    <3>1. Solves(f, 0) BY <1>1
    <3> QED BY <2>1, <2>2, <3>1
  <2>3. CASE m # 0
    <3>1. m \in Nat /\ m - 1 \in Nat /\ m - 1 \notin Unsolved BY <2>1, <2>3
    <3>2. PICK g : Solves(g, m - 1) BY <3>1
    <3>3. g[0] = {} /\ \A n \in 1..(m - 1) : g[n] = Adds(n, g[n - 1]) BY <1>1, <3>1, <3>2
    <3> DEFINE f == [n \in 0..m |-> IF n = m THEN Adds(m, g[m - 1]) ELSE g[n]]
    <3>4. f = [n \in 0..m |-> f[n]] OBVIOUS
    <3>5. f[0] = {} BY <2>3, <3>1, <3>3
    <3>6. f[m] = Adds(m, f[m - 1]) BY <3>1
    <3>7. \A n \in 1..(m - 1) : f[n] = Adds(n, f[n - 1]) BY <3>1, <3>3
    <3>8. \A n \in 1..m : n = m \/ n \in 1..(m - 1) BY <3>1
    <3> HIDE DEF f
    <3>9. Solves(f, m) BY <1>1, <3>1, <3>4, <3>5, <3>6, <3>7, <3>8
    <3> QED BY <2>1, <3>9
  <2> QED BY <2>2, <2>3
<1>3. PICK g : Solves(g, Len(inner)) BY <1>2
<1>4. Claimed(inner, dip) = CHOOSE f : Solves(f, Len(inner))
  BY Zenon DEF Claimed, Solves, Adds
<1>5. Solves(Claimed(inner, dip), Len(inner)) BY <1>3, <1>4, Zenon
<1>6. /\ Claimed(inner, dip)[0] = {}
      /\ \A n \in 1..Len(inner) : Claimed(inner, dip)[n] = Adds(n, Claimed(inner, dip)[n - 1])
  BY <1>1, <1>5
<1> QED BY <1>6 DEF Adds

\* A match is none, or one of the matches, and then the first of them.
LEMMA MatchIs ==
    ASSUME NEW part, NEW dip, NEW claimed, DOMAIN dip \subseteq Nat
    PROVE  LET i == Match(part, dip, claimed)
           IN  \/ i = None /\ Matches(part, dip, claimed) = {}
               \/ /\ i \in Matches(part, dip, claimed)
                  /\ \A j \in Matches(part, dip, claimed) : i <= j
<1>1. Matches(part, dip, claimed) \subseteq DOMAIN dip BY DEF Matches
<1>2. CASE Matches(part, dip, claimed) = {} BY <1>2 DEF Match
<1>3. CASE Matches(part, dip, claimed) # {}
  <2>1. \E i \in Matches(part, dip, claimed) :
           \A j \in Matches(part, dip, claimed) : i <= j
    BY <1>1, <1>3, LeastOf
  <2> QED BY <1>3, <2>1, Zenon DEF Match
<1> QED BY <1>2, <1>3

\* Every claimed entry is claimed by one of the parts.
LEMMA ClaimedBySomePart ==
    ASSUME NEW inner, NEW dip, Len(inner) \in Nat, DOMAIN dip \in SUBSET (Nat \ {0}),
           NEW m \in 0..Len(inner)
    PROVE  /\ Claimed(inner, dip)[m] \subseteq DOMAIN dip
           /\ \A i \in Claimed(inner, dip)[m] :
                 \E n \in 1..m : Match(inner[n], dip, Claimed(inner, dip)[n - 1]) = i
<1> DEFINE C == Claimed(inner, dip)
           Hit(n) == Match(inner[n], dip, C[n - 1])
           Good(k) == /\ C[k] \subseteq DOMAIN dip
                      /\ \A i \in C[k] : \E n \in 1..k : Hit(n) = i
           Bad == {k \in 0..Len(inner) : ~Good(k)}
<1>1. C[0] = {} /\ \A n \in 1..Len(inner) : C[n] = C[n - 1] \cup ({Hit(n)} \ {None})
  BY ClaimedSteps
<1>2. \A n \in Nat : Hit(n) = None \/ Hit(n) \in DOMAIN dip BY MatchIs DEF Matches
<1> HIDE DEF C, Hit
<1>3. Bad = {}
  <2> SUFFICES ASSUME Bad # {} PROVE FALSE OBVIOUS
  <2>1. Bad \subseteq Nat OBVIOUS
  <2>2. PICK k \in Bad : \A l \in Bad : k <= l BY <2>1, LeastOf
  <2>3. k # 0 BY <1>1, <2>2
  <2>4. k \in 1..Len(inner) /\ k - 1 \in 0..Len(inner) /\ ~(k <= k - 1) BY <2>2, <2>3
  <2>5. Good(k - 1) BY <2>2, <2>4
  <2>6. C[k] = C[k - 1] \cup ({Hit(k)} \ {None}) BY <1>1, <2>4
  <2>7. C[k] \subseteq DOMAIN dip BY <1>2, <2>4, <2>5, <2>6
  <2>8. \A n \in 1..(k - 1) : n \in 1..k BY <2>4
  <2>9. ASSUME NEW i \in C[k] PROVE \E n \in 1..k : Hit(n) = i
    <3>1. CASE i \in C[k - 1] BY <2>5, <2>8, <3>1
    <3>2. CASE i = Hit(k) BY <2>4, <3>2
    <3> QED BY <2>6, <3>1, <3>2
  <2> QED BY <2>2, <2>7, <2>9
<1>4. Good(m) BY <1>3
<1> QED BY <1>4 DEF C, Hit

LEMMA Concatenation ==
    ASSUME NEW S, NEW s \in Seq(S), NEW t \in Seq(S)
    PROVE  /\ s \o t \in Seq(S) /\ Len(s \o t) = Len(s) + Len(t)
           /\ \A n \in 1..Len(s) : (s \o t)[n] = s[n]
           /\ \A n \in 1..Len(t) : (s \o t)[Len(s) + n] = t[n]
<1>1. Len(s) \in Nat /\ Len(t) \in Nat OBVIOUS
<1>2. \A n \in 1..Len(s) : n \in 1..(Len(s) + Len(t)) BY <1>1
<1>3. \A n \in 1..Len(t) : Len(s) + n \in 1..(Len(s) + Len(t)) /\ ~(Len(s) + n <= Len(s))
                            /\ (Len(s) + n) - Len(s) = n
  BY <1>1
<1> QED BY <1>1, <1>2, <1>3

\* The merged list: first the ArchivesSpace parts, in their order, each with
\* the entry that it took ...
LEMMA MergedList ==
    ASSUME NEW inner, IsInner(inner), NEW dip \in Seq(DipRecords)
    PROVE  LET C == Claimed(inner, dip)
               left == At(dip, Unclaimed(dip, C[Len(inner)]))
               merged == merge_parts(inner, dip)
           IN  /\ merged \in Seq(PartRecords) /\ left \in Seq(DipRecords)
               /\ Len(merged) = Len(inner) + Len(left)
               /\ \A n \in 1..Len(inner) :
                     merged[n] = MergedPart(inner[n], dip, Match(inner[n], dip, C[n - 1]))
               /\ \A n \in 1..Len(left) : merged[Len(inner) + n] = AsPart(left[n])
<1> DEFINE C == Claimed(inner, dip)
           left == At(dip, Unclaimed(dip, C[Len(inner)]))
           Hit(n) == Match(inner[n], dip, C[n - 1])
           first == [n \in DOMAIN inner |-> MergedPart(inner[n], dip, Hit(n))]
           rest == [n \in DOMAIN left |-> AsPart(left[n])]
<1>1. Len(dip) \in Nat /\ DOMAIN dip = 1..Len(dip) /\ \A i \in DOMAIN dip : dip[i] \in DipRecords
  OBVIOUS
<1>2. left \in Seq(DipRecords)
  <2>1. Unclaimed(dip, C[Len(inner)]) \in SUBSET (1..Len(dip)) BY <1>1 DEF Unclaimed
  <2>2. \A i \in Unclaimed(dip, C[Len(inner)]) : dip[i] \in DipRecords BY <1>1, <2>1
  <2> HIDE DEF C
  <2> QED BY <1>1, <2>1, <2>2, SelectionTyped
<1>3. \A n \in Nat : Hit(n) = None \/ Hit(n) \in DOMAIN dip BY <1>1, MatchIs DEF Matches
<1> HIDE DEF left, Hit
<1>4. \A n \in DOMAIN inner : MergedPart(inner[n], dip, Hit(n)) \in PartRecords
  <2> SUFFICES ASSUME NEW n \in DOMAIN inner
               PROVE  MergedPart(inner[n], dip, Hit(n)) \in PartRecords
    OBVIOUS
  <2>1. n \in Nat /\ inner[n].title \in Nat /\ inner[n].kaltura_id \in BOOLEAN BY DEF IsInner
  <2>2. CASE Hit(n) = None BY <2>1, <2>2 DEF MergedPart, PartRecords, Objects
  <2>3. CASE Hit(n) # None
    <3>1. dip[Hit(n)] \in DipRecords BY <1>1, <1>3, <2>1, <2>3
    <3>2. /\ dip[Hit(n)].file \in Nat /\ dip[Hit(n)].kaltura_id \in BOOLEAN
          /\ dip[Hit(n)].object \in Files
      BY <3>1 DEF DipRecords
    <3> QED BY <2>1, <2>3, <3>2 DEF MergedPart, PartRecords, Objects
  <2> QED BY <2>2, <2>3
<1>5. \A n \in DOMAIN left : AsPart(left[n]) \in PartRecords
  <2> SUFFICES ASSUME NEW n \in DOMAIN left PROVE AsPart(left[n]) \in PartRecords OBVIOUS
  <2>1. left[n] \in DipRecords BY <1>2
  <2> QED BY <2>1 DEF DipRecords, AsPart, PartRecords, Objects
<1>6. DOMAIN inner = 1..Len(inner) /\ Len(inner) \in Nat BY DEF IsInner
<1>7. first \in Seq(PartRecords) /\ Len(first) = Len(inner)
      /\ \A n \in 1..Len(inner) : first[n] = MergedPart(inner[n], dip, Hit(n))
  BY <1>4, <1>6
<1>8. rest \in Seq(PartRecords) /\ Len(rest) = Len(left)
      /\ \A n \in 1..Len(left) : rest[n] = AsPart(left[n])
  <2>1. DOMAIN left = 1..Len(left) /\ Len(left) \in Nat BY <1>2
  <2> QED BY <1>5, <2>1
<1>9. merge_parts(inner, dip) = first \o rest BY DEF merge_parts, left, Hit, C
<1> HIDE DEF first, rest
<1>10. /\ first \o rest \in Seq(PartRecords)
       /\ Len(first \o rest) = Len(inner) + Len(left)
       /\ \A n \in 1..Len(inner) : (first \o rest)[n] = first[n]
       /\ \A n \in 1..Len(left) : (first \o rest)[Len(inner) + n] = rest[n]
  <2>1. first \in Seq(PartRecords) /\ rest \in Seq(PartRecords) BY <1>7, <1>8
  <2>2. /\ first \o rest \in Seq(PartRecords)
        /\ Len(first \o rest) = Len(first) + Len(rest)
        /\ \A n \in 1..Len(first) : (first \o rest)[n] = first[n]
        /\ \A n \in 1..Len(rest) : (first \o rest)[Len(first) + n] = rest[n]
    BY <2>1, Concatenation
  <2>3. Len(first) = Len(inner) /\ Len(rest) = Len(left) BY <1>7, <1>8
  <2> QED BY <2>2, <2>3
<1> QED BY <1>2, <1>7, <1>8, <1>9, <1>10 DEF left, Hit

\* ... then the others: every entry's path is in the list, on a part that can
\* be played if the entry could.
LEMMA EveryEntryIsMerged ==
    ASSUME NEW inner, IsInner(inner), NEW dip \in Seq(DipRecords), NEW i \in DOMAIN dip
    PROVE  \E k \in DOMAIN merge_parts(inner, dip) :
              /\ merge_parts(inner, dip)[k].object = dip[i].object
              /\ dip[i].kaltura_id => merge_parts(inner, dip)[k].kaltura_id
<1> DEFINE C == Claimed(inner, dip)
           left == At(dip, Unclaimed(dip, C[Len(inner)]))
           merged == merge_parts(inner, dip)
<1>1. /\ merged \in Seq(PartRecords) /\ left \in Seq(DipRecords)
      /\ Len(merged) = Len(inner) + Len(left)
      /\ \A n \in 1..Len(inner) :
            merged[n] = MergedPart(inner[n], dip, Match(inner[n], dip, C[n - 1]))
      /\ \A n \in 1..Len(left) : merged[Len(inner) + n] = AsPart(left[n])
  BY MergedList
<1>2. Len(inner) \in Nat /\ DOMAIN inner = 1..Len(inner) BY DEF IsInner
<1>3. Len(dip) \in Nat /\ DOMAIN dip = 1..Len(dip) /\ dip[i] \in DipRecords
      /\ i \in Nat \ {0} /\ DOMAIN dip \in SUBSET (Nat \ {0})
  OBVIOUS
<1>4. DOMAIN merged = 1..Len(merged) /\ Len(left) \in Nat /\ DOMAIN left = 1..Len(left)
  BY <1>1
<1>5. CASE i \in C[Len(inner)]
  <2>1. Len(inner) \in 0..Len(inner) BY <1>2
  <2>2. PICK n \in 1..Len(inner) : Match(inner[n], dip, C[n - 1]) = i
    BY <1>2, <1>3, <1>5, <2>1, ClaimedBySomePart
  <2>3. merged[n] = MergedPart(inner[n], dip, i) BY <1>1, <2>2
  <2>4. n \in DOMAIN merged BY <1>1, <1>2, <1>4
  <2>5. i # None BY <1>3 DEF None
  <2>6. inner[n].kaltura_id \in BOOLEAN /\ dip[i].kaltura_id \in BOOLEAN
    BY <1>3 DEF IsInner, DipRecords
  <2>7. merged[n].object = dip[i].object BY <2>3, <2>5 DEF MergedPart
  <2>8. merged[n].kaltura_id = (inner[n].kaltura_id \/ (i # None /\ dip[i].kaltura_id))
    BY <2>3 DEF MergedPart
  <2> HIDE DEF merged
  <2> QED BY <2>4, <2>5, <2>6, <2>7, <2>8 DEF merged
<1>6. CASE i \notin C[Len(inner)]
  <2> DEFINE S == Unclaimed(dip, C[Len(inner)])
  <2>1. i \in S /\ S \in SUBSET (1..Len(dip)) BY <1>3, <1>6 DEF Unclaimed
  <2>a. left = At(dip, S) OBVIOUS
  <2> HIDE DEF C, S, left
  <2>2. \E n \in DOMAIN left : left[n] = dip[i]
    <3> DEFINE m == Len(dip)
    <3>1. m \in Nat /\ S \in SUBSET (1..m) BY <1>3, <2>1
    <3> HIDE DEF m
    <3>2. \E n \in DOMAIN At(dip, S) : At(dip, S)[n] = dip[i] BY <2>1, <3>1, Selection
    <3> QED BY <2>a, <3>2
  <2>3. PICK n \in 1..Len(left) : left[n] = dip[i] BY <1>4, <2>2
  <2>4. merged[Len(inner) + n] = AsPart(dip[i]) BY <1>1, <2>3
  <2>5. Len(inner) + n \in DOMAIN merged BY <1>1, <1>2, <1>4
  <2>6. AsPart(dip[i]).object = dip[i].object /\ AsPart(dip[i]).kaltura_id = dip[i].kaltura_id
    BY DEF AsPart
  <2> HIDE DEF merged, left
  <2> QED BY <2>4, <2>5, <2>6 DEF merged
<1> QED BY <1>5, <1>6

\* A manifest with a path has a master part, which has one.
LEMMA MasterHasPath ==
    ASSUME NEW merged \in Seq(PartRecords)
    PROVE  /\ pick_master_part(merged) \in Objects
           /\ (\E k \in DOMAIN merged : merged[k].object # None) => pick_master_part(merged) # None
<1>0. /\ DOMAIN merged \subseteq Nat \ {0}
      /\ \A k \in DOMAIN merged : merged[k] \in PartRecords
  OBVIOUS
<1>1. /\ DOMAIN merged \subseteq Nat \ {0}
      /\ \A k \in DOMAIN merged : merged[k].title \in Nat /\ merged[k].object \in Objects
  BY <1>0 DEF PartRecords
<1> DEFINE S == WithPath(merged)
           Before(i, j) == \/ merged[i].title < merged[j].title
                           \/ merged[i].title = merged[j].title /\ i <= j
<1>2. S \subseteq DOMAIN merged /\ \A i \in S : merged[i].object # None BY DEF WithPath
<1>3. (\E k \in DOMAIN merged : merged[k].object # None) <=> S # {} BY DEF WithPath
<1>4. CASE S = {} BY <1>3, <1>4 DEF FirstNamed, pick_master_part, Objects
<1>5. CASE S # {}
  <2> DEFINE T == {merged[i].title : i \in S}
  <2>1. T \subseteq Nat /\ T # {} BY <1>1, <1>2, <1>5
  <2>2. PICK t \in T : \A u \in T : t <= u BY <2>1, LeastOf
  <2> DEFINE W == {i \in S : merged[i].title = t}
  <2>3. W \subseteq Nat /\ W # {} BY <1>1, <1>2, <2>2
  <2>4. PICK i \in W : \A j \in W : i <= j BY <2>3, LeastOf
  <2>5. \A j \in S : merged[j].title = t \/ t < merged[j].title
    <3>1. \A a, b \in Nat : a <= b => b = a \/ a < b OBVIOUS
    <3>2. t \in Nat BY <2>1, <2>2
    <3>3. \A j \in S : merged[j].title \in Nat /\ t <= merged[j].title BY <1>1, <1>2, <2>2
    <3> QED BY <3>1, <3>2, <3>3
  <2>6. \A j \in S : Before(i, j) BY <2>4, <2>5
  <2> HIDE DEF S, Before
  <2>7. i \in S BY <2>4
  <2>8. (CHOOSE x \in S : \A j \in S : Before(x, j)) \in S BY <2>6, <2>7
  <2>9. FirstNamed(merged) = CHOOSE x \in S : \A j \in S : Before(x, j)
    BY <1>5, Zenon DEF FirstNamed, S, Before
  <2>10. FirstNamed(merged) \in S BY <2>8, <2>9
  <2>11. FirstNamed(merged) # None BY <1>1, <1>2, <2>10 DEF None
  <2> QED BY <1>1, <1>2, <1>3, <2>10, <2>11 DEF pick_master_part
<1> QED BY <1>4, <1>5

-----------------------------------------------------------------------------
(* Envelopes *)

LEMMA PathsAre ==
    ASSUME NEW parts, NEW o
    PROVE  /\ o \in PathsOf(parts) <=> o # None /\ \E k \in DOMAIN parts : parts[k].object = o
           /\ o \in PlayableIn(parts) <=>
                o # None /\ \E k \in DOMAIN parts : parts[k].kaltura_id /\ parts[k].object = o
BY DEF PathsOf, PlayableIn, Range

\* What a typed envelope consists of.
LEMMA EnvelopeFields ==
    ASSUME NEW e \in Envelopes
    PROVE  /\ e.object \in Objects /\ e.thumbnail \in Thumbnails
           /\ e.parts \in Seq(PartRecords) /\ e.dip \in Seq(DipRecords)
           /\ e.shape \in {"none", "thin", "fat"}
BY DEF Envelopes

LEMMA PartsAreInner ==
    ASSUME NEW parts \in Seq(PartRecords)
    PROVE  IsInner(parts)
<1>1. /\ Len(parts) \in Nat /\ DOMAIN parts = 1..Len(parts)
      /\ \A n \in DOMAIN parts : parts[n] \in PartRecords
  OBVIOUS
<1> QED BY <1>1 DEF IsInner, PartRecords

LEMMA AnswersAreInner ==
    ASSUME NEW answer \in Answers
    PROVE  IsInner(answer)
<1>1. PICK n \in 0..MaxParts : answer \in [1..n -> AspaceParts] BY DEF Answers
<1>2. n \in Nat BY DisplayRecordAssumption
<1>3. Len(answer) = n /\ DOMAIN answer = 1..n /\ \A k \in DOMAIN answer : answer[k] \in AspaceParts
  BY <1>1, <1>2
<1> QED BY <1>2, <1>3, DisplayRecordAssumption DEF IsInner, AspaceParts

\* The paths of the DIP are in the manifest, and it has a master part.
LEMMA MergedPaths ==
    ASSUME NEW inner, IsInner(inner), NEW dip \in Seq(DipRecords)
    PROVE  /\ merge_parts(inner, dip) \in Seq(PartRecords)
           /\ PathsOf(dip) \subseteq PathsOf(merge_parts(inner, dip))
           /\ dip # <<>> => pick_master_part(merge_parts(inner, dip)) # None
<1> DEFINE merged == merge_parts(inner, dip)
<1>1. merged \in Seq(PartRecords) BY MergedList
<1>2. \A i \in DOMAIN dip : \E k \in DOMAIN merged : merged[k].object = dip[i].object
  BY EveryEntryIsMerged
<1> HIDE DEF merged
<1>3. PathsOf(dip) \subseteq PathsOf(merged)
  <2> SUFFICES ASSUME NEW o \in PathsOf(dip) PROVE o \in PathsOf(merged) OBVIOUS
  <2>1. PICK i \in DOMAIN dip : dip[i].object = o BY PathsAre
  <2>2. o # None BY PathsAre
  <2> QED BY <1>2, <2>1, <2>2, PathsAre
<1>4. ASSUME dip # <<>> PROVE pick_master_part(merged) # None
  <2>1. 1 \in DOMAIN dip /\ dip[1] \in DipRecords BY <1>4
  <2>2. dip[1].object # None BY <2>1 DEF DipRecords, Files, None
  <2> QED BY <1>1, <1>2, <2>1, <2>2, MasterHasPath
<1> QED BY <1>1, <1>3, <1>4 DEF merged

LEMMA BuildIs ==
    ASSUME NEW inner, IsInner(inner), NEW dip \in Seq(DipRecords)
    PROVE  /\ build_envelope(inner, dip) \in Envelopes
           /\ build_envelope(inner, dip).shape = "fat"
           /\ build_envelope(inner, dip).parts = merge_parts(inner, dip)
           /\ build_envelope(inner, dip).thumbnail \in {DipThumbnail, NoThumbnail}
           /\ dip # <<>> => build_envelope(inner, dip).object # None
<1> DEFINE merged == merge_parts(inner, dip)
<1>1. merged \in Seq(PartRecords)
      /\ (dip # <<>> => pick_master_part(merged) # None)
  BY MergedPaths
<1>2. pick_master_part(merged) \in Objects BY <1>1, MasterHasPath
<1> DEFINE picture == IF pick_master_part(merged) = None THEN NoThumbnail ELSE DipThumbnail
<1>3. picture \in {DipThumbnail, NoThumbnail} OBVIOUS
<1> HIDE DEF merged, picture
<1>4. build_envelope(inner, dip) =
        [shape |-> "fat", object |-> pick_master_part(merged), parts |-> merged, dip |-> <<>>,
         thumbnail |-> picture]
  BY DEF build_envelope, merged, picture
<1>5. <<>> \in Seq(DipRecords) OBVIOUS
<1>6. build_envelope(inner, dip) \in Envelopes
  BY <1>1, <1>2, <1>3, <1>4, <1>5 DEF Envelopes, Thumbnails
<1> QED BY <1>1, <1>3, <1>4, <1>6 DEF merged

\* A refresh recovers all of an envelope's paths, and which can be played.
LEMMA DipOfIs ==
    ASSUME NEW e \in Envelopes
    PROVE  /\ DipOf(e) \in Seq(DipRecords)
           /\ PathsIn(e) \subseteq PathsOf(DipOf(e))
           /\ e.shape # "thin" =>
                \A k \in DOMAIN e.parts : e.parts[k].object # None =>
                   \E i \in DOMAIN DipOf(e) : /\ DipOf(e)[i].object = e.parts[k].object
                                              /\ DipOf(e)[i].kaltura_id = e.parts[k].kaltura_id
<1>1. e.parts \in Seq(PartRecords) /\ e.dip \in Seq(DipRecords) BY EnvelopeFields
<1>2. CASE e.shape = "thin"
  BY <1>1, <1>2 DEF DipOf, PathsIn
<1>3. CASE e.shape # "thin"
  <2> DEFINE parts == e.parts
             S == WithPath(parts)
             prior == At(parts, S)
             entry(p) == [file |-> p.title, kaltura_id |-> p.kaltura_id, object |-> p.object]
             dip == [k \in DOMAIN prior |-> entry(prior[k])]
             Pathed == {p \in PartRecords : p.object # None}
  <2>1. DipOf(e) = dip BY <1>3 DEF DipOf
  <2>2. Len(parts) \in Nat /\ DOMAIN parts = 1..Len(parts)
        /\ \A k \in DOMAIN parts : parts[k] \in PartRecords
    BY <1>1
  <2>3. S \subseteq 1..Len(parts) /\ \A k \in S : parts[k] \in Pathed
    BY <2>2 DEF WithPath
  <2>4. \A k \in DOMAIN parts : parts[k].object # None => k \in S BY DEF WithPath
  <2> HIDE DEF S, parts
  <2>5. /\ prior \in Seq(Pathed)
        /\ \A k \in S : \E n \in DOMAIN prior : prior[n] = parts[k]
    <3> DEFINE m == Len(parts)
    <3>1. m \in Nat /\ S \in SUBSET (1..m) BY <2>2, <2>3
    <3> HIDE DEF m
    <3>3. prior \in Seq(Pathed) BY <2>3, <3>1, SelectionTyped
    <3>4. \A i \in S : \E n \in DOMAIN At(parts, S) : At(parts, S)[n] = parts[i]
      BY <3>1, Selection
    <3> QED BY <3>3, <3>4
  <2> HIDE DEF prior
  <2>6. Len(prior) \in Nat /\ DOMAIN prior = 1..Len(prior) /\ \A n \in DOMAIN prior : prior[n] \in Pathed
    BY <2>5
  <2>7. \A n \in DOMAIN prior : entry(prior[n]) \in DipRecords
    BY <2>6 DEF PartRecords, DipRecords, Objects
  <2>8. dip \in Seq(DipRecords) BY <2>6, <2>7
  <2>9. \A k \in DOMAIN parts : parts[k].object # None =>
           \E i \in DOMAIN dip : /\ dip[i].object = parts[k].object
                                 /\ dip[i].kaltura_id = parts[k].kaltura_id
    <3> SUFFICES ASSUME NEW k \in DOMAIN parts, parts[k].object # None
                 PROVE  \E i \in DOMAIN dip : /\ dip[i].object = parts[k].object
                                              /\ dip[i].kaltura_id = parts[k].kaltura_id
      OBVIOUS
    <3>1. PICK n \in DOMAIN prior : prior[n] = parts[k] BY <2>4, <2>5
    <3>2. n \in DOMAIN dip /\ dip[n] = entry(parts[k]) BY <3>1
    <3> QED BY <3>2
  <2> HIDE DEF dip
  <2>10. PathsOf(parts) \subseteq PathsOf(dip)
    <3> SUFFICES ASSUME NEW o \in PathsOf(parts) PROVE o \in PathsOf(dip) OBVIOUS
    <3>1. o # None /\ \E k \in DOMAIN parts : parts[k].object = o BY PathsAre
    <3> QED BY <2>9, <3>1, PathsAre
  <2> QED BY <1>3, <2>1, <2>8, <2>9, <2>10 DEF PathsIn, parts
<1> QED BY <1>2, <1>3

\* What a refresh builds of a row.
LEMMA PayloadIs ==
    ASSUME NEW r \in Rows, NEW answer \in Answers, r.envelope.object # None
    PROVE  LET p == build_payload(r, answer)
           IN  /\ p \in Envelopes /\ p.shape = "fat"
               /\ p.object = r.envelope.object
               /\ PathsIn(r.envelope) \subseteq PathsIn(p)
               /\ IsUrl(r.thumbnail) => p.thumbnail = r.thumbnail
               /\ r.envelope.shape # "thin" =>
                    PlayableIn(r.envelope.parts) \subseteq PlayableIn(p.parts)
<1> DEFINE old == r.envelope
           inner == InnerFor(old, answer)
           dip == DipOf(old)
           fresh == build_envelope(inner, dip)
           object == Kept(old.object, fresh.object, r.file_name, None)
           thumbnail == Thumbnail(r.thumbnail,
                          Kept(old.thumbnail, fresh.thumbnail, r.thumbnail, NoThumbnail))
           p == build_payload(r, answer)
<1>1. old \in Envelopes /\ r.thumbnail \in Thumbnails /\ r.file_name \in Objects BY DEF Rows
<1>2. old.parts \in Seq(PartRecords) /\ old.object \in Objects /\ old.thumbnail \in Thumbnails
  BY <1>1, EnvelopeFields
<1>3. IsInner(inner) BY <1>2, PartsAreInner, AnswersAreInner DEF InnerFor
<1>4. dip \in Seq(DipRecords) /\ PathsIn(old) \subseteq PathsOf(dip) BY <1>1, DipOfIs
<1>5. /\ fresh \in Envelopes /\ fresh.shape = "fat"
      /\ fresh.parts = merge_parts(inner, dip)
      /\ fresh.thumbnail \in {DipThumbnail, NoThumbnail}
  <2> HIDE DEF inner, dip
  <2> QED BY <1>3, <1>4, BuildIs
<1>6. PathsOf(dip) \subseteq PathsOf(merge_parts(inner, dip))
  <2> HIDE DEF inner, dip
  <2> QED BY <1>3, <1>4, MergedPaths
<1>7. object = old.object BY DEF Kept
<1>8. thumbnail \in Thumbnails /\ (IsUrl(r.thumbnail) => thumbnail = r.thumbnail)
  BY <1>1, <1>2, <1>5 DEF Kept, Thumbnail, Thumbnails
<1>9. p = [fresh EXCEPT !.object = object, !.thumbnail = thumbnail]
  BY DEF build_payload
<1> HIDE DEF fresh, object, thumbnail
<1>10. p \in Envelopes BY <1>2, <1>5, <1>7, <1>8, <1>9 DEF Envelopes
<1>11. /\ p.shape = "fat" /\ p.parts = merge_parts(inner, dip)
       /\ p.object = object /\ p.thumbnail = thumbnail
  BY <1>5, <1>9 DEF Envelopes
<1>12. ASSUME old.shape # "thin"
       PROVE  PlayableIn(old.parts) \subseteq PlayableIn(p.parts)
  <2> SUFFICES ASSUME NEW o \in PlayableIn(old.parts) PROVE o \in PlayableIn(p.parts) OBVIOUS
  <2>1. o # None /\ \E k \in DOMAIN old.parts : old.parts[k].kaltura_id /\ old.parts[k].object = o
    BY PathsAre
  <2>2. PICK i \in DOMAIN dip : dip[i].object = o /\ dip[i].kaltura_id
    BY <1>1, <1>12, <2>1, DipOfIs
  <2>3. \E k \in DOMAIN merge_parts(inner, dip) :
           /\ merge_parts(inner, dip)[k].object = o /\ merge_parts(inner, dip)[k].kaltura_id
    <3> HIDE DEF inner, dip
    <3> QED BY <1>3, <1>4, <2>2, EveryEntryIsMerged
  <2> QED BY <1>11, <2>1, <2>3, PathsAre
<1> QED BY <1>4, <1>6, <1>7, <1>8, <1>10, <1>11, <1>12 DEF PathsIn

-----------------------------------------------------------------------------
(* A second merge over what the first one made *)

\* What one part claims stays claimed.
LEMMA ClaimsStay ==
    ASSUME NEW inner, NEW dip, Len(inner) \in Nat,
           NEW n \in 1..Len(inner), Match(inner[n], dip, Claimed(inner, dip)[n - 1]) # None
    PROVE  Match(inner[n], dip, Claimed(inner, dip)[n - 1]) \in Claimed(inner, dip)[Len(inner)]
<1> DEFINE C == Claimed(inner, dip)
           Hit(k) == Match(inner[k], dip, C[k - 1])
           Bad == {k \in n..Len(inner) : Hit(n) \notin C[k]}
<1>1. \A k \in 1..Len(inner) : C[k] = C[k - 1] \cup ({Hit(k)} \ {None}) BY ClaimedSteps
<1> HIDE DEF C, Hit
<1>2. Bad = {}
  <2> SUFFICES ASSUME Bad # {} PROVE FALSE OBVIOUS
  <2>1. Bad \subseteq Nat OBVIOUS
  <2>2. PICK k \in Bad : \A l \in Bad : k <= l BY <2>1, LeastOf
  <2>3. CASE k = n
    <3>1. Hit(n) \in C[n] BY <1>1 DEF Hit, C
    <3> QED BY <2>2, <2>3, <3>1
  <2>4. CASE k # n
    <3>1. k - 1 \in n..Len(inner) /\ k \in 1..Len(inner) /\ ~(k <= k - 1) BY <2>2, <2>4
    <3>2. Hit(n) \in C[k - 1] BY <2>2, <3>1
    <3> QED BY <1>1, <2>2, <3>1, <3>2
  <2> QED BY <2>3, <2>4
<1>3. Len(inner) \in n..Len(inner) OBVIOUS
<1>4. Hit(n) \in C[Len(inner)] BY <1>2, <1>3
<1> QED BY <1>4 DEF C, Hit

\* The list of a fat envelope's paths, entry by entry.
EntryOf(p) == [file |-> p.title, kaltura_id |-> p.kaltura_id, object |-> p.object]
LEMMA FatDip ==
    ASSUME NEW e \in Envelopes, e.shape = "fat"
    PROVE  LET S == WithPath(e.parts)
           IN  /\ S \in SUBSET (1..Len(e.parts)) /\ Len(e.parts) \in Nat
               /\ DipOf(e) \in Seq(DipRecords) /\ Len(DipOf(e)) = Cardinality(S)
               /\ Cardinality(S) \in Nat
               /\ \A i \in 1..Cardinality(S) :
                     Place(S, i) \in S /\ DipOf(e)[i] = EntryOf(e.parts[Place(S, i)])
<1> DEFINE S == WithPath(e.parts)
           prior == At(e.parts, S)
           dip == [k \in DOMAIN prior |-> EntryOf(prior[k])]
<1>1. e.parts \in Seq(PartRecords) BY EnvelopeFields
<1>2. S \in SUBSET (1..Len(e.parts)) /\ Len(e.parts) \in Nat BY <1>1 DEF WithPath
<1>3. Cardinality(S) \in Nat /\ \A i \in 1..Cardinality(S) : Place(S, i) \in S
  BY <1>2, Places
<1>4. DipOf(e) = dip BY DEF DipOf, EntryOf
<1>5. prior = [n \in 1..Cardinality(S) |-> e.parts[Place(S, n)]] BY DEF At
<1>6. dip = [n \in 1..Cardinality(S) |-> EntryOf(e.parts[Place(S, n)])] BY <1>5
<1>7. DipOf(e) \in Seq(DipRecords) BY DipOfIs
<1> HIDE DEF S, dip
<1>8. Len(dip) = Cardinality(S) BY <1>3, <1>6
<1> QED BY <1>2, <1>3, <1>4, <1>6, <1>7, <1>8 DEF S

(* When the first parts of a manifest are those of the record, under names  *)
(* of their own, and only files with a path follow, merging the record with *)
(* the manifest's own paths gives the manifest again.                       *)
Settled(inner, merged) ==
    /\ IsInner(inner) /\ Len(inner) <= Len(merged)
    /\ \A n \in 1..Len(inner) :
          /\ inner[n].title # None /\ merged[n].title = inner[n].title
          /\ IF merged[n].object = None THEN merged[n].kaltura_id = inner[n].kaltura_id
             ELSE inner[n].kaltura_id => merged[n].kaltura_id
    /\ \A n, k \in 1..Len(inner) : inner[n].title = inner[k].title => n = k
    /\ \A k \in (Len(inner) + 1)..Len(merged) :
          /\ merged[k].object # None
          /\ \A n \in 1..Len(inner) : merged[n].object = None => merged[k].title # merged[n].title
LEMMA MergeSettles ==
    ASSUME NEW e \in Envelopes, e.shape = "fat", NEW inner, Settled(inner, e.parts)
    PROVE  merge_parts(inner, DipOf(e)) = e.parts
<1> DEFINE merged == e.parts
           dip == DipOf(e)
           S == WithPath(merged)
           c == Cardinality(S)
           L == Len(inner)
           N == Len(merged)
           C == Claimed(inner, dip)
           Hit(n) == Match(inner[n], dip, C[n - 1])
<1>1. merged \in Seq(PartRecords) BY EnvelopeFields
<1>2. L \in Nat /\ N \in Nat /\ L <= N /\ DOMAIN inner = 1..L /\ DOMAIN merged = 1..N
  BY <1>1 DEF Settled, IsInner
<1>3. /\ S \in SUBSET (1..N) /\ dip \in Seq(DipRecords) /\ Len(dip) = c /\ c \in Nat
      /\ \A i \in 1..c : Place(S, i) \in S /\ dip[i] = EntryOf(merged[Place(S, i)])
  BY FatDip
<1>4. \A k \in 1..N : merged[k] \in PartRecords /\ (k \in S <=> merged[k].object # None)
  BY <1>1, <1>2 DEF WithPath
<1>5. DOMAIN dip = 1..c BY <1>3
<1>6. \A k \in (L + 1)..N : k \in S BY <1>2, <1>4 DEF Settled
<1> DEFINE rank(k) == Cardinality({j \in S : j <= k})
<1>7. \A k \in S : rank(k) \in 1..c /\ Place(S, rank(k)) = k BY <1>2, <1>3, Places
<1>r. \A i \in 1..c : rank(Place(S, i)) = i BY <1>2, <1>3, Places
<1> HIDE DEF S, c, dip, C
\* Which entry a part takes: its own, or none when it has no path.
<1>8. \A n \in 1..L : n \in 1..N /\ merged[n].title = inner[n].title /\ inner[n].title # None
  BY <1>2 DEF Settled
<1>9. \A n \in 1..L : \A i \in Matches(inner[n], dip, C[n - 1]) :
         /\ i \in 1..c /\ dip[i] = EntryOf(merged[Place(S, i)]) /\ Place(S, i) \in S
         /\ merged[Place(S, i)].title = inner[n].title
  BY <1>3, <1>5, <1>8 DEF Matches, EntryOf
<1>10. DOMAIN dip \subseteq Nat BY <1>5
<1>11. ASSUME NEW n \in 1..L, n \in S PROVE Hit(n) = rank(n)
  <2>1. rank(n) \in 1..c /\ Place(S, rank(n)) = n BY <1>7, <1>11
  <2> HIDE DEF rank
  <2>2. dip[rank(n)] = EntryOf(merged[n]) BY <1>3, <2>1
  <2>3. rank(n) \in Matches(inner[n], dip, C[n - 1]) BY <1>5, <1>8, <2>1, <2>2 DEF Matches, EntryOf
  <2>4. ASSUME NEW i \in Matches(inner[n], dip, C[n - 1]), i < rank(n) PROVE FALSE
    <3>1. i \in 1..c /\ Place(S, i) \in S /\ merged[Place(S, i)].title = inner[n].title
      BY <1>9
    <3>2. Place(S, i) < n
      <4>1. Place(S, i) < Place(S, rank(n))
        BY <1>2, <1>3, <2>1, <2>4, <3>1, PlacesAscend DEF c
      <4> QED BY <2>1, <4>1
    <3>3. Place(S, i) \in 1..L BY <1>2, <1>3, <3>1, <3>2
    <3>4. inner[Place(S, i)].title = inner[n].title BY <1>8, <3>1, <3>3
    <3>5. Place(S, i) = n BY <3>3, <3>4 DEF Settled
    <3> QED BY <3>2, <3>5
  <2>5. Hit(n) \in Matches(inner[n], dip, C[n - 1]) /\ Hit(n) <= rank(n)
    BY <1>10, <2>3, MatchIs
  <2>6. Hit(n) \in 1..c BY <1>9, <2>5
  <2> HIDE DEF Hit
  <2> QED BY <1>3, <2>1, <2>4, <2>5, <2>6
<1>12. ASSUME NEW n \in 1..L, n \notin S PROVE Hit(n) = None
  <2> SUFFICES ASSUME NEW i \in Matches(inner[n], dip, C[n - 1]) PROVE FALSE
    BY <1>10, MatchIs
  <2>1. Place(S, i) \in S /\ merged[Place(S, i)].title = inner[n].title BY <1>9
  <2>2. PICK k \in 1..N : k = Place(S, i) BY <1>3, <2>1
  <2>3. merged[n].object = None /\ merged[n].title = inner[n].title BY <1>4, <1>8, <1>12
  <2>4. CASE k \in 1..L
    <3>1. inner[k].title = inner[n].title BY <1>8, <2>1, <2>2, <2>4
    <3>2. k = n BY <2>4, <3>1 DEF Settled
    <3> QED BY <1>12, <2>1, <2>2, <3>2
  <2>5. CASE k \in (L + 1)..N
    <3>1. merged[k].title # merged[n].title BY <2>3, <2>5 DEF Settled
    <3> QED BY <2>1, <2>2, <2>3, <3>1
  <2> QED BY <1>2, <2>2, <2>4, <2>5
<1> HIDE DEF Hit
<1>13. ASSUME NEW n \in 1..L PROVE MergedPart(inner[n], dip, Hit(n)) = merged[n]
  <2>1. n \in 1..N /\ merged[n] \in PartRecords /\ merged[n].title = inner[n].title
        /\ inner[n].title # None
    BY <1>4, <1>8
  <2>2. inner[n].kaltura_id \in BOOLEAN BY <1>2 DEF Settled, IsInner
  <2>3. IF merged[n].object = None THEN merged[n].kaltura_id = inner[n].kaltura_id
        ELSE inner[n].kaltura_id => merged[n].kaltura_id
    BY DEF Settled
  <2>4. CASE n \in S
    <3>1. Hit(n) \in 1..c /\ dip[Hit(n)] = EntryOf(merged[n]) BY <1>3, <1>7, <1>11, <2>4
    <3>2. Hit(n) # None BY <3>1 DEF None
    <3>3. merged[n].object # None BY <1>4, <2>1, <2>4
    <3>4. (inner[n].kaltura_id \/ merged[n].kaltura_id) = merged[n].kaltura_id
      BY <2>1, <2>2, <2>3, <3>3 DEF PartRecords
    <3> QED BY <2>1, <3>1, <3>2, <3>4 DEF MergedPart, EntryOf, PartRecords
  <2>5. CASE n \notin S
    <3>1. Hit(n) = None BY <1>12, <2>5
    <3>2. merged[n].object = None /\ merged[n].kaltura_id = inner[n].kaltura_id
      BY <1>4, <2>1, <2>3, <2>5
    <3> QED BY <2>1, <2>2, <3>1, <3>2 DEF MergedPart, PartRecords
  <2> QED BY <2>4, <2>5
\* How many of the entries belong to the record's parts.
<1> DEFINE m == rank(L)
<1>14. /\ IsFiniteSet(S) /\ m \in Nat
       /\ \A k \in 0..(N - L) : rank(L + k) = m + k
  <2>1. IsFiniteSet(S) BY <1>2, <1>3, Places
  <2> DEFINE P == {j \in S : j <= L}
  <2>2. IsFiniteSet(P) BY <2>1, FS_Subset
  <2>3. ASSUME NEW k \in 0..(N - L) PROVE rank(L + k) = m + k
    <3> DEFINE Q == (L + 1)..(L + k)
    <3>1. L + k \in Int /\ L + 1 \in Int /\ k \in Nat /\ L + k <= N BY <1>2
    <3>2. IsFiniteSet(Q) /\ Cardinality(Q) = k BY <1>2, <3>1, FS_Interval
    <3>3. P \cap Q = {} BY <1>2, <1>3
    <3>4. {j \in S : j <= L + k} = P \cup Q
      <4>1. \A j \in Q : j \in S BY <1>2, <1>6, <3>1
      <4>2. \A j \in S : j <= L + k <=> j <= L \/ j \in Q BY <1>2, <1>3, <3>1
      <4>3. \A j \in Q : j <= L + k BY <3>1
      <4> HIDE DEF Q
      <4> QED BY <4>1, <4>2, <4>3
    <3>7. rank(L + k) = Cardinality(P \cup Q) /\ m = Cardinality(P) BY <3>4
    <3> HIDE DEF P, Q, rank, m
    <3>5. Cardinality(P \cup Q) = Cardinality(P) + Cardinality(Q) - Cardinality({})
      BY <2>2, <3>2, <3>3, FS_Union
    <3>6. Cardinality(P) \in Nat BY <2>2, FS_CardinalityType
    <3>8. Cardinality({}) = 0 BY FS_EmptySet
    <3> QED BY <3>1, <3>2, <3>5, <3>6, <3>7, <3>8
  <2> QED BY <2>1, <2>2, <2>3, FS_CardinalityType
<1>15. c = m + (N - L)
  <2>1. {j \in S : j <= N} = S
    <3>1. \A j \in S : j <= N BY <1>2, <1>3
    <3> QED BY <3>1
  <2>2. L + (N - L) = N /\ N - L \in 0..(N - L) BY <1>2
  <2>3. rank(N) = m + (N - L) BY <1>14, <2>2
  <2> QED BY <2>1, <2>3 DEF c
<1>16. \A k \in 1..(N - L) : Place(S, m + k) = L + k
  <2> SUFFICES ASSUME NEW k \in 1..(N - L) PROVE Place(S, m + k) = L + k OBVIOUS
  <2>1. L + k \in (L + 1)..N /\ k \in 0..(N - L) BY <1>2
  <2>2. L + k \in S BY <1>6, <2>1
  <2>3. rank(L + k) = m + k BY <1>14, <2>1
  <2> HIDE DEF rank, m
  <2> QED BY <1>7, <2>2, <2>3
<1>17. \A i \in 1..c : i <= m <=> Place(S, i) \in 1..L
  <2> SUFFICES ASSUME NEW i \in 1..c PROVE i <= m <=> Place(S, i) \in 1..L OBVIOUS
  <2>1. Place(S, i) \in S /\ rank(Place(S, i)) = i BY <1>3, <1>r
  <2>2. PICK k \in 1..N : k = Place(S, i) BY <1>3, <2>1
  <2>3. CASE k \in 1..L
    <3>1. {j \in S : j <= k} \in SUBSET {j \in S : j <= L}
      <4>1. \A j \in S : j <= k => j <= L BY <1>2, <1>3, <2>3
      <4> QED BY <4>1
    <3>2. IsFiniteSet({j \in S : j <= L}) BY <1>14, FS_Subset
    <3>3. rank(k) <= rank(L) BY <3>1, <3>2, FS_Subset
    <3> QED BY <2>1, <2>2, <2>3, <3>3
  <2>4. CASE k \in (L + 1)..N
    <3>1. k - L \in 0..(N - L) /\ L + (k - L) = k /\ k - L > 0 BY <1>2, <2>4
    <3>2. rank(k) = m + (k - L) BY <1>14, <3>1
    <3>3. i = m + (k - L) BY <2>1, <2>2, <3>2
    <3>4. ~(i <= m) /\ k \notin 1..L BY <1>2, <1>14, <2>4, <3>1, <3>3
    <3> QED BY <2>2, <3>4
  <2> QED BY <1>2, <2>2, <2>3, <2>4
<1> HIDE DEF rank, m
<1>18. C[L] = 1..m
  <2>1. ASSUME NEW i \in C[L] PROVE i \in 1..m
    <3>1. L \in 0..L /\ DOMAIN dip \in SUBSET (Nat \ {0}) BY <1>2, <1>5
    <3>2. i \in 1..c /\ \E n \in 1..L : Hit(n) = i
      <4>1. C[L] \subseteq DOMAIN dip /\ \A x \in C[L] : \E n \in 1..L : Hit(n) = x
        BY <1>2, <3>1, ClaimedBySomePart, Zenon DEF C, Hit
      <4> QED BY <1>5, <4>1
    <3>3. PICK n \in 1..L : Hit(n) = i BY <3>2
    <3>4. n \in S BY <1>12, <3>2, <3>3 DEF None
    <3>5. Place(S, i) = n BY <1>7, <1>11, <3>3, <3>4
    <3> QED BY <1>14, <1>17, <3>2, <3>5
  <2>2. ASSUME NEW i \in 1..m PROVE i \in C[L]
    <3>1. i \in 1..c BY <1>2, <1>14, <1>15
    <3>2. PICK n \in 1..L : n = Place(S, i) BY <1>17, <3>1
    <3>3. n \in S BY <1>3, <3>1, <3>2
    <3>4. rank(n) = i BY <1>r, <3>1, <3>2
    <3>5. Hit(n) = i /\ i # None BY <1>11, <3>1, <3>3, <3>4 DEF None
    <3>6. Hit(n) \in C[L] BY <1>2, <3>5, ClaimsStay DEF C, Hit
    <3> QED BY <3>5, <3>6
  <2> QED BY <2>1, <2>2
<1> DEFINE U == Unclaimed(dip, C[L])
           left == At(dip, U)
<1>19. U = (m + 1)..c /\ U \in SUBSET (1..c) BY <1>3, <1>5, <1>14, <1>18 DEF Unclaimed
<1>20. Cardinality(U) = N - L /\ \A k \in 1..(N - L) : Place(U, k) = m + k
  <2>1. Cardinality(U) = N - L
    <3>1. m + 1 \in Int /\ c \in Int /\ m <= c BY <1>2, <1>3, <1>14, <1>15
    <3>2. Cardinality((m + 1)..c) = IF m + 1 > c THEN 0 ELSE c - (m + 1) + 1
      BY <3>1, FS_Interval
    <3> QED BY <1>2, <1>14, <1>15, <1>19, <3>1, <3>2
  <2>2. ASSUME NEW k \in 1..(N - L) PROVE Place(U, k) = m + k
    <3>1. m + k \in U BY <1>2, <1>14, <1>15, <1>19
    <3>2. {j \in U : j <= m + k} = (m + 1)..(m + k) BY <1>2, <1>14, <1>15, <1>19
    <3>3. Cardinality((m + 1)..(m + k)) = k BY <1>14, FS_Interval
    <3> HIDE DEF U
    <3>4. Place(U, Cardinality({j \in U : j <= m + k})) = m + k BY <1>3, <1>19, <3>1, Places
    <3> QED BY <3>2, <3>3, <3>4
  <2> QED BY <2>1, <2>2
<1>21. \A k \in 1..(N - L) : left[k] = EntryOf(merged[L + k])
  <2> SUFFICES ASSUME NEW k \in 1..(N - L) PROVE left[k] = EntryOf(merged[L + k]) OBVIOUS
  <2>1. left[k] = dip[m + k] BY <1>20 DEF At
  <2>2. m + k \in 1..c BY <1>2, <1>14, <1>15
  <2> QED BY <1>3, <1>16, <2>1, <2>2
<1> HIDE DEF U
<1>22. /\ merge_parts(inner, dip) \in Seq(PartRecords) /\ Len(left) = N - L
       /\ Len(merge_parts(inner, dip)) = N
       /\ \A n \in 1..L : merge_parts(inner, dip)[n] = merged[n]
       /\ \A n \in 1..(N - L) : merge_parts(inner, dip)[L + n] = AsPart(left[n])
  <2>1. IsInner(inner) BY DEF Settled
  <2>2. /\ merge_parts(inner, dip) \in Seq(PartRecords)
        /\ Len(merge_parts(inner, dip)) = L + Len(left)
        /\ \A n \in 1..L :
             merge_parts(inner, dip)[n] = MergedPart(inner[n], dip, Hit(n))
        /\ \A n \in 1..Len(left) : merge_parts(inner, dip)[L + n] = AsPart(left[n])
    BY <1>3, <2>1, MergedList DEF C, Hit, U
  <2>3. Len(left) = N - L BY <1>2, <1>20 DEF At
  <2> QED BY <1>2, <1>13, <2>2, <2>3
<1>23. \A n \in 1..(N - L) : AsPart(left[n]) = merged[L + n]
  <2> SUFFICES ASSUME NEW n \in 1..(N - L) PROVE AsPart(left[n]) = merged[L + n] OBVIOUS
  <2>1. merged[L + n] \in PartRecords BY <1>2, <1>4
  <2>2. left[n] = EntryOf(merged[L + n]) BY <1>21
  <2> HIDE DEF left
  <2> QED BY <2>1, <2>2 DEF AsPart, EntryOf, PartRecords
<1> DEFINE again == merge_parts(inner, dip)
<1>24. \A k \in 1..N : again[k] = merged[k]
  <2> SUFFICES ASSUME NEW k \in 1..N PROVE again[k] = merged[k] OBVIOUS
  <2>1. k \in 1..L \/ (k - L \in 1..(N - L) /\ L + (k - L) = k) BY <1>2
  <2> QED BY <1>22, <1>23, <2>1
<1>25. again \in Seq(PartRecords) /\ Len(again) = N BY <1>22
<1> HIDE DEF again, merged
<1>26. again = merged BY <1>1, <1>24, <1>25 DEF merged
<1> QED BY <1>26 DEF again, merged, dip

\* A well titled record keeps its parts in front of the manifest.
LEMMA FirstMergeSettles ==
    ASSUME NEW inner, IsInner(inner), NEW dip \in Seq(DipRecords), WellTitled(inner)
    PROVE  Settled(inner, merge_parts(inner, dip))
<1> DEFINE C == Claimed(inner, dip)
           U == Unclaimed(dip, C[Len(inner)])
           left == At(dip, U)
           merged == merge_parts(inner, dip)
           Hit(n) == Match(inner[n], dip, C[n - 1])
<1>1. /\ merged \in Seq(PartRecords) /\ left \in Seq(DipRecords)
      /\ Len(merged) = Len(inner) + Len(left)
      /\ \A n \in 1..Len(inner) : merged[n] = MergedPart(inner[n], dip, Hit(n))
      /\ \A n \in 1..Len(left) : merged[Len(inner) + n] = AsPart(left[n])
  BY MergedList
<1>2. Len(inner) \in Nat /\ DOMAIN inner = 1..Len(inner) /\ Len(left) \in Nat
  BY <1>1 DEF IsInner
<1>3. /\ \A n \in 1..Len(inner) : inner[n].title # None /\ inner[n].kaltura_id \in BOOLEAN
      /\ \A n, k \in 1..Len(inner) : inner[n].title = inner[k].title => n = k
  BY <1>2 DEF WellTitled, IsInner
<1>4. /\ Len(dip) \in Nat /\ DOMAIN dip = 1..Len(dip) /\ DOMAIN dip \subseteq Nat
      /\ DOMAIN dip \subseteq Nat \ {0}
      /\ \A i \in DOMAIN dip : dip[i] \in DipRecords
  OBVIOUS
<1>5. \A n \in 1..Len(inner) : \/ Hit(n) = None /\ Matches(inner[n], dip, C[n - 1]) = {}
                               \/ Hit(n) \in Matches(inner[n], dip, C[n - 1])
  BY <1>4, MatchIs
<1>6. \A n \in 1..Len(inner) :
         /\ \A i \in DOMAIN dip : dip[i].file = inner[n].title => Hit(n) # None
         /\ Hit(n) # None => Hit(n) \in DOMAIN dip /\ dip[Hit(n)].object \in Files
  <2> TAKE n \in 1..Len(inner)
  <2>1. \A i \in DOMAIN dip : dip[i].file = inner[n].title => Hit(n) # None
    <3> SUFFICES ASSUME NEW i \in DOMAIN dip, dip[i].file = inner[n].title
                 PROVE  Hit(n) # None
      OBVIOUS
    <3>1. i \in Matches(inner[n], dip, C[n - 1]) BY <1>3 DEF Matches
    <3>2. Hit(n) \in Matches(inner[n], dip, C[n - 1]) BY <1>5, <3>1
    <3>3. \A x \in Matches(inner[n], dip, C[n - 1]) : x \in DOMAIN dip BY DEF Matches
    <3> HIDE DEF Hit
    <3> QED BY <1>4, <3>2, <3>3 DEF None
  <2>2. Hit(n) # None => Hit(n) \in DOMAIN dip BY <1>5 DEF Matches
  <2> HIDE DEF Hit
  <2>3. Hit(n) # None => dip[Hit(n)].object \in Files BY <1>4, <2>2 DEF DipRecords
  <2> QED BY <2>1, <2>2, <2>3
<1>7. \A n \in 1..Len(left) : \E i \in DOMAIN dip : left[n] = dip[i]
  <2>1. U \in SUBSET (1..Len(dip)) BY <1>4 DEF Unclaimed
  <2> HIDE DEF U
  <2>2. \A n \in DOMAIN left : \E i \in U : left[n] = dip[i] BY <1>4, <2>1, Selection
  <2>3. DOMAIN left = 1..Len(left) BY <1>1
  <2> QED BY <1>4, <2>1, <2>2, <2>3
<1> HIDE DEF merged, left, U, Hit
<1>8. ASSUME NEW n \in 1..Len(inner)
      PROVE  /\ merged[n].title = inner[n].title
             /\ merged[n].object = None => Hit(n) = None
             /\ IF merged[n].object = None THEN merged[n].kaltura_id = inner[n].kaltura_id
                ELSE inner[n].kaltura_id => merged[n].kaltura_id
  <2>1. merged[n] = MergedPart(inner[n], dip, Hit(n)) /\ inner[n].title # None
        /\ inner[n].kaltura_id \in BOOLEAN
    BY <1>1, <1>3
  <2>2. merged[n].title = inner[n].title BY <2>1 DEF MergedPart
  <2>3. CASE Hit(n) = None
    <3>1. merged[n].kaltura_id = (inner[n].kaltura_id \/ FALSE) BY <2>1, <2>3 DEF MergedPart
    <3>2. merged[n].object = None BY <2>1, <2>3 DEF MergedPart
    <3> QED BY <2>1, <2>2, <2>3, <3>1, <3>2
  <2>4. CASE Hit(n) # None
    <3>1. dip[Hit(n)].object \in Files /\ dip[Hit(n)] \in DipRecords BY <1>4, <1>6, <2>4
    <3>2. merged[n].object = dip[Hit(n)].object BY <2>1, <2>4 DEF MergedPart
    <3>3. merged[n].object # None BY <3>1, <3>2 DEF Files, None
    <3>4. merged[n].kaltura_id = (inner[n].kaltura_id \/ dip[Hit(n)].kaltura_id)
      <4>1. merged[n].kaltura_id = (inner[n].kaltura_id \/ (Hit(n) # None /\ dip[Hit(n)].kaltura_id))
        BY <2>1 DEF MergedPart
      <4> QED BY <2>4, <4>1
    <3> QED BY <2>1, <2>2, <3>3, <3>4
  <2> QED BY <2>3, <2>4
<1>9. ASSUME NEW k \in (Len(inner) + 1)..Len(merged)
      PROVE  /\ merged[k].object # None
             /\ \A n \in 1..Len(inner) : merged[n].object = None => merged[k].title # merged[n].title
  <2>1. k - Len(inner) \in 1..Len(left) /\ Len(inner) + (k - Len(inner)) = k BY <1>1, <1>2
  <2>2. PICK i \in DOMAIN dip : left[k - Len(inner)] = dip[i] BY <1>7, <2>1
  <2>3. merged[k] = AsPart(dip[i]) BY <1>1, <2>1, <2>2
  <2>4. merged[k].object = dip[i].object /\ merged[k].title = dip[i].file BY <2>3 DEF AsPart
  <2>5. dip[i].object # None BY <1>4 DEF DipRecords, Files, None
  <2>6. ASSUME NEW n \in 1..Len(inner), merged[n].object = None, merged[k].title = merged[n].title
        PROVE  FALSE
    <3>1. Hit(n) = None /\ dip[i].file = inner[n].title BY <1>8, <2>4, <2>6
    <3> QED BY <1>6, <3>1
  <2> QED BY <2>4, <2>5, <2>6
<1>10. Len(inner) <= Len(merged) BY <1>1, <1>2
<1>11. Settled(inner, merged) BY <1>2, <1>3, <1>8, <1>9, <1>10 DEF Settled
<1> QED BY <1>11 DEF merged

\* Files of distinct names are appended under names of their own.
DistinctFiles(dip) ==
    \A i, j \in DOMAIN dip : dip[i].file # None /\ (dip[i].file = dip[j].file => i = j)
LEMMA MergedWellTitled ==
    ASSUME NEW inner, IsInner(inner), NEW dip \in Seq(DipRecords), WellTitled(inner),
           DistinctFiles(dip)
    PROVE  WellTitled(merge_parts(inner, dip))
<1> DEFINE C == Claimed(inner, dip)
           U == Unclaimed(dip, C[Len(inner)])
           left == At(dip, U)
           merged == merge_parts(inner, dip)
           Hit(n) == Match(inner[n], dip, C[n - 1])
           L == Len(inner)
<1>1. /\ merged \in Seq(PartRecords) /\ left \in Seq(DipRecords)
      /\ Len(merged) = L + Len(left)
      /\ \A n \in 1..Len(left) : merged[L + n] = AsPart(left[n])
  BY MergedList
<1>2. L \in Nat /\ DOMAIN inner = 1..L /\ Len(left) \in Nat /\ DOMAIN merged = 1..(L + Len(left))
  BY <1>1 DEF IsInner
<1>3. /\ \A n \in 1..L : inner[n].title # None
      /\ \A n, k \in 1..L : inner[n].title = inner[k].title => n = k
  BY <1>2 DEF WellTitled
<1>4. /\ Len(dip) \in Nat /\ DOMAIN dip = 1..Len(dip) /\ DOMAIN dip \subseteq Nat
      /\ DOMAIN dip \subseteq Nat \ {0}
  OBVIOUS
<1>5. \A n \in 1..L : merged[n].title = inner[n].title BY FirstMergeSettles DEF Settled
<1>6. /\ U \in SUBSET (1..Len(dip)) /\ U \subseteq DOMAIN dip \ C[L]
  BY <1>4 DEF Unclaimed
<1> HIDE DEF U
<1>7. /\ Len(left) = Cardinality(U) /\ Cardinality(U) \in Nat
      /\ \A n \in 1..Cardinality(U) : left[n] = dip[Place(U, n)] /\ Place(U, n) \in U
  <2> DEFINE m == Len(dip)
  <2>1. m \in Nat /\ U \in SUBSET (1..m) BY <1>4, <1>6
  <2> HIDE DEF m
  <2>2. Cardinality(U) \in Nat /\ \A n \in 1..Cardinality(U) : Place(U, n) \in U
    BY <2>1, Places
  <2>3. left = [n \in 1..Cardinality(U) |-> dip[Place(U, n)]] BY DEF At
  <2> QED BY <2>2, <2>3
<1> HIDE DEF merged, left
<1>8. ASSUME NEW k \in (L + 1)..(L + Len(left))
      PROVE  /\ k - L \in 1..Cardinality(U) /\ Place(U, k - L) \in U
             /\ merged[k].title = dip[Place(U, k - L)].file
  <2>1. k - L \in 1..Len(left) /\ L + (k - L) = k BY <1>2
  <2>2. merged[k] = AsPart(left[k - L]) BY <1>1, <2>1
  <2>3. left[k - L] = dip[Place(U, k - L)] /\ Place(U, k - L) \in U BY <1>7, <2>1
  <2> QED BY <1>7, <2>1, <2>2, <2>3 DEF AsPart
\* An appended file has no part of its name: that part would have claimed it.
<1>9. ASSUME NEW n \in 1..L, NEW i \in U, dip[i].file = inner[n].title PROVE FALSE
  <2>1. i \in Matches(inner[n], dip, C[n - 1]) BY <1>3, <1>6, <1>9 DEF Matches
  <2>2. Hit(n) \in Matches(inner[n], dip, C[n - 1]) BY <1>4, <2>1, MatchIs
  <2>3. Hit(n) \in DOMAIN dip /\ dip[Hit(n)].file = inner[n].title BY <1>3, <2>2 DEF Matches
  <2> HIDE DEF Hit
  <2>4. Hit(n) = i BY <1>6, <1>9, <2>3 DEF DistinctFiles
  <2>5. i # None BY <1>4, <1>6 DEF None
  <2>6. Hit(n) \in C[L] BY <1>2, <2>4, <2>5, ClaimsStay DEF Hit
  <2> QED BY <1>6, <2>4, <2>6
<1> SUFFICES ASSUME NEW a \in 1..(L + Len(left)), NEW b \in 1..(L + Len(left))
             PROVE  /\ merged[a].title # None
                    /\ merged[a].title = merged[b].title => a = b
  BY <1>2 DEF WellTitled, merged
<1>10. /\ a \in 1..L \/ a \in (L + 1)..(L + Len(left))
       /\ b \in 1..L \/ b \in (L + 1)..(L + Len(left))
  BY <1>2
<1>11. CASE a \in 1..L /\ b \in 1..L BY <1>3, <1>5, <1>11
<1>12. CASE a \in 1..L /\ b \in (L + 1)..(L + Len(left))
  <2>1. Place(U, b - L) \in U /\ merged[b].title = dip[Place(U, b - L)].file BY <1>8, <1>12
  <2> QED BY <1>3, <1>5, <1>9, <1>12, <2>1
<1>13. CASE b \in 1..L /\ a \in (L + 1)..(L + Len(left))
  <2>1. Place(U, a - L) \in U /\ merged[a].title = dip[Place(U, a - L)].file BY <1>8, <1>13
  <2>2. merged[a].title # None BY <1>6, <2>1 DEF DistinctFiles
  <2> QED BY <1>5, <1>9, <1>13, <2>1, <2>2
<1>14. CASE a \in (L + 1)..(L + Len(left)) /\ b \in (L + 1)..(L + Len(left))
  <2>1. /\ a - L \in 1..Cardinality(U) /\ Place(U, a - L) \in U
        /\ merged[a].title = dip[Place(U, a - L)].file
        /\ b - L \in 1..Cardinality(U) /\ Place(U, b - L) \in U
        /\ merged[b].title = dip[Place(U, b - L)].file
    BY <1>8, <1>14
  <2>2. merged[a].title # None BY <1>6, <2>1 DEF DistinctFiles
  <2>3. ASSUME merged[a].title = merged[b].title, a # b PROVE FALSE
    <3>1. Place(U, a - L) = Place(U, b - L) BY <1>6, <2>1, <2>3 DEF DistinctFiles
    <3> DEFINE i == a - L
               k == b - L
    <3>2. i < k \/ k < i BY <1>2, <2>3
    <3>3. i \in 1..Cardinality(U) /\ k \in 1..Cardinality(U) BY <2>1
    <3>4. \A x \in U : ~(x < x) BY <1>6
    <3>5. Place(U, i) = Place(U, k) /\ Place(U, i) \in U BY <2>1, <3>1
    <3> HIDE DEF i, k
    <3> QED BY <1>4, <1>6, <3>2, <3>3, <3>4, <3>5, PlacesAscend
  <2> QED BY <2>2, <2>3
<1> QED BY <1>10, <1>11, <1>12, <1>13, <1>14

\* The paths a refresh recovers have names of their own.
LEMMA DipOfDistinct ==
    ASSUME NEW e \in Envelopes, e.shape # "none",
           e.shape = "thin" => e.dip \in DipLists,
           e.shape = "fat" => WellTitled(e.parts)
    PROVE  DistinctFiles(DipOf(e))
<1>1. CASE e.shape = "thin"
  <2>1. PICK n \in 1..NumFiles :
           /\ e.dip \in [1..n -> {DipFile(f, k) : f \in Files, k \in BOOLEAN}]
           /\ \A i, j \in 1..n : e.dip[i].file = e.dip[j].file => i = j
    BY <1>1 DEF DipLists
  <2>2. \A i \in 1..n : e.dip[i].file \in Files BY <2>1 DEF DipFile
  <2>3. \A f \in Files : f # None BY DEF Files, None
  <2> QED BY <1>1, <2>1, <2>2, <2>3 DEF DipOf, DistinctFiles
<1>2. CASE e.shape = "fat"
  <2> DEFINE S == WithPath(e.parts)
             dip == DipOf(e)
  <2>1. /\ S \in SUBSET (1..Len(e.parts)) /\ Len(e.parts) \in Nat
        /\ dip \in Seq(DipRecords) /\ Len(dip) = Cardinality(S) /\ Cardinality(S) \in Nat
        /\ \A i \in 1..Cardinality(S) : Place(S, i) \in S /\ dip[i] = EntryOf(e.parts[Place(S, i)])
    BY <1>2, FatDip
  <2>2. DOMAIN dip = 1..Cardinality(S) BY <2>1
  <2>3. S \subseteq DOMAIN e.parts BY DEF WithPath
  <2> HIDE DEF S, dip
  <2>4. ASSUME NEW i \in 1..Cardinality(S), NEW j \in 1..Cardinality(S)
        PROVE  dip[i].file # None /\ (dip[i].file = dip[j].file => i = j)
    <3>1. /\ Place(S, i) \in S /\ dip[i].file = e.parts[Place(S, i)].title
          /\ Place(S, j) \in S /\ dip[j].file = e.parts[Place(S, j)].title
      BY <2>1 DEF EntryOf
    <3>2. dip[i].file # None BY <1>2, <2>3, <3>1 DEF WellTitled
    <3>3. ASSUME dip[i].file = dip[j].file, i # j PROVE FALSE
      <4>1. Place(S, i) = Place(S, j) BY <1>2, <2>3, <3>1, <3>3 DEF WellTitled
      <4>2. i < j \/ j < i BY <2>1, <3>3
      <4>3. \A x \in S : ~(x < x) BY <2>1
      <4> QED BY <2>1, <3>1, <4>1, <4>2, <4>3, PlacesAscend
    <3> QED BY <3>2, <3>3
  <2>5. DistinctFiles(dip) BY <2>2, <2>4 DEF DistinctFiles
  <2> QED BY <2>5 DEF dip
<1> QED BY <1>1, <1>2, EnvelopeFields

LEMMA ItselfIsSettled ==
    ASSUME NEW merged \in Seq(PartRecords), WellTitled(merged)
    PROVE  Settled(merged, merged)
<1>1. IsInner(merged) BY PartsAreInner
<1>2. Len(merged) \in Nat /\ DOMAIN merged = 1..Len(merged)
      /\ \A k \in (Len(merged) + 1)..Len(merged) : FALSE
  OBVIOUS
<1> QED BY <1>1, <1>2 DEF Settled, WellTitled

-----------------------------------------------------------------------------
(* The steps *)

LEMMA NoEnvelopeTyped ==
    /\ NoEnvelope \in Envelopes /\ NoEnvelope.shape = "none"
    /\ NoRow \in Rows /\ NoRow.envelope = NoEnvelope
<1>1. <<>> \in Seq(PartRecords) /\ <<>> \in Seq(DipRecords) OBVIOUS
<1>2. NoEnvelope \in Envelopes
  BY <1>1 DEF NoEnvelope, Envelopes, Objects, Thumbnails
<1> QED BY <1>2 DEF NoEnvelope, NoRow, Rows, Objects, Thumbnails

LEMMA DipListsAre ==
    ASSUME NEW dip \in DipLists
    PROVE  dip \in Seq(DipRecords) /\ dip # <<>> /\ dip[1].object \in Files
<1>1. PICK n \in 1..NumFiles : dip \in [1..n -> {DipFile(f, k) : f \in Files, k \in BOOLEAN}]
  BY DEF DipLists
<1>2. n \in Nat /\ 1 \in 1..n BY DisplayRecordAssumption
<1>3. Files \subseteq Nat BY DisplayRecordAssumption DEF Files
<1>4. {DipFile(f, k) : f \in Files, k \in BOOLEAN} \subseteq DipRecords
  BY <1>3 DEF DipFile, DipRecords
<1>5. dip \in [1..n -> DipRecords] BY <1>1, <1>4
<1>6. dip \in Seq(DipRecords) /\ dip[1] \in DipRecords /\ Len(dip) = n BY <1>2, <1>5
<1> QED BY <1>2, <1>6 DEF DipRecords

LEMMA PathsAreFiles ==
    ASSUME NEW dip \in Seq(DipRecords)
    PROVE  PathsOf(dip) \subseteq Files
<1>1. \A k \in DOMAIN dip : dip[k] \in DipRecords OBVIOUS
<1>2. \A k \in DOMAIN dip : dip[k].object \in Files BY <1>1 DEF DipRecords
<1> QED BY <1>2, PathsAre

LEMMA BareTyped ==
    ASSUME NEW inner \in Answers
    PROVE  Bare(inner) \in Seq(PartRecords)
<1>1. /\ Len(inner) \in Nat /\ DOMAIN inner = 1..Len(inner)
      /\ \A n \in DOMAIN inner : inner[n].title \in Nat /\ inner[n].kaltura_id \in BOOLEAN
  BY AnswersAreInner DEF IsInner
<1>2. \A n \in DOMAIN inner :
         [title |-> inner[n].title, kaltura_id |-> inner[n].kaltura_id, object |-> None]
           \in PartRecords
  BY <1>1 DEF PartRecords, Objects
<1> QED BY <1>1, <1>2 DEF Bare

LEMMA InitInv == Init => IInv
<1> SUFFICES ASSUME Init PROVE IInv OBVIOUS
<1>0. \/ row = NoRow /\ held = {}
      \/ \E inner \in Answers, dip \in DipLists : row = Thin(inner, dip) /\ held = PathsOf(dip)
      \/ \E inner \in Answers : row = TopOnly(inner) /\ held = {1}
  BY DEF Init
<1>1. /\ built \in [Refreshers -> [envelope : Envelopes, crossed : BOOLEAN]]
      /\ \A w \in Refreshers : ~Builds(w)
  BY NoEnvelopeTyped DEF Init, Builds
<1>2. stored = {} /\ upload = NoThumbnail /\ outrun = FALSE /\ writes = 0 BY DEF Init
<1>3. NoThumbnail \notin Urls /\ DipThumbnail \notin Urls
  BY DisplayRecordAssumption DEF NoThumbnail, DipThumbnail
<1>4. 1 \in Files /\ 1 # None BY DisplayRecordAssumption DEF Files, None
<1> DEFINE Whole == row \in Rows /\ held \subseteq Files /\ RowIsWhole /\ row.thumbnail \notin Urls
<1>5. ASSUME row = NoRow, held = {} PROVE Whole
  BY <1>3, <1>5, NoEnvelopeTyped DEF RowIsWhole, NoRow
<1>6. ASSUME \E inner \in Answers, dip \in DipLists : row = Thin(inner, dip) /\ held = PathsOf(dip)
      PROVE  Whole
  <2>1. PICK inner \in Answers, dip \in DipLists : row = Thin(inner, dip) /\ held = PathsOf(dip)
    BY <1>6
  <2>2. dip \in Seq(DipRecords) /\ dip[1].object \in Files /\ held \subseteq Files
    BY <2>1, DipListsAre, PathsAreFiles
  <2>3. Bare(inner) \in Seq(PartRecords) BY BareTyped
  <2> DEFINE e == [shape |-> "thin", object |-> dip[1].object, thumbnail |-> DipThumbnail,
                   parts |-> Bare(inner), dip |-> dip]
  <2>4. e \in Envelopes BY <2>2, <2>3 DEF Envelopes, Objects, Thumbnails
  <2>5. e.shape = "thin" /\ e.object = dip[1].object /\ e.dip = dip OBVIOUS
  <2>6. dip[1].object # None BY <2>2 DEF Files, None
  <2> HIDE DEF e
  <2>7. row = [envelope |-> e, thumbnail |-> DipThumbnail, file_name |-> dip[1].object]
    BY <2>1 DEF Thin, e
  <2>8. row \in Rows BY <2>2, <2>4, <2>7 DEF Rows, Objects, Thumbnails
  <2>9. row # NoRow BY <2>5, <2>7, NoEnvelopeTyped
  <2>10. Accounts(row.envelope) BY <2>1, <2>5, <2>6, <2>7 DEF Accounts, PathsIn
  <2> QED BY <1>3, <2>2, <2>7, <2>8, <2>9, <2>10 DEF RowIsWhole
<1>7. ASSUME \E inner \in Answers : row = TopOnly(inner) /\ held = {1} PROVE Whole
  <2>1. PICK inner \in Answers : row = TopOnly(inner) /\ held = {1} BY <1>7
  <2>2. Bare(inner) \in Seq(PartRecords) /\ <<>> \in Seq(DipRecords) BY BareTyped
  <2> DEFINE e == [shape |-> "fat", object |-> 1, thumbnail |-> DipThumbnail,
                   parts |-> Bare(inner), dip |-> <<>>]
  <2>3. e \in Envelopes BY <1>4, <2>2 DEF Envelopes, Objects, Thumbnails
  <2>4. e.shape = "fat" /\ e.object = 1 OBVIOUS
  <2> HIDE DEF e
  <2>5. row = [envelope |-> e, thumbnail |-> DipThumbnail, file_name |-> 1]
    BY <2>1 DEF TopOnly, e
  <2>6. row \in Rows BY <1>4, <2>3, <2>5 DEF Rows, Objects, Thumbnails
  <2>7. row # NoRow BY <2>4, <2>5, NoEnvelopeTyped
  <2>8. Accounts(row.envelope) BY <1>4, <2>1, <2>4, <2>5 DEF Accounts
  <2> QED BY <1>3, <1>4, <2>1, <2>5, <2>6, <2>7, <2>8 DEF RowIsWhole
<1>8. Whole BY <1>0, <1>5, <1>6, <1>7, Zenon
<1>9. Types
  <2>1. writes \in Nat /\ writes <= MaxWrites BY <1>2, DisplayRecordAssumption
  <2>2. stored \subseteq Urls /\ upload \in Urls \cup {NoThumbnail} /\ outrun \in BOOLEAN BY <1>2
  <2> QED BY <1>1, <1>8, <2>1, <2>2, Zenon DEF Types
<1> QED BY <1>1, <1>2, <1>3, <1>8, <1>9 DEF IInv, ShowsUpload, BuiltIsWhole, IsUrl

\* A write leaves the envelopes that others have built as they are, crossed.
LEMMA WritesBuilt ==
    ASSUME Types, NEW r \in Rows, NEW done, Writes(r, done)
    PROVE  /\ row' = r /\ writes' \in Nat /\ writes' <= MaxWrites
           /\ built' \in [Refreshers -> [envelope : Envelopes, crossed : BOOLEAN]]
           /\ \A w \in Refreshers : built'[w].envelope # NoEnvelope =>
                 /\ w \notin done /\ Builds(w)
                 /\ built'[w].envelope = built[w].envelope /\ built'[w].crossed
<1>1. writes \in Nat /\ writes < MaxWrites /\ writes' = writes + 1 BY DEF Types, Writes
<1>2. writes' \in Nat /\ writes' <= MaxWrites BY <1>1, DisplayRecordAssumption
<1> DEFINE empty == [envelope |-> NoEnvelope, crossed |-> FALSE]
           now(w) == IF w \in done THEN empty
                     ELSE IF built[w].envelope = NoEnvelope THEN built[w]
                     ELSE [built[w] EXCEPT !.crossed = TRUE]
<1>3. built' = [w \in Refreshers |-> now(w)] BY DEF Writes
<1>4. ASSUME NEW w \in Refreshers
      PROVE  /\ now(w) \in [envelope : Envelopes, crossed : BOOLEAN]
             /\ now(w).envelope # NoEnvelope =>
                  /\ w \notin done /\ Builds(w)
                  /\ now(w).envelope = built[w].envelope /\ now(w).crossed
  <2>1. built[w] \in [envelope : Envelopes, crossed : BOOLEAN] BY DEF Types
  <2>2. CASE w \in done BY <2>2, NoEnvelopeTyped
  <2>3. CASE w \notin done BY <2>1, <2>3 DEF Builds
  <2> QED BY <2>2, <2>3
<1> HIDE DEF now
<1> QED BY <1>2, <1>3, <1>4 DEF Writes

\* Stage 5: the row comes with everything the DIP has.
LEMMA BuildRowInv ==
    ASSUME IInv, NEW answer \in Answers, NEW dip \in DipLists, build_object_row(answer, dip)
    PROVE  IInv'
<1> DEFINE e == build_envelope(answer, dip)
           r == [envelope |-> e, thumbnail |-> e.thumbnail, file_name |-> e.object]
<1>1. IsInner(answer) /\ dip \in Seq(DipRecords) /\ dip # <<>> BY AnswersAreInner, DipListsAre
<1>2. /\ e \in Envelopes /\ e.shape = "fat" /\ e.object # None
      /\ e.parts = merge_parts(answer, dip) /\ e.thumbnail \in {DipThumbnail, NoThumbnail}
  BY <1>1, BuildIs
<1>3. PathsOf(dip) \subseteq PathsOf(e.parts) BY <1>1, <1>2, MergedPaths
<1>4. /\ row = NoRow /\ Writes(r, {})
      /\ held' = PathsOf(dip) /\ outrun' = FALSE /\ stored' = stored /\ upload' = upload
  BY DEF build_object_row
<1> HIDE DEF e
<1>5. r \in Rows BY <1>2, EnvelopeFields DEF Rows
<1>6. Types BY DEF IInv
<1>7. /\ row' = r /\ writes' \in Nat /\ writes' <= MaxWrites
      /\ built' \in [Refreshers -> [envelope : Envelopes, crossed : BOOLEAN]]
      /\ \A w \in Refreshers : built'[w].envelope # NoEnvelope => Builds(w)
  BY <1>4, <1>5, <1>6, WritesBuilt
<1>8. \A w \in Refreshers : ~Builds(w) BY <1>4 DEF IInv, BuiltIsWhole
<1>9. held' \subseteq Files BY <1>1, <1>4, PathsAreFiles
<1>10. r.envelope = e /\ r.thumbnail = e.thumbnail OBVIOUS
<1> HIDE DEF r
<1>11. Types' BY <1>4, <1>5, <1>6, <1>7, <1>9, Zenon DEF Types
<1>12. row' # NoRow BY <1>2, <1>7, <1>10, NoEnvelopeTyped
<1>13. Accounts(row.envelope)'
  BY <1>2, <1>3, <1>4, <1>7, <1>10 DEF Accounts, PathsIn
<1>14. r.thumbnail \notin Urls
  BY <1>2, <1>10, DisplayRecordAssumption DEF NoThumbnail, DipThumbnail
<1>15. ShowsUpload'
  <2>1. IsUrl(upload) => upload \in stored BY DEF IInv, ShowsUpload
  <2> QED BY <1>4, <1>7, <1>14, <2>1 DEF ShowsUpload, IsUrl
<1>16. BuiltIsWhole' BY <1>7, <1>8 DEF BuiltIsWhole, Builds
<1> QED BY <1>11, <1>12, <1>13, <1>15, <1>16 DEF IInv, RowIsWhole

\* A refresh reads the row: what it builds accounts for the same paths.
LEMMA ReadInv ==
    ASSUME IInv, NEW w \in Refreshers, NEW answer \in Answers, refresh_read(w, answer)
    PROVE  IInv'
<1>0. PICK p : p = build_payload(row, answer) OBVIOUS
<1>1. /\ row # NoRow /\ ~Builds(w)
      /\ built' = [built EXCEPT ![w].envelope = p]
      /\ UNCHANGED <<row, held, outrun, stored, upload, writes>>
  BY <1>0 DEF refresh_read, Builds
<1>2. Types /\ row \in Rows /\ Accounts(row.envelope) BY <1>1 DEF IInv, RowIsWhole, Types
<1>3. /\ p \in Envelopes /\ p.shape = "fat" /\ p.object = row.envelope.object
      /\ PathsIn(row.envelope) \subseteq PathsIn(p)
      /\ IsUrl(row.thumbnail) => p.thumbnail = row.thumbnail
      /\ row.envelope.shape # "thin" =>
            PlayableIn(row.envelope.parts) \subseteq PlayableIn(p.parts)
  BY <1>0, <1>2, PayloadIs DEF Accounts
<1>4. /\ built \in [Refreshers -> [envelope : Envelopes, crossed : BOOLEAN]]
      /\ built[w] \in [envelope : Envelopes, crossed : BOOLEAN]
  BY <1>2 DEF Types
<1>5. /\ built' \in [Refreshers -> [envelope : Envelopes, crossed : BOOLEAN]]
      /\ built'[w].envelope = p /\ \A v \in Refreshers \ {w} : built'[v] = built[v]
  BY <1>1, <1>3, <1>4
<1>6. Types' BY <1>1, <1>2, <1>5 DEF Types
<1>7. /\ p.shape # "none" /\ p.object # None
      /\ held \subseteq PathsIn(p) \cup {p.object}
  BY <1>2, <1>3 DEF Accounts
<1>8. RowIsWhole' /\ ShowsUpload' BY <1>1 DEF IInv, RowIsWhole, ShowsUpload, Accounts
<1>9. BuiltIsWhole'
  <2> SUFFICES ASSUME NEW v \in Refreshers, Builds(v)'
               PROVE  (/\ row # NoRow
                       /\ Accounts(built[v].envelope) /\ built[v].envelope.shape = "fat"
                       /\ built[v].envelope.object = row.envelope.object
                       /\ built[v].crossed \/ Uncrossed(v))'
    BY DEF BuiltIsWhole
  <2>1. CASE v = w
    <3>1. Uncrossed(w)' BY <1>1, <1>3, <1>5 DEF Uncrossed
    <3>2. Accounts(built[w].envelope)' BY <1>1, <1>5, <1>7 DEF Accounts
    <3> QED BY <1>1, <1>3, <1>5, <2>1, <3>1, <3>2
  <2>2. CASE v # w
    <3>1. built'[v] = built[v] BY <1>5, <2>2
    <3>2. Builds(v) BY <3>1 DEF Builds
    <3>3. /\ Accounts(built[v].envelope) /\ built[v].envelope.shape = "fat"
          /\ built[v].envelope.object = row.envelope.object
          /\ built[v].crossed \/ Uncrossed(v)
      BY <3>2 DEF IInv, BuiltIsWhole
    <3>4. Accounts(built[v].envelope)' BY <1>1, <3>1, <3>3 DEF Accounts
    <3>5. Uncrossed(v) => Uncrossed(v)' BY <1>1, <3>1 DEF Uncrossed
    <3> QED BY <1>1, <3>1, <3>3, <3>4, <3>5
  <2> QED BY <2>1, <2>2
<1> QED BY <1>6, <1>8, <1>9 DEF IInv

\* The other envelopes after a write of the row that leaves its object.
LEMMA OthersStayWhole ==
    ASSUME IInv, NEW r \in Rows, NEW done, Writes(r, done),
           row # NoRow, held' = held,
           r.envelope.object = row.envelope.object, r.envelope.shape # "none"
    PROVE  BuiltIsWhole'
<1>1. Types BY DEF IInv
<1>2. /\ row' = r
      /\ \A w \in Refreshers : built'[w].envelope # NoEnvelope =>
            Builds(w) /\ built'[w].envelope = built[w].envelope /\ built'[w].crossed
  BY <1>1, WritesBuilt
<1>3. row' # NoRow BY <1>2, NoEnvelopeTyped
<1> SUFFICES ASSUME NEW v \in Refreshers, Builds(v)'
             PROVE  (/\ row # NoRow
                     /\ Accounts(built[v].envelope) /\ built[v].envelope.shape = "fat"
                     /\ built[v].envelope.object = row.envelope.object
                     /\ built[v].crossed \/ Uncrossed(v))'
  BY DEF BuiltIsWhole
<1>4. Builds(v) /\ built'[v].envelope = built[v].envelope /\ built'[v].crossed
  BY <1>2 DEF Builds
<1>5. /\ Accounts(built[v].envelope) /\ built[v].envelope.shape = "fat"
      /\ built[v].envelope.object = row.envelope.object
  BY <1>4 DEF IInv, BuiltIsWhole
<1>6. Accounts(built[v].envelope)' BY <1>4, <1>5 DEF Accounts
<1> QED BY <1>2, <1>3, <1>4, <1>5, <1>6

\* The write of a refresh.
LEMMA UpdateInv ==
    ASSUME IInv, NEW w \in Refreshers, update_metadata_payload(w)
    PROVE  IInv'
<1> DEFINE e == built[w].envelope
           r == [row EXCEPT !.envelope = e]
<1>1. /\ Builds(w) /\ Writes(r, {w}) /\ outrun' = built[w].crossed
      /\ UNCHANGED <<held, stored, upload>>
  BY DEF update_metadata_payload, Builds
<1>2. Types /\ row \in Rows /\ built[w] \in [envelope : Envelopes, crossed : BOOLEAN]
  BY DEF IInv, Types
<1>3. /\ row # NoRow /\ Accounts(e) /\ e.shape = "fat" /\ e.object = row.envelope.object
      /\ built[w].crossed \/ Uncrossed(w)
  BY <1>1 DEF IInv, BuiltIsWhole
<1>4. e \in Envelopes /\ built[w].crossed \in BOOLEAN BY <1>2
<1>5. r \in Rows /\ r.envelope = e /\ r.thumbnail = row.thumbnail BY <1>2, <1>4 DEF Rows
<1>6. built[w].crossed \/ (IsUrl(row.thumbnail) => e.thumbnail = row.thumbnail)
  BY <1>3 DEF Uncrossed
<1> HIDE DEF e, r
<1>7. /\ row' = r /\ writes' \in Nat /\ writes' <= MaxWrites
      /\ built' \in [Refreshers -> [envelope : Envelopes, crossed : BOOLEAN]]
  BY <1>1, <1>2, <1>5, WritesBuilt
<1>8. Types' BY <1>1, <1>2, <1>4, <1>5, <1>7 DEF Types
<1>9. row' # NoRow BY <1>3, <1>5, <1>7, NoEnvelopeTyped
<1>10. Accounts(row.envelope)' BY <1>1, <1>3, <1>5, <1>7 DEF Accounts
<1>11. ShowsUpload' BY <1>1, <1>5, <1>6, <1>7 DEF IInv, ShowsUpload
<1>12. BuiltIsWhole' BY <1>1, <1>3, <1>5, OthersStayWhole
<1> QED BY <1>8, <1>9, <1>10, <1>11, <1>12 DEF IInv, RowIsWhole

LEMMA ThumbnailInv ==
    ASSUME IInv, NEW url \in Urls, write_thumbnail(url)
    PROVE  IInv'
<1>1. /\ stored' = stored \cup {url} /\ upload' = url
      /\ UNCHANGED <<row, held, built, outrun, writes>>
  BY DEF write_thumbnail
<1>2. Types' BY <1>1 DEF IInv, Types
<1>3. RowIsWhole' BY <1>1 DEF IInv, RowIsWhole, Accounts
<1>4. ShowsUpload' BY <1>1 DEF IInv, ShowsUpload
<1>5. BuiltIsWhole' BY <1>1 DEF IInv, BuiltIsWhole, Builds, Accounts, Uncrossed
<1> QED BY <1>2, <1>3, <1>4, <1>5 DEF IInv

LEMMA SetThumbnailInv ==
    ASSUME IInv, set_thumbnail
    PROVE  IInv'
<1> DEFINE e == [row.envelope EXCEPT !.thumbnail = upload]
           r == [row EXCEPT !.thumbnail = upload, !.envelope.thumbnail = upload]
<1>1. /\ row # NoRow /\ upload # NoThumbnail /\ Writes(r, {})
      /\ outrun' = FALSE /\ upload' = NoThumbnail /\ UNCHANGED <<held, stored>>
  BY DEF set_thumbnail
<1>2. Types /\ row \in Rows /\ upload \in Urls /\ stored \subseteq Urls /\ Accounts(row.envelope)
  BY <1>1 DEF IInv, Types, RowIsWhole
<1>3. row.envelope \in Envelopes /\ upload \in Thumbnails BY <1>2 DEF Rows, Thumbnails
<1>4. /\ e \in Envelopes /\ e.thumbnail = upload /\ e.shape = row.envelope.shape
      /\ e.object = row.envelope.object /\ e.parts = row.envelope.parts /\ e.dip = row.envelope.dip
  BY <1>3 DEF Envelopes
<1>5. r \in Rows /\ r.envelope = e /\ r.thumbnail = upload BY <1>2, <1>3, <1>4 DEF Rows
<1> HIDE DEF e, r
<1>6. /\ row' = r /\ writes' \in Nat /\ writes' <= MaxWrites
      /\ built' \in [Refreshers -> [envelope : Envelopes, crossed : BOOLEAN]]
  BY <1>1, <1>2, <1>5, WritesBuilt
<1>7. Types' BY <1>1, <1>2, <1>5, <1>6 DEF Types
<1>8. row' # NoRow BY <1>2, <1>4, <1>5, <1>6, NoEnvelopeTyped DEF Accounts
<1>9. Accounts(row.envelope)' BY <1>1, <1>2, <1>4, <1>5, <1>6 DEF Accounts, PathsIn
<1>10. ShowsUpload'
  <2>1. upload \in stored BY <1>2 DEF IInv, ShowsUpload, IsUrl
  <2>2. NoThumbnail \notin Urls BY DisplayRecordAssumption DEF NoThumbnail
  <2> QED BY <1>1, <1>4, <1>5, <1>6, <2>1, <2>2 DEF ShowsUpload, IsUrl
<1>11. BuiltIsWhole' BY <1>1, <1>2, <1>4, <1>5, OthersStayWhole DEF Accounts
<1> QED BY <1>7, <1>8, <1>9, <1>10, <1>11 DEF IInv, RowIsWhole

LEMMA NextInv == IInv /\ [Next]_vars => IInv'
<1> SUFFICES ASSUME IInv, [Next]_vars PROVE IInv' OBVIOUS
<1>1. ASSUME NEW answer \in Answers, NEW dip \in DipLists, build_object_row(answer, dip)
      PROVE  IInv'
  BY <1>1, BuildRowInv
<1>2. ASSUME NEW w \in Refreshers, NEW answer \in Answers, refresh_read(w, answer) PROVE IInv'
  BY <1>2, ReadInv
<1>3. ASSUME NEW w \in Refreshers, update_metadata_payload(w) PROVE IInv'
  BY <1>3, UpdateInv
<1>4. ASSUME NEW url \in Urls, write_thumbnail(url) PROVE IInv' BY <1>4, ThumbnailInv
<1>5. CASE set_thumbnail BY <1>5, SetThumbnailInv
<1>6. CASE UNCHANGED vars
  BY <1>6 DEF vars, IInv, Types, RowIsWhole, Accounts, ShowsUpload, BuiltIsWhole, Builds, Uncrossed
<1> QED BY <1>1, <1>2, <1>3, <1>4, <1>5, <1>6 DEF Next

-----------------------------------------------------------------------------
(* The theorems *)

LEMMA InvariantHolds == Spec => []IInv
<1>1. Init => IInv BY InitInv
<1>2. IInv /\ [Next]_vars => IInv' BY NextInv
<1> QED BY <1>1, <1>2, PTL DEF Spec

(* No DIP path is ever lost to the index, however refreshes overlap and     *)
(* whatever ArchivesSpace answers.                                          *)
THEOREM PathsAreKept == Spec => []RecordInv
<1>1. ASSUME IInv PROVE RecordInv
  <2>1. Types /\ row \in Rows BY <1>1 DEF IInv, Types
  <2> DEFINE e == row.envelope
  <2>2. e \in Envelopes /\ row.thumbnail \in Thumbnails /\ row.file_name \in Objects
    BY <2>1 DEF Rows
  <2>3. TypeOK
    <3>1. /\ e.shape \in {"none", "thin", "fat"} /\ e.object \in Objects
          /\ e.thumbnail \in Thumbnails
      BY <2>2, EnvelopeFields
    <3>2. writes \in 0..MaxWrites BY <2>1, DisplayRecordAssumption DEF Types
    <3> QED BY <2>1, <2>2, <3>1, <3>2 DEF TypeOK, Types, Objects, Thumbnails
  <2>4. PathsKept
    <3>1. CASE row = NoRow
      <4>1. held = {} BY <1>1, <3>1 DEF IInv, RowIsWhole
      <4> QED BY <4>1 DEF PathsKept
    <3>2. CASE row # NoRow
      <4>1. Accounts(e) BY <1>1, <3>2 DEF IInv, RowIsWhole
      <4>2. master_object(row) = e.object BY <4>1 DEF Accounts, master_object
      <4>3. PathsIn(e) \subseteq PathsOf(pick_parts(e))
        <5>1. e.parts \in Seq(PartRecords) /\ e.dip \in Seq(DipRecords) BY <2>2, EnvelopeFields
        <5>2. CASE e.shape = "thin"
          <6>1. PathsOf(e.dip) \subseteq PathsOf(merge_parts(e.parts, e.dip))
            BY <5>1, PartsAreInner, MergedPaths
          <6> QED BY <5>2, <6>1 DEF PathsIn, pick_parts
        <5>3. CASE e.shape # "thin" BY <5>3 DEF PathsIn, pick_parts
        <5> QED BY <5>2, <5>3
      <4> QED BY <4>1, <4>2, <4>3 DEF PathsKept, project_for_index, Accounts
    <3> QED BY <3>1, <3>2
  <2> QED BY <2>3, <2>4 DEF RecordInv
<1> QED BY <1>1, InvariantHolds, PTL

(* An uploaded thumbnail is in the index from then on, its picture is       *)
(* there, and the dashboard shows it unless the last refresh had read the   *)
(* row before the upload.                                                   *)
THEOREM UploadsAreShown == Spec => []UploadShows
<1>1. ASSUME IInv PROVE UploadShows
  <2> SUFFICES ASSUME IsUrl(row.thumbnail)
               PROVE  /\ row.thumbnail \in stored
                      /\ ~outrun => object_thumbnail_raw(row) = {row.thumbnail}
    BY DEF UploadShows, project_for_index
  <2>1. row.thumbnail \in stored /\ (~outrun => row.envelope.thumbnail = row.thumbnail)
    BY <1>1 DEF IInv, ShowsUpload
  <2>2. row.thumbnail # NoThumbnail BY DisplayRecordAssumption DEF IsUrl, NoThumbnail
  <2>3. ASSUME ~outrun PROVE object_thumbnail_raw(row) = {row.thumbnail}
    <3>1. enrich(row).thumbnail = row.thumbnail BY <2>1, <2>2, <2>3 DEF enrich
    <3> QED BY <3>1 DEF object_thumbnail_raw
  <2> QED BY <2>1, <2>3
<1> QED BY <1>1, InvariantHolds, PTL

(* No step takes away the top-level object, nor a file that can be played,  *)
(* but a refresh that overwrites what it had not read.                      *)
THEOREM NothingIsTaken == Spec => RefreshTakesNothing
<1>1. ASSUME IInv, [Next]_vars PROVE [MasterStands /\ PlayableStays]_vars
  <2> USE <1>1
  <2>0. Types /\ row \in Rows /\ row.envelope \in Envelopes BY DEF IInv, Types, Rows
  <2>a. NoRow.envelope.object = None /\ NoRow.envelope.shape = "none"
    BY DEF NoRow, NoEnvelope
  <2>b. ASSUME NEW p \in Rows, p.envelope.shape = "fat"
        PROVE  Playable(p) = PlayableIn(p.envelope.parts)
    BY <2>b DEF Playable, PlayableIn, pick_parts
  <2>1. ASSUME NEW answer \in Answers, NEW dip \in DipLists, build_object_row(answer, dip)
        PROVE  MasterStands /\ PlayableStays
    <3>1. row = NoRow BY <2>1 DEF build_object_row
    <3> QED BY <2>a, <3>1 DEF MasterStands, PlayableStays
  <2>2. ASSUME row' = row PROVE MasterStands /\ PlayableStays
    BY <2>2 DEF MasterStands, PlayableStays
  <2>3. ASSUME NEW w \in Refreshers, update_metadata_payload(w)
        PROVE  MasterStands /\ PlayableStays
    <3>1. Builds(w) /\ row' = [row EXCEPT !.envelope = built[w].envelope]
          /\ outrun' = built[w].crossed
      BY <2>3 DEF update_metadata_payload, Builds, Writes
    <3>2. /\ built[w].envelope.shape = "fat"
          /\ built[w].envelope.object = row.envelope.object
          /\ built[w].crossed \/ Uncrossed(w)
      BY <3>1 DEF IInv, BuiltIsWhole
    <3>3. built[w].envelope \in Envelopes BY <2>0 DEF Types
    <3>4. row' \in Rows /\ row'.envelope = built[w].envelope BY <2>0, <3>1, <3>3 DEF Rows
    <3>5. MasterStands BY <3>2, <3>4 DEF MasterStands
    <3>6. ASSUME row.envelope.shape = "fat", ~outrun'
          PROVE  Playable(row) \subseteq Playable(row')
      <4>1. PlayableIn(row.envelope.parts) \subseteq PlayableIn(built[w].envelope.parts)
        BY <3>1, <3>2, <3>6 DEF Uncrossed
      <4>2. Playable(row) = PlayableIn(row.envelope.parts) BY <2>0, <2>b, <3>6
      <4>3. PICK new : new = row' OBVIOUS
      <4>4. Playable(new) = PlayableIn(built[w].envelope.parts) BY <2>b, <3>2, <3>4, <4>3
      <4> QED BY <4>1, <4>2, <4>3, <4>4
    <3> QED BY <3>5, <3>6 DEF PlayableStays
  <2>4. ASSUME set_thumbnail PROVE MasterStands /\ PlayableStays
    <3>1. row' = [row EXCEPT !.thumbnail = upload, !.envelope.thumbnail = upload]
      BY <2>4 DEF set_thumbnail, Writes
    <3>2. /\ row'.envelope.object = row.envelope.object
          /\ row'.envelope.shape = row.envelope.shape
          /\ row'.envelope.parts = row.envelope.parts /\ row'.envelope.dip = row.envelope.dip
      BY <2>0, <3>1 DEF Rows, Envelopes
    <3>3. PICK new : new = row' OBVIOUS
    <3>4. Playable(new) = Playable(row) BY <3>2, <3>3 DEF Playable, pick_parts
    <3> QED BY <3>2, <3>3, <3>4 DEF MasterStands, PlayableStays
  <2>5. ASSUME Next PROVE MasterStands /\ PlayableStays
    <3>1. ASSUME NEW w \in Refreshers, NEW answer \in Answers, refresh_read(w, answer)
          PROVE  MasterStands /\ PlayableStays
      <4>1. row' = row BY <3>1 DEF refresh_read
      <4> QED BY <2>2, <4>1
    <3>2. ASSUME NEW url \in Urls, write_thumbnail(url) PROVE MasterStands /\ PlayableStays
      <4>1. row' = row BY <3>2 DEF write_thumbnail
      <4> QED BY <2>2, <4>1
    <3> QED BY <2>1, <2>3, <2>4, <2>5, <3>1, <3>2 DEF Next
  <2> QED BY <2>5
<1> QED BY <1>1, InvariantHolds, PTL DEF Spec, RefreshTakesNothing

(* The only thin envelopes are those that rows came with: their DIP names   *)
(* every file once.                                                         *)
ThinIsDip == row.envelope.shape = "thin" => row.envelope.dip \in DipLists
LEMMA ThinInv == Spec => []ThinIsDip
<1>1. Init => ThinIsDip
  <2> SUFFICES ASSUME Init PROVE ThinIsDip OBVIOUS
  <2>1. CASE row = NoRow BY <2>1, NoEnvelopeTyped DEF ThinIsDip
  <2>2. ASSUME NEW inner \in Answers, NEW dip \in DipLists, row = Thin(inner, dip)
        PROVE  ThinIsDip
    BY <2>2 DEF ThinIsDip, Thin
  <2>3. ASSUME NEW inner \in Answers, row = TopOnly(inner) PROVE ThinIsDip
    BY <2>3 DEF ThinIsDip, TopOnly
  <2> QED BY <2>1, <2>2, <2>3 DEF Init
<1>2. ASSUME ThinIsDip, IInv, [Next]_vars PROVE ThinIsDip'
  <2>0. row \in Rows /\ row.envelope \in Envelopes BY <1>2 DEF IInv, Types, Rows
  <2>1. ASSUME NEW answer \in Answers, NEW dip \in DipLists, build_object_row(answer, dip)
        PROVE  ThinIsDip'
    <3>1. row'.envelope = build_envelope(answer, dip) BY <2>1 DEF build_object_row, Writes
    <3>2. build_envelope(answer, dip).shape = "fat" BY AnswersAreInner, DipListsAre, BuildIs
    <3> QED BY <3>1, <3>2 DEF ThinIsDip
  <2>2. ASSUME row' = row PROVE ThinIsDip' BY <1>2, <2>2 DEF ThinIsDip
  <2>3. ASSUME NEW w \in Refreshers, update_metadata_payload(w) PROVE ThinIsDip'
    <3>1. Builds(w) /\ row'.envelope = built[w].envelope
      BY <2>0, <2>3 DEF update_metadata_payload, Builds, Writes, Rows
    <3>2. built[w].envelope.shape = "fat" BY <1>2, <3>1 DEF IInv, BuiltIsWhole
    <3> QED BY <3>1, <3>2 DEF ThinIsDip
  <2>4. ASSUME set_thumbnail PROVE ThinIsDip'
    <3>1. row' = [row EXCEPT !.thumbnail = upload, !.envelope.thumbnail = upload]
      BY <2>4 DEF set_thumbnail, Writes
    <3>2. row'.envelope.shape = row.envelope.shape /\ row'.envelope.dip = row.envelope.dip
      BY <2>0, <3>1 DEF Rows, Envelopes
    <3> QED BY <1>2, <3>2 DEF ThinIsDip
  <2>5. ASSUME NEW w \in Refreshers, NEW answer \in Answers, refresh_read(w, answer)
        PROVE  ThinIsDip'
    BY <2>2, <2>5 DEF refresh_read
  <2>6. ASSUME NEW url \in Urls, write_thumbnail(url) PROVE ThinIsDip'
    BY <2>2, <2>6 DEF write_thumbnail
  <2>7. CASE UNCHANGED vars BY <2>2, <2>7 DEF vars
  <2> QED BY <1>2, <2>1, <2>3, <2>4, <2>5, <2>6, <2>7 DEF Next
<1> QED BY <1>1, <1>2, InvariantHolds, PTL DEF Spec

(* A second refresh with the same answer changes nothing, for records of    *)
(* any length in which every part has a name of its own.                    *)
THEOREM RefreshesSettle == Spec => []RefreshSettles
<1>1. ASSUME IInv, ThinIsDip PROVE RefreshSettles
  <2> SUFFICES ASSUME row # NoRow, NEW answer \in Answers,
                      WellTitled(InnerFor(row.envelope, answer))
               PROVE  LET once == [row EXCEPT !.envelope = build_payload(row, answer)]
                      IN build_payload(once, answer) = once.envelope
    BY DEF RefreshSettles
  <2> DEFINE old == row.envelope
             inner == InnerFor(old, answer)
             dip == DipOf(old)
             fresh == build_envelope(inner, dip)
             p == build_payload(row, answer)
             once == [row EXCEPT !.envelope = p]
  <2>1. row \in Rows /\ old \in Envelopes /\ old.object # None /\ old.shape # "none"
    BY <1>1 DEF IInv, Types, Rows, RowIsWhole, Accounts
  <2>2. /\ old.parts \in Seq(PartRecords) /\ IsInner(inner) /\ dip \in Seq(DipRecords)
        /\ (answer = <<>> => inner = old.parts) /\ (answer # <<>> => inner = answer)
    BY <2>1, EnvelopeFields, PartsAreInner, AnswersAreInner, DipOfIs DEF InnerFor
  <2>3. /\ fresh.shape = "fat" /\ fresh.parts = merge_parts(inner, dip) /\ fresh \in Envelopes
    <3> HIDE DEF inner, dip
    <3> QED BY <2>2, BuildIs
  <2>4. /\ p = [fresh EXCEPT
                  !.object = Kept(old.object, fresh.object, row.file_name, None),
                  !.thumbnail = Thumbnail(row.thumbnail,
                          Kept(old.thumbnail, fresh.thumbnail, row.thumbnail, NoThumbnail))]
        /\ p \in Envelopes /\ p.shape = "fat" /\ p.object = old.object
    BY <2>1, PayloadIs DEF build_payload
  <2>5. /\ p.parts = merge_parts(inner, dip)
        /\ p.thumbnail = Thumbnail(row.thumbnail,
                          Kept(old.thumbnail, fresh.thumbnail, row.thumbnail, NoThumbnail))
    <3> HIDE DEF fresh
    <3> QED BY <2>3, <2>4 DEF Envelopes
  <2>6. once.envelope = p /\ once.thumbnail = row.thumbnail /\ once.file_name = row.file_name
    BY <2>1 DEF Rows
  <2> HIDE DEF once, p, fresh, inner, dip
  <2> DEFINE inner2 == InnerFor(p, answer)
             dip2 == DipOf(p)
  <2>7. WellTitled(inner) BY DEF inner
  <2>8. Settled(inner2, p.parts)
    <3>1. CASE answer # <<>>
      <4>1. inner2 = inner BY <2>2, <3>1 DEF InnerFor
      <4> HIDE DEF inner2
      <4> QED BY <2>2, <2>5, <2>7, <4>1, FirstMergeSettles
    <3>2. CASE answer = <<>>
      <4>1. inner2 = p.parts BY <3>2 DEF InnerFor
      <4>2. DistinctFiles(dip)
        <5>1. old.shape = "fat" => WellTitled(old.parts) BY <2>2, <2>7, <3>2
        <5>2. old.shape = "thin" => old.dip \in DipLists BY <1>1 DEF ThinIsDip
        <5> QED BY <2>1, <5>1, <5>2, DipOfDistinct DEF dip
      <4>3. WellTitled(p.parts) BY <2>2, <2>5, <2>7, <4>2, MergedWellTitled
      <4>4. p.parts \in Seq(PartRecords) BY <2>4, EnvelopeFields
      <4> HIDE DEF inner2
      <4> QED BY <4>1, <4>3, <4>4, ItselfIsSettled
    <3> QED BY <3>1, <3>2
  <2>9. merge_parts(inner2, dip2) = p.parts
    <3> HIDE DEF inner2
    <3> QED BY <2>4, <2>8, MergeSettles
  <2>10. build_envelope(inner2, dip2) = fresh
    <3>1. merge_parts(inner2, dip2) = merge_parts(inner, dip) BY <2>5, <2>9
    <3> HIDE DEF inner2, dip2
    <3> QED BY <3>1, Zenon DEF build_envelope, fresh
  <2>11. build_payload(once, answer) =
           [fresh EXCEPT
              !.object = Kept(p.object, fresh.object, row.file_name, None),
              !.thumbnail = Thumbnail(row.thumbnail,
                      Kept(p.thumbnail, fresh.thumbnail, row.thumbnail, NoThumbnail))]
    BY <2>6, <2>10 DEF build_payload
  <2>12. Kept(p.object, fresh.object, row.file_name, None)
           = Kept(old.object, fresh.object, row.file_name, None)
    BY <2>1, <2>4 DEF Kept
  <2>13. Thumbnail(row.thumbnail, Kept(p.thumbnail, fresh.thumbnail, row.thumbnail, NoThumbnail))
           = Thumbnail(row.thumbnail,
                       Kept(old.thumbnail, fresh.thumbnail, row.thumbnail, NoThumbnail))
    BY <2>5 DEF Kept, Thumbnail
  <2>14. build_payload(once, answer) = p BY <2>4, <2>11, <2>12, <2>13
  <2> QED BY <2>6, <2>14 DEF once, p
<1> QED BY <1>1, InvariantHolds, ThinInv, PTL
=============================================================================
