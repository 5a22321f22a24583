-------------------------- MODULE Repository_proofs --------------------------
(***************************************************************************)
(* Proofs about Repository and the two systems it is part of, Catalogue    *)
(* and SearchIndex, for any numbers of collections, objects, staff         *)
(* sessions, requests, faults, handle suffixes and overlapping ticks.      *)
(*   First what one step of a session does to the rows, and the invariants *)
(* that every step of that kind keeps.  Then the catalogue: the            *)
(* collections form a forest, nothing is left half deleted, what becomes   *)
(* public is below what is public, and the records of handles are true,    *)
(* each outside the overlapping windows that its statement excepts.  Then  *)
(* the indexer: the index tells the truth about every settled row, and     *)
(* only rows that Elasticsearch itself rejected are parked.                *)
(***************************************************************************)
EXTENDS Catalogue, SearchIndex, FiniteSetTheorems, WellFoundedInduction, TLAPS

-----------------------------------------------------------------------------
(* Types *)

Kinds == {"none", "collection", "object"}
RowRecords ==
    [kind : Kinds, parent : {Root} \cup Pids, uri : {NoUri} \cup Uris, published : BOOLEAN,
     active : BOOLEAN, updated : BOOLEAN, indexed : BOOLEAN, attempts : Nat,
     error : BOOLEAN, ver : Nat]
Windows == {"idle", "publish", "request", "delete", "fetch", "insert", "add", "unlink",
            "move", "members"}
StaffRecords ==
    [step : Windows, pids : SUBSET Pids, target : {Root} \cup Pids,
     uri : {NoUri} \cup Uris, single : BOOLEAN]

\* A session that creates a collection has one pid, which no other one creates.
Creates(s, p) == staff[s].step \in {"fetch", "insert"} /\ staff[s].pids = {p}

\* Rows have collections for parents; what does not exist has no flags.
RowTypes ==
    /\ rows \in [Pids -> RowRecords]
    /\ \A p \in Pids : IF Exists(p) THEN rows[p].parent = Root \/ IsCollection(rows[p].parent)
                       ELSE ~rows[p].active /\ ~rows[p].published
StaffTypes ==
    /\ staff \in [Staff -> StaffRecords]
    /\ \A s \in Staff : staff[s].target = Root \/ IsCollection(staff[s].target)
    /\ \A s \in Staff : staff[s].step = "publish" => \A p \in staff[s].pids : Exists(p)
    /\ \A s \in Staff : staff[s].step \in {"fetch", "insert"} =>
          \E p \in Pids : ~Exists(p) /\ staff[s].pids = {p}
    /\ \A s, t \in Staff, p \in Pids : Creates(s, p) /\ Creates(t, p) => s = t
WorldTypes ==
    /\ aipAsked \subseteq {p \in Pids : Exists(p)} /\ byObject \subseteq Pids
    /\ ops \in Nat /\ faults \in Nat

TypeInv == RowTypes /\ StaffTypes /\ WorldTypes

LEMMA Numbers ==
    /\ Root \notin Pids /\ Pids \subseteq Nat /\ Uris \subseteq Nat /\ NoUri \notin Uris
    /\ 0..NumCollections \subseteq {Root} \cup Pids
    /\ \A p \in Pids : p <= NumCollections => p \in Uris
BY RepositoryAssumption DEF Root, Pids, Uris, NoUri

LEMMA InitTypes == ASSUME RepositoryInit PROVE TypeInv
<1>1. PICK parent \in [Pids -> 0..NumCollections], published \in [Pids -> BOOLEAN] :
         /\ \A p \in Pids :
              /\ (p <= NumCollections => parent[p] < p)
              /\ (p > NumCollections + NumObjects => parent[p] = Root /\ ~published[p])
         /\ rows = [p \in Pids |->
              IF p <= NumCollections THEN Row("collection", parent[p], p, published[p])
              ELSE IF p <= NumCollections + NumObjects
                   THEN Row("object", parent[p], NoUri, published[p])
              ELSE NoRow]
  BY DEF RepositoryInit
<1>2. ASSUME NEW kind \in {"collection", "object"}, NEW q \in {Root} \cup Pids,
             NEW uri \in {NoUri} \cup Uris, NEW b \in BOOLEAN
      PROVE  /\ Row(kind, q, uri, b) \in RowRecords
             /\ Row(kind, q, uri, b).kind = kind /\ Row(kind, q, uri, b).parent = q
             /\ Row(kind, q, uri, b).published = b
  BY DEF Row, NoRow, RowRecords, Kinds, Root, NoUri
<1>3. NoRow \in RowRecords /\ NoRow.kind = "none" /\ ~NoRow.active /\ ~NoRow.published
  BY DEF NoRow, RowRecords, Kinds, Root, NoUri
<1>4. \A p \in Pids : parent[p] \in {Root} \cup Pids BY Numbers
<1>5. ASSUME NEW p \in Pids
      PROVE  /\ rows[p] \in RowRecords
             /\ rows[p].kind = "none" => rows[p] = NoRow
             /\ rows[p].kind # "none" => rows[p].parent = parent[p]
             /\ p <= NumCollections => rows[p].kind = "collection"
  BY <1>1, <1>2, <1>3, <1>4, Numbers, RepositoryAssumption
<1>6. \A q \in 0..NumCollections : q = Root \/ IsCollection(q)
  BY <1>5, Numbers, RepositoryAssumption DEF IsCollection, Root
<1>7. RowTypes BY <1>1, <1>3, <1>5, <1>6 DEF RowTypes, Exists
<1>8. Idle \in StaffRecords /\ Idle.step = "idle" /\ Idle.target = Root
  BY DEF Idle, StaffRecords, Windows, Root, NoUri
<1>9. staff = [s \in Staff |-> Idle] /\ aipAsked = {} /\ byObject = {} /\ ops = 0 /\ faults = 0
  BY DEF RepositoryInit
<1>10. StaffTypes BY <1>8, <1>9 DEF StaffTypes, Creates
<1> QED BY <1>7, <1>9, <1>10 DEF TypeInv, WorldTypes

-----------------------------------------------------------------------------
(* What one step of one session does *)

\* Two open windows are recorded as crossed.
Concurrent ==
    \A s, t \in Staff : s # t /\ staff[s].step # "idle" /\ staff[t].step # "idle" =>
        {staff[s].step, staff[t].step} \in crossed

\* A changed row is marked for the index; its attempts there are kept, or it is new.
Touched(r, q) ==
    /\ q.updated
    /\ \/ q.attempts = r.attempts /\ q.error = r.error
       \/ q.attempts = 0 /\ ~q.error

\* What becomes of a row, and in which window of the session.
RowEffect(s, p) ==
    /\ Exists(p) => rows'[p].kind = rows[p].kind
    /\ ~Exists(p) /\ rows'[p].kind # "none" =>
          /\ staff[s].step = "insert" /\ staff[s].pids = {p}
          /\ rows'[p].kind = "collection" /\ rows'[p].parent = staff[s].target
          /\ ~rows'[p].published
    /\ ~Exists(p) /\ rows'[p].kind = "none" => rows'[p] = rows[p]
    /\ Exists(p) /\ rows'[p].parent # rows[p].parent =>
          /\ staff[s].step \in {"add", "move"} /\ p \in staff[s].pids /\ rows[p].active
          /\ rows'[p].parent = staff[s].target
          /\ staff[s].step = "add" => ~IsCollection(p)
    /\ Exists(p) /\ rows'[p].active # rows[p].active =>
          /\ rows[p].active /\ staff[s].step \in {"delete", "unlink"} /\ p \in staff[s].pids
          /\ staff[s].step = "delete" /\ IsCollection(p) => p \in byObject'
    /\ Exists(p) /\ rows[p].published /\ ~rows'[p].published /\ IsCollection(p) =>
          \A t \in Staff \ {s} : staff[t].step # "idle" =>
             {"unpublish", staff[t].step} \in crossed'
    /\ Exists(p) /\ ~rows[p].published /\ rows'[p].published =>
          \/ staff[s].step = "publish" /\ p \in Reach(staff[s].pids, staff[s].single)
          \/ staff[s].step = "members" /\ p \in Movable(Members(staff[s].target))
    /\ rows'[p] # rows[p] => Touched(rows[p], rows'[p])

\* What holds of a request when its window opens.
Opened(s, r) ==
    /\ r.step = "publish" =>
          (\A p \in r.pids : Exists(p)) /\ unpublished_parents(Reach(r.pids, r.single)) = {}
    /\ r.step = "add" => LiveCollection(r.target)
    /\ r.step = "unlink" => \E c \in Pids : r.pids = {c} /\ Members(c) = {}
    /\ r.step = "move" =>
          \E c \in Pids : r.pids = {c} /\ IsCollection(c) /\ may_move_under(c, r.target)
    /\ r.step = "members" => IsCollection(r.target) /\ rows[r.target].published
    /\ r.step \notin {"insert", "delete"}

\* What becomes of the session: it opens, proceeds, ends, or stays as it is.
Effect(s) ==
    /\ staff' = [staff EXCEPT ![s] = staff'[s]] /\ staff'[s] \in StaffRecords
    /\ \A p \in Pids : RowEffect(s, p)
    /\ rows' \in [Pids -> RowRecords]
    /\ \/ staff'[s] = staff[s] /\ staff[s].step = "idle"
       \/ staff'[s] = Idle /\ staff[s].step # "request"
       \/ staff'[s] # Idle /\ rows' = rows
    /\ \/ staff'[s] = staff[s] /\ staff[s].step = "idle"
       \/ staff'[s] = Idle
       \/ staff[s].step = "idle" /\ Opened(s, staff'[s])
       \/ staff[s].step = "request" /\ staff'[s] = [staff[s] EXCEPT !.step = "delete"]
       \/ /\ staff[s].step = "fetch" /\ staff'[s] = [staff[s] EXCEPT !.step = "insert"]
          /\ staff[s].target = Root \/ LiveCollection(staff[s].target)
    /\ staff'[s].target = Root \/ IsCollection(staff'[s].target)
    /\ staff[s].step = "idle" /\ staff'[s].step = "fetch" =>
          \E p \in Pids : staff'[s].pids = {p} /\ p \in Fresh
    /\ aipAsked \subseteq aipAsked'
    /\ \A p \in aipAsked' \ aipAsked :
          staff[s].step = "request" /\ p \in staff[s].pids /\ p \in Pids /\ Exists(p)
          /\ staff'[s].step = "delete" /\ staff'[s].pids = staff[s].pids
    /\ staff[s].step = "delete" => \A p \in staff[s].pids : ~rows'[p].active
    /\ byObject \subseteq byObject' /\ byObject' \subseteq Pids
    /\ crossed \subseteq crossed' /\ ops' \in Nat /\ faults' = faults
    /\ staff'[s].step \notin {"idle", staff[s].step} =>
          \A t \in Staff \ {s} : staff[t].step # "idle" =>
             {staff'[s].step, staff[t].step} \in crossed'

LEMMA RowUpdates ==
    ASSUME NEW r \in RowRecords
    PROVE  /\ Dirty(Publishes(r)) \in RowRecords /\ Dirty(Publishes(r)).kind = r.kind
           /\ Dirty(Publishes(r)).parent = r.parent /\ Dirty(Publishes(r)).active = r.active
           /\ Dirty(Publishes(r)).published
           /\ Touched(r, Dirty(Publishes(r)))
           /\ Dirty(Suppresses(r)) \in RowRecords /\ Dirty(Suppresses(r)).kind = r.kind
           /\ Dirty(Suppresses(r)).parent = r.parent /\ Dirty(Suppresses(r)).active = r.active
           /\ ~Dirty(Suppresses(r)).published
           /\ Touched(r, Dirty(Suppresses(r)))
           /\ Dirty(Deletes(r)) \in RowRecords /\ Dirty(Deletes(r)).kind = r.kind
           /\ Dirty(Deletes(r)).parent = r.parent /\ ~Dirty(Deletes(r)).active
           /\ Dirty(Deletes(r)).published = r.published
           /\ Touched(r, Dirty(Deletes(r)))
           /\ Dirty(Edits(r)) \in RowRecords /\ Dirty(Edits(r)).kind = r.kind
           /\ Dirty(Edits(r)).parent = r.parent /\ Dirty(Edits(r)).active = r.active
           /\ Dirty(Edits(r)).published = r.published
           /\ Touched(r, Dirty(Edits(r)))
<1>1. \A w \in RowRecords : Dirty(w) \in RowRecords BY DEF Dirty, RowRecords
<1>2. Publishes(r) \in RowRecords /\ Suppresses(r) \in RowRecords /\ Deletes(r) \in RowRecords
  BY DEF Publishes, Suppresses, Deletes, RowRecords
<1>3. Edits(r) \in RowRecords BY DEF Edits, RowRecords
<1>4. /\ Dirty(Publishes(r)).kind = r.kind /\ Dirty(Publishes(r)).parent = r.parent
      /\ Dirty(Publishes(r)).active = r.active /\ Dirty(Publishes(r)).published
  BY DEF Dirty, Publishes, RowRecords
<1>5. /\ Dirty(Suppresses(r)).kind = r.kind /\ Dirty(Suppresses(r)).parent = r.parent
      /\ Dirty(Suppresses(r)).active = r.active /\ ~Dirty(Suppresses(r)).published
  BY DEF Dirty, Suppresses, RowRecords
<1>6. /\ Dirty(Deletes(r)).kind = r.kind /\ Dirty(Deletes(r)).parent = r.parent
      /\ ~Dirty(Deletes(r)).active /\ Dirty(Deletes(r)).published = r.published
  BY DEF Dirty, Deletes, RowRecords
<1>7. /\ Dirty(Edits(r)).kind = r.kind /\ Dirty(Edits(r)).parent = r.parent
      /\ Dirty(Edits(r)).active = r.active /\ Dirty(Edits(r)).published = r.published
  BY DEF Dirty, Edits, RowRecords
<1>8. Touched(r, Dirty(Publishes(r))) /\ Touched(r, Dirty(Suppresses(r)))
  BY DEF Touched, Dirty, Publishes, Suppresses, RowRecords
<1>9. Touched(r, Dirty(Deletes(r))) /\ Touched(r, Dirty(Edits(r)))
  BY DEF Touched, Dirty, Deletes, Edits, RowRecords
<1> QED BY <1>1, <1>2, <1>3, <1>4, <1>5, <1>6, <1>7, <1>8, <1>9

LEMMA AdoptUpdates ==
    ASSUME NEW r \in RowRecords, NEW q \in {Root} \cup Pids
    PROVE  /\ Dirty(Adopts(q, r)) \in RowRecords /\ Dirty(Adopts(q, r)).kind = r.kind
           /\ Dirty(Adopts(q, r)).parent = q /\ Dirty(Adopts(q, r)).active = r.active
           /\ Dirty(Adopts(q, r)).published = r.published
           /\ Touched(r, Dirty(Adopts(q, r)))
<1>1. \A w \in RowRecords : Dirty(w) \in RowRecords BY DEF Dirty, RowRecords
<1>2. Adopts(q, r) \in RowRecords BY DEF Adopts, RowRecords
<1>3. /\ Dirty(Adopts(q, r)).kind = r.kind /\ Dirty(Adopts(q, r)).parent = q
      /\ Dirty(Adopts(q, r)).active = r.active /\ Dirty(Adopts(q, r)).published = r.published
  BY DEF Dirty, Adopts, RowRecords
<1>4. Touched(r, Dirty(Adopts(q, r))) BY DEF Touched, Dirty, Adopts, RowRecords
<1> QED BY <1>1, <1>2, <1>3, <1>4

-----------------------------------------------------------------------------
(* The strengthenings *)

\* The collections have no cycle, and a move that is about to be written will not make one:
\* a set that is closed below keeps what is moved and its new parent apart.
Acyclic(R) ==
    \A S \in SUBSET {p \in Pids : R[p].kind = "collection"} : S # {} => \E p \in S : R[p].parent \notin S
Apart(R, c, target) ==
    \E D \in SUBSET Pids :
        /\ c \in D /\ target \notin D
        /\ \A p \in Pids : R[p].kind = "collection" /\ R[p].parent \in D => p \in D
MovesAreSafe ==
    \A s \in Staff : staff[s].step = "move" =>
        \E c \in Pids : staff[s].pids = {c} /\ IsCollection(c) /\ Apart(rows, c, staff[s].target)
ForestInv == {"move"} \notin crossed => Acyclic(rows) /\ MovesAreSafe

\* What a session is about to put into a collection, or found missing from it, still holds.
Emptying == {{"unlink", "add"}, {"unlink", "move"}, {"unlink", "insert"}}
TargetsStand ==
    \A s \in Staff : staff[s].step \in {"add", "move", "insert"} =>
        staff[s].target = Root \/ LiveCollection(staff[s].target) \/ staff[s].target \in byObject
UnlinkedIsEmpty ==
    \A s \in Staff : staff[s].step = "unlink" => \E c \in Pids : staff[s].pids = {c} /\ Members(c) = {}
StrandedInv == crossed \cap Emptying = {} => NoStranded /\ TargetsStand /\ UnlinkedIsEmpty

\* Publishing still finds the collections public.
Hiding == {{"publish", "unpublish"}, {"publish", "add"}, {"publish", "move"}, {"members", "unpublish"}}
ParentsArePublic ==
    \A s \in Staff :
        /\ staff[s].step = "publish" =>
              \A p \in Reach(staff[s].pids, staff[s].single) :
                  IsCollection(rows[p].parent) => rows[rows[p].parent].published
        /\ staff[s].step = "members" => IsCollection(staff[s].target) /\ rows[staff[s].target].published
PublicInv == crossed \cap Hiding = {} => ParentsArePublic

-----------------------------------------------------------------------------
(* Every step of the staff has an effect of that kind *)

LEMMA OverlapsAll ==
    ASSUME NEW s \in Staff, NEW k, NEW t \in Staff \ {s}, staff[t].step # "idle"
    PROVE  {k, staff[t].step} \in Overlaps(s, k)
BY DEF Overlaps

\* A window opens: nothing but the session and the crossings change.
LEMMA OpenEffect ==
    ASSUME TypeInv, NEW s \in Staff, NEW k \in Windows \ {"idle", "insert", "delete"}, NEW S \in SUBSET Pids,
           NEW target \in {Root} \cup Pids, NEW uri \in {NoUri} \cup Uris, NEW single \in BOOLEAN,
           Request(s, k), Opens(s, k, S, target, uri, single), UNCHANGED <<rows, aipAsked, byObject>>,
           target = Root \/ IsCollection(target),
           k = "fetch" => \E p \in Pids : S = {p} /\ p \in Fresh,
           Opened(s, [step |-> k, pids |-> S, target |-> target, uri |-> uri, single |-> single])
    PROVE  Effect(s)
<1> DEFINE r == [step |-> k, pids |-> S, target |-> target, uri |-> uri, single |-> single]
<1>1. /\ staff \in [Staff -> StaffRecords] /\ rows \in [Pids -> RowRecords]
      /\ byObject \subseteq Pids /\ ops \in Nat
  BY DEF TypeInv, RowTypes, StaffTypes, WorldTypes
<1>2. r \in StaffRecords BY DEF StaffRecords
<1>3. staff' = [staff EXCEPT ![s] = r] BY DEF Opens
<1>4. staff'[s] = r /\ staff' = [staff EXCEPT ![s] = staff'[s]] BY <1>1, <1>3
<1>5. staff[s].step = "idle" /\ ops' = ops + 1 /\ faults' = faults
      /\ crossed' = crossed \cup Overlaps(s, k)
  BY DEF Request, Free
<1>6. \A p \in Pids : RowEffect(s, p) BY <1>1 DEF RowEffect, Exists
<1>7. r # Idle BY DEF Idle, Windows
<1>8. r.step = k /\ r.pids = S /\ r.target = target OBVIOUS
<1>9. \A t \in Staff \ {s} : staff[t].step # "idle" => {k, staff[t].step} \in crossed'
  BY <1>5, OverlapsAll
<1> HIDE DEF r
<1> QED BY <1>1, <1>2, <1>4, <1>5, <1>6, <1>7, <1>8, <1>9 DEF Effect, r

\* A window closes with a write.
LEMMA CloseEffect ==
    ASSUME TypeInv, NEW s \in Staff, staff[s].step \notin {"idle", "request"}, Closes(s),
           aipAsked' = aipAsked, byObject \subseteq byObject', byObject' \subseteq Pids,
           rows' \in [Pids -> RowRecords], \A p \in Pids : RowEffect(s, p),
           staff[s].step = "delete" => \A p \in staff[s].pids : ~rows'[p].active
    PROVE  Effect(s)
<1>1. /\ staff \in [Staff -> StaffRecords] /\ ops \in Nat
  BY DEF TypeInv, StaffTypes, WorldTypes
<1>2. Idle \in StaffRecords /\ Idle.step = "idle" /\ Idle.target = Root
  BY DEF Idle, StaffRecords, Windows, Root, NoUri
<1>3. staff'[s] = Idle /\ staff' = [staff EXCEPT ![s] = staff'[s]]
  BY <1>1 DEF Closes
<1>4. staff'[s].target = Root /\ staff'[s].step = "idle" /\ staff'[s] \in StaffRecords BY <1>2, <1>3
<1>5. crossed' = crossed /\ ops' = ops /\ faults' = faults BY DEF Closes
<1> QED BY <1>1, <1>3, <1>4, <1>5 DEF Effect

\* A request that reads and writes at once.
LEMMA InstantEffect ==
    ASSUME TypeInv, NEW s \in Staff, NEW k, Request(s, k), UNCHANGED <<staff, aipAsked, byObject>>,
           rows' \in [Pids -> RowRecords], \A p \in Pids : RowEffect(s, p)
    PROVE  Effect(s)
<1>1. /\ staff \in [Staff -> StaffRecords] /\ ops \in Nat /\ byObject \subseteq Pids
  BY DEF TypeInv, StaffTypes, WorldTypes
<1>2. /\ staff[s].step = "idle" /\ ops' = ops + 1 /\ faults' = faults
      /\ crossed \subseteq crossed'
  BY DEF Request, Free
<1>3. staff'[s] = staff[s] /\ staff' = [staff EXCEPT ![s] = staff'[s]] BY <1>1
<1>4. staff[s].target = Root \/ IsCollection(staff[s].target) BY DEF TypeInv, StaffTypes
<1>5. \A q : IsCollection(q) => IsCollection(q)' BY DEF RowEffect, IsCollection, Exists
<1> QED BY <1>1, <1>2, <1>3, <1>4, <1>5 DEF Effect

LEMMA PublishWriteEffect ==
    ASSUME TypeInv, NEW s \in Staff, set_publish_state_write(s) PROVE Effect(s)
<1> DEFINE S == Reach(staff[s].pids, staff[s].single)
<1>1. rows \in [Pids -> RowRecords] /\ staff \in [Staff -> StaffRecords] /\ byObject \subseteq Pids
  BY DEF TypeInv, RowTypes, StaffTypes, WorldTypes
<1>2. rows' = [p \in Pids |-> IF p \in S THEN Dirty(Publishes(rows[p])) ELSE rows[p]]
  BY DEF set_publish_state_write, Set
<1>3. rows' \in [Pids -> RowRecords] BY <1>1, <1>2, RowUpdates
<1>4. ASSUME NEW p \in Pids PROVE RowEffect(s, p)
  <2>1. /\ rows'[p] # rows[p] => Touched(rows[p], rows'[p])
        /\ rows'[p].kind = rows[p].kind /\ rows'[p].parent = rows[p].parent
        /\ rows'[p].active = rows[p].active
        /\ rows[p].published => rows'[p].published
        /\ p \notin S => rows'[p] = rows[p]
    BY <1>1, <1>2, RowUpdates
  <2>2. ~Exists(p) => p \notin S BY DEF TypeInv, StaffTypes, Reach, set_publish_state_write
  <2> QED BY <2>1, <2>2 DEF RowEffect, Exists, set_publish_state_write
<1>5. staff[s].step = "publish" /\ Closes(s) /\ UNCHANGED <<aipAsked, byObject>>
  BY DEF set_publish_state_write
<1> QED BY <1>1, <1>3, <1>4, <1>5, CloseEffect

LEMMA RequestEffect ==
    ASSUME TypeInv, NEW s \in Staff, request_aip_delete(s) PROVE Effect(s)
<1>1. /\ staff \in [Staff -> StaffRecords] /\ rows \in [Pids -> RowRecords]
      /\ byObject \subseteq Pids /\ ops \in Nat /\ staff[s] \in StaffRecords
  BY DEF TypeInv, RowTypes, StaffTypes, WorldTypes
<1>2. /\ staff[s].step = "request" /\ staff' = [staff EXCEPT ![s].step = "delete"]
      /\ crossed' = crossed \cup Overlaps(s, "delete")
      /\ UNCHANGED <<rows, byObject, ops, faults>>
      /\ \E accepted \in SUBSET WithAip(staff[s].pids) : aipAsked' = aipAsked \cup accepted
  BY DEF request_aip_delete, Proceeds
<1>3. /\ staff'[s] = [staff[s] EXCEPT !.step = "delete"]
      /\ staff' = [staff EXCEPT ![s] = staff'[s]]
  BY <1>1, <1>2
<1>4. /\ staff'[s] \in StaffRecords /\ staff'[s].step = "delete"
      /\ staff'[s].pids = staff[s].pids /\ staff'[s].target = staff[s].target
  BY <1>1, <1>3 DEF StaffRecords, Windows
<1>5. \A p \in Pids : RowEffect(s, p) BY <1>2 DEF RowEffect, Exists
<1>6. \A p \in aipAsked' \ aipAsked : p \in staff[s].pids /\ p \in Pids /\ Exists(p)
  <2>1. staff[s].pids \in SUBSET Pids BY <1>1 DEF StaffRecords
  <2> QED BY <1>2, <2>1 DEF WithAip, Exists
<1>7. \A t \in Staff \ {s} : staff[t].step # "idle" => {"delete", staff[t].step} \in crossed'
  BY <1>2, OverlapsAll
<1>8. staff'[s] # Idle BY <1>4 DEF Idle
<1>9. staff[s].target = Root \/ IsCollection(staff[s].target) BY DEF TypeInv, StaffTypes
<1>10. aipAsked \subseteq aipAsked' BY <1>2
<1>11. IsCollection(staff'[s].target) <=> IsCollection(staff[s].target) BY <1>4
<1> QED BY <1>1, <1>2, <1>3, <1>4, <1>5, <1>6, <1>7, <1>8, <1>9, <1>10, <1>11 DEF Effect

LEMMA DeleteWriteEffect ==
    ASSUME TypeInv, NEW s \in Staff, soft_delete_write(s) PROVE Effect(s)
<1> DEFINE S == {p \in staff[s].pids : rows[p].active}
<1>1. /\ rows \in [Pids -> RowRecords] /\ staff \in [Staff -> StaffRecords]
      /\ byObject \subseteq Pids /\ staff[s].pids \in SUBSET Pids
  BY DEF TypeInv, RowTypes, StaffTypes, WorldTypes, StaffRecords
<1>2. rows' = [p \in Pids |-> IF p \in S THEN Dirty(Deletes(rows[p])) ELSE rows[p]]
  BY DEF soft_delete_write, Set
<1>3. rows' \in [Pids -> RowRecords] BY <1>1, <1>2, RowUpdates
<1>4. /\ staff[s].step = "delete" /\ Closes(s) /\ aipAsked' = aipAsked
      /\ byObject' = byObject \cup {p \in S : IsCollection(p)}
  BY DEF soft_delete_write
<1>5. ASSUME NEW p \in Pids PROVE RowEffect(s, p) /\ (p \in staff[s].pids => ~rows'[p].active)
  <2>1. /\ rows'[p] # rows[p] => Touched(rows[p], rows'[p])
        /\ rows'[p].kind = rows[p].kind /\ rows'[p].parent = rows[p].parent
        /\ rows'[p].published = rows[p].published
        /\ IF p \in S THEN ~rows'[p].active ELSE rows'[p] = rows[p]
    BY <1>1, <1>2, RowUpdates
  <2>2. ~Exists(p) => p \notin S BY DEF TypeInv, RowTypes
  <2>3. p \in S /\ IsCollection(p) => p \in byObject' BY <1>4
  <2> QED BY <1>4, <2>1, <2>2, <2>3 DEF RowEffect, Exists
<1>6. byObject \subseteq byObject' /\ byObject' \subseteq Pids BY <1>1, <1>4
<1> QED BY <1>1, <1>3, <1>4, <1>5, <1>6, CloseEffect

LEMMA CreateCheckEffect ==
    ASSUME TypeInv, NEW s \in Staff, create_collection_check(s) PROVE Effect(s)
<1>1. /\ staff \in [Staff -> StaffRecords] /\ rows \in [Pids -> RowRecords]
      /\ byObject \subseteq Pids /\ ops \in Nat /\ staff[s] \in StaffRecords
  BY DEF TypeInv, RowTypes, StaffTypes, WorldTypes
<1>2. staff[s].step = "fetch" /\ UNCHANGED <<rows, aipAsked, byObject>>
  BY DEF create_collection_check
<1>3. \A p \in Pids : RowEffect(s, p) BY <1>2 DEF RowEffect, Exists
<1>4. CASE Closes(s) BY <1>1, <1>2, <1>3, <1>4, CloseEffect
<1>5. CASE (staff[s].target = Root \/ LiveCollection(staff[s].target)) /\ Proceeds(s, "insert")
  <2>1. /\ staff' = [staff EXCEPT ![s].step = "insert"] /\ UNCHANGED <<ops, faults>>
        /\ crossed' = crossed \cup Overlaps(s, "insert")
    BY <1>5 DEF Proceeds
  <2>2. /\ staff'[s] = [staff[s] EXCEPT !.step = "insert"]
        /\ staff' = [staff EXCEPT ![s] = staff'[s]]
    BY <1>1, <2>1
  <2>3. /\ staff'[s] \in StaffRecords /\ staff'[s].step = "insert"
        /\ staff'[s].pids = staff[s].pids /\ staff'[s].target = staff[s].target
    BY <1>1, <2>2 DEF StaffRecords, Windows
  <2>4. \A t \in Staff \ {s} : staff[t].step # "idle" => {"insert", staff[t].step} \in crossed'
    BY <2>1, OverlapsAll
  <2>5. staff'[s] # Idle BY <2>3 DEF Idle
  <2>6. staff[s].target = Root \/ IsCollection(staff[s].target) BY DEF TypeInv, StaffTypes
  <2>7. IsCollection(staff'[s].target) <=> IsCollection(staff[s].target) BY <2>3
  <2> QED BY <1>1, <1>2, <1>3, <1>5, <2>1, <2>2, <2>3, <2>4, <2>5, <2>6, <2>7 DEF Effect
<1> QED BY <1>4, <1>5 DEF create_collection_check

LEMMA CreateEffect ==
    ASSUME TypeInv, NEW s \in Staff, create_collection(s) PROVE Effect(s)
<1>1. /\ rows \in [Pids -> RowRecords] /\ staff \in [Staff -> StaffRecords]
      /\ byObject \subseteq Pids /\ staff[s] \in StaffRecords
  BY DEF TypeInv, RowTypes, StaffTypes, WorldTypes
<1>2. staff[s].step = "insert" /\ Closes(s) /\ UNCHANGED <<aipAsked, byObject>>
  BY DEF create_collection
<1>3. CASE rows' = rows
  <2>1. \A p \in Pids : RowEffect(s, p) BY <1>3 DEF RowEffect, Exists
  <2> QED BY <1>1, <1>2, <1>3, <2>1, CloseEffect
<1>4. CASE rows' # rows
  <2>1. PICK p \in Pids : ~Exists(p) /\ staff[s].pids = {p} BY <1>2 DEF TypeInv, StaffTypes
  <2> DEFINE new == [Row("collection", staff[s].target, staff[s].uri, FALSE) EXCEPT !.updated = TRUE]
  <2>2. (CHOOSE q \in staff[s].pids : TRUE) = p BY <2>1
  <2>3. rows' = [rows EXCEPT ![p] = new] BY <1>4, <2>2 DEF create_collection
  <2>4. staff[s].target \in {Root} \cup Pids /\ staff[s].uri \in {NoUri} \cup Uris
    BY <1>1 DEF StaffRecords
  <2>5. /\ new \in RowRecords /\ new.kind = "collection" /\ new.parent = staff[s].target
        /\ ~new.published /\ new.updated /\ new.attempts = 0 /\ ~new.error
    BY <2>4 DEF Row, NoRow, RowRecords, Kinds, Root, NoUri
  <2>6. rows' \in [Pids -> RowRecords] /\ rows'[p] = new
    BY <1>1, <2>3, <2>5
  <2>7. \A q \in Pids : q # p => rows'[q] = rows[q] BY <1>1, <2>3
  <2> HIDE DEF new
  <2>8. \A q \in Pids : RowEffect(s, q)
    BY <1>2, <2>1, <2>5, <2>6, <2>7 DEF RowEffect, Exists, Touched
  <2> QED BY <1>1, <1>2, <2>6, <2>8, CloseEffect
<1> QED BY <1>3, <1>4

LEMMA AddWriteEffect ==
    ASSUME TypeInv, NEW s \in Staff, add_members_write(s) PROVE Effect(s)
<1> DEFINE S == Movable(staff[s].pids)
<1>1. /\ rows \in [Pids -> RowRecords] /\ staff \in [Staff -> StaffRecords]
      /\ byObject \subseteq Pids /\ staff[s].target \in {Root} \cup Pids
  BY DEF TypeInv, RowTypes, StaffTypes, WorldTypes, StaffRecords
<1>2. rows' = [p \in Pids |-> IF p \in S THEN Dirty(Adopts(staff[s].target, rows[p])) ELSE rows[p]]
  BY DEF add_members_write, Set
<1>3. rows' \in [Pids -> RowRecords] BY <1>1, <1>2, AdoptUpdates
<1>4. staff[s].step = "add" /\ Closes(s) /\ UNCHANGED <<aipAsked, byObject>>
  BY DEF add_members_write
<1>5. ASSUME NEW p \in Pids PROVE RowEffect(s, p)
  <2>1. /\ rows'[p] # rows[p] => Touched(rows[p], rows'[p])
        /\ rows'[p].kind = rows[p].kind /\ rows'[p].active = rows[p].active
        /\ rows'[p].published = rows[p].published
        /\ IF p \in S THEN rows'[p].parent = staff[s].target ELSE rows'[p] = rows[p]
    BY <1>1, <1>2, AdoptUpdates
  <2>2. p \in S => p \in staff[s].pids /\ Exists(p) /\ rows[p].active /\ ~IsCollection(p)
    BY DEF Movable, Live
  <2> QED BY <1>4, <2>1, <2>2 DEF RowEffect, Exists
<1> QED BY <1>1, <1>3, <1>4, <1>5, CloseEffect

LEMMA UnlinkWriteEffect ==
    ASSUME TypeInv, NEW s \in Staff, delete_collection_write(s) PROVE Effect(s)
<1> DEFINE S == {p \in staff[s].pids : rows[p].active}
<1>1. /\ rows \in [Pids -> RowRecords] /\ staff \in [Staff -> StaffRecords]
      /\ byObject \subseteq Pids
  BY DEF TypeInv, RowTypes, StaffTypes, WorldTypes
<1>2. rows' = [p \in Pids |-> IF p \in S THEN Dirty(Deletes(rows[p])) ELSE rows[p]]
  BY DEF delete_collection_write, Set
<1>3. rows' \in [Pids -> RowRecords] BY <1>1, <1>2, RowUpdates
<1>4. staff[s].step = "unlink" /\ Closes(s) /\ UNCHANGED <<aipAsked, byObject>>
  BY DEF delete_collection_write
<1>5. ASSUME NEW p \in Pids PROVE RowEffect(s, p)
  <2>1. /\ rows'[p] # rows[p] => Touched(rows[p], rows'[p])
        /\ rows'[p].kind = rows[p].kind /\ rows'[p].parent = rows[p].parent
        /\ rows'[p].published = rows[p].published
        /\ p \notin S => rows'[p] = rows[p]
    BY <1>1, <1>2, RowUpdates
  <2>2. ~Exists(p) => p \notin S BY DEF TypeInv, RowTypes
  <2> QED BY <1>4, <2>1, <2>2 DEF RowEffect, Exists
<1> QED BY <1>1, <1>3, <1>4, <1>5, CloseEffect

LEMMA MoveWriteEffect ==
    ASSUME TypeInv, NEW s \in Staff, move_collection_write(s) PROVE Effect(s)
<1> DEFINE S == {p \in staff[s].pids : rows[p].active}
<1>1. /\ rows \in [Pids -> RowRecords] /\ staff \in [Staff -> StaffRecords]
      /\ byObject \subseteq Pids /\ staff[s].target \in {Root} \cup Pids
  BY DEF TypeInv, RowTypes, StaffTypes, WorldTypes, StaffRecords
<1>2. rows' = [p \in Pids |-> IF p \in S THEN Dirty(Adopts(staff[s].target, rows[p])) ELSE rows[p]]
  BY DEF move_collection_write, Set
<1>3. rows' \in [Pids -> RowRecords] BY <1>1, <1>2, AdoptUpdates
<1>4. staff[s].step = "move" /\ Closes(s) /\ UNCHANGED <<aipAsked, byObject>>
  BY DEF move_collection_write
<1>5. ASSUME NEW p \in Pids PROVE RowEffect(s, p)
  <2>1. /\ rows'[p] # rows[p] => Touched(rows[p], rows'[p])
        /\ rows'[p].kind = rows[p].kind /\ rows'[p].active = rows[p].active
        /\ rows'[p].published = rows[p].published
        /\ IF p \in S THEN rows'[p].parent = staff[s].target ELSE rows'[p] = rows[p]
    BY <1>1, <1>2, AdoptUpdates
  <2>2. ~Exists(p) => p \notin S BY DEF TypeInv, RowTypes
  <2> QED BY <1>4, <2>1, <2>2 DEF RowEffect, Exists
<1> QED BY <1>1, <1>3, <1>4, <1>5, CloseEffect

LEMMA MembersWriteEffect ==
    ASSUME TypeInv, NEW s \in Staff, publish_members_write(s) PROVE Effect(s)
<1> DEFINE S == Movable(Members(staff[s].target))
<1>1. rows \in [Pids -> RowRecords] /\ staff \in [Staff -> StaffRecords] /\ byObject \subseteq Pids
  BY DEF TypeInv, RowTypes, StaffTypes, WorldTypes
<1>2. rows' = [p \in Pids |-> IF p \in S THEN Dirty(Publishes(rows[p])) ELSE rows[p]]
  BY DEF publish_members_write, Set
<1>3. rows' \in [Pids -> RowRecords] BY <1>1, <1>2, RowUpdates
<1>4. staff[s].step = "members" /\ Closes(s) /\ UNCHANGED <<aipAsked, byObject>>
  BY DEF publish_members_write
<1>5. ASSUME NEW p \in Pids PROVE RowEffect(s, p)
  <2>1. /\ rows'[p] # rows[p] => Touched(rows[p], rows'[p])
        /\ rows'[p].kind = rows[p].kind /\ rows'[p].parent = rows[p].parent
        /\ rows'[p].active = rows[p].active
        /\ rows[p].published => rows'[p].published
        /\ p \notin S => rows'[p] = rows[p]
    BY <1>1, <1>2, RowUpdates
  <2>2. ~Exists(p) => p \notin S BY DEF Movable, Live
  <2> QED BY <1>4, <2>1, <2>2 DEF RowEffect, Exists
<1> QED BY <1>1, <1>3, <1>4, <1>5, CloseEffect

LEMMA PublishCheckEffect ==
    ASSUME TypeInv, NEW s \in Staff, NEW S \in SUBSET Pids, NEW single \in BOOLEAN,
           set_publish_state_check(s, S, single)
    PROVE  Effect(s)
<1> DEFINE r == [step |-> "publish", pids |-> S, target |-> Root, uri |-> NoUri, single |-> single]
<1>1. "publish" \in Windows \ {"idle", "insert", "delete"} BY DEF Windows
<1>2. Opened(s, r) BY DEF Opened, set_publish_state_check
<1>3. Request(s, "publish") /\ Opens(s, "publish", S, Root, NoUri, single)
      /\ UNCHANGED <<rows, aipAsked, byObject>>
  BY DEF set_publish_state_check
<1> QED BY <1>1, <1>2, <1>3, OpenEffect

LEMMA SuppressEffect ==
    ASSUME TypeInv, NEW s \in Staff, NEW S \in SUBSET Pids, NEW single \in BOOLEAN, suppress(s, S, single)
    PROVE  Effect(s)
<1> DEFINE R == Reach(S, single)
<1>1. rows \in [Pids -> RowRecords] /\ staff \in [Staff -> StaffRecords]
  BY DEF TypeInv, RowTypes, StaffTypes
<1>2. rows' = [p \in Pids |-> IF p \in R THEN Dirty(Suppresses(rows[p])) ELSE rows[p]]
  BY DEF suppress, Set
<1>3. rows' \in [Pids -> RowRecords] BY <1>1, <1>2, RowUpdates
<1>4. Request(s, "unpublish") /\ UNCHANGED <<staff, aipAsked, byObject>> /\ \A p \in S : Exists(p)
  BY DEF suppress
<1>5. \A t \in Staff \ {s} : staff[t].step # "idle" => {"unpublish", staff[t].step} \in crossed'
  BY <1>4, OverlapsAll DEF Request
<1>6. ASSUME NEW p \in Pids PROVE RowEffect(s, p)
  <2>1. /\ rows'[p] # rows[p] => Touched(rows[p], rows'[p])
        /\ rows'[p].kind = rows[p].kind /\ rows'[p].parent = rows[p].parent
        /\ rows'[p].active = rows[p].active
        /\ rows'[p].published => rows[p].published
        /\ p \notin R => rows'[p] = rows[p]
    BY <1>1, <1>2, RowUpdates
  <2>2. ~Exists(p) => p \notin R BY <1>4 DEF Reach
  <2> QED BY <1>5, <2>1, <2>2 DEF RowEffect, Exists
<1> QED BY <1>3, <1>4, <1>6, InstantEffect

LEMMA DeleteCheckEffect ==
    ASSUME TypeInv, NEW s \in Staff, NEW S \in SUBSET Pids, NEW single \in BOOLEAN,
           soft_delete_check(s, S, single)
    PROVE  Effect(s)
<1> DEFINE live == {p \in S : Live(p)}
           r == [step |-> "request", pids |-> live, target |-> Root, uri |-> NoUri, single |-> single]
<1>1. "request" \in Windows \ {"idle", "insert", "delete"} BY DEF Windows
<1>2. Opened(s, r) BY DEF Opened
<1>3. Request(s, "request") /\ Opens(s, "request", live, Root, NoUri, single)
      /\ UNCHANGED <<rows, aipAsked, byObject>>
  BY DEF soft_delete_check
<1>4. live \in SUBSET Pids OBVIOUS
<1> QED BY <1>1, <1>2, <1>3, <1>4, OpenEffect

LEMMA EditEffect ==
    ASSUME TypeInv, NEW s \in Staff, NEW p \in Pids, edit_record(s, p) PROVE Effect(s)
<1>1. rows \in [Pids -> RowRecords] BY DEF TypeInv, RowTypes
<1>2. rows' = [q \in Pids |-> IF q \in {p} THEN Dirty(Edits(rows[q])) ELSE rows[q]]
  BY DEF edit_record, Set
<1>3. rows' \in [Pids -> RowRecords] BY <1>1, <1>2, RowUpdates
<1>4. Request(s, "edit") /\ UNCHANGED <<staff, aipAsked, byObject>> /\ Exists(p) BY DEF edit_record
<1>5. ASSUME NEW q \in Pids PROVE RowEffect(s, q)
  <2>1. /\ rows'[q] # rows[q] => Touched(rows[q], rows'[q])
        /\ rows'[q].kind = rows[q].kind /\ rows'[q].parent = rows[q].parent
        /\ rows'[q].active = rows[q].active /\ rows'[q].published = rows[q].published
        /\ q # p => rows'[q] = rows[q]
    BY <1>1, <1>2, RowUpdates
  <2> QED BY <1>4, <2>1 DEF RowEffect, Exists
<1> QED BY <1>3, <1>4, <1>5, InstantEffect

LEMMA ExistingEffect ==
    ASSUME TypeInv, NEW s \in Staff, NEW uri, provision_existing(s, uri) PROVE Effect(s)
<1>1. rows \in [Pids -> RowRecords] BY DEF TypeInv, RowTypes
<1>2. Request(s, "existing") /\ UNCHANGED <<rows, staff, aipAsked, byObject>> BY DEF provision_existing
<1>3. \A p \in Pids : RowEffect(s, p) BY <1>2 DEF RowEffect, Exists
<1> QED BY <1>1, <1>2, <1>3, InstantEffect

LEMMA FetchEffect ==
    ASSUME TypeInv, NEW s \in Staff, NEW uri \in Uris, NEW p \in Pids,
           NEW parent \in {Root} \cup {c \in Pids : IsCollection(c)}, provision_fetch(s, uri, parent, p)
    PROVE  Effect(s)
<1> DEFINE r == [step |-> "fetch", pids |-> {p}, target |-> parent, uri |-> uri, single |-> TRUE]
<1>1. "fetch" \in Windows \ {"idle", "insert", "delete"} BY DEF Windows
<1>2. Opened(s, r) BY DEF Opened
<1>3. Request(s, "fetch") /\ Opens(s, "fetch", {p}, parent, uri, TRUE)
      /\ UNCHANGED <<rows, aipAsked, byObject>> /\ p \in Fresh
  BY DEF provision_fetch
<1> QED BY <1>1, <1>2, <1>3, OpenEffect

LEMMA AddCheckEffect ==
    ASSUME TypeInv, NEW s \in Staff, NEW S \in SUBSET Pids, NEW c \in Pids, add_members_check(s, S, c)
    PROVE  Effect(s)
<1> DEFINE r == [step |-> "add", pids |-> S, target |-> c, uri |-> NoUri, single |-> FALSE]
<1>1. "add" \in Windows \ {"idle", "insert", "delete"} BY DEF Windows
<1>2. Opened(s, r) BY DEF Opened, add_members_check
<1>3. Request(s, "add") /\ Opens(s, "add", S, c, NoUri, FALSE)
      /\ UNCHANGED <<rows, aipAsked, byObject>> /\ IsCollection(c)
  BY DEF add_members_check, LiveCollection
<1> QED BY <1>1, <1>2, <1>3, OpenEffect

LEMMA UnlinkCheckEffect ==
    ASSUME TypeInv, NEW s \in Staff, NEW c \in Pids, delete_collection_check(s, c) PROVE Effect(s)
<1> DEFINE r == [step |-> "unlink", pids |-> {c}, target |-> Root, uri |-> NoUri, single |-> TRUE]
<1>1. "unlink" \in Windows \ {"idle", "insert", "delete"} BY DEF Windows
<1>2. Opened(s, r) BY DEF Opened, delete_collection_check
<1>3. Request(s, "unlink") /\ Opens(s, "unlink", {c}, Root, NoUri, TRUE)
      /\ UNCHANGED <<rows, aipAsked, byObject>>
  BY DEF delete_collection_check
<1> QED BY <1>1, <1>2, <1>3, OpenEffect

LEMMA MoveCheckEffect ==
    ASSUME TypeInv, NEW s \in Staff, NEW c \in Pids, NEW parent \in {Root} \cup Pids,
           move_collection_check(s, c, parent)
    PROVE  Effect(s)
<1> DEFINE r == [step |-> "move", pids |-> {c}, target |-> parent, uri |-> NoUri, single |-> TRUE]
<1>1. "move" \in Windows \ {"idle", "insert", "delete"} BY DEF Windows
<1>2. Opened(s, r) BY DEF Opened, move_collection_check, LiveCollection
<1>3. Request(s, "move") /\ Opens(s, "move", {c}, parent, NoUri, TRUE)
      /\ UNCHANGED <<rows, aipAsked, byObject>>
  BY DEF move_collection_check
<1>4. parent = Root \/ IsCollection(parent)
  BY DEF move_collection_check, may_move_under, LiveCollection
<1> QED BY <1>1, <1>2, <1>3, <1>4, OpenEffect

LEMMA MembersCheckEffect ==
    ASSUME TypeInv, NEW s \in Staff, NEW c \in Pids, publish_members_check(s, c) PROVE Effect(s)
<1> DEFINE r == [step |-> "members", pids |-> {c}, target |-> c, uri |-> NoUri, single |-> TRUE]
<1>1. "members" \in Windows \ {"idle", "insert", "delete"} BY DEF Windows
<1>2. Opened(s, r) /\ IsCollection(c) BY DEF Opened, publish_members_check, LiveCollection
<1>3. Request(s, "members") /\ Opens(s, "members", {c}, c, NoUri, TRUE)
      /\ UNCHANGED <<rows, aipAsked, byObject>>
  BY DEF publish_members_check
<1> QED BY <1>1, <1>2, <1>3, OpenEffect

LEMMA SuppressMembersEffect ==
    ASSUME TypeInv, NEW s \in Staff, NEW c \in Pids, suppress_members(s, c) PROVE Effect(s)
<1> DEFINE S == Movable(Members(c))
<1>1. rows \in [Pids -> RowRecords] BY DEF TypeInv, RowTypes
<1>2. rows' = [p \in Pids |-> IF p \in S THEN Dirty(Suppresses(rows[p])) ELSE rows[p]]
  BY DEF suppress_members, Set
<1>3. rows' \in [Pids -> RowRecords] BY <1>1, <1>2, RowUpdates
<1>4. Request(s, "edit") /\ UNCHANGED <<staff, aipAsked, byObject>> BY DEF suppress_members
<1>5. ASSUME NEW p \in Pids PROVE RowEffect(s, p)
  <2>1. /\ rows'[p] # rows[p] => Touched(rows[p], rows'[p])
        /\ rows'[p].kind = rows[p].kind /\ rows'[p].parent = rows[p].parent
        /\ rows'[p].active = rows[p].active
        /\ rows'[p].published => rows[p].published
        /\ p \notin S => rows'[p] = rows[p]
    BY <1>1, <1>2, RowUpdates
  <2>2. p \in S => Exists(p) /\ ~IsCollection(p) BY DEF Movable, Live
  <2> QED BY <1>4, <2>1, <2>2 DEF RowEffect, Exists
<1> QED BY <1>3, <1>4, <1>5, InstantEffect

LEMMA ChecksEffect == ASSUME TypeInv, NEW s \in Staff, Checks(s) PROVE Effect(s)
<1>1. CASE objects_row_action(s)
  <2>1. PICK S \in SUBSET Pids : set_publish_state_check(s, S, TRUE) \/ suppress(s, S, TRUE)
                                 \/ soft_delete_check(s, S, TRUE)
    BY <1>1 DEF objects_row_action, Selections
  <2> QED BY <2>1, PublishCheckEffect, SuppressEffect, DeleteCheckEffect
<1>2. CASE objects_bulk_action(s)
  <2>1. PICK S \in SUBSET Pids : set_publish_state_check(s, S, FALSE) \/ suppress(s, S, FALSE)
                                 \/ soft_delete_check(s, S, FALSE)
    BY <1>2 DEF objects_bulk_action, Selections
  <2> QED BY <2>1, PublishCheckEffect, SuppressEffect, DeleteCheckEffect
<1>3. CASE object_edit(s) BY <1>3, EditEffect DEF object_edit
<1>4. CASE collection_create(s) BY <1>4, ExistingEffect, FetchEffect DEF collection_create
<1>5. CASE collection_add_members(s)
  <2>1. PICK p \in Pids, c \in Pids : add_members_check(s, {p}, c) BY <1>5 DEF collection_add_members
  <2> QED BY <2>1, AddCheckEffect
<1>6. CASE collection_delete(s) BY <1>6, UnlinkCheckEffect DEF collection_delete
<1>7. CASE collection_move(s) BY <1>7, MoveCheckEffect DEF collection_move
<1>8. CASE collection_bulk_publish(s) BY <1>8, MembersCheckEffect DEF collection_bulk_publish
<1>9. CASE collection_bulk_suppress(s) BY <1>9, SuppressMembersEffect DEF collection_bulk_suppress
<1> QED BY <1>1, <1>2, <1>3, <1>4, <1>5, <1>6, <1>7, <1>8, <1>9 DEF Checks

LEMMA WritesEffect == ASSUME TypeInv, NEW s \in Staff, Writes(s) PROVE Effect(s)
BY PublishWriteEffect, RequestEffect, DeleteWriteEffect, CreateCheckEffect, CreateEffect,
   AddWriteEffect, UnlinkWriteEffect, MoveWriteEffect, MembersWriteEffect DEF Writes

\* The steps of the handle desk leave the catalogue alone; a crash ends the requests.
Desked ==
    /\ UNCHANGED <<rows, staff, aipAsked, crossed, byObject>>
    /\ ops' \in Nat /\ faults' \in Nat /\ faults' >= faults
Crashed ==
    /\ staff' = [s \in Staff |-> Idle] /\ faults' = faults + 1
    /\ UNCHANGED <<rows, aipAsked, crossed, byObject, ops>>

\* A step of the system, as the repository sees it.
RepositoryStep == (\E s \in Staff : Effect(s)) \/ Desked \/ Crashed

LEMMA StaffEffect == ASSUME TypeInv, \E s \in Staff : Checks(s) \/ Writes(s) PROVE RepositoryStep
BY ChecksEffect, WritesEffect DEF RepositoryStep

LEMMA CutEffect == ASSUME cut PROVE Crashed
BY DEF cut, Crashed

-----------------------------------------------------------------------------
(* Types and crossings are kept *)

\* The parts of an effect that the proofs below use most.
LEMMA Monotone ==
    ASSUME TypeInv, NEW s \in Staff, Effect(s)
    PROVE  /\ \A t \in Staff \ {s} : staff'[t] = staff[t]
           /\ \A p \in Pids : Exists(p) => rows'[p].kind # "none"
           /\ \A p : IsCollection(p) => p \in Pids /\ rows'[p].kind = "collection"
           /\ \A p \in Pids : rows'[p].kind = "collection" /\ ~IsCollection(p) =>
                 staff[s].step = "insert" /\ staff[s].pids = {p} /\ ~Exists(p)
<1>1. staff' = [staff EXCEPT ![s] = staff'[s]] /\ staff \in [Staff -> StaffRecords]
  BY DEF Effect, TypeInv, StaffTypes
<1>2. \A p \in Pids : RowEffect(s, p) BY DEF Effect
<1> QED BY <1>1, <1>2 DEF RowEffect, Exists, IsCollection

LEMMA EffectRowTypes == ASSUME TypeInv, NEW s \in Staff, Effect(s) PROVE RowTypes'
<1>1. rows' \in [Pids -> RowRecords] BY DEF Effect
<1>2. ASSUME NEW p \in Pids
      PROVE  IF rows'[p].kind # "none"
             THEN \/ rows'[p].parent = Root
                  \/ rows'[p].parent \in Pids /\ rows'[rows'[p].parent].kind = "collection"
             ELSE ~rows'[p].active /\ ~rows'[p].published
  <2>1. RowEffect(s, p) BY DEF Effect
  <2>2. staff[s].target = Root \/ IsCollection(staff[s].target) BY DEF TypeInv, StaffTypes
  <2>3. IF Exists(p) THEN rows[p].parent = Root \/ IsCollection(rows[p].parent)
        ELSE ~rows[p].active /\ ~rows[p].published
    BY DEF TypeInv, RowTypes
  <2>4. rows'[p].parent = rows[p].parent \/ rows'[p].parent = staff[s].target
    BY <2>1 DEF RowEffect, Exists
  <2>5. CASE rows'[p].kind = "none" BY <2>1, <2>3, <2>5, Monotone DEF RowEffect, Exists
  <2>6. CASE rows'[p].kind # "none" /\ ~Exists(p)
    <3>1. rows'[p].parent = staff[s].target BY <2>1, <2>6 DEF RowEffect
    <3>2. \A q : IsCollection(q) => q \in Pids /\ rows'[q].kind = "collection" BY Monotone
    <3> QED BY <2>2, <2>6, <3>1, <3>2
  <2>7. CASE rows'[p].kind # "none" /\ Exists(p)
    <3>1. rows'[p].parent = Root \/ IsCollection(rows'[p].parent) BY <2>2, <2>3, <2>4, <2>7
    <3>2. \A q : IsCollection(q) => q \in Pids /\ rows'[q].kind = "collection" BY Monotone
    <3> QED BY <2>7, <3>1, <3>2
  <2> QED BY <2>5, <2>6, <2>7
<1> QED BY <1>1, <1>2 DEF RowTypes, Exists, IsCollection

LEMMA EffectStaffTypes == ASSUME TypeInv, NEW s \in Staff, Effect(s) PROVE StaffTypes'
<1>1. /\ staff \in [Staff -> StaffRecords] /\ staff'[s] \in StaffRecords
      /\ staff' = [staff EXCEPT ![s] = staff'[s]]
  BY DEF Effect, TypeInv, StaffTypes
<1>2. staff' \in [Staff -> StaffRecords] BY <1>1
<1>3. ASSUME NEW t \in Staff
      PROVE  \/ staff'[t].target = Root
             \/ staff'[t].target \in Pids /\ rows'[staff'[t].target].kind = "collection"
  <2>1. staff'[t].target = Root \/ IsCollection(staff'[t].target)
    BY Monotone DEF Effect, TypeInv, StaffTypes
  <2> QED BY <2>1, Monotone
<1>4. Idle.step = "idle" BY DEF Idle
<1>5. staff[s] \in StaffRecords BY <1>1
<1>6. /\ [staff[s] EXCEPT !.step = "delete"].step = "delete"
      /\ [staff[s] EXCEPT !.step = "insert"].step = "insert"
      /\ [staff[s] EXCEPT !.step = "insert"].pids = staff[s].pids
  BY <1>5 DEF StaffRecords
<1>7. ASSUME NEW t \in Staff, staff'[t].step = "publish"
      PROVE  \A p \in staff'[t].pids : rows'[p].kind # "none"
  <2>1. staff'[t].pids \in SUBSET Pids BY <1>2 DEF StaffRecords
  <2>2. CASE t # s BY <2>1, <2>2, <1>7, Monotone DEF TypeInv, StaffTypes
  <2>3. CASE t = s
    <3>1. staff'[s] = staff[s] \/ Opened(s, staff'[s]) BY <1>4, <1>6, <1>7, <2>3 DEF Effect
    <3> QED BY <2>1, <2>3, <3>1, <1>7, Monotone DEF Opened, TypeInv, StaffTypes
  <2> QED BY <2>2, <2>3
<1>8. ASSUME NEW t \in Staff, staff'[t].step \in {"fetch", "insert"}
      PROVE  /\ \E p \in Pids : rows'[p].kind = "none" /\ staff'[t].pids = {p}
             /\ t # s => staff'[t] = staff[t]
             /\ t = s => \/ staff[s].step = "fetch" /\ staff'[s].pids = staff[s].pids
                         \/ \E p \in Pids : staff'[s].pids = {p} /\ p \in Fresh
  <2>1. CASE t # s
    <3>1. staff'[t] = staff[t] BY <2>1, Monotone
    <3>2. PICK p \in Pids : ~Exists(p) /\ staff[t].pids = {p} BY <1>8, <3>1 DEF TypeInv, StaffTypes
    <3>3. rows'[p].kind = "none"
      <4>1. SUFFICES ASSUME rows'[p].kind # "none" PROVE FALSE OBVIOUS
      <4>2. staff[s].step = "insert" /\ staff[s].pids = {p} BY <3>2, <4>1 DEF Effect, RowEffect, Exists
      <4>3. Creates(s, p) /\ Creates(t, p) BY <1>8, <3>1, <3>2, <4>2 DEF Creates
      <4> QED BY <2>1, <4>3 DEF TypeInv, StaffTypes
    <3> QED BY <2>1, <3>1, <3>2, <3>3
  <2>2. CASE t = s
    <3>1. staff'[s] # Idle /\ (staff[s].step = "idle" => staff'[s] # staff[s]) BY <1>4, <1>8, <2>2
    <3>2. rows' = rows BY <3>1 DEF Effect
    <3>3. CASE staff[s].step = "idle"
      <4>1. staff'[s].step = "fetch" BY <3>1, <3>3, <1>8, <2>2 DEF Effect, Opened
      <4>2. PICK p \in Pids : staff'[s].pids = {p} /\ p \in Fresh BY <3>3, <4>1 DEF Effect
      <4> QED BY <2>2, <3>2, <4>2 DEF Fresh, Exists
    <3>4. CASE staff[s].step # "idle"
      <4>1. staff[s].step \in {"fetch", "insert"} /\ staff'[s].pids = staff[s].pids
        BY <3>1, <3>4, <1>6, <1>8, <2>2 DEF Effect
      <4>2. PICK p \in Pids : ~Exists(p) /\ staff[s].pids = {p} BY <4>1 DEF TypeInv, StaffTypes
      <4>3. staff[s].step # "insert"
        BY <3>1, <3>4, <1>6, <1>8, <2>2 DEF Effect
      <4> QED BY <2>2, <3>2, <4>1, <4>2, <4>3 DEF Exists
    <3> QED BY <3>3, <3>4
  <2> QED BY <2>1, <2>2
<1>9. ASSUME NEW t \in Staff, NEW u \in Staff, NEW p \in Pids, t # u,
             staff'[t].step \in {"fetch", "insert"}, staff'[t].pids = {p},
             staff'[u].step \in {"fetch", "insert"}, staff'[u].pids = {p}
      PROVE  FALSE
  <2>2. ASSUME NEW v \in Staff, v # s, staff'[v].step \in {"fetch", "insert"}, staff'[v].pids = {p},
               staff'[s].step \in {"fetch", "insert"}, staff'[s].pids = {p}
        PROVE  FALSE
    <3>1. Creates(v, p) BY <1>8, <2>2 DEF Creates
    <3>2. p \notin Fresh BY <3>1 DEF Creates, Fresh
    <3>3. staff[s].step = "fetch" /\ staff'[s].pids = staff[s].pids BY <1>8, <2>2, <3>2
    <3>4. Creates(s, p) BY <2>2, <3>3 DEF Creates
    <3> QED BY <2>2, <3>1, <3>4 DEF TypeInv, StaffTypes
  <2>3. CASE t = s BY <1>9, <2>2, <2>3
  <2>4. CASE u = s BY <1>9, <2>2, <2>4
  <2>5. CASE t # s /\ u # s
    <3>1. Creates(t, p) /\ Creates(u, p) BY <1>9, <2>5, Monotone DEF Creates
    <3> QED BY <1>9, <3>1 DEF TypeInv, StaffTypes
  <2> QED BY <2>3, <2>4, <2>5
<1>10. ASSUME NEW t \in Staff, staff'[t].step \in {"fetch", "insert"}
       PROVE  \E p \in Pids : ~(rows'[p].kind # "none") /\ staff'[t].pids = {p}
  BY <1>8, <1>10
<1>11. ASSUME NEW t \in Staff, NEW u \in Staff, NEW p \in Pids,
              staff'[t].step \in {"fetch", "insert"} /\ staff'[t].pids = {p},
              staff'[u].step \in {"fetch", "insert"} /\ staff'[u].pids = {p}
       PROVE  t = u
  BY <1>9, <1>11
<1> QED BY <1>2, <1>3, <1>7, <1>10, <1>11 DEF StaffTypes, Creates, Exists, IsCollection

LEMMA EffectTypes == ASSUME TypeInv, NEW s \in Staff, Effect(s) PROVE TypeInv'
<1>1. ASSUME NEW p \in aipAsked' PROVE p \in Pids /\ rows'[p].kind # "none"
  <2>1. p \in Pids /\ Exists(p) BY DEF TypeInv, WorldTypes, Effect
  <2> QED BY <2>1, Monotone
<1>2. WorldTypes' BY <1>1 DEF TypeInv, WorldTypes, Effect, Exists
<1> QED BY <1>2, EffectRowTypes, EffectStaffTypes DEF TypeInv

LEMMA StepTypes == ASSUME TypeInv, RepositoryStep PROVE TypeInv'
<1>1. CASE \E s \in Staff : Effect(s) BY <1>1, EffectTypes
<1>2. CASE Desked
  <2>1. RowTypes' BY <1>2 DEF Desked, TypeInv, RowTypes, Exists, IsCollection
  <2>2. StaffTypes' BY <1>2 DEF Desked, TypeInv, StaffTypes, Exists, IsCollection, Creates
  <2>3. WorldTypes' BY <1>2 DEF Desked, TypeInv, WorldTypes, Exists
  <2> QED BY <2>1, <2>2, <2>3 DEF TypeInv
<1>3. CASE Crashed
  <2>1. RowTypes' BY <1>3 DEF Crashed, TypeInv, RowTypes, Exists, IsCollection
  <2>2. Idle \in StaffRecords /\ Idle.step = "idle" /\ Idle.target = Root
    BY DEF Idle, StaffRecords, Windows, Root, NoUri
  <2>3. StaffTypes' BY <1>3, <2>2 DEF Crashed, StaffTypes, Creates
  <2>4. WorldTypes' BY <1>3 DEF Crashed, TypeInv, WorldTypes, Exists
  <2> QED BY <2>1, <2>3, <2>4 DEF TypeInv
<1> QED BY <1>1, <1>2, <1>3 DEF RepositoryStep

LEMMA StepConcurrent == ASSUME TypeInv, Concurrent, RepositoryStep PROVE Concurrent'
<1>1. ASSUME NEW s \in Staff, Effect(s) PROVE Concurrent'
  <2>1. ASSUME NEW t \in Staff \ {s}, staff'[s].step # "idle", staff'[t].step # "idle"
        PROVE  {staff'[s].step, staff'[t].step} \in crossed'
    <3>1. staff'[t] = staff[t] /\ crossed \subseteq crossed' BY <1>1, Monotone DEF Effect
    <3>2. CASE staff'[s].step = staff[s].step BY <2>1, <3>1, <3>2 DEF Concurrent
    <3>3. CASE staff'[s].step # staff[s].step BY <1>1, <2>1, <3>1, <3>3 DEF Effect
    <3> QED BY <3>2, <3>3
  <2>2. ASSUME NEW t \in Staff, NEW u \in Staff, t # u, staff'[t].step # "idle", staff'[u].step # "idle"
        PROVE  {staff'[t].step, staff'[u].step} \in crossed'
    <3>1. CASE t = s BY <2>1, <2>2, <3>1
    <3>2. CASE u = s
      <4>1. {staff'[u].step, staff'[t].step} \in crossed' BY <2>1, <2>2, <3>2
      <4>2. {staff'[u].step, staff'[t].step} = {staff'[t].step, staff'[u].step} OBVIOUS
      <4> QED BY <4>1, <4>2
    <3>3. CASE t # s /\ u # s
      <4>1. staff'[t] = staff[t] /\ staff'[u] = staff[u] /\ crossed \subseteq crossed'
        BY <1>1, <3>3, Monotone DEF Effect
      <4> QED BY <2>2, <4>1 DEF Concurrent
    <3> QED BY <3>1, <3>2, <3>3
  <2> QED BY <2>2 DEF Concurrent
<1>2. CASE Desked BY <1>2 DEF Desked, Concurrent
<1>3. CASE Crashed BY <1>3 DEF Crashed, Concurrent, Idle
<1> QED BY <1>1, <1>2, <1>3 DEF RepositoryStep

-----------------------------------------------------------------------------
(* The collections form a forest *)

LEMMA AllowedIsApart ==
    ASSUME NEW c \in Pids, NEW q \in {Root} \cup Pids, may_move_under(c, q) PROVE Apart(rows, c, q)
<1>1. CASE q = Root BY <1>1, Numbers DEF Apart
<1>2. CASE ~is_descendant_of(q, c)
  BY <1>2 DEF is_descendant_of, ClosedBelow, Collections, IsCollection, Apart
<1> QED BY <1>1, <1>2 DEF may_move_under

\* In one step at most one collection is created, or one is moved where it may be.
LEMMA EffectAcyclic ==
    ASSUME TypeInv, NEW s \in Staff, Effect(s), Acyclic(rows), MovesAreSafe PROVE Acyclic(rows')
<1>1. SUFFICES ASSUME NEW S \in SUBSET Pids, S # {}, \A p \in S : rows'[p].kind = "collection",
                      \A p \in S : rows'[p].parent \in S
               PROVE  FALSE
  BY DEF Acyclic
<1>2. \A p \in Pids : RowEffect(s, p) BY DEF Effect
<1>3. ASSUME NEW T \in SUBSET Pids, T # {}, \A q \in T : IsCollection(q), \A q \in T : rows[q].parent \in T
      PROVE  FALSE
  BY <1>3 DEF Acyclic, IsCollection
<1>4. ASSUME NEW p \in S, ~IsCollection(p) PROVE FALSE
  <2>1. staff[s].step = "insert" /\ staff[s].pids = {p} /\ ~Exists(p) BY <1>1, <1>4, Monotone
  <2>2. rows'[p].parent = staff[s].target /\ staff[s].target # p
    BY <1>1, <1>2, <2>1, Numbers DEF RowEffect, Exists, IsCollection, TypeInv, StaffTypes
  <2>3. \A q \in S \ {p} : IsCollection(q) /\ rows'[q].parent = rows[q].parent
    <3>1. TAKE q \in S \ {p}
    <3>2. IsCollection(q) BY <1>1, <2>1, Monotone
    <3> QED BY <1>2, <2>1, <3>2 DEF RowEffect, Exists, IsCollection
  <2>4. \A q \in S \ {p} : rows[q].parent # p
    BY <2>1, <2>3, Numbers DEF TypeInv, RowTypes, IsCollection, Exists
  <2>5. staff[s].target \in S \ {p} BY <1>1, <2>2
  <2>6. \A q \in S \ {p} : rows[q].parent \in S \ {p} BY <1>1, <2>3, <2>4
  <2> QED BY <1>3, <2>3, <2>5, <2>6
<1>5. ASSUME NEW c \in S, \A p \in S : IsCollection(p), rows'[c].parent # rows[c].parent PROVE FALSE
  <2>1. /\ staff[s].step = "move" /\ c \in staff[s].pids /\ rows'[c].parent = staff[s].target
    BY <1>2, <1>5 DEF RowEffect, Exists, IsCollection
  <2>2. staff[s].pids = {c} /\ Apart(rows, c, staff[s].target) BY <2>1 DEF MovesAreSafe
  <2>3. PICK D \in SUBSET Pids :
           /\ c \in D /\ staff[s].target \notin D
           /\ \A p \in Pids : rows[p].kind = "collection" /\ rows[p].parent \in D => p \in D
    BY <2>2 DEF Apart
  <2>4. staff[s].target \in S \ D BY <1>1, <2>1, <2>3
  <2>5. ASSUME NEW q \in S \ D PROVE rows[q].parent \in S \ D
    <3>1. rows'[q].parent = rows[q].parent
      BY <1>2, <1>5, <2>2, <2>3, <2>5 DEF RowEffect, Exists, IsCollection
    <3> QED BY <1>1, <1>5, <2>3, <2>5, <3>1 DEF IsCollection
  <2>6. \A q \in S \ D : IsCollection(q) BY <1>5
  <2> QED BY <1>3, <2>4, <2>5, <2>6
<1> QED BY <1>1, <1>3, <1>4, <1>5

\* What another session does between the check and the write of a move keeps the two apart.
LEMMA EffectApart ==
    ASSUME TypeInv, NEW s \in Staff, Effect(s), staff[s].step # "move",
           NEW c \in Pids, NEW q, q = Root \/ IsCollection(q), Apart(rows, c, q)
    PROVE  Apart(rows', c, q)
<1>1. PICK D \in SUBSET Pids :
         /\ c \in D /\ q \notin D
         /\ \A p \in Pids : rows[p].kind = "collection" /\ rows[p].parent \in D => p \in D
  BY DEF Apart
<1>2. \A p \in Pids : RowEffect(s, p) BY DEF Effect
<1> DEFINE new == {p \in Pids : ~Exists(p) /\ rows'[p].kind = "collection" /\ rows'[p].parent \in D}
<1>3. \A p \in new : staff[s].pids = {p} /\ staff[s].step = "insert" /\ rows'[p].parent = staff[s].target
  BY <1>2 DEF RowEffect
<1>4. q \notin D \cup new BY <1>1, Numbers DEF IsCollection, Exists
<1>5. ASSUME NEW p \in Pids, rows'[p].kind = "collection", rows'[p].parent \in D \cup new
      PROVE  p \in D \cup new
  <2>1. CASE ~Exists(p)
    <3>1. rows'[p].parent = staff[s].target BY <1>2, <1>5, <2>1 DEF RowEffect
    <3>2. rows'[p].parent \notin new
      BY <3>1, Numbers DEF TypeInv, StaffTypes, IsCollection, Exists
    <3> QED BY <1>5, <2>1, <3>2
  <2>2. CASE Exists(p)
    <3>1. IsCollection(p) /\ rows'[p].parent = rows[p].parent
      BY <1>2, <1>5, <2>2 DEF RowEffect, Exists, IsCollection
    <3>2. rows[p].parent \notin new
      <4>1. rows[p].parent = Root \/ IsCollection(rows[p].parent) BY <2>2 DEF TypeInv, RowTypes
      <4> QED BY <4>1, Numbers DEF IsCollection, Exists
    <3> QED BY <1>1, <1>5, <3>1, <3>2 DEF IsCollection
  <2> QED BY <2>1, <2>2
<1> HIDE DEF new
<1>6. D \cup new \in SUBSET Pids BY DEF new
<1> QED BY <1>1, <1>4, <1>5, <1>6 DEF Apart

LEMMA EffectMoves ==
    ASSUME TypeInv, Concurrent, Concurrent', NEW s \in Staff, Effect(s), {"move"} \notin crossed', MovesAreSafe
    PROVE  MovesAreSafe'
<1>1. ASSUME NEW t \in Staff, staff'[t].step = "move"
      PROVE  \E c \in Pids : staff'[t].pids = {c} /\ rows'[c].kind = "collection"
                             /\ Apart(rows', c, staff'[t].target)
  <2>1. CASE t # s
    <3>1. staff'[t] = staff[t] /\ crossed \subseteq crossed' BY <2>1, Monotone DEF Effect
    <3>2. staff[s].step # "move"
      <4>1. SUFFICES ASSUME staff[s].step = "move" PROVE FALSE OBVIOUS
      <4>2. {"move", "move"} \in crossed BY <1>1, <2>1, <3>1, <4>1 DEF Concurrent
      <4> QED BY <3>1, <4>2
    <3>3. PICK c \in Pids : staff[t].pids = {c} /\ IsCollection(c) /\ Apart(rows, c, staff[t].target)
      BY <1>1, <3>1 DEF MovesAreSafe
    <3>4. staff[t].target = Root \/ IsCollection(staff[t].target) BY DEF TypeInv, StaffTypes
    <3>5. Apart(rows', c, staff[t].target) BY <3>2, <3>3, <3>4, EffectApart
    <3> QED BY <3>1, <3>3, <3>5, Monotone
  <2>2. CASE t = s
    <3>1. /\ staff[s] \in StaffRecords /\ Idle.step = "idle"
      BY DEF TypeInv, StaffTypes, Idle
    <3>2. /\ [staff[s] EXCEPT !.step = "delete"].step = "delete"
          /\ [staff[s] EXCEPT !.step = "insert"].step = "insert"
      BY <3>1 DEF StaffRecords
    <3>3. Opened(s, staff'[s]) /\ rows' = rows /\ staff'[s] \in StaffRecords
      BY <1>1, <2>2, <3>1, <3>2 DEF Effect
    <3>4. PICK c \in Pids : staff'[s].pids = {c} /\ IsCollection(c) /\ may_move_under(c, staff'[s].target)
      BY <1>1, <2>2, <3>3 DEF Opened
    <3>5. staff'[s].target \in {Root} \cup Pids BY <3>3 DEF StaffRecords
    <3>6. Apart(rows, c, staff'[s].target) BY <3>4, <3>5, AllowedIsApart
    <3> QED BY <2>2, <3>3, <3>4, <3>6 DEF IsCollection
  <2> QED BY <2>1, <2>2
<1> QED BY <1>1 DEF MovesAreSafe, IsCollection

LEMMA StepForest ==
    ASSUME TypeInv, Concurrent, Concurrent', ForestInv, RepositoryStep PROVE ForestInv'
<1>1. ASSUME NEW s \in Staff, Effect(s), {"move"} \notin crossed' PROVE Acyclic(rows') /\ MovesAreSafe'
  <2>1. {"move"} \notin crossed BY <1>1 DEF Effect
  <2> QED BY <1>1, <2>1, EffectAcyclic, EffectMoves DEF ForestInv
<1>2. CASE Desked BY <1>2 DEF Desked, ForestInv, MovesAreSafe, IsCollection
<1>3. CASE Crashed BY <1>3 DEF Crashed, ForestInv, MovesAreSafe, IsCollection, Idle
<1> QED BY <1>1, <1>2, <1>3 DEF RepositoryStep, ForestInv

\* A set of numbers has a least member: the shortest of their intervals 1..n.
LEMMA Least ==
    ASSUME NEW S, S \subseteq Nat, S # {}
    PROVE  \E m \in S : \A n \in S : m <= n
<1> DEFINE T == {1..n : n \in S}
           R == StrictSubsetOrdering(Nat)
<1>1. \A n \in S : 1..n \subseteq Nat /\ IsFiniteSet(1..n) BY FS_Interval
<1>2. T \subseteq FiniteSubsetsOf(Nat) /\ T # {} BY <1>1 DEF FiniteSubsetsOf
<1>3. IsWellFoundedOn(R, FiniteSubsetsOf(Nat)) BY FS_StrictSubsetOrderingWellFounded
<1> HIDE DEF R
<1>4. \E x \in T : \A y \in T : ~(<<y, x>> \in R) BY <1>2, <1>3, WFMin
<1>5. PICK m \in S : \A y \in T : ~(<<y, 1..m>> \in R) BY <1>4
<1>6. ASSUME NEW n \in S, ~(m <= n) PROVE FALSE
  <2>1. 1..n \subseteq 1..m /\ m \in 1..m /\ m \notin 1..n BY <1>6
  <2>2. <<1..n, 1..m>> \in R BY <1>1, <2>1 DEF StrictSubsetOrdering, R
  <2> QED BY <1>5, <2>2
<1> QED BY <1>6

LEMMA InitForest == ASSUME RepositoryInit PROVE ForestInv
<1>1. PICK parent \in [Pids -> 0..NumCollections], published \in [Pids -> BOOLEAN] :
         /\ \A p \in Pids : p <= NumCollections => parent[p] < p
         /\ rows = [p \in Pids |->
              IF p <= NumCollections THEN Row("collection", parent[p], p, published[p])
              ELSE IF p <= NumCollections + NumObjects
                   THEN Row("object", parent[p], NoUri, published[p])
              ELSE NoRow]
  BY DEF RepositoryInit
<1>2. ASSUME NEW p \in Pids, rows[p].kind = "collection" PROVE rows[p].parent < p /\ rows[p].parent \in Nat
  <2>1. p <= NumCollections
    BY <1>1, <1>2, Numbers DEF Row, NoRow
  <2>2. rows[p].parent = parent[p] BY <1>1, <2>1 DEF Row, NoRow
  <2> QED BY <1>1, <2>1, <2>2
<1>3. ASSUME NEW S \in SUBSET Pids, S # {}, \A p \in S : rows[p].kind = "collection"
      PROVE  \E p \in S : rows[p].parent \notin S
  <2>1. S \subseteq Nat BY Numbers
  <2>2. PICK p \in S : \A q \in S : p <= q BY <1>3, <2>1, Least
  <2>3. rows[p].parent < p /\ rows[p].parent \in Nat /\ p \in Nat BY <1>2, <1>3, <2>1
  <2> QED BY <2>2, <2>3
<1>4. Acyclic(rows) BY <1>3 DEF Acyclic
<1>5. MovesAreSafe BY DEF RepositoryInit, MovesAreSafe, Idle
<1> QED BY <1>4, <1>5 DEF ForestInv

-----------------------------------------------------------------------------
(* Nothing is left half deleted *)

\* The session that opens a window, or goes on to the next one, changes no row.
LEMMA WindowKeepsRows ==
    ASSUME TypeInv, NEW s \in Staff, Effect(s), staff'[s].step # "idle"
    PROVE  /\ rows' = rows
           /\ \/ Opened(s, staff'[s]) /\ staff'[s].step \notin {"insert", "delete"}
              \/ staff'[s].step = "delete"
              \/ /\ staff'[s].step = "insert" /\ staff'[s].target = staff[s].target
                 /\ staff[s].target = Root \/ LiveCollection(staff[s].target)
<1>1. staff[s] \in StaffRecords /\ Idle.step = "idle" BY DEF TypeInv, StaffTypes, Idle
<1>2. /\ [staff[s] EXCEPT !.step = "delete"].step = "delete"
      /\ [staff[s] EXCEPT !.step = "insert"].step = "insert"
      /\ [staff[s] EXCEPT !.step = "insert"].target = staff[s].target
  BY <1>1 DEF StaffRecords
<1> QED BY <1>1, <1>2 DEF Effect, Opened

\* A collection stays live unless a step of one of two kinds deletes it.
LEMMA StaysLive ==
    ASSUME TypeInv, NEW s \in Staff, Effect(s), NEW q, LiveCollection(q),
           staff[s].step = "unlink" => q \notin staff[s].pids
    PROVE  /\ q \in Pids /\ rows'[q].kind = "collection"
           /\ rows'[q].active \/ q \in byObject'
<1>1. q \in Pids /\ RowEffect(s, q) /\ rows[q].active /\ IsCollection(q) /\ Exists(q)
  BY DEF Effect, LiveCollection, IsCollection, Exists
<1>2. rows'[q].active \in BOOLEAN /\ rows[q].active \in BOOLEAN
  BY <1>1 DEF Effect, TypeInv, RowTypes, RowRecords
<1> QED BY <1>1, <1>2 DEF RowEffect, IsCollection

Kept(q) == q = Root \/ LiveCollection(q) \/ q \in byObject

LEMMA KeptStays ==
    ASSUME TypeInv, NEW s \in Staff, Effect(s), NEW q, Kept(q),
           staff[s].step = "unlink" => q \notin staff[s].pids
    PROVE  \/ q = Root \/ q \in byObject'
           \/ q \in Pids /\ rows'[q].kind = "collection" /\ rows'[q].active
<1>1. CASE LiveCollection(q) BY <1>1, StaysLive
<1>2. CASE q = Root \/ q \in byObject BY <1>2 DEF Effect
<1> QED BY <1>1, <1>2 DEF Kept

LEMMA EffectStranded ==
    ASSUME TypeInv, NEW s \in Staff, Effect(s), NoStranded, crossed \cap Emptying = {},
           TargetsStand, UnlinkedIsEmpty
    PROVE  NoStranded'
<1>1. ASSUME NEW p \in Pids, rows'[p].kind # "none", rows'[p].active,
             rows'[p].parent \in Pids, rows'[rows'[p].parent].kind = "collection"
      PROVE  rows'[rows'[p].parent].active \/ rows'[p].parent \in byObject'
  <2> DEFINE q == rows'[p].parent
  <2>1. RowEffect(s, p) /\ q # Root BY <1>1, Numbers DEF Effect
  <2>2. rows[p] \in RowRecords /\ rows'[p] \in RowRecords BY DEF Effect, TypeInv, RowTypes
  <2>3. CASE Exists(p) /\ rows'[p].parent = rows[p].parent
    <3>1. Live(p) /\ IsCollection(q)
      BY <1>1, <2>1, <2>2, <2>3, Numbers DEF RowEffect, RowRecords, Live, TypeInv, RowTypes
    <3>2. LiveCollection(q) \/ q \in byObject BY <2>3, <3>1 DEF NoStranded, Emptying
    <3>3. staff[s].step = "unlink" => q \notin staff[s].pids
      BY <2>3, <3>1 DEF UnlinkedIsEmpty, Members
    <3>4. Kept(q) BY <3>2 DEF Kept
    <3> QED BY <2>1, <3>3, <3>4, KeptStays
  <2>4. CASE ~Exists(p) \/ rows'[p].parent # rows[p].parent
    <3>1. staff[s].step \in {"add", "move", "insert"} /\ q = staff[s].target
      BY <1>1, <2>1, <2>4 DEF RowEffect
    <3>2. Kept(q) BY <3>1 DEF Kept, TargetsStand
    <3> QED BY <2>1, <3>1, <3>2, KeptStays
  <2> QED BY <2>3, <2>4
<1> QED BY <1>1 DEF NoStranded, Live, Exists, LiveCollection, IsCollection

LEMMA EffectTargets ==
    ASSUME TypeInv, Concurrent, NEW s \in Staff, Effect(s), crossed' \cap Emptying = {}, TargetsStand
    PROVE  TargetsStand'
<1>1. ASSUME NEW t \in Staff, staff'[t].step \in {"add", "move", "insert"}
      PROVE  \/ staff'[t].target = Root \/ staff'[t].target \in byObject'
             \/ staff'[t].target \in Pids /\ rows'[staff'[t].target].kind = "collection"
                /\ rows'[staff'[t].target].active
  <2>1. CASE t # s
    <3>1. staff'[t] = staff[t] BY <2>1, Monotone
    <3>2. Kept(staff[t].target) BY <1>1, <3>1 DEF TargetsStand, Kept
    <3>3. staff[s].step # "unlink"
      <4>1. SUFFICES ASSUME staff[s].step = "unlink" PROVE FALSE OBVIOUS
      <4>2. {"unlink", staff[t].step} \in crossed' BY <1>1, <2>1, <3>1, <4>1 DEF Concurrent, Effect
      <4> QED BY <1>1, <3>1, <4>2 DEF Emptying
    <3> QED BY <3>1, <3>2, <3>3, KeptStays
  <2>2. CASE t = s
    <3>1. rows' = rows BY <1>1, <2>2, WindowKeepsRows
    <3>2. staff'[s].target = Root \/ LiveCollection(staff'[s].target)
      BY <1>1, <2>2, WindowKeepsRows DEF Opened, may_move_under
    <3> QED BY <2>2, <3>1, <3>2 DEF LiveCollection, IsCollection
  <2> QED BY <2>1, <2>2
<1> QED BY <1>1 DEF TargetsStand, LiveCollection, IsCollection

LEMMA EffectUnlinked ==
    ASSUME TypeInv, Concurrent, NEW s \in Staff, Effect(s), crossed' \cap Emptying = {}, UnlinkedIsEmpty
    PROVE  UnlinkedIsEmpty'
<1>1. ASSUME NEW t \in Staff, staff'[t].step = "unlink"
      PROVE  \E c \in Pids : staff'[t].pids = {c} /\ \A p \in Pids :
                ~(rows'[p].kind # "none" /\ rows'[p].active /\ rows'[p].parent = c)
  <2>1. CASE t # s
    <3>1. staff'[t] = staff[t] BY <2>1, Monotone
    <3>2. PICK c \in Pids : staff[t].pids = {c} /\ Members(c) = {} BY <1>1, <3>1 DEF UnlinkedIsEmpty
    <3>3. staff[s].step \notin {"add", "move", "insert"}
      <4>1. SUFFICES ASSUME staff[s].step \in {"add", "move", "insert"} PROVE FALSE OBVIOUS
      <4>2. {"unlink", staff[s].step} \in crossed' BY <1>1, <2>1, <3>1, <4>1 DEF Concurrent, Effect
      <4> QED BY <4>1, <4>2 DEF Emptying
    <3>4. ASSUME NEW p \in Pids, rows'[p].kind # "none", rows'[p].active, rows'[p].parent = c
          PROVE  FALSE
      <4>1. RowEffect(s, p) /\ rows[p] \in RowRecords /\ rows'[p] \in RowRecords
        BY DEF Effect, TypeInv, RowTypes
      <4>2. Live(p) /\ rows[p].parent = c
        BY <3>3, <3>4, <4>1 DEF RowEffect, RowRecords, Live
      <4> QED BY <3>2, <4>2 DEF Members
    <3> QED BY <3>1, <3>2, <3>4
  <2>2. CASE t = s
    <3>1. rows' = rows /\ \E c \in Pids : staff'[s].pids = {c} /\ Members(c) = {}
      BY <1>1, <2>2, WindowKeepsRows DEF Opened
    <3> QED BY <2>2, <3>1 DEF Members, Live, Exists
  <2> QED BY <2>1, <2>2
<1> QED BY <1>1 DEF UnlinkedIsEmpty, Members, Live, Exists

LEMMA StepStranded ==
    ASSUME TypeInv, Concurrent, StrandedInv, RepositoryStep PROVE StrandedInv'
<1>1. ASSUME NEW s \in Staff, Effect(s), crossed' \cap Emptying = {}
      PROVE  NoStranded' /\ TargetsStand' /\ UnlinkedIsEmpty'
  <2>1. crossed \cap Emptying = {} BY <1>1 DEF Effect
  <2> QED BY <1>1, <2>1, EffectStranded, EffectTargets, EffectUnlinked DEF StrandedInv
<1>2. CASE Desked
  BY <1>2 DEF Desked, StrandedInv, NoStranded, TargetsStand, UnlinkedIsEmpty, Live, Exists,
              LiveCollection, IsCollection, Members
<1>3. CASE Crashed
  <2>1. NoStranded' <=> NoStranded
    BY <1>3 DEF Crashed, NoStranded, Live, Exists, LiveCollection, IsCollection
  <2>2. TargetsStand' /\ UnlinkedIsEmpty' BY <1>3 DEF Crashed, TargetsStand, UnlinkedIsEmpty, Idle
  <2>3. crossed' = crossed BY <1>3 DEF Crashed
  <2> QED BY <2>1, <2>2, <2>3 DEF StrandedInv
<1>4. Emptying' = Emptying BY DEF Emptying
<1> QED BY <1>1, <1>2, <1>3, <1>4 DEF RepositoryStep, StrandedInv

\* An AIP whose deletion was asked for belongs to a row that is deleted, or about to be.
LEMMA StepDeletes == ASSUME TypeInv, DeletesGoThrough, RepositoryStep PROVE DeletesGoThrough'
<1>1. ASSUME NEW s \in Staff, Effect(s), NEW p \in aipAsked', rows'[p].active, ~(faults' > 0)
      PROVE  \E t \in Staff : staff'[t].step = "delete" /\ p \in staff'[t].pids
  <2>1. CASE p \notin aipAsked BY <1>1, <2>1 DEF Effect
  <2>2. CASE p \in aipAsked
    <3>1. p \in Pids /\ Exists(p) /\ faults' = faults BY <1>1, <2>2 DEF TypeInv, WorldTypes, Effect
    <3>2. rows[p].active
      <4>1. RowEffect(s, p) /\ rows[p] \in RowRecords /\ rows'[p] \in RowRecords
        BY <1>1, <3>1 DEF Effect, TypeInv, RowTypes
      <4> QED BY <1>1, <3>1, <4>1 DEF RowEffect, RowRecords
    <3>3. PICK t \in Staff : staff[t].step = "delete" /\ p \in staff[t].pids
      BY <1>1, <2>2, <3>1, <3>2 DEF DeletesGoThrough
    <3>4. t # s BY <1>1, <3>3 DEF Effect
    <3> QED BY <1>1, <3>3, <3>4, Monotone
  <2> QED BY <2>1, <2>2
<1>2. CASE Desked BY <1>2 DEF Desked, DeletesGoThrough, TypeInv, WorldTypes
<1>3. CASE Crashed BY <1>3 DEF Crashed, DeletesGoThrough, TypeInv, WorldTypes
<1>4. CASE \E s \in Staff : Effect(s) BY <1>1, <1>4 DEF DeletesGoThrough
<1> QED BY <1>2, <1>3, <1>4 DEF RepositoryStep

-----------------------------------------------------------------------------
(* What becomes public is below what is public *)

\* A public collection stays public beside a window that is not crossed with a suppression.
LEMMA StaysPublic ==
    ASSUME TypeInv, NEW s \in Staff, Effect(s), NEW t \in Staff \ {s}, staff[t].step # "idle",
           {"unpublish", staff[t].step} \notin crossed', NEW q, IsCollection(q), rows[q].published
    PROVE  rows'[q].published
<1>1. q \in Pids /\ Exists(q) /\ RowEffect(s, q) BY DEF Effect, IsCollection, Exists
<1> QED BY <1>1 DEF RowEffect

LEMMA EffectPublic ==
    ASSUME TypeInv, Concurrent, NEW s \in Staff, Effect(s), crossed' \cap Hiding = {}, ParentsArePublic
    PROVE  ParentsArePublic'
<1>1. ASSUME NEW t \in Staff, staff'[t].step = "publish", NEW p \in staff'[t].pids,
             staff'[t].single \/ rows'[p].active,
             rows'[p].parent \in Pids, rows'[rows'[p].parent].kind = "collection"
      PROVE  rows'[rows'[p].parent].published
  <2>1. CASE t # s
    <3>1. staff'[t] = staff[t] BY <2>1, Monotone
    <3>2. p \in Pids /\ Exists(p)
      BY <1>1, <3>1 DEF TypeInv, StaffTypes, StaffRecords
    <3>3. staff[s].step \notin {"add", "move"}
      <4>1. SUFFICES ASSUME staff[s].step \in {"add", "move"} PROVE FALSE OBVIOUS
      <4>2. {"publish", staff[s].step} \in crossed' BY <1>1, <2>1, <3>1, <4>1 DEF Concurrent, Effect
      <4> QED BY <4>1, <4>2 DEF Hiding
    <3>4. RowEffect(s, p) /\ rows[p] \in RowRecords /\ rows'[p] \in RowRecords
      BY <3>2 DEF Effect, TypeInv, RowTypes
    <3>5. rows'[p].parent = rows[p].parent /\ (rows'[p].active => rows[p].active)
      BY <3>2, <3>3, <3>4 DEF RowEffect, RowRecords
    <3>6. IsCollection(rows[p].parent)
      BY <1>1, <3>2, <3>5, Numbers DEF TypeInv, RowTypes
    <3>7. p \in Reach(staff[t].pids, staff[t].single) BY <1>1, <3>1, <3>5 DEF Reach
    <3>8. rows[rows[p].parent].published BY <1>1, <3>1, <3>6, <3>7 DEF ParentsArePublic
    <3>9. {"unpublish", staff[t].step} \notin crossed' BY <1>1, <3>1 DEF Hiding
    <3> QED BY <1>1, <2>1, <3>1, <3>5, <3>6, <3>8, <3>9, StaysPublic
  <2>2. CASE t = s
    <3>1. rows' = rows /\ unpublished_parents(Reach(staff'[s].pids, staff'[s].single)) = {}
      BY <1>1, <2>2, WindowKeepsRows DEF Opened
    <3>2. p \in Reach(staff'[s].pids, staff'[s].single) BY <1>1, <2>2, <3>1 DEF Reach
    <3> QED BY <1>1, <3>1, <3>2 DEF unpublished_parents, IsCollection
  <2> QED BY <2>1, <2>2
<1>2. ASSUME NEW t \in Staff, staff'[t].step = "members"
      PROVE  /\ staff'[t].target \in Pids /\ rows'[staff'[t].target].kind = "collection"
             /\ rows'[staff'[t].target].published
  <2>1. CASE t # s
    <3>1. staff'[t] = staff[t] BY <2>1, Monotone
    <3>2. IsCollection(staff[t].target) /\ rows[staff[t].target].published
      BY <1>2, <3>1 DEF ParentsArePublic
    <3>3. {"unpublish", staff[t].step} \notin crossed' BY <1>2, <3>1 DEF Hiding
    <3>4. rows'[staff[t].target].published BY <1>2, <2>1, <3>1, <3>2, <3>3, StaysPublic
    <3> QED BY <3>1, <3>2, <3>4, Monotone
  <2>2. CASE t = s
    <3>1. rows' = rows /\ IsCollection(staff'[s].target) /\ rows[staff'[s].target].published
      BY <1>2, <2>2, WindowKeepsRows DEF Opened
    <3> QED BY <2>2, <3>1 DEF IsCollection
  <2> QED BY <2>1, <2>2
<1>3. ASSUME NEW t \in Staff, staff'[t].step = "publish" PROVE
             \A p \in {q \in staff'[t].pids : staff'[t].single \/ rows'[q].active} :
                rows'[p].parent \in Pids /\ rows'[rows'[p].parent].kind = "collection"
                   => rows'[rows'[p].parent].published
  BY <1>1, <1>3
<1> QED BY <1>2, <1>3 DEF ParentsArePublic, IsCollection, Reach

LEMMA StepPublic == ASSUME TypeInv, Concurrent, PublicInv, RepositoryStep PROVE PublicInv'
<1>1. ASSUME NEW s \in Staff, Effect(s), crossed' \cap Hiding = {} PROVE ParentsArePublic'
  <2>1. crossed \cap Hiding = {} BY <1>1 DEF Effect
  <2> QED BY <1>1, <2>1, EffectPublic DEF PublicInv
<1>2. CASE Desked
  BY <1>2 DEF Desked, PublicInv, ParentsArePublic, IsCollection, Reach
<1>3. CASE Crashed
  <2>1. ParentsArePublic' BY <1>3 DEF Crashed, ParentsArePublic, Idle
  <2> QED BY <2>1 DEF PublicInv
<1>4. Hiding' = Hiding BY DEF Hiding
<1> QED BY <1>1, <1>2, <1>3, <1>4 DEF RepositoryStep, PublicInv

LEMMA PublicStep ==
    ASSUME TypeInv, PublicInv, RepositoryStep, crossed \cap Hiding = {},
           NEW p \in Pids, ~rows[p].published, rows'[p].published
    PROVE  ~IsCollection(rows[p].parent) \/ rows[rows[p].parent].published
<1>1. CASE \E s \in Staff : Effect(s)
  <2>1. PICK s \in Staff : Effect(s) BY <1>1
  <2>2. RowEffect(s, p) /\ ParentsArePublic BY <2>1 DEF Effect, PublicInv
  <2>3. Exists(p) BY <2>2 DEF RowEffect, Exists
  <2>4. CASE staff[s].step = "publish" /\ p \in Reach(staff[s].pids, staff[s].single)
    BY <2>2, <2>4 DEF ParentsArePublic
  <2>5. CASE staff[s].step = "members" /\ p \in Movable(Members(staff[s].target))
    BY <2>2, <2>5 DEF ParentsArePublic, Movable, Members
  <2> QED BY <2>2, <2>3, <2>4, <2>5 DEF RowEffect
<1>2. CASE Desked \/ Crashed BY <1>2 DEF Desked, Crashed
<1> QED BY <1>1, <1>2 DEF RepositoryStep

-----------------------------------------------------------------------------
(* Together *)

RepositoryInv ==
    TypeInv /\ Concurrent /\ ForestInv /\ StrandedInv /\ DeletesGoThrough /\ PublicInv

LEMMA InitRepository == ASSUME RepositoryInit PROVE RepositoryInv
<1>1. /\ staff = [s \in Staff |-> Idle] /\ aipAsked = {} /\ crossed = {} /\ Idle.step = "idle"
  BY DEF RepositoryInit, Idle
<1>2. TypeInv BY InitTypes
<1>3. Concurrent /\ DeletesGoThrough BY <1>1 DEF Concurrent, DeletesGoThrough
<1>4. TargetsStand /\ UnlinkedIsEmpty /\ ParentsArePublic
  BY <1>1 DEF TargetsStand, UnlinkedIsEmpty, ParentsArePublic
<1>5. NoStranded
  <2>1. PICK parent \in [Pids -> 0..NumCollections], published \in [Pids -> BOOLEAN] :
           rows = [p \in Pids |->
              IF p <= NumCollections THEN Row("collection", parent[p], p, published[p])
              ELSE IF p <= NumCollections + NumObjects
                   THEN Row("object", parent[p], NoUri, published[p])
              ELSE NoRow]
    BY DEF RepositoryInit
  <2>2. \A p \in Pids : rows[p].kind # "none" => rows[p].active
    BY <2>1 DEF Row, NoRow
  <2> QED BY <2>2 DEF NoStranded, LiveCollection, IsCollection
<1> QED BY <1>2, <1>3, <1>4, <1>5, InitForest DEF RepositoryInv, StrandedInv, PublicInv

LEMMA StepRepository == ASSUME RepositoryInv, RepositoryStep PROVE RepositoryInv'
<1>1. TypeInv' /\ Concurrent' BY StepTypes, StepConcurrent DEF RepositoryInv
<1> QED BY <1>1, StepForest, StepStranded, StepDeletes, StepPublic DEF RepositoryInv

-----------------------------------------------------------------------------
(* The steps of the catalogue, as the repository sees them *)

LEMMA DeskEffect ==
    ASSUME TypeInv, NEW s \in Staff, Desk!HandleSteps(s),
           UNCHANGED <<rows, staff, aipAsked, crossed, byObject>>
    PROVE  Desked
<1>1. ops \in Nat /\ faults \in Nat BY DEF TypeInv, WorldTypes
<1>2. ops' \in {ops, ops + 1} /\ faults' \in {faults, faults + 1}
  BY DEF Desk!HandleSteps, Desk!mint, Desk!batch, Desk!mint_failed, Desk!mint_reconcile, Desk!remove,
         Desk!remove_mark, Desk!remove_write, Desk!remove_finish
<1> QED BY <1>1, <1>2 DEF Desked

LEMMA StepEffect == ASSUME TypeInv, [CatalogueNext]_catalogueVars PROVE RepositoryStep
<1>1. CASE (\E s \in Staff : Checks(s) \/ Writes(s)) BY <1>1, StaffEffect
<1>2. CASE (\E s \in Staff : Desk!HandleSteps(s)) /\ UNCHANGED <<rows, staff, aipAsked, crossed, byObject>>
  BY <1>2, DeskEffect DEF RepositoryStep
<1>3. CASE (\E h \in Suffixes : Desk!attach(h)) /\ UNCHANGED <<rows, staff, aipAsked, crossed, byObject>>
  BY <1>3 DEF RepositoryStep, Desk!attach, Desked, TypeInv, WorldTypes
<1>4. CASE cut BY <1>4, CutEffect DEF RepositoryStep
<1>5. CASE UNCHANGED catalogueVars BY <1>5 DEF RepositoryStep, catalogueVars, repoVars, Desked, TypeInv, WorldTypes
<1> QED BY <1>1, <1>2, <1>3, <1>4, <1>5 DEF CatalogueNext

-----------------------------------------------------------------------------
(* The records of handles are true *)

DeskSteps == {"idle", "batch", "failed", "reconcile", "mark", "delete", "deleted", "restore"}
Minting == {"batch", "failed", "reconcile"}
Removing == {"mark", "delete", "deleted", "restore"}
DeskRecords ==
    [step : DeskSteps, todo : SUBSET Suffixes, good : SUBSET Suffixes, was : Desk!STATUS]

\* No session works on a row that does not exist, nor restores one to nothing.
DeskTypes ==
    /\ desk \in [Staff -> DeskRecords] /\ handles \in [Suffixes -> Desk!STATUS]
    /\ \A s \in Staff : desk[s].step = "idle" => desk[s].todo = {}
    /\ \A s \in Staff, h \in Suffixes : h \in desk[s].todo => handles[h] # "none"
    /\ \A h \in Suffixes : h \in linked => handles[h] # "none"
    /\ \A s \in Staff : desk[s].step \in Removing => desk[s].was \notin {"none", "deleted"}

\* What a session that works on h may rely on, if nobody else does.
Sound(s, h) ==
    h \in desk[s].todo =>
        /\ h \notin linked
        /\ desk[s].step \in Minting => handles[h] = "pending"
        /\ desk[s].step = "reconcile" /\ h \in desk[s].good => h \in server
        /\ desk[s].step = "mark" => handles[h] = desk[s].was
        /\ desk[s].step \in {"delete", "deleted", "restore"} => handles[h] = "deleting"
        /\ desk[s].step \in {"mark", "delete", "restore"} /\ desk[s].was = "minted"
           /\ h \notin doubtful => h \in server
        /\ desk[s].step = "deleted" => h \notin server
Honest(h) ==
    /\ handles[h] = "minted" /\ h \notin doubtful => h \in server
    /\ handles[h] = "deleted" => h \notin server
    /\ h \in linked /\ h \notin doubtful => h \in server
Undisputed(h) ==
    /\ \A s, t \in Staff : h \in desk[s].todo /\ h \in desk[t].todo => s = t
    /\ \A s \in Staff : Sound(s, h)
    /\ Honest(h)
HandleInv == \A h \in Suffixes : h \notin contested => Undisputed(h)

\* A step leaves a handle alone that its session does not work on ...
LEMMA Elsewhere ==
    ASSUME NEW h \in Suffixes, Undisputed(h), handles'[h] = handles[h], h \in server' <=> h \in server,
           h \in linked' <=> h \in linked, h \in doubtful' <=> h \in doubtful,
           \A t \in Staff : desk'[t] = desk[t] \/ h \notin desk'[t].todo
    PROVE  Undisputed(h)'
<1>1. ASSUME NEW t \in Staff PROVE Sound(t, h)'
  <2>1. CASE desk'[t] = desk[t] BY <2>1 DEF Undisputed, Sound
  <2>2. CASE h \notin desk'[t].todo BY <2>2 DEF Sound
  <2> QED BY <2>1, <2>2
<1>2. Honest(h)' BY DEF Undisputed, Honest
<1>3. ASSUME NEW t \in Staff, NEW u \in Staff, h \in desk'[t].todo, h \in desk'[u].todo PROVE t = u
  BY <1>3 DEF Undisputed
<1> QED BY <1>1, <1>2, <1>3 DEF Undisputed

\* ... and of a handle that it does work on, only its own session counts.
LEMMA Here ==
    ASSUME NEW h \in Suffixes, Undisputed(h), NEW s \in Staff, \A t \in Staff \ {s} : h \notin desk[t].todo,
           \A t \in Staff \ {s} : desk'[t] = desk[t], Sound(s, h)', Honest(h)'
    PROVE  Undisputed(h)'
<1>1. ASSUME NEW t \in Staff PROVE Sound(t, h)' BY DEF Sound
<1>2. ASSUME NEW t \in Staff, NEW u \in Staff, h \in desk'[t].todo, h \in desk'[u].todo PROVE t = u
  BY <1>2
<1> QED BY <1>1, <1>2 DEF Undisputed

LEMMA InitHandles == ASSUME CatalogueInit PROVE DeskTypes /\ HandleInv
<1>1. Desk!AtRest \in DeskRecords /\ Desk!AtRest.step = "idle" /\ Desk!AtRest.todo = {}
  BY DEF Desk!AtRest, DeskRecords, DeskSteps, Desk!STATUS
<1>2. /\ handles = [h \in Suffixes |-> "none"] /\ server = {} /\ linked = {}
      /\ desk = [s \in Staff |-> Desk!AtRest] /\ doubtful = {} /\ contested = {}
  BY DEF CatalogueInit, Desk!HandlesInit
<1>3. DeskTypes BY <1>1, <1>2 DEF DeskTypes, Removing, Desk!STATUS
<1>4. HandleInv BY <1>1, <1>2 DEF HandleInv, Undisputed, Sound, Honest
<1> QED BY <1>3, <1>4

LEMMA MintHandles ==
    ASSUME DeskTypes, HandleInv, NEW s \in Staff, NEW S \in SUBSET Suffixes, Desk!mint(s, S)
    PROVE  DeskTypes' /\ HandleInv'
<1> DEFINE r == [Desk!AtRest EXCEPT !.step = "batch", !.todo = S]
<1>1. r \in DeskRecords /\ r.step = "batch" /\ r.todo = S
  BY DEF Desk!AtRest, DeskRecords, DeskSteps, Desk!STATUS
<1>2. /\ desk \in [Staff -> DeskRecords] /\ handles \in [Suffixes -> Desk!STATUS]
      /\ desk[s].step = "idle"
  BY DEF DeskTypes, Desk!mint
<1>3. /\ \A h \in S : handles[h] = "none"
      /\ handles' = [h \in Suffixes |-> IF h \in S THEN "pending" ELSE handles[h]]
      /\ desk' = [desk EXCEPT ![s] = r]
      /\ UNCHANGED <<server, linked, doubtful, contested>>
  BY DEF Desk!mint, Desk!SetStatus
<1> HIDE DEF r
<1>4. desk' \in [Staff -> DeskRecords] /\ desk'[s] = r /\ \A t \in Staff \ {s} : desk'[t] = desk[t]
  BY <1>1, <1>2, <1>3
<1>5. handles' \in [Suffixes -> Desk!STATUS] BY <1>2, <1>3 DEF Desk!STATUS
<1>6. \A t \in Staff, h \in Suffixes : h \in desk'[t].todo => handles'[h] # "none"
  BY <1>1, <1>3, <1>4 DEF DeskTypes
<1>7. DeskTypes'
  <2>1. \A h \in Suffixes : h \in linked' => handles'[h] # "none" BY <1>3 DEF DeskTypes
  <2> QED BY <1>1, <1>4, <1>5, <1>6, <2>1 DEF DeskTypes, Removing
<1>8. ASSUME NEW h \in Suffixes, h \notin contested' PROVE Undisputed(h)'
  <2>1. Undisputed(h) BY <1>3, <1>8 DEF HandleInv
  <2>2. CASE h \in S
    <3>1. \A t \in Staff \ {s} : h \notin desk[t].todo BY <1>3, <2>2 DEF DeskTypes
    <3>2. h \notin linked /\ handles'[h] = "pending" BY <1>3, <2>2 DEF DeskTypes
    <3>3. Sound(s, h)' BY <1>1, <1>3, <1>4, <3>2 DEF Sound, Minting
    <3>4. Honest(h)' BY <1>3, <3>2 DEF Honest
    <3> QED BY <1>4, <2>1, <3>1, <3>3, <3>4, Here
  <2>3. CASE h \notin S BY <1>1, <1>3, <1>4, <2>1, <2>3, Elsewhere
  <2> QED BY <2>2, <2>3
<1> QED BY <1>7, <1>8 DEF HandleInv

\* The session goes on, ends, or drops a handle it is done with.
LEMMA DeskMoves ==
    ASSUME DeskTypes, NEW s \in Staff, NEW r \in DeskRecords, desk' = [desk EXCEPT ![s] = r],
           handles' \in [Suffixes -> Desk!STATUS], r.todo \subseteq desk[s].todo,
           r.step = "idle" => r.todo = {}, r.step \in Removing => r.was \notin {"none", "deleted"},
           \A h \in Suffixes : handles[h] # "none" => handles'[h] # "none", linked' = linked
    PROVE  /\ DeskTypes'
           /\ desk'[s] = r /\ \A t \in Staff \ {s} : desk'[t] = desk[t]
<1>1. desk' \in [Staff -> DeskRecords] /\ desk'[s] = r /\ \A t \in Staff \ {s} : desk'[t] = desk[t]
  BY DEF DeskTypes
<1>2. \A t \in Staff, h \in Suffixes : h \in desk'[t].todo => handles'[h] # "none"
  BY <1>1 DEF DeskTypes
<1>3. \A h \in Suffixes : h \in linked' => handles'[h] # "none" BY DEF DeskTypes
<1> QED BY <1>1, <1>2, <1>3 DEF DeskTypes

\* A step that touches only what its session works on: enough to look at that.
LEMMA OwnHandles ==
    ASSUME DeskTypes, HandleInv, NEW s \in Staff, contested' = contested,
           \A t \in Staff \ {s} : desk'[t] = desk[t], desk'[s].todo \subseteq desk[s].todo, linked' = linked,
           \A h \in Suffixes : h \notin desk[s].todo =>
              /\ handles'[h] = handles[h] /\ (h \in server' <=> h \in server)
              /\ (h \in doubtful' <=> h \in doubtful),
           \A h \in desk[s].todo : h \notin contested /\ Sound(s, h) /\ Honest(h) => Sound(s, h)' /\ Honest(h)'
    PROVE  HandleInv'
<1>1. ASSUME NEW h \in Suffixes, h \notin contested' PROVE Undisputed(h)'
  <2>1. Undisputed(h) BY <1>1 DEF HandleInv
  <2>2. CASE h \in desk[s].todo
    <3>1. \A t \in Staff \ {s} : h \notin desk[t].todo BY <2>1, <2>2 DEF Undisputed
    <3>2. Sound(s, h)' /\ Honest(h)' BY <1>1, <2>1, <2>2 DEF Undisputed
    <3> QED BY <2>1, <3>1, <3>2, Here
  <2>3. CASE h \notin desk[s].todo
    <3>1. \A t \in Staff : desk'[t] = desk[t] \/ h \notin desk'[t].todo BY <2>3
    <3> QED BY <2>1, <2>3, <3>1, Elsewhere
  <2> QED BY <2>2, <2>3
<1> QED BY <1>1 DEF HandleInv

LEMMA DeskRecord ==
    ASSUME DeskTypes, NEW s \in Staff
    PROVE  /\ desk[s] \in DeskRecords /\ desk[s].todo \in SUBSET Suffixes /\ desk[s].was \in Desk!STATUS
           /\ Desk!AtRest \in DeskRecords /\ Desk!AtRest.step = "idle" /\ Desk!AtRest.todo = {}
           /\ handles \in [Suffixes -> Desk!STATUS] /\ desk \in [Staff -> DeskRecords]
<1>1. desk[s] \in DeskRecords BY DEF DeskTypes
<1>2. Desk!AtRest \in DeskRecords /\ Desk!AtRest.step = "idle" /\ Desk!AtRest.todo = {}
  BY DEF Desk!AtRest, DeskRecords, DeskSteps, Desk!STATUS
<1> QED BY <1>1, <1>2 DEF DeskRecords, DeskTypes

LEMMA BatchHandles ==
    ASSUME DeskTypes, HandleInv, NEW s \in Staff, Desk!batch(s) PROVE DeskTypes' /\ HandleInv'
<1>1. PICK done \in SUBSET desk[s].todo :
         /\ server' = server \cup done
         /\ \/ desk' = [desk EXCEPT ![s].step = "reconcile", ![s].good = done]
            \/ desk' = [desk EXCEPT ![s].step = "failed"]
  BY DEF Desk!batch, Desk!DuHandleTool
<1>2. desk[s].step = "batch" /\ UNCHANGED <<handles, linked, doubtful, contested>> BY DEF Desk!batch
<1>3. PICK r : /\ desk' = [desk EXCEPT ![s] = r]
               /\ \/ r = [desk[s] EXCEPT !.step = "reconcile", !.good = done]
                  \/ r = [desk[s] EXCEPT !.step = "failed"]
  <2>1. CASE desk' = [desk EXCEPT ![s].step = "reconcile", ![s].good = done]
    <3>1. desk' = [desk EXCEPT ![s] = [desk[s] EXCEPT !.step = "reconcile", !.good = done]]
      BY <2>1, DeskRecord
    <3> QED BY <3>1
  <2>2. CASE desk' = [desk EXCEPT ![s].step = "failed"]
    <3>1. desk' = [desk EXCEPT ![s] = [desk[s] EXCEPT !.step = "failed"]] BY <2>2, DeskRecord
    <3> QED BY <3>1
  <2> QED BY <1>1, <2>1, <2>2
<1>4. /\ r \in DeskRecords /\ r.todo = desk[s].todo
      /\ r.step = "failed" \/ (r.step = "reconcile" /\ r.good = done)
  BY <1>3, DeskRecord DEF DeskRecords, DeskSteps
<1>5. DeskTypes' /\ desk'[s] = r /\ \A t \in Staff \ {s} : desk'[t] = desk[t]
  BY <1>2, <1>3, <1>4, DeskMoves, DeskRecord DEF Removing
<1>6. \A h \in Suffixes : h \notin desk[s].todo => (h \in server' <=> h \in server) BY <1>1
<1>7. ASSUME NEW h \in desk[s].todo, Sound(s, h), Honest(h) PROVE Sound(s, h)' /\ Honest(h)'
  <2>1. h \notin linked /\ handles[h] = "pending" BY <1>2, <1>7 DEF Sound, Minting
  <2>2. r.step = "reconcile" /\ h \in r.good => h \in server' BY <1>1, <1>4
  <2> QED BY <1>2, <1>4, <1>5, <2>1, <2>2 DEF Sound, Honest, Minting
<1>8. HandleInv' BY <1>2, <1>4, <1>5, <1>6, <1>7, OwnHandles
<1> QED BY <1>5, <1>8

LEMMA FailedHandles ==
    ASSUME DeskTypes, HandleInv, NEW s \in Staff, Desk!mint_failed(s) PROVE DeskTypes' /\ HandleInv'
<1>1. /\ desk[s].step = "failed" /\ desk' = [desk EXCEPT ![s] = Desk!AtRest]
      /\ handles' = [h \in Suffixes |-> IF h \in desk[s].todo THEN "failed" ELSE handles[h]]
      /\ UNCHANGED <<server, linked, doubtful, contested>>
  BY DEF Desk!mint_failed, Desk!SetStatus
<1>2. handles' \in [Suffixes -> Desk!STATUS] BY <1>1, DeskRecord DEF Desk!STATUS
<1>3. DeskTypes' /\ desk'[s] = Desk!AtRest /\ \A t \in Staff \ {s} : desk'[t] = desk[t]
  BY <1>1, <1>2, DeskMoves, DeskRecord DEF Removing
<1>4. ASSUME NEW h \in desk[s].todo, Sound(s, h), Honest(h) PROVE Sound(s, h)' /\ Honest(h)'
  <2>1. h \in Suffixes /\ handles'[h] = "failed" BY <1>1, DeskRecord
  <2> QED BY <1>1, <1>3, <1>4, <2>1, DeskRecord DEF Sound, Honest
<1>5. HandleInv' BY <1>1, <1>3, <1>4, OwnHandles, DeskRecord
<1> QED BY <1>3, <1>5

LEMMA ReconcileHandles ==
    ASSUME DeskTypes, HandleInv, NEW s \in Staff, Desk!mint_reconcile(s) PROVE DeskTypes' /\ HandleInv'
<1>1. PICK g \in desk[s].todo :
         /\ handles' = [h \in Suffixes |-> IF h \in {g} THEN Desk!Outcome(desk[s].good, g) ELSE handles[h]]
         /\ desk' = [desk EXCEPT ![s] =
              IF desk[s].todo = {g} THEN Desk!AtRest ELSE [desk[s] EXCEPT !.todo = @ \ {g}]]
  BY DEF Desk!mint_reconcile, Desk!SetStatus
<1> DEFINE r == IF desk[s].todo = {g} THEN Desk!AtRest ELSE [desk[s] EXCEPT !.todo = @ \ {g}]
<1>2. desk[s].step = "reconcile" /\ UNCHANGED <<server, linked, doubtful, contested>>
  BY DEF Desk!mint_reconcile
<1>3. /\ r \in DeskRecords /\ r.todo = desk[s].todo \ {g}
      /\ \/ r.step = "idle" /\ r.todo = {}
         \/ r.step = "reconcile" /\ r.good = desk[s].good
  <2>1. CASE desk[s].todo = {g} BY <2>1, DeskRecord
  <2>2. CASE desk[s].todo # {g} BY <1>2, <2>2, DeskRecord DEF DeskRecords
  <2> QED BY <2>1, <2>2
<1>4. /\ g \in Suffixes /\ handles' \in [Suffixes -> Desk!STATUS]
      /\ handles'[g] \in {"minted", "failed"} /\ (handles'[g] = "minted" => g \in desk[s].good)
      /\ \A h \in Suffixes \ {g} : handles'[h] = handles[h]
  <2>1. g \in Suffixes BY DeskRecord
  <2>2. handles'[g] = Desk!Outcome(desk[s].good, g) BY <1>1, <2>1
  <2> QED BY <1>1, <2>1, <2>2, DeskRecord DEF Desk!Outcome, Desk!STATUS
<1>5. desk' = [desk EXCEPT ![s] = r] BY <1>1
<1> HIDE DEF r
<1>6. DeskTypes' /\ desk'[s] = r /\ \A t \in Staff \ {s} : desk'[t] = desk[t]
  BY <1>2, <1>3, <1>4, <1>5, DeskMoves DEF Removing
<1>7. ASSUME NEW h \in desk[s].todo, Sound(s, h), Honest(h) PROVE Sound(s, h)' /\ Honest(h)'
  <2>1. h \in Suffixes /\ h \notin linked /\ handles[h] = "pending"
        /\ (h \in desk[s].good => h \in server)
    BY <1>2, <1>7, DeskRecord DEF Sound, Minting
  <2>2. CASE h = g BY <1>2, <1>3, <1>4, <1>6, <2>1, <2>2 DEF Sound, Honest
  <2>3. CASE h # g BY <1>2, <1>3, <1>4, <1>6, <2>1, <2>3 DEF Sound, Honest, Minting
  <2> QED BY <2>2, <2>3
<1>8. desk'[s].todo \subseteq desk[s].todo BY <1>3, <1>6
<1>9. HandleInv' BY <1>1, <1>2, <1>4, <1>6, <1>7, <1>8, OwnHandles
<1> QED BY <1>6, <1>9

LEMMA RemoveHandles ==
    ASSUME DeskTypes, HandleInv, NEW s \in Staff, NEW g \in Suffixes, Desk!remove(s, g)
    PROVE  DeskTypes' /\ HandleInv'
<1> DEFINE r == [Desk!AtRest EXCEPT !.step = "mark", !.todo = {g}, !.was = handles[g]]
<1>1. /\ desk[s].step = "idle" /\ handles[g] \notin {"none", "deleted"} /\ g \notin linked
      /\ desk' = [desk EXCEPT ![s] = r] /\ UNCHANGED <<handles, server, linked, doubtful>>
      /\ contested' = contested \cup {h \in {g} : \E u \in Staff \ {s} : h \in desk[u].todo}
  BY DEF Desk!remove, Desk!linked_pids, Desk!WorkedOn
<1>2. r \in DeskRecords /\ r.step = "mark" /\ r.todo = {g} /\ r.was = handles[g]
  BY DeskRecord DEF Desk!AtRest, DeskRecords, DeskSteps, Desk!STATUS
<1> HIDE DEF r
<1>3. desk' \in [Staff -> DeskRecords] /\ desk'[s] = r /\ \A t \in Staff \ {s} : desk'[t] = desk[t]
  BY <1>1, <1>2, DeskRecord
<1>4. \A t \in Staff, h \in Suffixes : h \in desk'[t].todo => handles'[h] # "none"
  BY <1>1, <1>2, <1>3 DEF DeskTypes
<1>5. DeskTypes' BY <1>1, <1>2, <1>3, <1>4 DEF DeskTypes
<1>6. ASSUME NEW h \in Suffixes, h \notin contested' PROVE Undisputed(h)'
  <2>1. Undisputed(h) BY <1>1, <1>6 DEF HandleInv
  <2>2. CASE h = g
    <3>1. \A t \in Staff \ {s} : h \notin desk[t].todo BY <1>1, <1>6, <2>2
    <3>2. Honest(h) BY <2>1 DEF Undisputed
    <3>3. Sound(s, h)' BY <1>1, <1>2, <1>3, <2>2, <3>2 DEF Sound, Honest, Minting
    <3>4. Honest(h)' BY <1>1, <3>2 DEF Honest
    <3> QED BY <1>3, <2>1, <3>1, <3>3, <3>4, Here
  <2>3. CASE h # g BY <1>1, <1>2, <1>3, <2>1, <2>3, Elsewhere
  <2> QED BY <2>2, <2>3
<1> QED BY <1>5, <1>6 DEF HandleInv

LEMMA MarkHandles ==
    ASSUME DeskTypes, HandleInv, NEW s \in Staff, Desk!remove_mark(s) PROVE DeskTypes' /\ HandleInv'
<1> DEFINE r == [desk[s] EXCEPT !.step = "delete"]
<1>1. /\ desk[s].step = "mark" /\ desk' = [desk EXCEPT ![s] = r]
      /\ handles' = [h \in Suffixes |-> IF h \in desk[s].todo THEN "deleting" ELSE handles[h]]
      /\ UNCHANGED <<server, linked, doubtful, contested>>
  BY DeskRecord DEF Desk!remove_mark, Desk!SetStatus
<1>2. /\ r \in DeskRecords /\ r.step = "delete" /\ r.todo = desk[s].todo /\ r.was = desk[s].was
      /\ handles' \in [Suffixes -> Desk!STATUS]
  BY <1>1, DeskRecord DEF DeskRecords, DeskSteps, Desk!STATUS
<1>3. r.was \notin {"none", "deleted"} BY <1>1, <1>2 DEF DeskTypes, Removing
<1> HIDE DEF r
<1>4. DeskTypes' /\ desk'[s] = r /\ \A t \in Staff \ {s} : desk'[t] = desk[t]
  BY <1>1, <1>2, <1>3, DeskMoves
<1>5. ASSUME NEW h \in desk[s].todo, Sound(s, h), Honest(h) PROVE Sound(s, h)' /\ Honest(h)'
  <2>1. h \in Suffixes /\ handles'[h] = "deleting" BY <1>1, DeskRecord
  <2> QED BY <1>1, <1>2, <1>4, <1>5, <2>1 DEF Sound, Honest, Minting
<1>6. HandleInv' BY <1>1, <1>2, <1>4, <1>5, OwnHandles
<1> QED BY <1>4, <1>6

LEMMA RemoveWriteHandles ==
    ASSUME DeskTypes, HandleInv, NEW s \in Staff, Desk!remove_write(s) PROVE DeskTypes' /\ HandleInv'
<1>1. /\ desk[s].step = "delete" /\ UNCHANGED <<handles, linked, contested>>
      /\ \/ /\ server' = server \ desk[s].todo /\ desk' = [desk EXCEPT ![s].step = "deleted"]
            /\ doubtful' = doubtful \ desk[s].todo
         \/ /\ desk' = [desk EXCEPT ![s].step = "restore"]
            /\ \/ server' = server \ desk[s].todo /\ doubtful' = doubtful \cup desk[s].todo
               \/ UNCHANGED <<server, doubtful>>
  BY DEF Desk!remove_write, Desk!DuHandleTool
<1>2. PICK k \in {"deleted", "restore"} : desk' = [desk EXCEPT ![s].step = k] BY <1>1
<1> DEFINE r == [desk[s] EXCEPT !.step = k]
<1>3. desk' = [desk EXCEPT ![s] = r] BY <1>2, DeskRecord
<1>4. r \in DeskRecords /\ r.step = k /\ r.todo = desk[s].todo /\ r.was = desk[s].was
  BY DeskRecord DEF DeskRecords, DeskSteps
<1>5. r.was \notin {"none", "deleted"} BY <1>1, <1>4 DEF DeskTypes, Removing
<1> HIDE DEF r
<1>6. DeskTypes' /\ desk'[s] = r /\ \A t \in Staff \ {s} : desk'[t] = desk[t]
  BY <1>1, <1>3, <1>4, <1>5, DeskMoves, DeskRecord
<1>7. desk'[s].step = k BY <1>4, <1>6
<1>8. \/ server' = server \ desk[s].todo /\ k = "deleted" /\ doubtful' = doubtful \ desk[s].todo
      \/ server' = server \ desk[s].todo /\ k = "restore" /\ doubtful' = doubtful \cup desk[s].todo
      \/ k = "restore" /\ UNCHANGED <<server, doubtful>>
  <2>1. ASSUME NEW n \in {"deleted", "restore"}, desk' = [desk EXCEPT ![s].step = n] PROVE n = k
    <3>1. desk'[s] = [desk[s] EXCEPT !.step = n] BY <2>1, DeskRecord
    <3>2. desk'[s].step = n BY <3>1, DeskRecord DEF DeskRecords
    <3> QED BY <1>7, <3>2
  <2> QED BY <1>1, <2>1
<1>9. ASSUME NEW h \in desk[s].todo, Sound(s, h), Honest(h) PROVE Sound(s, h)' /\ Honest(h)'
  <2>1. h \in Suffixes /\ handles'[h] = "deleting" /\ h \notin linked
        /\ (r.was = "minted" /\ h \notin doubtful => h \in server)
    BY <1>1, <1>4, <1>9, DeskRecord DEF Sound
  <2> QED BY <1>1, <1>4, <1>6, <1>8, <2>1 DEF Sound, Honest, Minting
<1>10. \A h \in Suffixes : h \notin desk[s].todo =>
          (h \in server' <=> h \in server) /\ (h \in doubtful' <=> h \in doubtful)
  BY <1>8
<1>11. HandleInv' BY <1>1, <1>4, <1>6, <1>9, <1>10, OwnHandles
<1> QED BY <1>6, <1>11

LEMMA FinishHandles ==
    ASSUME DeskTypes, HandleInv, NEW s \in Staff, Desk!remove_finish(s) PROVE DeskTypes' /\ HandleInv'
<1> DEFINE status == IF desk[s].step = "deleted" THEN "deleted" ELSE desk[s].was
<1>1. /\ desk[s].step \in {"deleted", "restore"} /\ desk' = [desk EXCEPT ![s] = Desk!AtRest]
      /\ handles' = [h \in Suffixes |-> IF h \in desk[s].todo THEN status ELSE handles[h]]
      /\ UNCHANGED <<server, linked, doubtful, contested>>
  BY DEF Desk!remove_finish, Desk!SetStatus, Desk!Restored
<1>2. /\ status \in Desk!STATUS \ {"none"}
      /\ desk[s].step = "deleted" => status = "deleted"
      /\ desk[s].step = "restore" => status = desk[s].was
  BY <1>1, DeskRecord DEF DeskTypes, Removing, Desk!STATUS
<1> HIDE DEF status
<1>3. handles' \in [Suffixes -> Desk!STATUS] BY <1>1, <1>2, DeskRecord
<1>4. \A h \in Suffixes : handles[h] # "none" => handles'[h] # "none" BY <1>1, <1>2
<1>5. DeskTypes' /\ desk'[s] = Desk!AtRest /\ \A t \in Staff \ {s} : desk'[t] = desk[t]
  BY <1>1, <1>3, <1>4, DeskMoves, DeskRecord DEF Removing
<1>6. ASSUME NEW h \in desk[s].todo, Sound(s, h), Honest(h) PROVE Sound(s, h)' /\ Honest(h)'
  <2>1. h \in Suffixes /\ handles'[h] = status BY <1>1, DeskRecord
  <2>2. h \notin desk'[s].todo BY <1>5, DeskRecord
  <2>3. Sound(s, h)' BY <2>2 DEF Sound
  <2>4. h \notin linked BY <1>6 DEF Sound
  <2>5. CASE desk[s].step = "deleted"
    <3>1. status = "deleted" /\ h \notin server BY <1>2, <1>6, <2>5 DEF Sound
    <3> QED BY <1>1, <2>1, <2>3, <2>4, <3>1 DEF Honest
  <2>6. CASE desk[s].step = "restore"
    <3>1. /\ status = desk[s].was /\ desk[s].was # "deleted"
          /\ status = "minted" /\ h \notin doubtful => h \in server
      BY <1>2, <1>6, <2>6 DEF Sound, DeskTypes, Removing
    <3> QED BY <1>1, <2>1, <2>3, <2>4, <3>1 DEF Honest
  <2> QED BY <1>1, <2>5, <2>6
<1>7. HandleInv' BY <1>1, <1>5, <1>6, OwnHandles, DeskRecord
<1> QED BY <1>5, <1>7

LEMMA AttachHandles ==
    ASSUME DeskTypes, HandleInv, NEW g \in Suffixes, Desk!attach(g) PROVE DeskTypes' /\ HandleInv'
<1>1. /\ handles[g] = "minted" /\ linked' = linked \cup {g}
      /\ contested' = contested \cup {h \in {g} : \E s \in Staff : h \in desk[s].todo}
      /\ UNCHANGED <<handles, server, desk, doubtful>>
  BY DEF Desk!attach
<1>2. \A h \in Suffixes : h \in linked' => handles'[h] # "none" BY <1>1 DEF DeskTypes
<1>3. DeskTypes' BY <1>1, <1>2 DEF DeskTypes
<1>4. ASSUME NEW h \in Suffixes, h \notin contested' PROVE Undisputed(h)'
  <2>1. Undisputed(h) BY <1>1, <1>4 DEF HandleInv
  <2>2. CASE h = g
    <3>1. \A s \in Staff : h \notin desk[s].todo BY <1>1, <1>4, <2>2
    <3> QED BY <1>1, <2>1, <2>2, <3>1 DEF Undisputed, Sound, Honest
  <2>3. CASE h # g BY <1>1, <2>1, <2>3, Elsewhere
  <2> QED BY <2>2, <2>3
<1> QED BY <1>3, <1>4 DEF HandleInv

LEMMA CutHandles ==
    ASSUME DeskTypes, HandleInv, Desk!desks_cut PROVE DeskTypes' /\ HandleInv'
<1>1. /\ desk' = [s \in Staff |-> Desk!AtRest] /\ UNCHANGED <<handles, server, linked, doubtful, contested>>
  BY DEF Desk!desks_cut
<1>2. Desk!AtRest \in DeskRecords /\ Desk!AtRest.step = "idle" /\ Desk!AtRest.todo = {}
  BY DEF Desk!AtRest, DeskRecords, DeskSteps, Desk!STATUS
<1>3. DeskTypes' BY <1>1, <1>2 DEF DeskTypes, Removing
<1>4. \A h \in Suffixes : Honest(h)' <=> Honest(h) BY <1>1 DEF Honest
<1>5. HandleInv' BY <1>1, <1>2, <1>4 DEF HandleInv, Undisputed, Sound
<1> QED BY <1>3, <1>5

LEMMA StepHandles ==
    ASSUME DeskTypes, HandleInv, [CatalogueNext]_catalogueVars PROVE DeskTypes' /\ HandleInv'
<1>1. CASE UNCHANGED deskVars
  <2>1. DeskTypes' BY <1>1 DEF deskVars, DeskTypes
  <2>2. HandleInv' BY <1>1 DEF deskVars, HandleInv, Undisputed, Sound, Honest
  <2> QED BY <2>1, <2>2
<1>2. ASSUME NEW s \in Staff, Desk!HandleSteps(s) PROVE DeskTypes' /\ HandleInv'
  BY <1>2, MintHandles, BatchHandles, FailedHandles, ReconcileHandles, RemoveHandles, MarkHandles,
     RemoveWriteHandles, FinishHandles DEF Desk!HandleSteps
<1> QED BY <1>1, <1>2, AttachHandles, CutHandles DEF CatalogueNext, catalogueVars

-----------------------------------------------------------------------------
(* The theorems *)

CatalogueInv == RepositoryInv /\ DeskTypes /\ HandleInv

LEMMA StepInv == ASSUME CatalogueInv, [CatalogueNext]_catalogueVars PROVE CatalogueInv'
BY StepEffect, StepRepository, StepHandles DEF CatalogueInv, RepositoryInv

\* The inductive invariant: types, crossings, and what each open request may still rely on.
THEOREM CatalogueInvariant == CatalogueSpec => []CatalogueInv
<1>1. CatalogueInit => CatalogueInv BY InitRepository, InitHandles DEF CatalogueInit, CatalogueInv
<1> QED BY <1>1, StepInv, PTL DEF CatalogueSpec

\* Rows and requests keep their types: a parent is the root or a collection that exists, a
\* request to create has a pid of its own (src/repository/model.js, src/collections/model.js).
THEOREM CatalogueTypes == CatalogueSpec => []TypeInv
<1>1. CatalogueInv => TypeInv BY DEF CatalogueInv, RepositoryInv
<1> QED BY <1>1, CatalogueInvariant, PTL

\* The collections form a forest as long as no two moves overlapped
\* (may_move_under and move_collection, src/collections/model.js:390).
THEOREM CollectionsFormAForest == CatalogueSpec => []NoCycle
<1>1. CatalogueInv => NoCycle
  BY DEF CatalogueInv, RepositoryInv, ForestInv, Acyclic, NoCycle, Collections, IsCollection
<1> QED BY <1>1, CatalogueInvariant, PTL

\* No live row is left under a deleted collection, but for the excepted windows, and an AIP is
\* asked to be deleted only for a row that goes (delete_collection, src/collections/model.js:317;
\* soft_delete, src/repository/model.js:298).
THEOREM DeletionsAreWhole == CatalogueSpec => []NothingHalfDeleted
<1>1. CatalogueInv => NothingHalfDeleted
  BY DEF CatalogueInv, RepositoryInv, StrandedInv, Emptying, NothingHalfDeleted, NoStranded
<1> QED BY <1>1, CatalogueInvariant, PTL

\* A row becomes public only under a public collection, by either route and outside the
\* excepted windows (set_publish_state, src/repository/model.js:232; set_members_publish_state,
\* src/collections/model.js:509).
THEOREM PublicRowsArePlaced == CatalogueSpec => PublicBelowPublic
<1>1. CatalogueInv /\ [CatalogueNext]_catalogueVars =>
         [crossed \cap {{"publish", "unpublish"}, {"publish", "add"}, {"publish", "move"},
                        {"members", "unpublish"}} = {} =>
            \A p \in Pids : ~rows[p].published /\ rows'[p].published =>
                ~IsCollection(rows[p].parent) \/ rows[rows[p].parent].published]_rows
  BY PublicStep, StepEffect DEF CatalogueInv, RepositoryInv, Hiding
<1> QED BY <1>1, CatalogueInvariant, PTL DEF CatalogueSpec, PublicBelowPublic

\* A handle recorded as minted resolves and one recorded as deleted does not, and one that an
\* object uses resolves, unless two administrators worked on it at once or the answer to a
\* delete was lost (mint and remove, src/handles/model.js:205 and :304).
THEOREM HandleRecordsAreTrue == CatalogueSpec => []RecordHonest
<1>1. CatalogueInv => RecordHonest
  BY DEF CatalogueInv, RepositoryInv, HandleInv, Undisputed, Honest, RecordHonest, Desk!RecordHonest
<1> QED BY <1>1, CatalogueInvariant, PTL

-----------------------------------------------------------------------------
(* The invariant *)

TickSteps == {"idle", "ensure", "claim", "bulk", "requeue", "mark"}

\* A tick holds rows from its claim to its last write.
TickTypes ==
    /\ DOMAIN ticks = Ticks
    /\ \A t \in Ticks :
         /\ ticks[t] = [step |-> ticks[t].step, ops |-> ticks[t].ops, failed |-> ticks[t].failed]
         /\ Held(t) \subseteq Pids /\ ticks[t].failed \subseteq Held(t)
         /\ \A p \in Held(t) : ticks[t].ops[p].here \in BOOLEAN
         /\ ticks[t].step \in {"idle", "ensure", "claim"} => Held(t) = {}
IndexTypes ==
    /\ TickTypes
    /\ DOMAIN es = Pids /\ \A p \in Pids : es[p].here => present
    /\ rejected \in [Pids -> Nat]

\* One tick at most holds a row that is not counted among the doubled ones.
HeldOnce(p) == \A t, u \in Ticks : p \in Held(t) /\ p \in Held(u) => t = u

\* Between delete_index and the reset, the rows that belong in the index are out of it.
Missing(p) == lost /\ Eligible(rows[p])

\* What the index holds for a clean row that no tick holds, and what a tick that
\* holds it is about to write or record.
RestingTrue(p) ==
    Settled(p) /\ p \notin dropped => Truthful(p) \/ Missing(p)
CarriedTrue(p, t) ==
    p \in Held(t) /\ ~rows[p].updated =>
        /\ ticks[t].step = "bulk" => ticks[t].ops[p] = build_op(rows[p])
        /\ ticks[t].step = "mark" /\ p \notin ticks[t].failed =>
              /\ ticks[t].ops[p] = build_op(rows[p])
              /\ es[p] = ticks[t].ops[p] \/ Missing(p)

\* The rejections of a row cover its recorded attempts and the one not recorded yet.
Awaiting(p) == \E t \in Ticks : ticks[t].step = "mark" /\ p \in ticks[t].failed
CountsCover(p) ==
    /\ rejected[p] >= rows[p].attempts
    /\ Awaiting(p) => rejected[p] > rows[p].attempts
ParkedIsSpent(p) == rows[p].error => rows[p].attempts >= MaxAttempts

RowInv(p) ==
    /\ HeldOnce(p) /\ RestingTrue(p) /\ \A t \in Ticks : CarriedTrue(p, t)
    /\ CountsCover(p)
IndexInv ==
    /\ TypeInv /\ IndexTypes
    /\ \A p \in Pids : ParkedIsSpent(p)
    /\ \A p \in Pids : p \notin doubled => RowInv(p)

-----------------------------------------------------------------------------
(* Steps and claims *)

LEMMA IndexNumbers ==
    /\ NumTicks \in Nat /\ BatchSize \in Nat \ {0} /\ MaxAttempts \in Nat \ {0}
    /\ MaxFaults \in Nat /\ MaxOps \in Nat
BY IndexAssumption, RepositoryAssumption

LEMMA InitIndex == ASSUME Init PROVE IndexInv
<1>1. TypeInv BY InitTypes DEF Init
<1>2. /\ es = [p \in Pids |-> build_op(rows[p])] /\ present = TRUE
      /\ ticks = [t \in Ticks |-> IdleTick] /\ rejected = [p \in Pids |-> 0]
  BY DEF Init, IndexInit
<1>3. /\ IdleTick.step = "idle" /\ DOMAIN IdleTick.ops = {} /\ IdleTick.failed = {}
      /\ IdleTick = [step |-> IdleTick.step, ops |-> IdleTick.ops, failed |-> IdleTick.failed]
  BY DEF IdleTick
<1>4. IndexTypes BY <1>2, <1>3 DEF IndexTypes, TickTypes, Held
<1>5. ASSUME NEW p \in Pids
      PROVE  /\ rows[p].attempts = 0 /\ ~rows[p].error
             /\ rows[p].indexed = Eligible(rows[p])
  <2>1. PICK parent \in [Pids -> 0..NumCollections], published \in [Pids -> BOOLEAN] :
           rows = [q \in Pids |->
              IF q <= NumCollections THEN Row("collection", parent[q], q, published[q])
              ELSE IF q <= NumCollections + NumObjects
                   THEN Row("object", parent[q], NoUri, published[q])
              ELSE NoRow]
    BY DEF Init, RepositoryInit
  <2>2. ASSUME NEW kind, NEW q, NEW uri, NEW b \in BOOLEAN
        PROVE  /\ Row(kind, q, uri, b).attempts = 0 /\ ~Row(kind, q, uri, b).error
               /\ Row(kind, q, uri, b).indexed = b /\ Row(kind, q, uri, b).published = b
               /\ Row(kind, q, uri, b).active
    BY DEF Row, NoRow
  <2>3. /\ NoRow.attempts = 0 /\ ~NoRow.error /\ NoRow.indexed = FALSE /\ ~NoRow.active
    BY DEF NoRow
  <2>4. published[p] \in BOOLEAN OBVIOUS
  <2>5. CASE rows[p] = NoRow BY <2>3, <2>5 DEF Eligible
  <2>6. CASE rows[p] # NoRow
    <3>1. PICK kind, q, uri : rows[p] = Row(kind, q, uri, published[p]) BY <2>1, <2>6
    <3> QED BY <2>2, <2>4, <3>1 DEF Eligible
  <2> QED BY <2>5, <2>6
<1>6. ASSUME NEW p \in Pids PROVE RowInv(p)
  <2>1. \A t \in Ticks : Held(t) = {} /\ ticks[t].step = "idle" BY <1>2, <1>3 DEF Held
  <2>2. Truthful(p)
    <3>1. es[p] = build_op(rows[p]) BY <1>2
    <3>2. build_op(rows[p]).here = Eligible(rows[p]) BY DEF build_op, Doc, NoDoc, Eligible
    <3> QED BY <1>5, <3>1, <3>2 DEF Truthful
  <2>3. CountsCover(p) BY <1>2, <1>5, <2>1 DEF CountsCover, Awaiting
  <2> QED BY <2>1, <2>2, <2>3 DEF RowInv, HeldOnce, RestingTrue, CarriedTrue
<1> QED BY <1>1, <1>4, <1>5, <1>6 DEF IndexInv, ParkedIsSpent

\* A tick that moves to another step keeps its rows.
LEMMA Stepped ==
    ASSUME TickTypes, NEW t \in Ticks, NEW w, Step(t, w)
    PROVE  /\ DOMAIN ticks' = Ticks
           /\ ticks'[t] = [step |-> w, ops |-> ticks[t].ops, failed |-> ticks[t].failed]
           /\ \A u \in Ticks \ {t} : ticks'[u] = ticks[u]
BY DEF Step, TickTypes

\* The indexer's marks on the rows are its own columns.
LEMMA MarkTypes ==
    ASSUME TypeInv, UNCHANGED <<staff, aipAsked, byObject>>, ops' \in Nat, faults' \in Nat,
           rows' \in [Pids -> RowRecords],
           \A p \in Pids : /\ rows'[p].kind = rows[p].kind /\ rows'[p].parent = rows[p].parent
                           /\ rows'[p].active = rows[p].active
                           /\ rows'[p].published = rows[p].published
    PROVE  TypeInv'
<1>1. RowTypes' BY DEF TypeInv, RowTypes, Exists, IsCollection
<1>2. StaffTypes'
  <2>1. \A s \in Staff : staff[s].pids \in SUBSET Pids BY DEF TypeInv, StaffTypes, StaffRecords
  <2>2. \A p \in Pids : Exists(p)' <=> Exists(p) BY DEF Exists
  <2>3. \A p : IsCollection(p)' <=> IsCollection(p) BY DEF IsCollection
  <2>4. \A s, p : Creates(s, p)' <=> Creates(s, p) BY DEF Creates
  <2> QED BY <2>1, <2>2, <2>3, <2>4 DEF TypeInv, StaffTypes
<1>3. WorldTypes' BY DEF TypeInv, WorldTypes, Exists
<1> QED BY <1>1, <1>2, <1>3 DEF TypeInv

\* No index write, no claim: a staff step changes a row only with its dirty mark, and a tick
\* that holds nothing moves on.
TicksRest ==
    \A t \in Ticks :
        /\ ticks'[t].ops = ticks[t].ops /\ ticks'[t].failed = ticks[t].failed
        /\ ticks'[t].step = ticks[t].step \/ (Held(t) = {} /\ ticks'[t].step \in {"idle", "ensure", "claim"})
        /\ ticks'[t] = [step |-> ticks'[t].step, ops |-> ticks'[t].ops, failed |-> ticks'[t].failed]
Quiet ==
    /\ DOMAIN ticks' = Ticks /\ TicksRest
    /\ \A p \in Pids : rows'[p] # rows[p] => Touched(rows[p], rows'[p])
    /\ present => present'
    /\ UNCHANGED <<es, rejected, dropped, doubled, lost>>

LEMMA QuietKeeps == ASSUME IndexInv, TypeInv', Quiet PROVE IndexInv'
<1>1. IndexTypes'
  BY DEF IndexInv, IndexTypes, TickTypes, Quiet, TicksRest, Held
<1>2. rows \in [Pids -> RowRecords] /\ rows' \in [Pids -> RowRecords]
  BY DEF IndexInv, TypeInv, RowTypes
<1>3. ASSUME NEW p \in Pids
      PROVE  /\ rows'[p] = rows[p] \/ Touched(rows[p], rows'[p])
             /\ rows[p].attempts \in Nat /\ rows'[p].attempts \in Nat /\ rejected[p] \in Nat
  BY <1>2 DEF Quiet, RowRecords, IndexInv, IndexTypes
<1>4. ASSUME NEW p \in Pids PROVE ParkedIsSpent(p)'
  BY <1>3, IndexNumbers DEF IndexInv, ParkedIsSpent, Touched
<1>5. ASSUME NEW p \in Pids, p \notin doubled' PROVE RowInv(p)'
  <2>1. RowInv(p) BY <1>5 DEF IndexInv, Quiet
  <2>2. \A t \in Ticks : Held(t)' = Held(t) BY DEF Quiet, TicksRest, Held
  <2>3. HeldOnce(p)' BY <2>1, <2>2 DEF RowInv, HeldOnce
  <2>4. rows'[p] = rows[p] \/ rows'[p].updated BY <1>3 DEF Touched
  <2>5. RestingTrue(p)'
    BY <2>1, <2>2, <2>4 DEF RowInv, RestingTrue, Settled, Exists, Truthful, Missing, Quiet
  <2>6. \A t \in Ticks : CarriedTrue(p, t)'
    BY <2>1, <2>2, <2>4 DEF RowInv, CarriedTrue, Missing, Quiet, TicksRest
  <2>7. Awaiting(p)' => Awaiting(p) BY DEF Awaiting, Quiet, TicksRest
  <2>8. CountsCover(p)'
    BY <1>3, <2>1, <2>7 DEF RowInv, CountsCover, Touched, Quiet
  <2> QED BY <2>3, <2>5, <2>6, <2>8 DEF RowInv
<1> QED BY <1>1, <1>4, <1>5 DEF IndexInv

-----------------------------------------------------------------------------
(* The steps of a tick *)

LEMMA Claimed ==
    ASSUME NEW r \in RowRecords
    PROVE  LET q == [r EXCEPT !.updated = FALSE] IN
           /\ q \in RowRecords /\ q.kind = r.kind /\ q.parent = r.parent /\ q.active = r.active
           /\ q.published = r.published /\ q.attempts = r.attempts /\ q.error = r.error
           /\ q.ver = r.ver
BY DEF RowRecords

\* A tick that holds nothing moves on.
LEMMA SteppedQuiet ==
    ASSUME IndexInv, NEW t \in Ticks, NEW w \in {"idle", "ensure", "claim"}, Step(t, w),
           ticks[t].step \in {"idle", "ensure", "claim"}, present => present',
           UNCHANGED <<rows, es, rejected, dropped, doubled, lost>>
    PROVE  Quiet
<1>1. TickTypes BY DEF IndexInv, IndexTypes
<1>2. Held(t) = {} BY <1>1 DEF TickTypes
<1>3. /\ DOMAIN ticks' = Ticks /\ \A u \in Ticks \ {t} : ticks'[u] = ticks[u]
      /\ ticks'[t] = [step |-> w, ops |-> ticks[t].ops, failed |-> ticks[t].failed]
  BY <1>1, Stepped
<1>4. /\ ticks'[t].step = w /\ ticks'[t].ops = ticks[t].ops /\ ticks'[t].failed = ticks[t].failed
  BY <1>3
<1>5. \A u \in Ticks : u # t =>
         ticks'[u] = [step |-> ticks'[u].step, ops |-> ticks'[u].ops, failed |-> ticks'[u].failed]
  BY <1>1, <1>3 DEF TickTypes
<1>6. TicksRest BY <1>2, <1>3, <1>4, <1>5 DEF TicksRest
<1> QED BY <1>3, <1>6 DEF Quiet

LEMMA TickKeeps == ASSUME IndexInv, NEW t \in Ticks, tick(t) PROVE IndexInv'
<1>1. UNCHANGED <<repoVars, es, present, ensured, cooldown, admin, rejected, dropped, doubled, lost>>
      /\ ticks[t].step = "idle"
  BY DEF tick
<1>2. PICK w \in {"ensure", "claim"} : Step(t, w) BY DEF tick
<1>3. TypeInv' BY <1>1 DEF IndexInv, TypeInv, RowTypes, StaffTypes, WorldTypes, Exists, IsCollection,
                           Creates, repoVars
<1>4. Quiet BY <1>1, <1>2, SteppedQuiet DEF repoVars
<1> QED BY <1>3, <1>4, QuietKeeps

LEMMA EnsureKeeps == ASSUME IndexInv, NEW t \in Ticks, ensure_index(t) PROVE IndexInv'
<1>1. UNCHANGED <<rows, staff, aipAsked, crossed, byObject, ops,
                   es, admin, rejected, dropped, doubled, lost>>
      /\ ticks[t].step = "ensure" /\ faults' \in {faults, faults + 1} /\ (present => present')
  BY DEF ensure_index
<1>2. PICK w \in {"idle", "claim"} : Step(t, w) BY DEF ensure_index
<1>3. TypeInv' BY <1>1, MarkTypes DEF IndexInv, TypeInv, RowTypes, WorldTypes
<1>4. Quiet BY <1>1, <1>2, SteppedQuiet
<1> QED BY <1>3, <1>4, QuietKeeps

LEMMA ClaimKeeps == ASSUME IndexInv, NEW t \in Ticks, claim_dirty(t) PROVE IndexInv'
<1> DEFINE claimed == [step |-> "bulk", failed |-> {},
                       ops |-> [p \in Candidates |-> build_op(rows[p])]]
<1>1. /\ UNCHANGED <<staff, aipAsked, crossed, byObject, ops, faults,
                   es, present, ensured, cooldown, admin, rejected, lost>>
      /\ ticks[t].step = "claim" /\ Held(t) = {} /\ ticks[t].failed = {}
  BY DEF claim_dirty, IndexInv, IndexTypes, TickTypes
<1>2. /\ rows' = [p \in Pids |->
           IF p \in Candidates THEN [rows[p] EXCEPT !.updated = FALSE] ELSE rows[p]]
      /\ doubled' = doubled \cup (Candidates \cap HeldByOther(t))
      /\ dropped' = dropped \ Candidates
  BY DEF claim_dirty
<1>3. Candidates \subseteq Pids BY DEF Candidates, DirtyRows
<1>4. rows \in [Pids -> RowRecords] BY DEF IndexInv, TypeInv, RowTypes
<1>5. ASSUME NEW p \in Pids
      PROVE  /\ rows'[p] \in RowRecords
             /\ rows'[p].kind = rows[p].kind /\ rows'[p].parent = rows[p].parent
             /\ rows'[p].active = rows[p].active /\ rows'[p].published = rows[p].published
             /\ rows'[p].attempts = rows[p].attempts /\ rows'[p].error = rows[p].error
             /\ rows'[p].ver = rows[p].ver
             /\ p \notin Candidates => rows'[p] = rows[p]
  <2>1. rows[p] \in RowRecords BY <1>4
  <2> QED BY <1>2, <2>1, Claimed
<1>6. TypeInv' BY <1>1, <1>2, <1>5, MarkTypes DEF IndexInv, TypeInv, WorldTypes
<1>7. CASE Candidates = {}
  <2>1. Step(t, "idle") BY <1>7 DEF claim_dirty
  <2>2. rows' = rows /\ doubled' = doubled /\ dropped' = dropped
    BY <1>2, <1>4, <1>7
  <2>3. Quiet BY <1>1, <2>1, <2>2, SteppedQuiet
  <2> QED BY <1>6, <2>3, QuietKeeps
<1>8. CASE Candidates # {}
  <2>1. ticks' = [ticks EXCEPT ![t] = claimed] BY <1>8 DEF claim_dirty
  <2>2. /\ DOMAIN ticks' = Ticks /\ ticks'[t] = claimed
        /\ \A u \in Ticks \ {t} : ticks'[u] = ticks[u]
    BY <2>1 DEF IndexInv, IndexTypes, TickTypes
  <2>3. /\ ticks'[t].step = "bulk" /\ ticks'[t].failed = {} /\ DOMAIN ticks'[t].ops = Candidates
        /\ \A p \in Candidates : ticks'[t].ops[p] = build_op(rows[p])
        /\ ticks'[t] = [step |-> ticks'[t].step, ops |-> ticks'[t].ops, failed |-> ticks'[t].failed]
    BY <2>2
  <2> HIDE DEF claimed
  <2>4. /\ Held(t)' = Candidates /\ \A u \in Ticks \ {t} : Held(u)' = Held(u)
    BY <2>2, <2>3 DEF Held
  <2>5. IndexTypes'
    <3>1. \A r : build_op(r).here \in BOOLEAN BY DEF build_op, Doc, NoDoc
    <3>2. \A p \in Candidates : ticks'[t].ops[p].here \in BOOLEAN BY <2>3, <3>1
    <3>3. TickTypes'
      BY <1>1, <1>3, <2>2, <2>3, <2>4, <3>2 DEF IndexInv, IndexTypes, TickTypes
    <3> QED BY <1>1, <3>3 DEF IndexInv, IndexTypes
  <2>6. ASSUME NEW p \in Pids PROVE ParkedIsSpent(p)' BY <1>5 DEF IndexInv, ParkedIsSpent
  <2>7. ASSUME NEW p \in Pids, p \notin doubled' PROVE RowInv(p)'
    <3>1. RowInv(p) BY <1>2, <2>7 DEF IndexInv
    <3>2. p \in Candidates => \A u \in Ticks \ {t} : p \notin Held(u)
      BY <1>2, <2>7 DEF HeldByOther
    <3>3. HeldOnce(p)' BY <1>1, <2>4, <3>1, <3>2 DEF RowInv, HeldOnce
    <3>4. build_op(rows'[p]) = build_op(rows[p]) /\ (Eligible(rows'[p]) <=> Eligible(rows[p]))
      BY <1>5 DEF build_op, Doc, Eligible
    <3>5. RestingTrue(p)'
      <4>1. CASE p \in Candidates BY <4>1, <2>4 DEF RestingTrue, Settled
      <4>2. CASE p \notin Candidates
        BY <1>1, <1>2, <1>5, <2>4, <3>1, <4>2
        DEF RowInv, RestingTrue, Settled, Exists, Truthful, Missing
      <4> QED BY <4>1, <4>2
    <3>6. ASSUME NEW u \in Ticks PROVE CarriedTrue(p, u)'
      <4>1. CASE u = t BY <2>3, <2>4, <3>4, <4>1 DEF CarriedTrue
      <4>2. CASE u # t
        <5>1. ticks'[u] = ticks[u] /\ Held(u)' = Held(u) BY <2>2, <2>4, <4>2
        <5>2. p \in Held(u) => p \notin Candidates BY <3>2, <4>2
        <5> QED BY <1>1, <1>5, <3>1, <5>1, <5>2 DEF RowInv, CarriedTrue, Missing
      <4> QED BY <4>1, <4>2
    <3>7. Awaiting(p)' => Awaiting(p) BY <2>2, <2>3 DEF Awaiting
    <3>8. CountsCover(p)' BY <1>1, <1>5, <3>1, <3>7 DEF RowInv, CountsCover
    <3> QED BY <3>3, <3>5, <3>6, <3>8 DEF RowInv
  <2> QED BY <1>6, <2>5, <2>6, <2>7 DEF IndexInv
<1> QED BY <1>7, <1>8

\* An index write of S, and a tick that then holds the same rows in another step.
LEMMA Written ==
    ASSUME IndexInv, NEW t \in Ticks, NEW S \in SUBSET Held(t), Writes_es(t, S)
    PROVE  /\ DOMAIN es' = Pids
           /\ \A p \in Pids : es'[p] = IF p \in S THEN ticks[t].ops[p] ELSE es[p]
BY DEF Writes_es

LEMMA BulkKeeps == ASSUME IndexInv, NEW t \in Ticks, bulk_write(t) PROVE IndexInv'
<1>1. /\ UNCHANGED <<rows, staff, aipAsked, crossed, byObject, ops,
                   ensured, cooldown, admin, dropped, doubled, lost>>
      /\ ticks[t].step = "bulk" /\ present' = TRUE
  BY DEF bulk_write
<1>2. /\ TickTypes /\ Held(t) \subseteq Pids /\ rejected \in [Pids -> Nat]
      /\ rows \in [Pids -> RowRecords] /\ faults \in Nat
  BY DEF IndexInv, IndexTypes, TickTypes, TypeInv, RowTypes, WorldTypes
<1>3. PICK S \in SUBSET Held(t), bad \in SUBSET Held(t), w \in {"mark", "requeue"} :
         /\ Writes_es(t, S) /\ (w = "mark" => S = Held(t) \ bad)
         /\ DOMAIN ticks' = Ticks /\ \A u \in Ticks \ {t} : ticks'[u] = ticks[u]
         /\ ticks'[t] = [step |-> w, ops |-> ticks[t].ops,
                         failed |-> IF w = "mark" THEN bad ELSE ticks[t].failed]
         /\ rejected' = [p \in Pids |-> IF w = "mark" /\ p \in bad THEN rejected[p] + 1 ELSE rejected[p]]
         /\ faults' \in {faults, faults + 1}
  <2>1. ticks[t] = [step |-> ticks[t].step, ops |-> ticks[t].ops, failed |-> ticks[t].failed]
    BY <1>2 DEF TickTypes
  <2>2. CASE \E bad \in Rejections(t) :
            /\ Writes_es(t, Held(t) \ bad)
            /\ rejected' = [p \in Pids |-> IF p \in bad THEN rejected[p] + 1 ELSE rejected[p]]
            /\ faults' = IF bad = {} THEN faults ELSE faults + 1
            /\ ticks' = [ticks EXCEPT ![t].step = "mark", ![t].failed = bad]
    <3>1. PICK bad \in Rejections(t) :
            /\ Writes_es(t, Held(t) \ bad)
            /\ rejected' = [p \in Pids |-> IF p \in bad THEN rejected[p] + 1 ELSE rejected[p]]
            /\ faults' = IF bad = {} THEN faults ELSE faults + 1
            /\ ticks' = [ticks EXCEPT ![t].step = "mark", ![t].failed = bad]
      BY <2>2
    <3>2. bad \in SUBSET Held(t) BY DEF Rejections
    <3> DEFINE mid == [ticks EXCEPT ![t].step = "mark"]
    <3>3. /\ DOMAIN mid = Ticks /\ \A u \in Ticks \ {t} : mid[u] = ticks[u]
          /\ mid[t] = [step |-> "mark", ops |-> ticks[t].ops, failed |-> ticks[t].failed]
      BY <2>1, <1>2 DEF TickTypes
    <3>4. ticks' = [mid EXCEPT ![t].failed = bad] BY <3>1
    <3> HIDE DEF mid
    <3>5. /\ DOMAIN ticks' = Ticks /\ \A u \in Ticks \ {t} : ticks'[u] = ticks[u]
          /\ ticks'[t] = [step |-> "mark", ops |-> ticks[t].ops, failed |-> bad]
      BY <3>3, <3>4
    <3> QED BY <3>1, <3>2, <3>5
  <2>3. CASE /\ faults' = faults + 1 /\ Step(t, "requeue") /\ rejected' = rejected
             /\ \E arrived \in {Held(t), {}} : Writes_es(t, arrived)
    <3>1. PICK S \in SUBSET Held(t) : Writes_es(t, S) BY <2>3
    <3>2. rejected' = [p \in Pids |-> rejected[p]] BY <1>2, <2>3
    <3> QED BY <1>2, <2>3, <3>1, <3>2, Stepped
  <2> QED BY <2>2, <2>3 DEF bulk_write
<1>4. /\ DOMAIN ticks' = Ticks /\ \A u \in Ticks \ {t} : ticks'[u] = ticks[u]
      /\ ticks'[t].step = w /\ ticks'[t].ops = ticks[t].ops
      /\ ticks'[t].failed = IF w = "mark" THEN bad ELSE ticks[t].failed
      /\ ticks'[t] = [step |-> ticks'[t].step, ops |-> ticks'[t].ops, failed |-> ticks'[t].failed]
  BY <1>2, <1>3 DEF TickTypes
<1>5. \A u \in Ticks : Held(u)' = Held(u) BY <1>4 DEF Held
<1>6. /\ DOMAIN es' = Pids
      /\ \A p \in Pids : es'[p] = IF p \in S THEN ticks[t].ops[p] ELSE es[p]
  BY <1>3, Written
<1>7. TypeInv' BY <1>1, <1>3, MarkTypes DEF IndexInv, TypeInv, RowTypes, WorldTypes
<1>8. IndexTypes'
  <2>1. TickTypes' BY <1>2, <1>4, <1>5 DEF TickTypes
  <2>2. rejected' \in [Pids -> Nat] BY <1>2, <1>3
  <2> QED BY <1>1, <1>6, <2>1, <2>2 DEF IndexTypes
<1>9. ASSUME NEW p \in Pids PROVE ParkedIsSpent(p)' BY <1>1 DEF IndexInv, ParkedIsSpent
<1>10. ASSUME NEW p \in Pids, p \notin doubled' PROVE RowInv(p)'
  <2>1. RowInv(p) BY <1>1, <1>10 DEF IndexInv
  <2>2. HeldOnce(p)' BY <1>5, <2>1 DEF RowInv, HeldOnce
  <2>3. \A u \in Ticks \ {t} : p \in Held(u) => p \notin S BY <2>1 DEF RowInv, HeldOnce
  <2>4. RestingTrue(p)'
    BY <1>1, <1>5, <1>6, <2>1 DEF RowInv, RestingTrue, Settled, Exists, Truthful, Missing
  <2>5. ASSUME NEW u \in Ticks PROVE CarriedTrue(p, u)'
    <3>1. CASE u = t
      BY <1>1, <1>3, <1>4, <1>5, <1>6, <2>1, <3>1 DEF RowInv, CarriedTrue
    <3>2. CASE u # t
      BY <1>1, <1>4, <1>5, <1>6, <2>1, <2>3, <3>2 DEF RowInv, CarriedTrue, Missing
    <3> QED BY <3>1, <3>2
  <2>6. CountsCover(p)'
    <3>1. rejected[p] \in Nat /\ rows[p].attempts \in Nat BY <1>2 DEF RowRecords
    <3>2. CASE w = "mark" /\ p \in bad
      BY <1>1, <1>3, <2>1, <3>1, <3>2 DEF RowInv, CountsCover
    <3>3. CASE ~(w = "mark" /\ p \in bad)
      <4>1. Awaiting(p)' => Awaiting(p) BY <1>4, <3>3 DEF Awaiting
      <4> QED BY <1>1, <1>3, <2>1, <3>3, <4>1 DEF RowInv, CountsCover
    <3> QED BY <3>2, <3>3
  <2> QED BY <2>2, <2>4, <2>5, <2>6 DEF RowInv
<1> QED BY <1>7, <1>8, <1>9, <1>10 DEF IndexInv

\* A tick that returns holds nothing, and answers for no rejection.
LEMMA Returned ==
    ASSUME TickTypes, NEW t \in Ticks, ticks' = [ticks EXCEPT ![t] = IdleTick]
    PROVE  /\ TickTypes' /\ Held(t)' = {} /\ ticks'[t].step = "idle"
           /\ \A u \in Ticks \ {t} : ticks'[u] = ticks[u] /\ Held(u)' = Held(u)
<1>1. /\ DOMAIN ticks' = Ticks /\ ticks'[t] = IdleTick
      /\ \A u \in Ticks \ {t} : ticks'[u] = ticks[u]
  BY DEF TickTypes
<1>2. /\ IdleTick = [step |-> "idle", ops |-> <<>>, failed |-> {}]
      /\ IdleTick.step = "idle" /\ DOMAIN IdleTick.ops = {} /\ IdleTick.failed = {}
      /\ IdleTick = [step |-> IdleTick.step, ops |-> IdleTick.ops, failed |-> IdleTick.failed]
  BY DEF IdleTick
<1>3. \A u \in Ticks : u # t => Held(u)' = Held(u) BY <1>1 DEF Held
<1>4. Held(t)' = {} BY <1>1, <1>2 DEF Held
<1>5. ASSUME NEW u \in Ticks
      PROVE  /\ ticks'[u] = [step |-> ticks'[u].step, ops |-> ticks'[u].ops, failed |-> ticks'[u].failed]
             /\ Held(u)' \subseteq Pids /\ ticks'[u].failed \subseteq Held(u)'
             /\ \A p \in Held(u)' : ticks'[u].ops[p].here \in BOOLEAN
             /\ ticks'[u].step \in {"idle", "ensure", "claim"} => Held(u)' = {}
  <2>1. CASE u = t BY <1>1, <1>2, <1>4, <2>1
  <2>2. CASE u # t BY <1>1, <1>3, <2>2 DEF TickTypes
  <2> QED BY <2>1, <2>2
<1> QED BY <1>1, <1>2, <1>3, <1>4, <1>5 DEF TickTypes

LEMMA RequeueKeeps == ASSUME IndexInv, NEW t \in Ticks, requeue_bulk(t) PROVE IndexInv'
<1>1. /\ UNCHANGED <<staff, aipAsked, crossed, byObject, ops,
                   es, present, ensured, cooldown, admin, rejected, doubled, lost>>
      /\ ticks[t].step = "requeue" /\ ticks' = [ticks EXCEPT ![t] = IdleTick]
      /\ faults' \in {faults, faults + 1}
      /\ dropped \subseteq dropped'
  BY DEF requeue_bulk
<1>2. /\ TickTypes /\ rows \in [Pids -> RowRecords] /\ faults \in Nat /\ ops \in Nat
  BY DEF IndexInv, IndexTypes, TypeInv, RowTypes, WorldTypes
<1>3. /\ TickTypes' /\ Held(t)' = {} /\ ticks'[t].step = "idle"
      /\ \A u \in Ticks \ {t} : ticks'[u] = ticks[u] /\ Held(u)' = Held(u)
  BY <1>1, <1>2, Returned
<1>4. ASSUME NEW r \in RowRecords
      PROVE  LET q == Requeued(r) IN
             /\ q \in RowRecords /\ q.kind = r.kind /\ q.parent = r.parent /\ q.active = r.active
             /\ q.published = r.published /\ q.attempts = r.attempts /\ q.error = r.error
             /\ q.updated
  BY DEF Requeued, RowRecords
<1>5. /\ rows' \in [Pids -> RowRecords]
      /\ \A p \in Pids : rows'[p] # rows[p] => rows'[p] = Requeued(rows[p])
      /\ \A p \in Pids : p \in Held(t) =>
            rows'[p] = Requeued(rows[p]) \/ p \in dropped'
      /\ \A p \in Pids \ Held(t) : (p \in dropped' <=> p \in dropped) /\ rows'[p] = rows[p]
  <2>1. CASE /\ rows' = [p \in Pids |-> IF p \in Held(t) THEN Requeued(rows[p]) ELSE rows[p]]
             /\ dropped' = dropped
    <3>1. \A p \in Pids : rows'[p] = IF p \in Held(t) THEN Requeued(rows[p]) ELSE rows[p] BY <2>1
    <3>2. \A p \in Pids : rows[p] \in RowRecords /\ Requeued(rows[p]) \in RowRecords BY <1>2, <1>4
    <3>3. rows' \in [Pids -> RowRecords] BY <2>1, <3>2
    <3> QED BY <2>1, <3>1, <3>3
  <2>2. CASE rows' = rows /\ dropped' = dropped \cup Held(t) BY <1>2, <2>2
  <2> QED BY <2>1, <2>2 DEF requeue_bulk
<1>6. ASSUME NEW p \in Pids
      PROVE  /\ rows'[p].kind = rows[p].kind /\ rows'[p].parent = rows[p].parent
             /\ rows'[p].active = rows[p].active /\ rows'[p].published = rows[p].published
             /\ rows'[p].attempts = rows[p].attempts /\ rows'[p].error = rows[p].error
             /\ rows'[p] = rows[p] \/ rows'[p].updated
             /\ p \in Held(t) => rows'[p].updated \/ p \in dropped'
  BY <1>2, <1>4, <1>5
<1>7. TypeInv' BY <1>1, <1>2, <1>5, <1>6, MarkTypes DEF IndexInv
<1>8. IndexTypes' BY <1>1, <1>3 DEF IndexInv, IndexTypes
<1>9. ASSUME NEW p \in Pids PROVE ParkedIsSpent(p)' BY <1>6 DEF IndexInv, ParkedIsSpent
<1>10. ASSUME NEW p \in Pids, p \notin doubled' PROVE RowInv(p)'
  <2>1. RowInv(p) BY <1>1, <1>10 DEF IndexInv
  <2>2. HeldOnce(p)' BY <1>3, <2>1 DEF RowInv, HeldOnce
  <2>3. RestingTrue(p)'
    <3>1. CASE p \in Held(t) BY <1>6, <3>1 DEF RestingTrue, Settled
    <3>2. CASE p \notin Held(t)
      BY <1>1, <1>3, <1>5, <2>1, <3>2 DEF RowInv, RestingTrue, Settled, Exists, Truthful, Missing
    <3> QED BY <3>1, <3>2
  <2>4. ASSUME NEW u \in Ticks PROVE CarriedTrue(p, u)'
    <3>1. CASE u = t BY <1>3, <3>1 DEF CarriedTrue
    <3>2. CASE u # t
      BY <1>1, <1>3, <1>6, <2>1, <3>2 DEF RowInv, CarriedTrue, Missing
    <3> QED BY <3>1, <3>2
  <2>5. Awaiting(p)' => Awaiting(p) BY <1>3 DEF Awaiting
  <2>6. CountsCover(p)' BY <1>1, <1>6, <2>1, <2>5 DEF RowInv, CountsCover
  <2> QED BY <2>2, <2>3, <2>4, <2>6 DEF RowInv
<1> QED BY <1>7, <1>8, <1>9, <1>10 DEF IndexInv

\* What a result writes on its row.
LEMMA Results ==
    ASSUME NEW r \in RowRecords, NEW doc, doc.here \in BOOLEAN
    PROVE  /\ LET q == mark_written(doc, r) IN
              /\ q \in RowRecords /\ q.kind = r.kind /\ q.parent = r.parent /\ q.active = r.active
              /\ q.published = r.published /\ q.ver = r.ver /\ q.updated = r.updated
              /\ q.attempts = 0 /\ ~q.error /\ q.indexed = doc.here
           /\ LET q == record_failure(r) IN
              /\ q \in RowRecords /\ q.kind = r.kind /\ q.parent = r.parent /\ q.active = r.active
              /\ q.published = r.published
              /\ q.attempts = r.attempts + 1 /\ (q.updated \/ q.error)
              /\ q.error => r.error \/ q.attempts >= MaxAttempts
<1> DEFINE c == Cleared(r)
<1>1. /\ c \in RowRecords /\ c.kind = r.kind /\ c.parent = r.parent /\ c.active = r.active
      /\ c.published = r.published /\ c.ver = r.ver /\ c.updated = r.updated
      /\ c.attempts = 0 /\ c.error = FALSE
  BY DEF Cleared, RowRecords
<1>2. mark_written(doc, r) = [c EXCEPT !.indexed = doc.here] BY DEF mark_written
<1> HIDE DEF c
<1> DEFINE q == [c EXCEPT !.indexed = doc.here]
<1>3. /\ q \in RowRecords /\ q.kind = c.kind /\ q.parent = c.parent /\ q.active = c.active
      /\ q.published = c.published /\ q.ver = c.ver /\ q.updated = c.updated
      /\ q.attempts = c.attempts /\ q.error = c.error /\ q.indexed = doc.here
  BY <1>1 DEF RowRecords
<1> DEFINE n == r.attempts + 1
           spent == [r EXCEPT !.attempts = n, !.updated = FALSE, !.error = TRUE]
           again == [r EXCEPT !.attempts = n, !.updated = TRUE]
<1>4. n \in Nat BY DEF RowRecords
<1> HIDE DEF n
<1>5. /\ spent \in RowRecords /\ spent.kind = r.kind /\ spent.parent = r.parent
      /\ spent.active = r.active /\ spent.published = r.published
      /\ spent.attempts = n /\ spent.error
  BY <1>4 DEF RowRecords
<1>6. /\ again \in RowRecords /\ again.kind = r.kind /\ again.parent = r.parent
      /\ again.active = r.active /\ again.published = r.published
      /\ again.attempts = n /\ again.updated /\ again.error = r.error
  BY <1>4 DEF RowRecords
<1>7. record_failure(r) = IF n >= MaxAttempts THEN spent ELSE again BY DEF record_failure, n
<1> HIDE DEF q, spent, again
<1> QED BY <1>1, <1>2, <1>3, <1>5, <1>6, <1>7 DEF q, n

LEMMA MarkKeeps == ASSUME IndexInv, NEW t \in Ticks, mark_results(t) PROVE IndexInv'
<1> DEFINE failed == ticks[t].failed
           written == Held(t) \ failed
<1>1. /\ UNCHANGED <<staff, aipAsked, crossed, byObject, ops,
                   es, present, ensured, cooldown, admin, doubled, lost>>
      /\ ticks[t].step = "mark" /\ ticks' = [ticks EXCEPT ![t] = IdleTick]
  BY DEF mark_results
<1>2. /\ TickTypes /\ rows \in [Pids -> RowRecords] /\ faults \in Nat /\ ops \in Nat
      /\ rejected \in [Pids -> Nat] /\ failed \subseteq Held(t)
  BY DEF IndexInv, IndexTypes, TickTypes, TypeInv, RowTypes, WorldTypes
<1>3. /\ TickTypes' /\ Held(t)' = {} /\ ticks'[t].step = "idle"
      /\ \A u \in Ticks \ {t} : ticks'[u] = ticks[u] /\ Held(u)' = Held(u)
  BY <1>1, <1>2, Returned
<1>4. PICK lose \in BOOLEAN :
         /\ rows' = [p \in Pids |->
              IF p \in written THEN mark_written(ticks[t].ops[p], rows[p])
              ELSE IF p \in failed /\ ~lose THEN record_failure(rows[p])
              ELSE rows[p]]
         /\ rejected' = [p \in Pids |-> IF p \in written THEN 0 ELSE rejected[p]]
         /\ dropped' = IF lose THEN dropped \cup failed ELSE dropped
         /\ faults' = IF lose THEN faults + 1 ELSE faults
  BY DEF mark_results
<1>5. \A p \in Held(t) : ticks[t].ops[p].here \in BOOLEAN BY <1>2 DEF TickTypes
<1>6. ASSUME NEW p \in Pids
      PROVE  /\ rows'[p] \in RowRecords
             /\ rows'[p].kind = rows[p].kind /\ rows'[p].parent = rows[p].parent
             /\ rows'[p].active = rows[p].active /\ rows'[p].published = rows[p].published
             /\ p \in written =>
                   /\ rows'[p].ver = rows[p].ver /\ rows'[p].updated = rows[p].updated
                   /\ rows'[p].attempts = 0 /\ ~rows'[p].error
                   /\ rows'[p].indexed = ticks[t].ops[p].here
             /\ p \in failed /\ p \notin dropped' =>
                   /\ rows'[p].updated \/ rows'[p].error
             /\ p \in failed => \/ rows'[p] = rows[p]
                                \/ /\ rows'[p].attempts = rows[p].attempts + 1
                                   /\ rows'[p].error =>
                                         rows[p].error \/ rows'[p].attempts >= MaxAttempts
             /\ p \notin Held(t) => rows'[p] = rows[p]
  <2>1. rows[p] \in RowRecords BY <1>2
  <2>2. CASE p \in written
    <3> DEFINE q == mark_written(ticks[t].ops[p], rows[p])
    <3>1. rows'[p] = q BY <1>4, <2>2
    <3>2. ticks[t].ops[p].here \in BOOLEAN BY <1>5, <2>2
    <3>3. /\ q \in RowRecords /\ q.kind = rows[p].kind /\ q.parent = rows[p].parent
          /\ q.active = rows[p].active /\ q.published = rows[p].published
          /\ q.ver = rows[p].ver /\ q.updated = rows[p].updated
          /\ q.attempts = 0 /\ ~q.error /\ q.indexed = ticks[t].ops[p].here
      BY <2>1, <3>2, Results
    <3>4. p \notin failed /\ p \in Held(t) BY <2>2
    <3> HIDE DEF q, written, failed
    <3> QED BY <3>1, <3>3, <3>4
  <2>3. CASE p \in failed /\ ~lose
    <3> DEFINE q == record_failure(rows[p])
    <3>1. rows'[p] = q BY <1>4, <2>3
    <3>2. NoDoc.here \in BOOLEAN BY DEF NoDoc
    <3>3. /\ q \in RowRecords /\ q.kind = rows[p].kind /\ q.parent = rows[p].parent
          /\ q.active = rows[p].active /\ q.published = rows[p].published
          /\ q.attempts = rows[p].attempts + 1 /\ (q.updated \/ q.error)
          /\ q.error => rows[p].error \/ q.attempts >= MaxAttempts
      BY <2>1, <3>2, Results
    <3>4. p \notin written /\ p \in Held(t) BY <1>2, <2>3
    <3> HIDE DEF q, written, failed
    <3> QED BY <3>1, <3>3, <3>4
  <2>4. CASE p \notin written /\ ~(p \in failed /\ ~lose)
    <3>1. rows'[p] = rows[p] BY <1>4, <2>4
    <3>2. p \in failed => p \in dropped' BY <1>4, <2>4
    <3> QED BY <1>2, <2>1, <2>4, <3>1, <3>2
  <2> QED BY <2>2, <2>3, <2>4
<1>7. rows' \in [Pids -> RowRecords]
  <2>1. DOMAIN rows' = Pids /\ rows' = [p \in Pids |-> rows'[p]] BY <1>4
  <2> QED BY <1>6, <2>1
<1>8. TypeInv'
  <2>1. faults' \in Nat BY <1>2, <1>4
  <2> QED BY <1>1, <1>2, <1>6, <1>7, <2>1, MarkTypes DEF IndexInv
<1>9. IndexTypes' BY <1>1, <1>2, <1>3, <1>4 DEF IndexInv, IndexTypes
<1>10. ASSUME NEW p \in Pids PROVE ParkedIsSpent(p)'
  <2>1. rows[p].attempts \in Nat BY <1>2 DEF RowRecords
  <2> QED BY <1>2, <1>6, <2>1, IndexNumbers DEF IndexInv, ParkedIsSpent
<1>11. ASSUME NEW p \in Pids, p \notin doubled' PROVE RowInv(p)'
  <2>1. RowInv(p) BY <1>1, <1>11 DEF IndexInv
  <2>2. HeldOnce(p)' BY <1>3, <2>1 DEF RowInv, HeldOnce
  <2>3. p \in Held(t) => \A u \in Ticks \ {t} : p \notin Held(u) BY <2>1 DEF RowInv, HeldOnce
  <2>4. \A u \in Ticks \ {t} : ticks[u].failed \subseteq Held(u) BY <1>2 DEF TickTypes
  <2>5. RestingTrue(p)'
    <3>1. CASE p \in failed BY <1>6, <3>1 DEF RestingTrue, Settled
    <3>2. CASE p \in written
      <4>1. SUFFICES ASSUME ~rows'[p].updated PROVE Truthful(p)' \/ Missing(p)'
        BY DEF RestingTrue, Settled
      <4>2. ticks[t].ops[p] = build_op(rows[p]) /\ (es[p] = ticks[t].ops[p] \/ Missing(p))
        BY <1>1, <1>6, <2>1, <3>2, <4>1 DEF RowInv, CarriedTrue
      <4>3. build_op(rows'[p]) = build_op(rows[p]) /\ (Eligible(rows'[p]) <=> Eligible(rows[p]))
        BY <1>6, <3>2 DEF build_op, Doc, Eligible
      <4> QED BY <1>1, <1>6, <3>2, <4>2, <4>3 DEF Truthful, Missing
    <3>3. CASE p \notin Held(t)
      <4>1. p \in dropped' <=> p \in dropped BY <1>2, <1>4, <3>3
      <4> QED BY <1>1, <1>3, <1>6, <2>1, <3>3, <4>1
              DEF RowInv, RestingTrue, Settled, Exists, Truthful, Missing
    <3> QED BY <3>1, <3>2, <3>3
  <2>6. ASSUME NEW u \in Ticks PROVE CarriedTrue(p, u)'
    <3>1. CASE u = t BY <1>3, <3>1 DEF CarriedTrue
    <3>2. CASE u # t
      <4>1. p \in Held(u) => rows'[p] = rows[p] BY <1>6, <2>3, <3>2
      <4> QED BY <1>1, <1>3, <2>1, <3>2, <4>1 DEF RowInv, CarriedTrue, Missing
    <3> QED BY <3>1, <3>2
  <2>7. CountsCover(p)'
    <3>1. rejected[p] \in Nat /\ rows[p].attempts \in Nat BY <1>2 DEF RowRecords
    <3>2. p \in Held(t) => ~Awaiting(p)' BY <1>3, <2>3, <2>4 DEF Awaiting
    <3>3. CASE p \in written
      <4>1. rejected'[p] = 0 /\ rows'[p].attempts = 0 BY <1>4, <1>6, <3>3
      <4> QED BY <3>2, <3>3, <4>1 DEF CountsCover
    <3>4. CASE p \in failed
      <4>1. rejected'[p] = rejected[p] BY <1>4, <3>4
      <4>2. rejected[p] > rows[p].attempts
        BY <1>1, <2>1, <3>4 DEF RowInv, CountsCover, Awaiting
      <4> QED BY <1>2, <1>6, <3>1, <3>2, <3>4, <4>1, <4>2 DEF CountsCover
    <3>5. CASE p \notin Held(t)
      <4>1. rejected'[p] = rejected[p] /\ rows'[p] = rows[p] BY <1>4, <1>6, <3>5
      <4>2. Awaiting(p)' => Awaiting(p) BY <1>3 DEF Awaiting
      <4> QED BY <2>1, <4>1, <4>2 DEF RowInv, CountsCover
    <3> QED BY <3>3, <3>4, <3>5
  <2> QED BY <2>2, <2>5, <2>6, <2>7 DEF RowInv
<1> QED BY <1>8, <1>9, <1>10, <1>11 DEF IndexInv

\* The process dies: what the ticks held is dropped.
LEMMA RestartKeeps == ASSUME IndexInv, restart PROVE IndexInv'
<1>1. /\ Crashed /\ ticks' = [t \in Ticks |-> IdleTick]
      /\ dropped' = dropped \cup UNION {Held(t) : t \in Ticks}
      /\ UNCHANGED <<rows, es, present, rejected, doubled, lost>>
  BY CutEffect DEF restart, Crashed
<1>2. /\ IdleTick.step = "idle" /\ DOMAIN IdleTick.ops = {} /\ IdleTick.failed = {}
      /\ IdleTick = [step |-> IdleTick.step, ops |-> IdleTick.ops, failed |-> IdleTick.failed]
  BY DEF IdleTick
<1>3. \A t \in Ticks : ticks'[t] = IdleTick /\ Held(t)' = {} BY <1>1, <1>2 DEF Held
<1>4. TypeInv' BY <1>1, StepTypes DEF IndexInv, RepositoryStep
<1>5. TickTypes' BY <1>1, <1>2, <1>3 DEF TickTypes
<1>6. IndexTypes' BY <1>1, <1>5 DEF IndexInv, IndexTypes
<1>7. ASSUME NEW p \in Pids PROVE ParkedIsSpent(p)' BY <1>1 DEF IndexInv, ParkedIsSpent
<1>8. ASSUME NEW p \in Pids, p \notin doubled' PROVE RowInv(p)'
  <2>1. RowInv(p) BY <1>1, <1>8 DEF IndexInv
  <2>2. HeldOnce(p)' /\ \A t \in Ticks : CarriedTrue(p, t)' BY <1>3 DEF HeldOnce, CarriedTrue
  <2>3. p \notin dropped' => p \notin dropped /\ \A t \in Ticks : p \notin Held(t) BY <1>1
  <2>4. RestingTrue(p)'
    BY <1>1, <2>1, <2>3 DEF RowInv, RestingTrue, Settled, Exists, Truthful, Missing
  <2>5. ~Awaiting(p)' BY <1>2, <1>3 DEF Awaiting
  <2>6. CountsCover(p)' BY <1>1, <2>1, <2>5 DEF RowInv, CountsCover
  <2> QED BY <2>2, <2>4, <2>6 DEF RowInv
<1> QED BY <1>4, <1>6, <1>7, <1>8 DEF IndexInv

-----------------------------------------------------------------------------
(* The administrator's steps *)

LEMMA Resets ==
    ASSUME NEW r \in RowRecords
    PROVE  /\ LET q == Dirty(Cleared(r)) IN
              /\ q \in RowRecords /\ q.kind = r.kind /\ q.parent = r.parent /\ q.active = r.active
              /\ q.published = r.published /\ q.attempts = 0 /\ ~q.error /\ q.updated
           /\ LET q == [Dirty(Cleared(r)) EXCEPT !.indexed = FALSE] IN
              /\ q \in RowRecords /\ q.kind = r.kind /\ q.parent = r.parent /\ q.active = r.active
              /\ q.published = r.published /\ q.attempts = 0 /\ ~q.error /\ q.updated
<1> DEFINE c == Cleared(r)
           d == [c EXCEPT !.updated = TRUE]
<1>1. /\ c \in RowRecords /\ c.kind = r.kind /\ c.parent = r.parent /\ c.active = r.active
      /\ c.published = r.published /\ c.attempts = 0 /\ ~c.error
  BY DEF Cleared, RowRecords
<1>2. Dirty(Cleared(r)) = d BY DEF Dirty
<1> HIDE DEF c
<1>3. /\ d \in RowRecords /\ d.kind = r.kind /\ d.parent = r.parent /\ d.active = r.active
      /\ d.published = r.published /\ d.attempts = 0 /\ ~d.error /\ d.updated
  BY <1>1 DEF RowRecords
<1> HIDE DEF d
<1> DEFINE e == [d EXCEPT !.indexed = FALSE]
<1>4. /\ e \in RowRecords /\ e.kind = r.kind /\ e.parent = r.parent /\ e.active = r.active
      /\ e.published = r.published /\ e.attempts = 0 /\ ~e.error /\ e.updated
  BY <1>3 DEF RowRecords
<1> HIDE DEF e
<1> QED BY <1>2, <1>3, <1>4 DEF e

\* The rejections that no row has recorded yet are a number, positive if there are any.
LEMMA UnrecordedCounts ==
    ASSUME NEW p PROVE Unrecorded(p) \in Nat /\ (Awaiting(p) => Unrecorded(p) > 0)
<1> DEFINE S == {t \in Ticks : ticks[t].step = "mark" /\ p \in ticks[t].failed}
<1>1. IsFiniteSet(Ticks)
  <2>1. NumTicks \in Int /\ 1 \in Int BY IndexNumbers
  <2> QED BY <2>1, FS_Interval DEF Ticks
<1>2. IsFiniteSet(S) BY <1>1, FS_Subset
<1>3. Cardinality(S) \in Nat /\ (Cardinality(S) = 0 <=> S = {}) BY <1>2, FS_CardinalityType, FS_EmptySet
<1>4. Awaiting(p) => S # {} BY DEF Awaiting
<1> HIDE DEF S
<1>5. Cardinality(S) > 0 <=> S # {} BY <1>3
<1> QED BY <1>3, <1>4, <1>5 DEF Unrecorded, S

\* Rows are marked dirty with their attempts reset; the index may be declared complete
\* again when all of those that belong in it are.
Reset(S) ==
    /\ UNCHANGED <<staff, aipAsked, byObject, es, present, ticks, dropped, doubled>>
    /\ ops' \in Nat /\ faults' = faults
    /\ rows' \in [Pids -> RowRecords]
    /\ \A p \in Pids :
         /\ rows'[p].kind = rows[p].kind /\ rows'[p].parent = rows[p].parent
         /\ rows'[p].active = rows[p].active /\ rows'[p].published = rows[p].published
         /\ IF p \in S THEN rows'[p].updated /\ rows'[p].attempts = 0 /\ ~rows'[p].error
            ELSE rows'[p] = rows[p]
    /\ rejected' = [p \in Pids |-> IF p \in S THEN Unrecorded(p) ELSE rejected[p]]
    /\ lost' = lost \/ (lost' = FALSE /\ EligibleRows \subseteq S)

LEMMA ResetKeeps == ASSUME IndexInv, NEW S \in SUBSET Pids, Reset(S) PROVE IndexInv'
<1>1. /\ UNCHANGED <<staff, aipAsked, byObject, es, present, ticks, dropped, doubled>>
      /\ ops' \in Nat /\ faults' = faults /\ rows' \in [Pids -> RowRecords]
      /\ rejected' = [p \in Pids |-> IF p \in S THEN Unrecorded(p) ELSE rejected[p]]
  BY DEF Reset
<1>2. ASSUME NEW p \in Pids
      PROVE  /\ rows'[p].kind = rows[p].kind /\ rows'[p].parent = rows[p].parent
             /\ rows'[p].active = rows[p].active /\ rows'[p].published = rows[p].published
             /\ IF p \in S THEN rows'[p].updated /\ rows'[p].attempts = 0 /\ ~rows'[p].error
                ELSE rows'[p] = rows[p]
  BY DEF Reset
<1>3. TypeInv'
  <2>1. faults' \in Nat BY <1>1 DEF IndexInv, TypeInv, WorldTypes
  <2> QED BY <1>1, <1>2, <2>1, MarkTypes DEF IndexInv
<1>4. \A u \in Ticks : Held(u)' = Held(u) BY <1>1 DEF Held
<1>5. IndexTypes'
  <2>1. rejected \in [Pids -> Nat] BY DEF IndexInv, IndexTypes
  <2>2. rejected' \in [Pids -> Nat] BY <1>1, <2>1, UnrecordedCounts
  <2>3. TickTypes' BY <1>1, <1>4 DEF IndexInv, IndexTypes, TickTypes
  <2> QED BY <1>1, <2>2, <2>3 DEF IndexInv, IndexTypes
<1>6. ASSUME NEW p \in Pids PROVE ParkedIsSpent(p)' BY <1>2 DEF IndexInv, ParkedIsSpent
<1>7. ASSUME NEW p \in Pids, p \notin doubled' PROVE RowInv(p)'
  <2>1. RowInv(p) BY <1>1, <1>7 DEF IndexInv
  <2>2. HeldOnce(p)' BY <1>4, <2>1 DEF RowInv, HeldOnce
  <2>3. p \notin S => (Missing(p)' <=> Missing(p))
    BY <1>2 DEF Reset, Missing, EligibleRows
  <2>4. RestingTrue(p)'
    BY <1>1, <1>2, <1>4, <2>1, <2>3 DEF RowInv, RestingTrue, Settled, Exists, Truthful
  <2>5. \A u \in Ticks : CarriedTrue(p, u)'
    BY <1>1, <1>2, <1>4, <2>1, <2>3 DEF RowInv, CarriedTrue
  <2>6. Awaiting(p)' <=> Awaiting(p) BY <1>1 DEF Awaiting
  <2>7. CountsCover(p)'
    <3>1. CASE p \in S
      <4>1. rejected'[p] = Unrecorded(p) /\ rows'[p].attempts = 0 BY <1>1, <1>2, <3>1
      <4> QED BY <2>6, <4>1, UnrecordedCounts DEF CountsCover
    <3>2. CASE p \notin S
      <4>1. rejected'[p] = rejected[p] /\ rows'[p] = rows[p] BY <1>1, <1>2, <3>2
      <4> QED BY <2>1, <2>6, <4>1 DEF RowInv, CountsCover
    <3> QED BY <3>1, <3>2
  <2> QED BY <2>2, <2>4, <2>5, <2>7 DEF RowInv
<1> QED BY <1>3, <1>5, <1>6, <1>7 DEF IndexInv

LEMMA MarkDirtyKeeps == ASSUME IndexInv, mark_dirty PROVE IndexInv'
<1>1. /\ UNCHANGED <<staff, aipAsked, crossed, byObject, faults>> /\ ops' = ops + 1
      /\ UNCHANGED <<es, present, ensured, cooldown, ticks, admin, dropped, doubled, lost>>
  BY DEF mark_dirty, AdminAsks
<1>2. PICK S \in SUBSET Pids : Retried(S)
  BY DEF mark_dirty, mark_dirty_all, mark_dirty_collection, mark_dirty_pid,
         requeue_dead_lettered, EligibleRows
<1>3. rows \in [Pids -> RowRecords] /\ ops' \in Nat
  BY <1>1 DEF IndexInv, TypeInv, RowTypes, WorldTypes
<1>4. ASSUME NEW p \in Pids
      PROVE  /\ rows'[p] \in RowRecords
             /\ rows'[p].kind = rows[p].kind /\ rows'[p].parent = rows[p].parent
             /\ rows'[p].active = rows[p].active /\ rows'[p].published = rows[p].published
             /\ IF p \in S THEN rows'[p].updated /\ rows'[p].attempts = 0 /\ ~rows'[p].error
                ELSE rows'[p] = rows[p]
  <2>1. rows[p] \in RowRecords BY <1>3
  <2>2. rows'[p] = IF p \in S THEN Dirty(Cleared(rows[p])) ELSE rows[p] BY <1>2 DEF Retried
  <2> QED BY <2>1, <2>2, Resets
<1>5. rows' \in [Pids -> RowRecords]
  <2>1. rows' = [p \in Pids |-> rows'[p]] BY <1>2 DEF Retried
  <2> QED BY <1>4, <2>1
<1>6. Reset(S) BY <1>1, <1>2, <1>3, <1>4, <1>5 DEF Reset, Retried
<1> QED BY <1>6, ResetKeeps

LEMMA ResetAllKeeps == ASSUME IndexInv, reset_all_index_state PROVE IndexInv'
<1> DEFINE S == EligibleRows
<1>1. /\ UNCHANGED <<staff, aipAsked, crossed, byObject, ops, faults,
                   es, present, ensured, cooldown, ticks, dropped, doubled>>
      /\ lost' = FALSE
      /\ rows' = [p \in Pids |-> IF p \in S THEN [Dirty(Cleared(rows[p])) EXCEPT !.indexed = FALSE]
                                 ELSE rows[p]]
      /\ rejected' = [p \in Pids |-> IF p \in S THEN Unrecorded(p) ELSE rejected[p]]
  BY DEF reset_all_index_state
<1>2. S \in SUBSET Pids BY DEF EligibleRows
<1>3. rows \in [Pids -> RowRecords] /\ ops' \in Nat
  BY <1>1 DEF IndexInv, TypeInv, RowTypes, WorldTypes
<1> HIDE DEF S
<1>4. ASSUME NEW p \in Pids
      PROVE  /\ rows'[p] \in RowRecords
             /\ rows'[p].kind = rows[p].kind /\ rows'[p].parent = rows[p].parent
             /\ rows'[p].active = rows[p].active /\ rows'[p].published = rows[p].published
             /\ IF p \in S THEN rows'[p].updated /\ rows'[p].attempts = 0 /\ ~rows'[p].error
                ELSE rows'[p] = rows[p]
  <2>1. rows[p] \in RowRecords BY <1>3
  <2>2. rows'[p] = IF p \in S THEN [Dirty(Cleared(rows[p])) EXCEPT !.indexed = FALSE] ELSE rows[p]
    BY <1>1
  <2> QED BY <2>1, <2>2, Resets
<1>5. rows' \in [Pids -> RowRecords]
  <2>1. rows' = [p \in Pids |-> rows'[p]] BY <1>1
  <2> QED BY <1>4, <2>1
<1>6. Reset(S) BY <1>1, <1>3, <1>4, <1>5 DEF Reset, S
<1> QED BY <1>2, <1>6, ResetKeeps

\* The index is dropped: what does not belong in it is as it was.
LEMMA DeleteKeeps == ASSUME IndexInv, delete_index PROVE IndexInv'
<1>1. /\ UNCHANGED <<staff, aipAsked, crossed, byObject, faults>> /\ ops' = ops + 1
      /\ UNCHANGED <<rows, ensured, cooldown, ticks, rejected, dropped, doubled>>
      /\ es' = [p \in Pids |-> NoDoc] /\ present' = FALSE /\ lost' = TRUE
  BY DEF delete_index, AdminAsks
<1>2. NoDoc.here = FALSE BY DEF NoDoc
<1>3. TypeInv' BY <1>1, MarkTypes DEF IndexInv, TypeInv, RowTypes, WorldTypes
<1>4. \A u \in Ticks : Held(u)' = Held(u) BY <1>1 DEF Held
<1>5. IndexTypes' BY <1>1, <1>2, <1>4 DEF IndexInv, IndexTypes, TickTypes
<1>6. ASSUME NEW p \in Pids PROVE ParkedIsSpent(p)' BY <1>1 DEF IndexInv, ParkedIsSpent
<1>7. ASSUME NEW p \in Pids, p \notin doubled' PROVE RowInv(p)'
  <2>1. RowInv(p) BY <1>1, <1>7 DEF IndexInv
  <2>2. HeldOnce(p)' BY <1>4, <2>1 DEF RowInv, HeldOnce
  <2>3. CountsCover(p)' BY <1>1, <2>1 DEF RowInv, CountsCover, Awaiting
  <2>4. CASE Eligible(rows[p])
    <3>1. Missing(p)' BY <1>1, <2>4 DEF Missing
    <3>2. RestingTrue(p)' BY <3>1 DEF RestingTrue
    <3>3. \A u \in Ticks : CarriedTrue(p, u)'
      BY <1>1, <1>4, <2>1, <3>1 DEF RowInv, CarriedTrue
    <3> QED BY <2>2, <2>3, <3>2, <3>3 DEF RowInv
  <2>5. CASE ~Eligible(rows[p])
    <3>1. build_op(rows[p]) = NoDoc /\ ~Missing(p) /\ es'[p] = NoDoc
      BY <1>1, <2>5 DEF build_op, Missing
    <3>2. RestingTrue(p)'
      BY <1>1, <1>4, <2>1, <3>1 DEF RowInv, RestingTrue, Settled, Exists, Truthful
    <3>3. \A u \in Ticks : CarriedTrue(p, u)'
      BY <1>1, <1>4, <2>1, <3>1 DEF RowInv, CarriedTrue
    <3> QED BY <2>2, <2>3, <3>2, <3>3 DEF RowInv
  <2> QED BY <2>4, <2>5
<1> QED BY <1>3, <1>5, <1>6, <1>7 DEF IndexInv

-----------------------------------------------------------------------------
(* Every step, and the theorems *)

\* A staff step marks the rows it changes.
LEMMA StaffKeeps == ASSUME IndexInv, Repository_steps PROVE IndexInv'
<1>1. PICK s \in Staff : Effect(s)
  BY ChecksEffect, WritesEffect DEF Repository_steps, IndexInv
<1>2. TypeInv' BY <1>1, EffectTypes DEF IndexInv
<1>3. UNCHANGED indexVars BY DEF Repository_steps
<1>4. \A p \in Pids : rows'[p] # rows[p] => Touched(rows[p], rows'[p])
  BY <1>1 DEF Effect, RowEffect
<1>5. TickTypes BY DEF IndexInv, IndexTypes
<1>6. TicksRest BY <1>3, <1>5 DEF TicksRest, TickTypes, indexVars
<1>7. Quiet BY <1>3, <1>4, <1>5, <1>6 DEF Quiet, TickTypes, indexVars
<1> QED BY <1>2, <1>7, QuietKeeps

\* Steps that touch neither the rows nor the documents.
LEMMA IdleKeeps ==
    ASSUME IndexInv, UNCHANGED <<rows, staff, aipAsked, byObject, ops, es, ticks, rejected, dropped, doubled, lost>>,
           faults' \in {faults, faults + 1}, present => present'
    PROVE  IndexInv'
<1>1. TypeInv' BY MarkTypes DEF IndexInv, TypeInv, RowTypes, WorldTypes
<1>2. TicksRest BY DEF TicksRest, IndexInv, IndexTypes, TickTypes
<1>3. Quiet BY <1>2 DEF Quiet, IndexInv, IndexTypes, TickTypes
<1> QED BY <1>1, <1>3, QuietKeeps

LEMMA StepIndex == ASSUME IndexInv, [Next]_vars PROVE IndexInv'
<1>1. CASE Repository_steps BY <1>1, StaffKeeps
<1>2. ASSUME NEW t \in Ticks, tick(t) \/ Work(t) PROVE IndexInv'
  BY <1>2, TickKeeps, EnsureKeeps, ClaimKeeps, BulkKeeps, RequeueKeeps, MarkKeeps DEF Work
<1>3. CASE CooldownEnds BY <1>3, IdleKeeps DEF CooldownEnds, repoVars
<1>4. CASE restart BY <1>4, RestartKeeps
<1>5. CASE mark_dirty BY <1>5, MarkDirtyKeeps
<1>6. CASE delete_index BY <1>6, DeleteKeeps
<1>7. CASE rebuild_ensure BY <1>7, IdleKeeps DEF rebuild_ensure
<1>8. CASE reset_all_index_state BY <1>8, ResetAllKeeps
<1>9. CASE UNCHANGED vars BY <1>9, IdleKeeps DEF vars, repoVars, indexVars
<1> QED BY <1>1, <1>2, <1>3, <1>4, <1>5, <1>6, <1>7, <1>8, <1>9 DEF Next

\* What the index, the ticks and the rows hold of one another, at every step.
THEOREM IndexInvariant == Spec => []IndexInv
<1>1. Init => IndexInv BY InitIndex
<1>2. IndexInv /\ [Next]_vars => IndexInv' BY StepIndex
<1> QED BY <1>1, <1>2, PTL DEF Spec

\* The index tells the truth: a row that is not dirty, not in a tick's hands and not parked has
\* exactly its document, or none, with the flag that says so; but for the rows whose claim was
\* lost, those two ticks have held, and the time between delete_index and the reset
\* (claim_dirty, src/indexer/model.js:65; process_batch, src/indexer/worker.js:71).
THEOREM IndexTellsTheTruth == Spec => []InSync
<1>1. IndexInv => TypeOK
  BY DEF IndexInv, IndexTypes, TickTypes, TypeInv, RowTypes, WorldTypes, RowRecords, Kinds, TypeOK
<1>2. IndexInv => \A p \in Pids : Settled(p) /\ ~Excepted(p) => Truthful(p)
  BY DEF IndexInv, RowInv, RestingTrue, Missing, Excepted
<1> QED BY <1>1, <1>2, IndexInvariant, PTL DEF InSync

\* Outages and crashes do not park a row: index_error is set only on a row whose items
\* Elasticsearch rejected MaxAttempts times since its attempts were last reset, or that two
\* ticks have held at once (src/indexer/worker.js:63).
THEOREM OnlyRejectionsPark == Spec => []OnlyPoisonIsParked
<1>1. ASSUME IndexInv, NEW p \in Pids, rows[p].error, p \notin doubled
      PROVE  rejected[p] >= MaxAttempts
  <2>1. rows[p].attempts >= MaxAttempts /\ rejected[p] >= rows[p].attempts
    BY <1>1 DEF IndexInv, ParkedIsSpent, RowInv, CountsCover
  <2>2. rows[p].attempts \in Nat /\ rejected[p] \in Nat
    BY <1>1 DEF IndexInv, IndexTypes, TypeInv, RowTypes, RowRecords
  <2> QED BY <2>1, <2>2, IndexNumbers
<1>2. IndexInv => OnlyPoisonIsParked BY <1>1 DEF OnlyPoisonIsParked
<1> QED BY <1>2, IndexInvariant, PTL
=============================================================================
