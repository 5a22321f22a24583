---------------------------- MODULE Repository ----------------------------
(***************************************************************************)
(* tbl_objects as staff change it: publish, suppress, delete, provision a  *)
(* collection, move objects and collections (src/repository/model.js,      *)
(* src/repository/collection_provision.js, src/collections/model.js).  A   *)
(* request that reads, checks and then writes is two steps of a session:   *)
(* other sessions run in between.  The ArchivesSpace fetch is a            *)
(* nondeterministic answer; titles, pagination and lists are left out.     *)
(***************************************************************************)
EXTENDS Naturals, FiniteSets

CONSTANTS
    NumCollections, \* collections there are at the start: pids 1..NumCollections
    NumObjects,     \* objects there are at the start: the next pids
    NumFresh,       \* pids a collection may still be created with
    NumStaff,       \* staff sessions
    MaxOps,         \* staff requests (bound of the model)
    MaxFaults       \* faults (bound of the model)

ASSUME RepositoryAssumption ==
    /\ NumCollections \in Nat /\ NumObjects \in Nat /\ NumFresh \in Nat
    /\ NumStaff \in Nat /\ MaxOps \in Nat /\ MaxFaults \in Nat

VARIABLES
    rows,     \* pid -> its row in tbl_objects
    staff,    \* session -> the request it is serving
    aipAsked, \* pids whose AIP deletion was requested from Archivematica
    crossed,  \* pairs of request kinds whose check-to-write windows overlapped
    byObject, \* collections deleted through the object route
    ops, faults

repoVars == <<rows, staff, aipAsked, crossed, byObject, ops, faults>>

Root == 0        \* no parent: '' or 'codu:root'
Pids == 1..(NumCollections + NumObjects + NumFresh)
Staff == 1..NumStaff
Uris == 1..(NumCollections + 1)
NoUri == 0

NoRow == [kind |-> "none", parent |-> Root, uri |-> NoUri, published |-> FALSE,
          active |-> FALSE, updated |-> FALSE, indexed |-> FALSE,
          attempts |-> 0, error |-> FALSE, ver |-> 0]
Idle == [step |-> "idle", pids |-> {}, target |-> Root, uri |-> NoUri, single |-> TRUE]

Exists(p) == rows[p].kind # "none"
Live(p) == Exists(p) /\ rows[p].active
IsCollection(p) == p \in Pids /\ rows[p].kind = "collection"
LiveCollection(p) == IsCollection(p) /\ rows[p].active

(* The rows in sync with the index: an indexed row is published. *)
Row(kind, parent, uri, published) ==
    [NoRow EXCEPT !.kind = kind, !.parent = parent, !.uri = uri,
                  !.published = published, !.active = TRUE, !.indexed = published]

(* Any forest of collections, any placement of the objects, published       *)
(* where the gate allows it.                                                *)
RepositoryInit ==
    /\ \E parent \in [Pids -> 0..NumCollections], published \in [Pids -> BOOLEAN] :
         /\ \A p \in Pids :
              /\ (p <= NumCollections => parent[p] < p)
              /\ (p > NumCollections + NumObjects => parent[p] = Root /\ ~published[p])
              /\ (published[p] /\ parent[p] # Root => published[parent[p]])
         /\ rows = [p \in Pids |->
              IF p <= NumCollections THEN Row("collection", parent[p], p, published[p])
              ELSE IF p <= NumCollections + NumObjects
                   THEN Row("object", parent[p], NoUri, published[p])
              ELSE NoRow]
    /\ staff = [s \in Staff |-> Idle]
    /\ aipAsked = {} /\ crossed = {} /\ byObject = {}
    /\ ops = 0 /\ faults = 0

-----------------------------------------------------------------------------
(* Every write of a row that its index document depends on sets is_updated. *)
Dirty(r) == [r EXCEPT !.updated = TRUE]
Set(S, f(_)) == rows' = [p \in Pids |-> IF p \in S THEN Dirty(f(rows[p])) ELSE rows[p]]

Publishes(r) == [r EXCEPT !.published = TRUE]
Suppresses(r) == [r EXCEPT !.published = FALSE]
Deletes(r) == [r EXCEPT !.active = FALSE]
Adopts(parent, r) == [r EXCEPT !.parent = parent]

(* A session takes a request; it is in window k until it writes. *)
Overlaps(s, k) ==
    {{k, staff[t].step} : t \in {u \in Staff \ {s} : staff[u].step # "idle"}}
Free(s) == staff[s].step = "idle" /\ ops < MaxOps
Request(s, k) ==
    /\ Free(s)
    /\ ops' = ops + 1
    /\ crossed' = crossed \cup Overlaps(s, k)
    /\ UNCHANGED faults
Opens(s, k, S, target, uri, single) ==
    staff' = [staff EXCEPT ![s] =
        [step |-> k, pids |-> S, target |-> target, uri |-> uri, single |-> single]]
Proceeds(s, k) ==
    /\ staff' = [staff EXCEPT ![s].step = k]
    /\ crossed' = crossed \cup Overlaps(s, k)
    /\ UNCHANGED <<ops, faults>>
Closes(s) ==
    /\ staff' = [staff EXCEPT ![s] = Idle]
    /\ UNCHANGED <<crossed, ops, faults>>

-----------------------------------------------------------------------------
(* Publish and suppress, one row or several.  The batch works on live rows, *)
(* the single route on any; one blocked row refuses the whole batch.        *)
Reach(S, single) == IF single THEN S ELSE {p \in S : rows[p].active}
unpublished_parents_mutant(S) ==
    {q \in {rows[p].parent : p \in {r \in S : rows[r].kind = "object"}} :
        IsCollection(q) /\ ~rows[q].published}
unpublished_parents(S) ==
    {q \in {rows[p].parent : p \in S} : IsCollection(q) /\ ~rows[q].published}
Selections(single) == {S \in SUBSET Pids : IF single THEN Cardinality(S) = 1 ELSE Cardinality(S) = 2}

set_publish_state_check(s, S, single) ==
    /\ \A p \in S : Exists(p)
    /\ unpublished_parents(Reach(S, single)) = {}
    /\ Request(s, "publish")
    /\ Opens(s, "publish", S, Root, NoUri, single)
    /\ UNCHANGED <<rows, aipAsked, byObject>>

set_publish_state_write(s) ==
    /\ staff[s].step = "publish"
    /\ Set(Reach(staff[s].pids, staff[s].single), Publishes)
    /\ Closes(s)
    /\ UNCHANGED <<aipAsked, byObject>>

suppress(s, S, single) ==
    /\ \A p \in S : Exists(p)
    /\ Request(s, "unpublish")
    /\ Set(Reach(S, single), Suppresses)
    /\ UNCHANGED <<staff, aipAsked, byObject>>

(* Delete: refuse what is published, ask Archivematica for the AIP (best    *)
(* effort, one row at a time), then flip is_active.                         *)
soft_delete_check(s, S, single) ==
    LET live == {p \in S : Live(p)} IN
    /\ single => live = S
    /\ \A p \in live : ~rows[p].published
    /\ Request(s, "request")
    /\ Opens(s, "request", live, Root, NoUri, single)
    /\ UNCHANGED <<rows, aipAsked, byObject>>

WithAip(S) == {p \in S : rows[p].kind = "object"}
request_aip_delete(s) ==
    /\ staff[s].step = "request"
    /\ \E accepted \in SUBSET WithAip(staff[s].pids) :
         aipAsked' = aipAsked \cup accepted
    /\ Proceeds(s, "delete")
    /\ UNCHANGED <<rows, byObject>>

soft_delete_write(s) ==
    LET live == {p \in staff[s].pids : rows[p].active} IN
    /\ staff[s].step = "delete"
    /\ Set(live, Deletes)
    /\ byObject' = byObject \cup {p \in live : IsCollection(p)}
    /\ Closes(s)
    /\ UNCHANGED <<aipAsked>>

(* A refresh or a thumbnail: the envelope changes in one statement or one   *)
(* transaction.                                                             *)
Edits(r) == [r EXCEPT !.ver = @ + 1]
edit_record(s, p) ==
    /\ Exists(p)
    /\ Request(s, "edit")
    /\ Set({p}, Edits)
    /\ UNCHANGED <<staff, aipAsked, byObject>>

-----------------------------------------------------------------------------
(* Collections.  The look-up by URI takes any row, deleted or not; the      *)
(* unique index covers the live ones.                                       *)
WithUri(uri) == {p \in Pids : IsCollection(p) /\ rows[p].uri = uri}
LiveWithUri(uri) == {p \in WithUri(uri) : rows[p].active}
Fresh == {p \in Pids : ~Exists(p) /\ \A s \in Staff : p \notin staff[s].pids}

provision_existing(s, uri) ==
    /\ WithUri(uri) # {}
    /\ Request(s, "existing")
    /\ UNCHANGED <<rows, staff, aipAsked, byObject>>

provision_fetch(s, uri, parent, p) ==
    /\ WithUri(uri) = {}
    /\ p \in Fresh /\ \A q \in Fresh : p <= q
    /\ Request(s, "fetch")
    /\ Opens(s, "fetch", {p}, parent, uri, TRUE)
    /\ UNCHANGED <<rows, aipAsked, byObject>>

(* The fetch answers, then the parent is checked; either may refuse. *)
create_collection_check(s) ==
    /\ staff[s].step = "fetch"
    /\ \/ /\ staff[s].target = Root \/ LiveCollection(staff[s].target)
          /\ Proceeds(s, "insert")
       \/ Closes(s)
    /\ UNCHANGED <<rows, aipAsked, byObject>>

(* The insert, or the unique index refusing it: then the row that won is    *)
(* answered.                                                                *)
create_collection(s) ==
    LET p == CHOOSE q \in staff[s].pids : TRUE
        new == [Row("collection", staff[s].target, staff[s].uri, FALSE) EXCEPT !.updated = TRUE]
    IN
    /\ staff[s].step = "insert"
    /\ \/ /\ LiveWithUri(staff[s].uri) = {}
          /\ rows' = [rows EXCEPT ![p] = new]
       \/ /\ LiveWithUri(staff[s].uri) # {}
          /\ UNCHANGED rows
    /\ Closes(s)
    /\ UNCHANGED <<aipAsked, byObject>>

add_members_check(s, S, target) ==
    /\ LiveCollection(target)
    /\ Request(s, "add")
    /\ Opens(s, "add", S, target, NoUri, FALSE)
    /\ UNCHANGED <<rows, aipAsked, byObject>>

Movable(S) == {p \in S : Live(p) /\ ~IsCollection(p)}
add_members_write(s) ==
    LET adopt(r) == Adopts(staff[s].target, r) IN
    /\ staff[s].step = "add"
    /\ Set(Movable(staff[s].pids), adopt)
    /\ Closes(s)
    /\ UNCHANGED <<aipAsked, byObject>>

Members_mutant(c) == {p \in Pids : Live(p) /\ rows[p].parent = c /\ ~IsCollection(p)}
Members(c) == {p \in Pids : Live(p) /\ rows[p].parent = c}
delete_collection_check(s, c) ==
    /\ LiveCollection(c)
    /\ Members(c) = {}
    /\ Request(s, "unlink")
    /\ Opens(s, "unlink", {c}, Root, NoUri, TRUE)
    /\ UNCHANGED <<rows, aipAsked, byObject>>

delete_collection_write(s) ==
    /\ staff[s].step = "unlink"
    /\ Set({p \in staff[s].pids : rows[p].active}, Deletes)
    /\ Closes(s)
    /\ UNCHANGED <<aipAsked, byObject>>

(* c is below a: in every set that holds a and, with a collection, the      *)
(* collections below it.                                                    *)
Collections == {p \in Pids : IsCollection(p)}
ClosedBelow(S) == \A p \in Collections : rows[p].parent \in S => p \in S
is_descendant_of(c, a) == \A S \in SUBSET Pids : a \in S /\ ClosedBelow(S) => c \in S

may_move_under_mutant(c, parent) == parent = Root \/ (LiveCollection(parent) /\ parent # c)
may_move_under(c, parent) ==
    parent = Root \/ (LiveCollection(parent) /\ ~is_descendant_of(parent, c))

move_collection_check(s, c, parent) ==
    /\ LiveCollection(c)
    /\ parent # rows[c].parent
    /\ may_move_under(c, parent)
    /\ Request(s, "move")
    /\ Opens(s, "move", {c}, parent, NoUri, TRUE)
    /\ UNCHANGED <<rows, aipAsked, byObject>>

move_collection_write(s) ==
    LET adopt(r) == Adopts(staff[s].target, r) IN
    /\ staff[s].step = "move"
    /\ Set({p \in staff[s].pids : rows[p].active}, adopt)
    /\ Closes(s)
    /\ UNCHANGED <<aipAsked, byObject>>

publish_members_check(s, c) ==
    /\ LiveCollection(c) /\ rows[c].published
    /\ Request(s, "members")
    /\ Opens(s, "members", {c}, c, NoUri, TRUE)
    /\ UNCHANGED <<rows, aipAsked, byObject>>

publish_members_write(s) ==
    /\ staff[s].step = "members"
    /\ Set(Movable(Members(staff[s].target)), Publishes)
    /\ Closes(s)
    /\ UNCHANGED <<aipAsked, byObject>>

suppress_members(s, c) ==
    /\ LiveCollection(c)
    /\ Request(s, "edit")
    /\ Set(Movable(Members(c)), Suppresses)
    /\ UNCHANGED <<staff, aipAsked, byObject>>

-----------------------------------------------------------------------------
(* The process dies: every request in progress is cut where it was. *)
cut ==
    /\ faults < MaxFaults
    /\ faults' = faults + 1
    /\ staff' = [s \in Staff |-> Idle]
    /\ UNCHANGED <<rows, aipAsked, crossed, byObject, ops>>

Writes(s) ==
    \/ set_publish_state_write(s) \/ request_aip_delete(s) \/ soft_delete_write(s)
    \/ create_collection_check(s) \/ create_collection(s) \/ add_members_write(s) \/ delete_collection_write(s)
    \/ move_collection_write(s) \/ publish_members_write(s)

-----------------------------------------------------------------------------
(* The dashboard's requests (src/dashboard/controller.js).                  *)
objects_row_action(s) ==
    \E S \in Selections(TRUE) :
        set_publish_state_check(s, S, TRUE) \/ suppress(s, S, TRUE) \/ soft_delete_check(s, S, TRUE)
objects_bulk_action(s) ==
    \E S \in Selections(FALSE) :
        set_publish_state_check(s, S, FALSE) \/ suppress(s, S, FALSE) \/ soft_delete_check(s, S, FALSE)
object_edit(s) == \E p \in Pids : edit_record(s, p)
(* The route looks for the parent first, deleted or not; the ingest gate    *)
(* (ingester/workspace.js, _ensure_collection_exists) gives none.           *)
collection_create(s) ==
    \E uri \in Uris :
        \/ provision_existing(s, uri)
        \/ \E parent \in {Root} \cup {c \in Pids : IsCollection(c)}, p \in Pids :
                provision_fetch(s, uri, parent, p)
collection_add_members(s) == \E p, c \in Pids : add_members_check(s, {p}, c)
collection_delete(s) == \E c \in Pids : delete_collection_check(s, c)
collection_move(s) ==
    \E c \in Pids, parent \in {Root} \cup Pids : move_collection_check(s, c, parent)
collection_bulk_publish(s) == \E c \in Pids : publish_members_check(s, c)
collection_bulk_suppress(s) == \E c \in Pids : suppress_members(s, c)

Checks(s) ==
    /\ Free(s)
    /\ \/ objects_row_action(s) \/ objects_bulk_action(s) \/ object_edit(s)
       \/ collection_create(s) \/ collection_add_members(s) \/ collection_delete(s)
       \/ collection_move(s) \/ collection_bulk_publish(s) \/ collection_bulk_suppress(s)

-----------------------------------------------------------------------------
(* The collections form a forest: none is, through its parents, its own     *)
(* parent.  The check of a move is not repeated at its write, so two moves  *)
(* that overlap are excepted (src/collections/model.js:390).                *)
NoCycle ==
    {"move"} \notin crossed =>
        \A S \in SUBSET Collections : S # {} => \E p \in S : rows[p].parent \notin S

(* Nothing is left half deleted.  No live row stays under a deleted         *)
(* collection, unless something was being put there while its emptiness was *)
(* checked, or it was deleted through the object route, which does not look *)
(* (delete_collection, src/collections/model.js:317).  And an AIP is asked  *)
(* to be deleted only for an object that is then deleted, or whose request  *)
(* was cut by a crash (soft_delete, src/repository/model.js:298).           *)
NoStranded ==
    crossed \cap {{"unlink", "add"}, {"unlink", "move"}, {"unlink", "insert"}} = {} =>
        \A p \in Pids : Live(p) /\ IsCollection(rows[p].parent) =>
            LiveCollection(rows[p].parent) \/ rows[p].parent \in byObject
DeletesGoThrough ==
    \A p \in aipAsked : rows[p].active => faults > 0
        \/ \E s \in Staff : staff[s].step = "delete" /\ p \in staff[s].pids
NothingHalfDeleted == NoStranded /\ DeletesGoThrough

(* A row becomes public only under a public collection, by whichever route; *)
(* excepted are the windows in which the collection is suppressed or the    *)
(* row gets another parent (set_publish_state, src/repository/model.js:232; *)
(* set_members_publish_state, src/collections/model.js:509).                *)
PublicBelowPublic ==
    [][crossed \cap {{"publish", "unpublish"}, {"publish", "add"}, {"publish", "move"},
                     {"members", "unpublish"}} = {} =>
        \A p \in Pids : ~rows[p].published /\ rows'[p].published =>
            ~IsCollection(rows[p].parent) \/ rows[rows[p].parent].published]_rows
=============================================================================
