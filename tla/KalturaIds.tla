----------------------------- MODULE KalturaIds -----------------------------
(***************************************************************************)
(* The lookup of Kaltura entry ids (src/kaltura/).  Every request puts its *)
(* packages into one shared queue and drains that queue itself, whoever    *)
(* queued the rows; answers are kept in tbl_kaltura_ids, by package name   *)
(* and file, where stage 5 reads them.  An answer is abstracted to whether *)
(* it is a single entry (status 1): no match and several matches block     *)
(* alike, and no reader takes their rows.                                  *)
(***************************************************************************)
EXTENDS Naturals, FiniteSets, SequencesExt

CONSTANTS
    Sessions,   \* requests that may be under way at a time
    Holds,      \* [folder, package, files]: a package and its media files
    MaxRuns     \* requests (bound of the model)

ASSUME KalturaAssumption ==
    /\ MaxRuns \in Nat /\ IsFiniteSet(Holds)
    /\ \A h, k \in Holds : h.folder = k.folder /\ h.package = k.package => h = k

VARIABLES
    kqueue,     \* tbl_kaltura_package_queue: the rows not yet processed
    ids,        \* tbl_kaltura_ids: the rows that stage 5 would take
    run,        \* session -> what its request is at
    runs        \* requests begun

kalturaVars == <<kqueue, ids, run, runs>>

Folders == {h.folder : h \in Holds}
Names == {h.package : h \in Holds}
MediaFiles == UNION {h.files : h \in Holds}
NoFolder == "-"
NoRow == [package |-> "-", files |-> {}]

(* crossed: another request touched what this one goes by since it began.  *)
(* blind: packages whose files this request went on without seeing.        *)
Idle == [kind |-> "none", step |-> "idle", folder |-> NoFolder, todo |-> {}, packages |-> {}, id |-> 0,
         media |-> {}, row |-> NoRow, results |-> {}, blind |-> {}, ok |-> FALSE,
         crossed |-> FALSE]

(* Lists are gone through in their order.                                   *)
First(list) == CHOOSE x \in list : TRUE
Media(holds) == UNION {{[package |-> h.package, file |-> x] : x \in h.files} : h \in holds}
PackagesOf(media) == {m.package : m \in media}
Answers == [package : Names, file : MediaFiles, single : BOOLEAN]

KalturaTypeOK ==
    /\ \A q \in Range(kqueue) : q.package \in Names /\ q.files \subseteq MediaFiles
    /\ ids \subseteq {a \in Answers : a.single}
    /\ \A s \in Sessions : run[s].results \subseteq Answers
    /\ runs \in 0..MaxRuns

KalturaInit ==
    /\ kqueue = <<>> /\ ids = {}
    /\ run = [s \in Sessions |-> Idle] /\ runs = 0

-----------------------------------------------------------------------------
Begins(s, request) ==
    /\ run[s].step = "idle" /\ runs < MaxRuns
    /\ runs' = runs + 1
    /\ run' = [run EXCEPT ![s] = request]

At(s, step) == run[s].step = step
Goes(s, step) == run' = [run EXCEPT ![s].step = step]
Returns(s) == run' = [run EXCEPT ![s] = Idle]

(* The requests that the queue and its answers are in the hands of.         *)
USING == {"clear", "clear_queue", "enqueue", "peek", "mark", "file", "resolved", "call"}
Using(s) == At(s, "wipe") \/ (run[s].step \in USING /\ run[s].media # {})
(* A request that begins with them crosses, and is crossed by, the others.  *)
Joins(s, request) ==
    run' = [t \in Sessions |->
              IF t = s THEN [request EXCEPT !.crossed = \E o \in Sessions \ {s} : Using(o)]
              ELSE IF Using(t) THEN [run[t] EXCEPT !.crossed = TRUE] ELSE run[t]]

(* resolve_packages: a session is opened first; one that is refused ends    *)
(* the request.                                                             *)
start_session(s) ==
    /\ At(s, "resolve")
    /\ Joins(s, [run[s] EXCEPT !.step = "clear"])
    /\ UNCHANGED <<kqueue, ids, runs>>

(* clear_packages: the ids and the rows of the request's package names,     *)
(* one table after the other.                                               *)
Without(packages) ==
    LET kept == {i \in DOMAIN kqueue : kqueue[i].package \notin packages}
        place(j) == CHOOSE i \in kept : Cardinality({k \in kept : k <= i}) = j
    IN [j \in 1..Cardinality(kept) |-> kqueue[place(j)]]
Cleared_mutant(s) == {}
Cleared(s) == {a \in ids : a.package \notin PackagesOf(run[s].media)}
clear_ids(s) ==
    /\ At(s, "clear") /\ Goes(s, "clear_queue")
    /\ ids' = Cleared(s)
    /\ UNCHANGED <<kqueue, runs>>
clear_rows(s) ==
    /\ At(s, "clear_queue") /\ Goes(s, "enqueue")
    /\ kqueue' = Without(PackagesOf(run[s].media))
    /\ UNCHANGED <<ids, runs>>

queue_packages(s) ==
    /\ At(s, "enqueue") /\ Goes(s, "peek")
    /\ kqueue' = kqueue \o
         SetToSeq({[package |-> p, files |-> {m.file : m \in {n \in run[s].media : n.package = p}}]
                      : p \in PackagesOf(run[s].media)})
    /\ UNCHANGED <<ids, runs>>

(* The oldest row, of whichever request; without one the drain is over.     *)
get_next_package(s) ==
    /\ At(s, "peek")
    /\ run' = [run EXCEPT ![s] =
                 IF kqueue = <<>> THEN [@ EXCEPT !.step = "resolved"]
                 ELSE [@ EXCEPT !.step = "mark", !.row = Head(kqueue)]]
    /\ UNCHANGED <<kqueue, ids, runs>>

(* By name: every row of the package, before its files are looked up.       *)
Unprocessed_mutant(package) == <<>>
Unprocessed(package) == Without({package})
mark_package_processed(s) ==
    /\ At(s, "mark") /\ Goes(s, "file")
    /\ kqueue' = Unprocessed(run[s].row.package)
    /\ UNCHANGED <<ids, runs>>

(* What an exact-match search may find; one entry is an id.                 *)
search_metadata == {"none", "one", "several", "error"}
(* The whole name first; without a hit, the name without its extension.     *)
Found == {IF full = "none" THEN bare ELSE full : full, bare \in search_metadata}
_extract_entry_ids(package, file, found) ==
    [package |-> package, file |-> file, single |-> found = "one"]

(* One file; a search that fails is kept as no match.                       *)
resolve_file(s) ==
    /\ At(s, "file")
    /\ \E found \in Found :
         LET x == First(run[s].row.files)
             answer == _extract_entry_ids(run[s].row.package, x, found)
             left == run[s].row.files \ {x}
         IN /\ ids' = IF answer.single THEN ids \cup {answer} ELSE ids
            /\ run' = [run EXCEPT ![s].results = @ \cup {answer},
                          ![s].row = IF left = {} THEN NoRow ELSE [@ EXCEPT !.files = left],
                          ![s].step = IF left = {} THEN "peek" ELSE "file"]
    /\ UNCHANGED <<kqueue, runs>>

(* A request of its own (POST /kaltura/metadata) is over with the drain.    *)
post_metadata(s) ==
    /\ \E h \in {k \in Holds : k.files # {}} :
         Begins(s, [Idle EXCEPT !.kind = "metadata", !.step = "resolve", !.media = Media({h})])
    /\ UNCHANGED <<kqueue, ids>>
metadata_answered(s) ==
    /\ At(s, "resolved") /\ run[s].kind = "metadata"
    /\ Returns(s) /\ UNCHANGED <<kqueue, ids, runs>>

(* POST /kaltura/queue/clear empties both tables, the ids first.            *)
clear_queue(s) ==
    /\ run[s].step = "idle" /\ runs < MaxRuns /\ runs' = runs + 1
    /\ Joins(s, [Idle EXCEPT !.kind = "wipe", !.step = "wipe"])
    /\ ids' = {} /\ UNCHANGED <<kqueue>>
clear_queue_table(s) ==
    /\ At(s, "wipe") /\ Returns(s)
    /\ kqueue' = <<>> /\ UNCHANGED <<ids, runs>>

(* get_entry_id_for_file, as stage 5 asks it.                               *)
has_entry_id(package, file) == [package |-> package, file |-> file, single |-> TRUE] \in ids

Resolving(s) ==
    \/ start_session(s) \/ clear_ids(s) \/ clear_rows(s) \/ queue_packages(s)
    \/ get_next_package(s) \/ mark_package_processed(s) \/ resolve_file(s)
    \/ metadata_answered(s) \/ clear_queue_table(s)
=============================================================================
