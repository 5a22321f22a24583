---------------------------- MODULE DisplayRecord ----------------------------
(***************************************************************************)
(* What an object's row says it consists of (tbl_objects.display_record):  *)
(* stage 5 merges the ArchivesSpace parts with the files of the DIP, every *)
(* metadata refresh merges again from what the last envelope kept, staff   *)
(* upload thumbnails in between, and the indexer projects the result.      *)
(* ArchivesSpace knows no DIP paths: a path a refresh drops is gone.       *)
(*                                                                         *)
(* A file is a number, in the order of the names; its DIP path is the same *)
(* number and stands for its object and its thumbnail.  MIME types and the *)
(* descriptive fields follow the answer and are left out.                  *)
(***************************************************************************)
EXTENDS Integers, Sequences, FiniteSets, Functions

CONSTANTS
    NumFiles,   \* files of the object's DIP
    Titles,     \* what ArchivesSpace may name a part; 0 is no title
    MaxParts,   \* parts of an ArchivesSpace record (bound of the model)
    Urls,       \* addresses of uploaded thumbnails
    Refreshers, \* refreshes that may overlap
    MaxWrites   \* bound: writes of the row; what could not be written is not begun

ASSUME DisplayRecordAssumption ==
    /\ NumFiles \in Nat \ {0} /\ MaxParts \in Nat /\ MaxWrites \in Nat
    /\ Titles \subseteq Nat
    /\ Urls \cap {"none", "dip"} = {}

VARIABLES
    row,    \* the row's envelope and its thumbnail and file_name columns
    held,   \* the DIP paths that the object came with
    built,  \* refresher -> the envelope it is about to write
    outrun, \* the last write built on a row that another had changed since
    stored, \* the addresses whose file is in the upload directory
    upload, \* the address an upload request is about to write to the row
    writes

vars == <<row, held, built, outrun, stored, upload, writes>>

Files == 1..NumFiles
None == 0
NoThumbnail == "none"
DipThumbnail == "dip"
NoEnvelope == [shape |-> "none", object |-> None, thumbnail |-> NoThumbnail, parts |-> <<>>,
               dip |-> <<>>]
NoRow == [envelope |-> NoEnvelope, thumbnail |-> NoThumbnail, file_name |-> None]

PathsOf(parts) == {p.object : p \in Range(parts)} \ {None}
AspaceParts == [title : Titles, kaltura_id : BOOLEAN]
Answers == UNION {[1..n -> AspaceParts] : n \in 0..MaxParts}
DipFile(f, kaltura_id) == [file |-> f, kaltura_id |-> kaltura_id, object |-> f]
DipLists == UNION {{dip \in [1..n -> {DipFile(f, k) : f \in Files, k \in BOOLEAN}] :
                       \A i, j \in 1..n : dip[i].file = dip[j].file => i = j} : n \in 1..NumFiles}

\* The entries of a list at some of its places, in their order.
Place(places, n) == CHOOSE i \in places : Cardinality({j \in places : j <= i}) = n
At(list, places) == [n \in 1..Cardinality(places) |-> list[Place(places, n)]]

-----------------------------------------------------------------------------
(* libs/display_envelope.js                                                 *)

(* The DIP entry of an ArchivesSpace part: the first of its name, claimed   *)
(* or not; an untitled part takes the next one unclaimed.                   *)
Matches(part, dip, claimed) ==
    {i \in DOMAIN dip : IF part.title = None THEN i \notin claimed ELSE dip[i].file = part.title}
Match(part, dip, claimed) ==
    LET matches == Matches(part, dip, claimed)
    IN IF matches = {} THEN None ELSE CHOOSE i \in matches : \A j \in matches : i <= j

MergedPart_mutant(part, dip, i) ==
    [title |-> IF part.title # None \/ i = None THEN part.title ELSE dip[i].file,
     kaltura_id |-> part.kaltura_id,
     object |-> IF i = None THEN None ELSE dip[i].object]
MergedPart(part, dip, i) ==
    [title |-> IF part.title # None \/ i = None THEN part.title ELSE dip[i].file,
     kaltura_id |-> part.kaltura_id \/ (i # None /\ dip[i].kaltura_id),
     object |-> IF i = None THEN None ELSE dip[i].object]

\* The DIP entries that the first n parts have claimed.
Claimed(inner, dip) ==
    LET claimed[n \in 0..Len(inner)] ==
          IF n = 0 THEN {}
          ELSE claimed[n - 1] \cup ({Match(inner[n], dip, claimed[n - 1])} \ {None})
    IN claimed

AsPart(d) == [title |-> d.file, kaltura_id |-> d.kaltura_id, object |-> d.object]
(* Unmatched files are appended, in the DIP's order.                        *)
Unclaimed_mutant(dip, claimed) == {}
Unclaimed_twice(dip, claimed) == DOMAIN dip
Unclaimed(dip, claimed) == DOMAIN dip \ claimed
merge_parts(inner, dip) ==
    LET claimed == Claimed(inner, dip)
        left == At(dip, Unclaimed(dip, claimed[Len(inner)]))
    IN [n \in DOMAIN inner |-> MergedPart(inner[n], dip, Match(inner[n], dip, claimed[n - 1]))]
         \o [n \in DOMAIN left |-> AsPart(left[n])]

WithPath(parts) == {i \in DOMAIN parts : parts[i].object # None}
(* The part with a path whose name sorts first; the first of equals.        *)
FirstNamed(merged) ==
    IF WithPath(merged) = {} THEN None
    ELSE CHOOSE i \in WithPath(merged) : \A j \in WithPath(merged) :
                \/ merged[i].title < merged[j].title
                \/ merged[i].title = merged[j].title /\ i <= j
pick_master_part(merged) ==
    LET i == FirstNamed(merged) IN IF i = None THEN None ELSE merged[i].object

IsUrl(thumbnail) == thumbnail \in Urls
build_envelope(inner, dip) ==
    LET merged == merge_parts(inner, dip)
        master == pick_master_part(merged)
    IN [shape |-> "fat", object |-> master, parts |-> merged, dip |-> <<>>,
        thumbnail |-> IF master = None THEN NoThumbnail ELSE DipThumbnail]

-----------------------------------------------------------------------------
(* metadata/worker.js, build_payload                                        *)

(* The paths a refresh recovers: the DIP list of a thin envelope, else the  *)
(* parts that have one.                                                     *)
DipOf(envelope) ==
    IF envelope.shape = "thin" THEN envelope.dip
    ELSE LET prior == At(envelope.parts, WithPath(envelope.parts))
         IN [k \in DOMAIN prior |-> [file |-> prior[k].title, kaltura_id |-> prior[k].kaltura_id,
                                    object |-> prior[k].object]]

(* An answer without parts does not lose the manifest.                      *)
InnerFor(envelope, answer) == IF answer = <<>> THEN envelope.parts ELSE answer

Kept(previous, rebuilt, column, none) ==
    IF previous # none THEN previous ELSE IF rebuilt # none THEN rebuilt ELSE column

(* A thumbnail that staff uploaded is in the column, as an address.         *)
Thumbnail(column, kept) == IF IsUrl(column) THEN column ELSE kept
build_payload(existing, answer) ==
    LET old == existing.envelope
        fresh == build_envelope(InnerFor(old, answer), DipOf(old))
    IN [fresh EXCEPT
          !.object = Kept(old.object, @, existing.file_name, None),
          !.thumbnail = Thumbnail(existing.thumbnail,
                          Kept(old.thumbnail, @, existing.thumbnail, NoThumbnail))]

-----------------------------------------------------------------------------
(* The rows there may be at first: none yet, a thin envelope, or one of the *)
(* single objects whose path stands at the top only.                        *)
Bare(inner) == [k \in DOMAIN inner |->
    [title |-> inner[k].title, kaltura_id |-> inner[k].kaltura_id, object |-> None]]
Thin(inner, dip) ==
    [envelope |-> [shape |-> "thin", object |-> dip[1].object, thumbnail |-> DipThumbnail,
                   parts |-> Bare(inner), dip |-> dip],
     thumbnail |-> DipThumbnail, file_name |-> dip[1].object]
TopOnly(inner) ==
    [envelope |-> [shape |-> "fat", object |-> 1, thumbnail |-> DipThumbnail,
                   parts |-> Bare(inner), dip |-> <<>>],
     thumbnail |-> DipThumbnail, file_name |-> 1]

Init ==
    /\ \/ row = NoRow /\ held = {}
       \/ \E inner \in Answers, dip \in DipLists : row = Thin(inner, dip) /\ held = PathsOf(dip)
       \/ \E inner \in Answers : row = TopOnly(inner) /\ held = {1}
    /\ built = [w \in Refreshers |-> [envelope |-> NoEnvelope, crossed |-> FALSE]]
    /\ outrun = FALSE /\ writes = 0
    /\ stored = {} /\ upload = NoThumbnail

Writes(r, exceptFor) ==
    /\ writes < MaxWrites /\ writes' = writes + 1
    /\ row' = r
    /\ built' = [w \in Refreshers |->
                   IF w \in exceptFor THEN [envelope |-> NoEnvelope, crossed |-> FALSE]
                   ELSE IF built[w].envelope = NoEnvelope THEN built[w]
                   ELSE [built[w] EXCEPT !.crossed = TRUE]]

(* Stage 5 inserts the row (ingester/lib/repository_build.js).              *)
build_object_row(answer, dip) ==
    /\ row = NoRow
    /\ LET envelope == build_envelope(answer, dip)
       IN Writes([envelope |-> envelope, thumbnail |-> envelope.thumbnail,
                  file_name |-> envelope.object], {})
    /\ held' = PathsOf(dip) /\ outrun' = FALSE /\ UNCHANGED <<stored, upload>>

(* A refresh has its answer, reads the row and builds the envelope ...      *)
refresh_read(w, answer) ==
    /\ row # NoRow /\ built[w].envelope = NoEnvelope /\ writes < MaxWrites
    /\ built' = [built EXCEPT ![w].envelope = build_payload(row, answer)]
    /\ UNCHANGED <<row, held, outrun, stored, upload, writes>>
(* ... and writes it, whatever the row holds by then.                       *)
update_metadata_payload(w) ==
    /\ built[w].envelope # NoEnvelope
    /\ Writes([row EXCEPT !.envelope = built[w].envelope], {w})
    /\ outrun' = built[w].crossed /\ UNCHANGED <<held, stored, upload>>

(* Mutant: the picture is written after the row.                            *)
write_thumbnail_mutant(url) ==
    /\ upload = NoThumbnail /\ writes < MaxWrites
    /\ upload' = url
    /\ UNCHANGED <<row, held, built, outrun, stored, writes>>
(* An upload puts the picture in place first (a temporary file, renamed)... *)
write_thumbnail(url) ==
    /\ upload = NoThumbnail /\ writes < MaxWrites
    /\ stored' = stored \cup {url} /\ upload' = url
    /\ UNCHANGED <<row, held, built, outrun, writes>>
(* ... then its address, in column and envelope, in one transaction.  A     *)
(* request that ends in between (no such row, a restart) takes no such step.*)
set_thumbnail ==
    /\ row # NoRow /\ upload # NoThumbnail
    /\ Writes([row EXCEPT !.thumbnail = upload, !.envelope.thumbnail = upload], {})
    /\ outrun' = FALSE /\ upload' = NoThumbnail /\ UNCHANGED <<held, stored>>

Next ==
    \/ \E answer \in Answers, dip \in DipLists : build_object_row(answer, dip)
    \/ \E w \in Refreshers : \/ \E answer \in Answers : refresh_read(w, answer)
                             \/ update_metadata_payload(w)
    \/ (\E url \in Urls : write_thumbnail(url)) \/ set_thumbnail

Spec == Init /\ [][Next]_vars

-----------------------------------------------------------------------------
(* libs/elasticsearch.js and libs/object_projection.js: what readers show   *)

pick_parts(envelope) ==
    IF envelope.shape = "thin" THEN merge_parts(envelope.parts, envelope.dip) ELSE envelope.parts
master_object(r) ==
    LET parts == pick_parts(r.envelope)
    IN IF r.envelope.object # None THEN r.envelope.object
       ELSE IF WithPath(parts) # {} THEN parts[Place(WithPath(parts), 1)].object ELSE r.file_name
project_for_index(r) ==
    [parts |-> pick_parts(r.envelope), object |-> master_object(r), thumbnail |-> r.thumbnail]
enrich(r) ==
    [thumbnail |-> IF r.envelope.thumbnail # NoThumbnail THEN r.envelope.thumbnail ELSE r.thumbnail]
(* What an image request is answered: a redirect to an uploaded picture; or *)
(* the TN service's picture, else the DIP's if the row names one.           *)
object_thumbnail_raw(r) ==
    LET raw == enrich(r).thumbnail
    IN IF IsUrl(raw) THEN {raw}
       ELSE {"tn", IF raw = NoThumbnail THEN "placeholder" ELSE raw}

-----------------------------------------------------------------------------
TypeOK ==
    /\ row.envelope.shape \in {"none", "thin", "fat"}
    /\ row.envelope.object \in Files \cup {None} /\ row.file_name \in Files \cup {None}
    /\ {row.thumbnail, row.envelope.thumbnail} \subseteq Urls \cup {DipThumbnail, NoThumbnail}
    /\ stored \subseteq Urls /\ upload \in Urls \cup {NoThumbnail}
    /\ held \subseteq Files /\ outrun \in BOOLEAN /\ writes \in 0..MaxWrites

(* No DIP path is ever lost to the index: whatever ArchivesSpace answers,   *)
(* renames or leaves out, and however refreshes overlap (display_envelope,  *)
(* merge_parts: "every real file stays renderable").                        *)
PathsKept ==
    LET doc == project_for_index(row) IN held \subseteq PathsOf(doc.parts) \cup {doc.object}
RecordInv == TypeOK /\ PathsKept

(* A second refresh with the same answer changes nothing, when no name      *)
(* stands twice in the record and every part has one.  (With a repeated     *)
(* name the manifest grows at every refresh.)                               *)
WellTitled(parts) ==
    \A i, j \in DOMAIN parts : parts[i].title # None /\ (parts[i].title = parts[j].title => i = j)
RefreshSettles ==
    row # NoRow =>
        \A answer \in Answers :
            WellTitled(InnerFor(row.envelope, answer)) =>
                LET once == [row EXCEPT !.envelope = build_payload(row, answer)]
                IN build_payload(once, answer) = once.envelope

(* An uploaded thumbnail shows in the index from then on, and on the        *)
(* dashboard unless the last refresh had read the row before the upload     *)
(* (repository/model.js, set_thumbnail: "so the two cannot diverge"); the   *)
(* picture that readers are sent to is there (dashboard/thumbnails.js).     *)
UploadShows ==
    IsUrl(row.thumbnail) =>
        /\ project_for_index(row).thumbnail \in stored
        /\ ~outrun => object_thumbnail_raw(row) = {project_for_index(row).thumbnail}

(* What no later step takes away.  The top-level object, a fact of the DIP, *)
(* stands (metadata/worker.js, build_payload); and a file that can be       *)
(* played stays so: its part keeps an entry id, unless a refresh overwrote  *)
(* what it had not read.  (A thin envelope may have its entry id in the     *)
(* ArchivesSpace part alone, which the answer replaces.)                    *)
MasterStands == row.envelope.object # None => row'.envelope.object = row.envelope.object
Playable(r) == {p.object : p \in {q \in Range(pick_parts(r.envelope)) : q.kaltura_id}} \ {None}
PlayableStays ==
    row.envelope.shape = "fat" => outrun' \/ Playable(row) \subseteq Playable(row')
RefreshTakesNothing == [][MasterStands /\ PlayableStays]_vars
=============================================================================
