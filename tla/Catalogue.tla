----------------------------- MODULE Catalogue -----------------------------
(***************************************************************************)
(* The staff's side of the catalogue in one process: the repository        *)
(* requests and the administrators' handle requests.                       *)
(***************************************************************************)
EXTENDS Repository

CONSTANT Suffixes

VARIABLES handles, server, linked, desk, doubtful, contested

deskVars == <<handles, server, linked, desk, doubtful, contested>>
catalogueVars == <<repoVars, deskVars>>

Desk == INSTANCE Handles WITH Sessions <- Staff

CatalogueInit == RepositoryInit /\ Desk!HandlesInit

CatalogueNext ==
    \/ (\E s \in Staff : Checks(s) \/ Writes(s)) /\ UNCHANGED deskVars
    \/ /\ (\E s \in Staff : Desk!HandleSteps(s)) \/ (\E h \in Suffixes : Desk!attach(h))
       /\ UNCHANGED <<rows, staff, aipAsked, crossed, byObject>>
    \/ cut /\ Desk!desks_cut

CatalogueSpec == CatalogueInit /\ [][CatalogueNext]_catalogueVars

RecordHonest == Desk!RecordHonest
=============================================================================
