--------------------------- MODULE AspaceSession ---------------------------
(***************************************************************************)
(* The ArchivesSpace session that the ingest stages share                  *)
(* (libs/aspace_session.js) and its client (libs/archivesspace.js): one    *)
(* cached token, one login in flight, record fetches in single file with   *)
(* an interval between them, a refetch after a 401, a bounded number of    *)
(* attempts.  A caller is a stage-1 fetch or a stage-4 drift check; they   *)
(* run concurrently in one process.  ArchivesSpace may cull its sessions   *)
(* at any moment.                                                          *)
(*                                                                         *)
(* A promise that settles resumes all its awaiters before the next event   *)
(* of the loop, so a login that returns is one step for every caller that  *)
(* awaits it.                                                              *)
(***************************************************************************)
EXTENDS Integers, Sequences, FiniteSets

CONSTANTS
    NumCalls,    \* bound: calls of fetch_record_with_retry, numbered as they start
    Attempts,    \* opts.attempts
    MaxCulls,    \* bound: times ArchivesSpace drops its sessions
    MaxFaults    \* bound: transport failures, failed logins, 5xx and 429 answers

ASSUME BoundsAssumption ==
    NumCalls \in Nat /\ Attempts \in Nat \ {0} /\ MaxCulls \in Nat /\ MaxFaults \in Nat

Callers == 1..NumCalls
None == 0

VARIABLES
    token,    \* the holder's cached token, or None
    minting,  \* the holder's in-flight login: "no", "asked", "issued", "failed"
    live,     \* the sessions ArchivesSpace honours
    line,     \* _pace_chain: the callers waiting for a slot
    slot,     \* "free" once the interval since _pace_last_at is over
    fetch,    \* the local state of each call
    book      \* logins made; what they and the requests are still owed, and the bounds

vars == <<token, minting, live, line, slot, fetch, book>>

Steps == {"idle", "pace", "login", "asked", "answered", "backoff", "done"}
Answers == {"none", "definitive", "refused", "busy", "lost"}

TypeOK ==
    /\ token \in 0..book.logins /\ book.logins \in Nat
    /\ minting \in {"no", "asked", "issued", "failed"}
    /\ live \subseteq 1..book.logins
    /\ slot \in {"free", "spent"}
    /\ \A i \in DOMAIN line : fetch[line[i]].at = "pace"
    /\ \A c \in Callers :
          /\ fetch[c].at \in Steps /\ fetch[c].answer \in Answers
          /\ fetch[c].attempt \in 1..Attempts
          /\ fetch[c].at = "pace" => \E i \in DOMAIN line : line[i] = c
          /\ fetch[c].at = "asked" => fetch[c].token # None
          /\ fetch[c].at = "login" => minting # "no"
    /\ book.faults \in 0..MaxFaults /\ book.culls \in 0..MaxCulls

Init ==
    /\ token = None /\ minting = "no" /\ live = {} /\ line = <<>> /\ slot = "free"
    /\ fetch = [c \in Callers |->
                  [at |-> "idle", attempt |-> 1, token |-> None, again |-> FALSE, answer |-> "none"]]
    /\ book = [logins |-> 0, login_due |-> 1, fetch_due |-> 1, broken |-> FALSE,
               faults |-> 0, culls |-> 0]

\* n more record requests; one more login; a broken connection.
Sent(b, n) == [b EXCEPT !.fetch_due = @ - n]
Login(b) == [b EXCEPT !.logins = @ + 1, !.login_due = @ - 1]
Break(b) == [b EXCEPT !.faults = @ + 1, !.login_due = @ + 1, !.broken = TRUE]
MayFail == book.faults < MaxFaults
-----------------------------------------------------------------------------
(* The holder and the pace chain *)

\* A caller that found a live-looking token asks at once; one that found none
\* awaits the login.
Asks(f, t) == [f EXCEPT !.at = "asked", !.token = t]
Awaits(f) == [f EXCEPT !.at = "login"]

\* get() in a state where the holder has token t and b is the book.
get_mutant(c, f, t, b) ==
    IF t # None
    THEN /\ fetch' = [fetch EXCEPT ![c] = Asks(f, t)]
         /\ book' = Sent(b, 1) /\ UNCHANGED minting
    ELSE /\ fetch' = [fetch EXCEPT ![c] = Awaits(f)]
         /\ minting' = "asked" /\ book' = Login(b)
get(c, f, t, b) ==
    IF t # None
    THEN /\ fetch' = [fetch EXCEPT ![c] = Asks(f, t)]
         /\ book' = Sent(b, 1) /\ UNCHANGED minting
    ELSE /\ fetch' = [fetch EXCEPT ![c] = Awaits(f)]
         /\ IF minting = "no"
            THEN minting' = "asked" /\ book' = Login(b)
            ELSE UNCHANGED minting /\ book' = b

\* A call, or its next attempt, joins the chain.
_pace(c) ==
    /\ line' = Append(line, c)
    /\ UNCHANGED <<token, minting, live, slot, book>>

\* The first in line gets its slot once the interval since the last is over.
Turn ==
    /\ line # <<>> /\ slot = "free"
    /\ line' = Tail(line) /\ slot' = "spent"
    /\ get(Head(line), fetch[Head(line)], token, book)
    /\ UNCHANGED <<token, live>>

IntervalEnds ==
    /\ slot = "spent" /\ slot' = "free"
    /\ book' = [book EXCEPT !.fetch_due = @ + 1]
    /\ UNCHANGED <<token, minting, live, line, fetch>>
-----------------------------------------------------------------------------
(* fetch_record_with_retry *)

fetch_record_with_retry(c) ==
    /\ fetch[c].at = "idle" /\ \A d \in 1..(c - 1) : fetch[d].at # "idle"
    /\ fetch' = [fetch EXCEPT ![c].at = "pace"]
    /\ _pace(c)

Done(f) == [f EXCEPT !.at = "done", !.attempt = 1, !.again = FALSE]

\* The attempt failed: a backoff, or the last error is thrown.
Failed(f) ==
    IF f.attempt < Attempts
    THEN [f EXCEPT !.at = "backoff", !.answer = "none"]
    ELSE Done([f EXCEPT !.answer = "lost"])

\* The login is over: everyone who awaits it goes on, with the token or with
\* the error, which counts as a failed attempt and empties the holder.
LoginReturns_mutant ==
    /\ minting = "issued" /\ minting' = "no"
    /\ token' = book.logins
    /\ fetch' = [c \in Callers |-> IF fetch[c].at = "login"
                                   THEN Asks(fetch[c], book.logins) ELSE fetch[c]]
    /\ book' = Sent(book, Cardinality({c \in Callers : fetch[c].at = "login"}))
    /\ UNCHANGED <<live, line, slot>>
LoginReturns ==
    /\ minting \in {"issued", "failed"} /\ minting' = "no"
    /\ LET Waiting == {c \in Callers : fetch[c].at = "login"}
       IN IF minting = "issued"
          THEN /\ token' = book.logins
               /\ fetch' = [c \in Callers |-> IF c \in Waiting
                                              THEN Asks(fetch[c], book.logins) ELSE fetch[c]]
               /\ book' = Sent(book, Cardinality(Waiting))
          ELSE /\ token' = None
               /\ fetch' = [c \in Callers |-> IF c \in Waiting
                                              THEN Failed(fetch[c]) ELSE fetch[c]]
               /\ UNCHANGED book
    /\ UNCHANGED <<live, line, slot>>

\* A 401 or 403 drops the token, whichever it is by now, and the record is
\* fetched once more with the next one; a second refusal is the answer.
Refused(c) ==
    /\ fetch[c].at = "answered" /\ fetch[c].answer = "refused"
    /\ IF fetch[c].again
       THEN /\ fetch' = [fetch EXCEPT ![c] = Done(@)]
            /\ UNCHANGED <<token, minting, book>>
       ELSE /\ token' = None
            /\ get(c, [fetch[c] EXCEPT !.again = TRUE], None, book)
    /\ UNCHANGED <<live, line, slot>>

\* A definitive answer (200, 404, any other status) is returned; 5xx and 429 keep the token and use up the
\* attempt; a connection that broke drops the token too, whichever it is.
Returned(c) ==
    /\ fetch[c].at = "answered" /\ fetch[c].answer = "definitive"
    /\ fetch' = [fetch EXCEPT ![c] = Done(@)]
    /\ UNCHANGED <<token, minting, live, line, slot, book>>
Throttled(c) ==
    /\ fetch[c].at = "answered" /\ fetch[c].answer = "busy"
    /\ fetch' = [fetch EXCEPT ![c] = Failed(@)]
    /\ UNCHANGED <<token, minting, live, line, slot, book>>
Broken(c) ==
    /\ fetch[c].at = "answered" /\ fetch[c].answer = "lost"
    /\ fetch' = [fetch EXCEPT ![c] = Failed(@)] /\ token' = None
    /\ UNCHANGED <<minting, live, line, slot, book>>

Retry(c) ==
    /\ fetch[c].at = "backoff"
    /\ fetch' = [fetch EXCEPT ![c].at = "pace", ![c].attempt = @ + 1, ![c].again = FALSE]
    /\ _pace(c)
-----------------------------------------------------------------------------
(* ArchivesSpace, as the client reports it *)

\* get_session_token: a session, or an error (rejected, malformed or broken).
get_session_token ==
    /\ minting = "asked"
    /\ \/ minting' = "issued" /\ live' = live \union {book.logins} /\ UNCHANGED book
       \/ MayFail /\ minting' = "failed" /\ book' = Break(book) /\ UNCHANGED live
    /\ UNCHANGED <<token, line, slot, fetch>>

Answered(f, a) == [f EXCEPT !.at = "answered", !.answer = a, !.token = None]

\* get_record: what the service says of the request's token, or a failure.
get_record(c) ==
    /\ fetch[c].at = "asked"
    /\ \/ /\ fetch[c].token \in live
          /\ fetch' = [fetch EXCEPT ![c] = Answered(@, "definitive")]
          /\ UNCHANGED book
       \/ /\ fetch[c].token \notin live
          /\ fetch' = [fetch EXCEPT ![c] = Answered(@, "refused")]
          /\ book' = [book EXCEPT !.login_due = @ + 1, !.fetch_due = @ + 1]
       \/ /\ MayFail
          /\ fetch' = [fetch EXCEPT ![c] = Answered(@, "busy")]
          /\ book' = [book EXCEPT !.faults = @ + 1]
       \/ /\ MayFail
          /\ fetch' = [fetch EXCEPT ![c] = Answered(@, "lost")]
          /\ book' = Break(book)
    /\ UNCHANGED <<token, minting, live, line, slot>>

\* ArchivesSpace restarts or culls its sessions.
Cull ==
    /\ live # {} /\ book.culls < MaxCulls
    /\ live' = {} /\ book' = [book EXCEPT !.culls = @ + 1]
    /\ UNCHANGED <<token, minting, line, slot, fetch>>

CallerStep(c) ==
    Refused(c) \/ Returned(c) \/ Throttled(c) \/ Broken(c) \/ Retry(c) \/ get_record(c)

Next ==
    \/ Turn \/ IntervalEnds \/ get_session_token \/ LoginReturns \/ Cull
    \/ \E c \in Callers : fetch_record_with_retry(c) \/ CallerStep(c)

\* Every request has a timeout and every sleep ends; a stage need not fetch,
\* and a session need not be culled.
Fairness ==
    /\ WF_vars(Turn) /\ WF_vars(IntervalEnds)
    /\ WF_vars(get_session_token) /\ WF_vars(LoginReturns)
    /\ \A c \in Callers : WF_vars(CallerStep(c))

Spec == Init /\ [][Next]_vars
FairSpec == Spec /\ Fairness
-----------------------------------------------------------------------------
(* Properties *)

\* However many stages fetch at once, each login has a cause of its own: it is
\* the first, or it is due to a 401 or a connection that broke.  A burst of packages on a healthy
\* service makes one login, not one each.
LoginsHaveCauses == book.login_due >= 0

\* What ArchivesSpace is asked is bounded by the time that passed: one record
\* request per interval, and one more for each 401, however many stages and
\* retries are in line.
LoadIsPaced == book.fetch_due >= 0

\* A 401 that survives the refresh is not the echo of one cull: unless the
\* sessions were culled twice or a connection broke in between, no stage is
\* told that its credentials are bad.
RefusalIsReal ==
    \A c \in Callers : fetch[c].at = "done" /\ fetch[c].answer = "refused"
                          => book.culls >= 2 \/ book.broken

\* What holds of the session at every moment: its types and the three above.
SessionInv == TypeOK /\ LoginsHaveCauses /\ LoadIsPaced /\ RefusalIsReal

\* Every fetch ends, behind whatever line, logins, culls and failures.
FetchesEnd == \A c \in Callers : fetch[c].at = "pace" ~> fetch[c].at = "done"
=============================================================================
