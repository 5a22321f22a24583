--------------------------- MODULE Workspace_proofs ---------------------------
(***************************************************************************)
(* Proofs about Workspace and the id lookup it rests on, for any number of *)
(* folders, packages, requests and rows: types; no component without its   *)
(* id for a file the run had listed; one open row for a package; the ids   *)
(* that stage 5 finds; an answer for a run nobody crossed; and the QA      *)
(* behind a folder that the QA view hides.                                 *)
(***************************************************************************)
EXTENDS Workspace, FiniteSetTheorems, SequenceTheorems, TLAPS

-----------------------------------------------------------------------------
(* Lists *)

\* A list is gone through by taking a member of it.
LEMMA FirstIsMember ==
    ASSUME NEW list, list # {}
    PROVE  First(list) \in list
BY DEF First

\* A set of rows is inserted as a list of its members, each once.
LEMMA ListOfSet ==
    ASSUME NEW S, IsFiniteSet(S)
    PROVE  /\ SetToSeq(S) \in Seq(S)
           /\ Len(SetToSeq(S)) = Cardinality(S)
           /\ \A x \in S : \E i \in 1..Cardinality(S) : SetToSeq(S)[i] = x
           /\ \A i, j \in 1..Cardinality(S) : SetToSeq(S)[i] = SetToSeq(S)[j] => i = j
<1>1. Cardinality(S) \in Nat /\ ExistsBijection(1..Cardinality(S), S)
      BY FS_CardinalityType
<1>2. \E f \in [1..Cardinality(S) -> S] : IsInjective(f)
      BY <1>1 DEF ExistsBijection, Bijection, Injection
<1>3. SetToSeq(S) \in [1..Cardinality(S) -> S] /\ IsInjective(SetToSeq(S))
      BY <1>2 DEF SetToSeq
<1>4. SetToSeq(S) \in Injection(1..Cardinality(S), S)
      BY <1>3 DEF Injection
<1>5. Cardinality(1..Cardinality(S)) = Cardinality(S)
      BY <1>1, FS_Interval
<1>6. SetToSeq(S) \in Surjection(1..Cardinality(S), S)
      BY <1>4, <1>5, FS_Injection
<1>7. \A x \in S : \E i \in 1..Cardinality(S) : SetToSeq(S)[i] = x
      BY <1>6 DEF Surjection
<1>8. SetToSeq(S) \in Seq(S) /\ Len(SetToSeq(S)) = Cardinality(S)
      BY <1>1, <1>3
<1> QED BY <1>3, <1>7, <1>8 DEF IsInjective

\* The members of two lists put together.
LEMMA RangeOfConcat ==
    ASSUME NEW S, NEW p \in Seq(S), NEW q \in Seq(S)
    PROVE  Range(p \o q) = Range(p) \cup Range(q)
<1>1. /\ p \o q \in Seq(S) /\ Len(p \o q) = Len(p) + Len(q)
      /\ \A i \in 1 .. Len(p) + Len(q) :
            (p \o q)[i] = IF i <= Len(p) THEN p[i] ELSE q[i - Len(p)]
      BY ConcatProperties
<1>2. /\ Len(p) \in Nat /\ Len(q) \in Nat
      /\ DOMAIN p = 1..Len(p) /\ DOMAIN q = 1..Len(q)
      /\ DOMAIN (p \o q) = 1..(Len(p) + Len(q))
      BY <1>1, LenProperties
<1>3. ASSUME NEW i \in DOMAIN p PROVE \E k \in DOMAIN (p \o q) : (p \o q)[k] = p[i]
      BY <1>1, <1>2
<1>4. ASSUME NEW i \in DOMAIN q PROVE \E k \in DOMAIN (p \o q) : (p \o q)[k] = q[i]
  <2>1. i + Len(p) \in 1..(Len(p) + Len(q)) /\ ~(i + Len(p) <= Len(p)) /\ (i + Len(p)) - Len(p) = i
        BY <1>2
  <2>2. (p \o q)[i + Len(p)] = q[i]
        BY <1>1, <2>1
  <2> QED BY <1>2, <2>1, <2>2
<1>5. ASSUME NEW k \in DOMAIN (p \o q)
      PROVE  (\E i \in DOMAIN p : (p \o q)[k] = p[i]) \/ (\E i \in DOMAIN q : (p \o q)[k] = q[i])
  <2>1. CASE k <= Len(p)
    <3>1. k \in DOMAIN p /\ (p \o q)[k] = p[k]
          BY <1>1, <1>2, <2>1
    <3> QED BY <3>1
  <2>2. CASE ~(k <= Len(p))
    <3>1. k - Len(p) \in DOMAIN q /\ (p \o q)[k] = q[k - Len(p)]
          BY <1>1, <1>2, <2>2
    <3> QED BY <3>1
  <2> QED BY <2>1, <2>2
<1>6. \A x : x \in Range(p \o q) => x \in Range(p) \cup Range(q)
      BY <1>5 DEF Range
<1>7. \A x : x \in Range(p) \cup Range(q) => x \in Range(p \o q)
      BY <1>3, <1>4 DEF Range
<1> QED BY <1>6, <1>7

\* Deleting the rows of some packages leaves the others, in their order.
LEMMA DeletedRows ==
    ASSUME NEW S, kqueue \in Seq(S), NEW packages
    PROVE  /\ Without(packages) \in Seq(S)
           /\ Range(Without(packages)) = {q \in Range(kqueue) : q.package \notin packages}
<1> DEFINE kept == {i \in DOMAIN kqueue : kqueue[i].package \notin packages}
           n == Cardinality(kept)
           upto(i) == {k \in kept : k <= i}
           rank == [i \in kept |-> Cardinality(upto(i))]
           place(j) == CHOOSE i \in kept : Cardinality(upto(i)) = j
           list == [j \in 1..n |-> kqueue[place(j)]]
<1>1. DOMAIN kqueue = 1..Len(kqueue) /\ Len(kqueue) \in Nat /\ kqueue \in [1..Len(kqueue) -> S]
      BY LenProperties
<1>2. kept \subseteq 1..Len(kqueue) /\ kept \subseteq Nat
      BY <1>1
<1>3. IsFiniteSet(1..Len(kqueue))
      BY <1>1, FS_Interval
<1>4. IsFiniteSet(kept)
      BY <1>2, <1>3, FS_Subset
<1>5. n \in Nat
      BY <1>4, FS_CardinalityType
<1>6. \A i \in kept : IsFiniteSet(upto(i)) /\ Cardinality(upto(i)) <= n
  <2> TAKE i \in kept
  <2>1. upto(i) \in SUBSET kept
        OBVIOUS
  <2> QED BY <1>4, <2>1, FS_Subset
<1>7. \A i \in kept : Cardinality(upto(i)) \in 1..n
  <2> TAKE i \in kept
  <2>1. Cardinality(upto(i)) \in Nat
        BY <1>6, FS_CardinalityType
  <2>2. i \in upto(i)
        BY <1>2
  <2>3. Cardinality(upto(i)) # 0
        BY <1>6, <2>2, FS_EmptySet
  <2> QED BY <1>5, <1>6, <2>1, <2>3
<1>8. \A i, k \in kept : i < k => Cardinality(upto(i)) # Cardinality(upto(k))
  <2> TAKE i, k \in kept
  <2> HAVE i < k
  <2>1. upto(i) \in SUBSET upto(k)
        BY <1>2
  <2>2. k \in upto(k) /\ k \notin upto(i)
        BY <1>2
  <2>3. IsFiniteSet(upto(k))
        BY <1>6
  <2>4. Cardinality(upto(i)) = Cardinality(upto(k)) => upto(k) = upto(i)
        BY <2>1, <2>3, FS_Subset
  <2> QED BY <2>2, <2>4
<1>9. \A i, k \in kept : Cardinality(upto(i)) = Cardinality(upto(k)) => i = k
  <2> TAKE i, k \in kept
  <2>1. i < k \/ k < i \/ i = k
        BY <1>2
  <2> QED BY <1>8, <2>1
<1>10. rank \in Injection(kept, 1..n)
       BY <1>7, <1>9 DEF Injection, IsInjective
<1>11. Cardinality(1..n) = n /\ IsFiniteSet(1..n)
       BY <1>5, FS_Interval
<1>12. rank \in Surjection(kept, 1..n)
       BY <1>10, <1>11, FS_Injection
<1>13. \A j \in 1..n : \E i \in kept : Cardinality(upto(i)) = j
       BY <1>12 DEF Surjection
<1>14. \A j \in 1..n : place(j) \in kept
       BY <1>13
<1>15. \A i \in kept : place(Cardinality(upto(i))) = i
       BY <1>7, <1>9, <1>13
<1> HIDE DEF place
<1>16. list \in [1..n -> S]
       BY <1>1, <1>2, <1>14
<1>17. list \in Seq(S) /\ DOMAIN list = 1..n
       BY <1>5, <1>16
<1>18. \A j \in 1..n : list[j] = kqueue[place(j)]
       OBVIOUS
<1>19. \A i \in kept : \E j \in 1..n : list[j] = kqueue[i]
       BY <1>7, <1>15, <1>18
<1>20. Range(list) = {q \in Range(kqueue) : q.package \notin packages}
  <2> HIDE DEF list
  <2>1. ASSUME NEW j \in 1..n
        PROVE  list[j] \in Range(kqueue) /\ list[j].package \notin packages
        BY <1>14, <1>18 DEF Range
  <2>2. ASSUME NEW i \in DOMAIN kqueue, kqueue[i].package \notin packages
        PROVE  \E j \in 1..n : list[j] = kqueue[i]
        BY <1>19, <2>2
  <2> QED BY <1>17, <2>1, <2>2 DEF Range
<1>21. Without(packages) = list
       BY DEF Without, place
<1> QED BY <1>17, <1>20, <1>21
-----------------------------------------------------------------------------
(* The invariant: requests *)

MediaRecords == [package : Names, file : MediaFiles]
QueueRows == [package : Names, files : (SUBSET MediaFiles) \ {{}}]
FolderKinds == {"mdo", "revert", "qa", "submit", "return"}
Kinds == FolderKinds \cup {"none", "metadata", "wipe"}
ResolveSteps ==
    {"resolve", "clear", "clear_queue", "enqueue", "peek", "mark", "file", "resolved"}
Steps == ResolveSteps \cup {"idle", "wipe", "list", "read", "call", "record",
                            "count", "insert", "stamp", "move", "write"}
Runs == [kind : Kinds, step : Steps, folder : Folders \cup {NoFolder}, todo : SUBSET Holds,
         packages : SUBSET Holds, id : Nat, media : SUBSET MediaRecords,
         row : QueueRows \cup {NoRow}, results : SUBSET Answers, blind : SUBSET Holds,
         ok : BOOLEAN, crossed : BOOLEAN]

\* What a request carries at its step.
Carries(r) ==
    /\ r.kind \in FolderKinds => r.folder \in Folders
    /\ r.kind \notin {"mdo", "metadata"} => r.media = {} /\ r.results = {}
    /\ r.step \in ResolveSteps => r.kind \in {"mdo", "metadata"} /\ r.media # {}
    /\ r.step \in {"list", "wipe"} => r.media = {}
    /\ r.step \in {"list", "read", "resolve", "clear", "clear_queue", "enqueue", "wipe"}
          => r.results = {}
    /\ r.step \in {"mark", "file"} => r.row \in QueueRows
    /\ r.packages \subseteq In(r.folder)

\* Make Digital Objects has seen the files of every package that it does not
\* know itself to be blind to, and calls with a single entry for each.
Listed(r) ==
    r.kind = "mdo" /\ r.step \in {"read", "call"} \cup ResolveSteps =>
        \A h \in In(r.folder) \ r.blind :
            (r.step = "read" /\ h \in r.todo) \/ Media({h}) \subseteq r.media
Compared(r) ==
    r.kind = "mdo" /\ r.step = "call" => \A m \in r.media : Single(m) \in r.results

OKRuns == {r \in Runs : Carries(r) /\ Listed(r) /\ Compared(r)}

\* What the step of a session leaves of the requests: it takes its own to
\* new, and may cross some.
Gives(s, new) ==
    /\ run' \in [Sessions -> OKRuns]
    /\ run'[s] = new \/ run'[s] = [new EXCEPT !.crossed = TRUE]
    /\ \A t \in Sessions \ {s} :
          run'[t] = run[t] \/ run'[t] = [run[t] EXCEPT !.crossed = TRUE]

\* A step that leaves the queue and the ids alone leaves no request in the
\* queue's hands that was not in them; one that goes on to the call keeps its
\* answers.
Uses(r) == r.step = "wipe" \/ (r.step \in USING /\ r.media # {})
Quiet(s, new) ==
    Uses(new) => /\ Using(s)
                 /\ new.step = "call" /\ new.results = run[s].results
                 /\ new.crossed = run[s].crossed

\* A request without media, answers or packages has nothing to account for.
LEMMA BareRun ==
    ASSUME NEW r \in Runs, r.media = {}, r.results = {}, r.packages = {},
           r.step \notin ResolveSteps, r.kind = "mdo" => r.step \notin {"read", "call"},
           r.kind \in FolderKinds => r.folder \in Folders
    PROVE  r \in OKRuns
BY DEF OKRuns, Carries, Listed, Compared, ResolveSteps

LEMMA IdleRun ==
    /\ Idle \in OKRuns /\ ~Uses(Idle)
    /\ Idle \in Runs /\ Idle.media = {} /\ Idle.results = {} /\ Idle.packages = {}
<1>1. Idle \in Runs
      BY DEF Idle, Runs, Kinds, Steps
<1>2. /\ Idle.media = {} /\ Idle.results = {} /\ Idle.packages = {} /\ Idle.step = "idle"
      /\ Idle.kind = "none"
      BY DEF Idle
<1>3. Idle \in OKRuns
      BY <1>1, <1>2, BareRun DEF ResolveSteps, FolderKinds
<1> QED BY <1>1, <1>2, <1>3 DEF Uses, USING

\* Being crossed changes nothing else of a request.
LEMMA CrossedRun ==
    ASSUME NEW r \in OKRuns
    PROVE  [r EXCEPT !.crossed = TRUE] \in OKRuns
<1> DEFINE c == [r EXCEPT !.crossed = TRUE]
<1>1. c \in Runs
      BY DEF OKRuns, Runs
<1>2. /\ c.kind = r.kind /\ c.step = r.step /\ c.folder = r.folder /\ c.todo = r.todo
      /\ c.packages = r.packages /\ c.media = r.media /\ c.row = r.row
      /\ c.results = r.results /\ c.blind = r.blind
      BY DEF OKRuns, Runs
<1> HIDE DEF c
<1>3. Carries(r) /\ Listed(r) /\ Compared(r)
      BY DEF OKRuns
<1>4. Carries(c)
      BY <1>2, <1>3 DEF Carries
<1>5. Listed(c)
      BY <1>2, <1>3 DEF Listed
<1>6. Compared(c)
      BY <1>2, <1>3 DEF Compared
<1> QED BY <1>1, <1>4, <1>5, <1>6 DEF OKRuns, c

\* The three ways in which a step writes the requests.
LEMMA PlainStep ==
    ASSUME run \in [Sessions -> OKRuns], NEW s \in Sessions, NEW new \in OKRuns,
           run' = [run EXCEPT ![s] = new]
    PROVE  Gives(s, new)
BY DEF Gives

LEMMA CrossingStep ==
    ASSUME run \in [Sessions -> OKRuns], NEW s \in Sessions, NEW new \in OKRuns,
           NEW kind, NEW f, run' = Crossed([run EXCEPT ![s] = new], kind, f)
    PROVE  Gives(s, new)
<1> DEFINE runNow == [run EXCEPT ![s] = new]
<1>1. runNow \in [Sessions -> OKRuns]
      OBVIOUS
<1>2. /\ runNow[s] = new
      /\ \A t \in Sessions \ {s} : runNow[t] = run[t]
      OBVIOUS
<1>3. run' = Crossed(runNow, kind, f)
      OBVIOUS
<1> HIDE DEF runNow
<1>4. /\ run' = [t \in Sessions |-> run'[t]]
      /\ \A t \in Sessions : run'[t] = runNow[t] \/ run'[t] = [runNow[t] EXCEPT !.crossed = TRUE]
      BY <1>3 DEF Crossed
<1>5. \A t \in Sessions : run'[t] \in OKRuns
  <2> TAKE t \in Sessions
  <2>1. runNow[t] \in OKRuns
        BY <1>1
  <2>2. [runNow[t] EXCEPT !.crossed = TRUE] \in OKRuns
        BY <2>1, CrossedRun
  <2> QED BY <1>4, <2>1, <2>2
<1>6. run' \in [Sessions -> OKRuns]
      BY <1>4, <1>5
<1> QED BY <1>2, <1>4, <1>6 DEF Gives

LEMMA JoiningStep ==
    ASSUME run \in [Sessions -> OKRuns], NEW s \in Sessions, NEW new \in OKRuns,
           Joins(s, new)
    PROVE  /\ Gives(s, [new EXCEPT !.crossed = \E o \in Sessions \ {s} : Using(o)])
           /\ \A t \in Sessions \ {s} : Using(t) => run'[t].crossed
           /\ run'[s] = [new EXCEPT !.crossed = \E o \in Sessions \ {s} : Using(o)]
<1> DEFINE c == \E o \in Sessions \ {s} : Using(o)
           joined == [new EXCEPT !.crossed = c]
<1>1. run' = [t \in Sessions |-> IF t = s THEN joined
                ELSE IF Using(t) THEN [run[t] EXCEPT !.crossed = TRUE] ELSE run[t]]
      BY DEF Joins
<1> HIDE DEF joined
<1>2. run'[s] = joined
      BY <1>1
<1>3. \A t \in Sessions \ {s} : run'[t] = run[t] \/ run'[t] = [run[t] EXCEPT !.crossed = TRUE]
      BY <1>1
<1>4. \A t \in Sessions \ {s} : Using(t) => run'[t].crossed
  <2> TAKE t \in Sessions \ {s}
  <2> HAVE Using(t)
  <2>1. run'[t] = [run[t] EXCEPT !.crossed = TRUE]
        BY <1>1
  <2>2. run[t] \in Runs
        BY DEF OKRuns
  <2> QED BY <2>1, <2>2 DEF Runs
<1>5. joined \in OKRuns
  <2>1. CASE c
    <3>1. joined = [new EXCEPT !.crossed = TRUE]
          BY <2>1 DEF joined
    <3> QED BY <3>1, CrossedRun
  <2>2. CASE ~c
    <3>1. joined = [new EXCEPT !.crossed = FALSE]
          BY <2>2 DEF joined
    <3> DEFINE u == [new EXCEPT !.crossed = FALSE]
    <3>2. u \in Runs
          BY DEF OKRuns, Runs
    <3>3. /\ u.kind = new.kind /\ u.step = new.step /\ u.folder = new.folder /\ u.todo = new.todo
          /\ u.packages = new.packages /\ u.media = new.media /\ u.row = new.row
          /\ u.results = new.results /\ u.blind = new.blind
          BY DEF OKRuns, Runs
    <3> HIDE DEF u
    <3>4. Carries(new) /\ Listed(new) /\ Compared(new)
          BY DEF OKRuns
    <3>5. Carries(u) /\ Listed(u) /\ Compared(u)
          BY <3>3, <3>4 DEF Carries, Listed, Compared
    <3> QED BY <3>1, <3>2, <3>5 DEF OKRuns, u
  <2> QED BY <2>1, <2>2
<1>6. run' \in [Sessions -> OKRuns]
  <2>1. \A t \in Sessions : run'[t] \in OKRuns
        BY <1>2, <1>3, <1>5, CrossedRun
  <2>2. run' = [t \in Sessions |-> run'[t]]
        BY <1>1
  <2> QED BY <2>1, <2>2
<1>7. Gives(s, joined)
      BY <1>2, <1>3, <1>6 DEF Gives
<1> QED BY <1>2, <1>4, <1>7 DEF joined

Rows == [holds : Holds, status : ROW, how : {"alone", "beside", "resumed"}]
TablesOK ==
    /\ kqueue \in Seq(QueueRows) /\ ids \subseteq {a \in Answers : a.single}
    /\ run \in [Sessions -> OKRuns] /\ runs \in 0..MaxRuns
    /\ away \subseteq Holds /\ uri \subseteq Holds
    /\ component \in [ComponentsOf(Holds) -> COMPONENT]
    /\ backed \subseteq Components
    /\ jobs \in [Folders -> {"none", "QA", "other"}]
    /\ checked \in [Folders -> {"no", "checked", "stamped", "muddled"}]
    /\ rows \in Seq(Rows) /\ Len(rows) <= MaxRows

LEMMA MediaTypes ==
    /\ \A holds \in SUBSET Holds :
          Media(holds) \subseteq MediaRecords /\ \A h \in holds : Media({h}) \subseteq Media(holds)
    /\ \A f : In(f) \subseteq Holds /\ Ready(f) \subseteq In(f)
    /\ \A h \in Holds : h \in In(h.folder) /\ h.folder \in Folders
BY DEF Media, MediaRecords, Names, MediaFiles, In, Ready, Folders

\* A request that answers, or is over, is in no queue's hands.
LEMMA AnswerStep ==
    ASSUME run \in [Sessions -> OKRuns], NEW s \in Sessions, NEW ok \in BOOLEAN,
           run[s].kind \in FolderKinds
    PROVE  /\ Answered(s, ok) \in OKRuns /\ Quiet(s, Answered(s, ok))
           /\ Answer(s, ok) => Gives(s, Answered(s, ok))
<1> DEFINE a == Answered(s, ok)
<1>1. run[s] \in Runs /\ run[s].folder \in Folders
      BY DEF OKRuns, Carries
<1>2. /\ a \in Runs /\ a.step = "record" /\ a.folder = run[s].folder /\ a.kind = run[s].kind
      /\ a.media = {} /\ a.results = {} /\ a.packages = {}
      BY <1>1, IdleRun DEF Answered, Runs, Steps
<1> HIDE DEF a
<1>3. a \in OKRuns
      BY <1>1, <1>2, BareRun DEF ResolveSteps
<1>4. Quiet(s, a)
      BY <1>2 DEF Quiet, Uses
<1>5. Answer(s, ok) => Gives(s, a)
      BY <1>3, PlainStep DEF Answer, a
<1> QED BY <1>3, <1>4, <1>5 DEF a

LEMMA ReturnStep ==
    ASSUME run \in [Sessions -> OKRuns], NEW s \in Sessions
    PROVE  Quiet(s, Idle) /\ (Returns(s) => Gives(s, Idle))
BY IdleRun, PlainStep DEF Quiet, Returns

\* A request begins bare.
LEMMA BeginStep ==
    ASSUME run \in [Sessions -> OKRuns], NEW s \in Sessions,
           NEW kind \in FolderKinds, NEW step \in {"list", "call", "count"}, NEW f \in Folders,
           kind = "mdo" => step = "list"
    PROVE  LET new == [Idle EXCEPT !.kind = kind, !.step = step, !.folder = f]
           IN  new \in OKRuns /\ Quiet(s, new) /\ (Begins(s, new) => Gives(s, new))
<1> DEFINE new == [Idle EXCEPT !.kind = kind, !.step = step, !.folder = f]
<1>0. kind \in Kinds /\ step \in Steps
      BY DEF Kinds, Steps
<1>1. /\ new \in Runs /\ new.step = step /\ new.kind = kind /\ new.folder = f
      /\ new.media = {} /\ new.results = {} /\ new.packages = {}
      BY <1>0, IdleRun DEF Runs
<1> HIDE DEF new
<1>2. new \in OKRuns
      BY <1>1, BareRun DEF ResolveSteps
<1>3. Quiet(s, new)
      BY <1>1 DEF Quiet, Uses
<1>4. Begins(s, new) => Gives(s, new)
      BY <1>2, PlainStep DEF Begins
<1> QED BY <1>2, <1>3, <1>4 DEF new

\* Another step of the same request.
LEMMA GoesStep ==
    ASSUME run \in [Sessions -> OKRuns], NEW s \in Sessions,
           NEW step \in {"record", "insert", "write", "stamp"},
           run[s].kind \in {"qa", "submit", "return"}, Goes(s, step)
    PROVE  \E new : Gives(s, new) /\ Quiet(s, new)
<1> DEFINE r == run[s]
           new == [r EXCEPT !.step = step]
<1>0. step \in Steps
      BY DEF Steps
<1>1. r \in Runs /\ Carries(r) /\ Listed(r) /\ Compared(r)
      BY DEF OKRuns
<1>2. /\ new \in Runs /\ new.step = step /\ new.kind = r.kind /\ new.folder = r.folder
      /\ new.todo = r.todo /\ new.packages = r.packages /\ new.media = r.media
      /\ new.results = r.results /\ new.blind = r.blind
      BY <1>0, <1>1 DEF Runs
<1>3. run' = [run EXCEPT ![s] = new]
      BY DEF Goes
<1> HIDE DEF new
<1>4. Carries(new)
      BY <1>1, <1>2 DEF Carries, ResolveSteps
<1>5. Listed(new)
      BY <1>2 DEF Listed
<1>6. Compared(new)
      BY <1>2 DEF Compared
<1>7. new \in OKRuns
      BY <1>2, <1>4, <1>5, <1>6 DEF OKRuns
<1>8. Gives(s, new)
      BY <1>3, <1>7, PlainStep
<1>9. Quiet(s, new)
      BY <1>2 DEF Quiet, Uses, USING
<1> QED BY <1>8, <1>9

\* Make Digital Objects, step by step.
LEMMA MakeSteps ==
    ASSUME run \in [Sessions -> OKRuns], NEW s \in Sessions,
           MakeDigitalObjects(s) \/ resolve_failed(s)
    PROVE  \E new : Gives(s, new) /\ Quiet(s, new)
<1> DEFINE r == run[s]
<1>1. r \in OKRuns /\ r \in Runs /\ Carries(r) /\ Listed(r) /\ Compared(r)
      BY DEF OKRuns
<1>2. ASSUME NEW ok \in BOOLEAN, Answer(s, ok), r.kind \in FolderKinds
      PROVE  \E new : Gives(s, new) /\ Quiet(s, new)
      BY <1>2, AnswerStep
<1>3. Returns(s) => \E new : Gives(s, new) /\ Quiet(s, new)
      BY ReturnStep
<1>4. CASE structure_refused(s)
  <2>1. Answer(s, FALSE) /\ r.kind \in FolderKinds
        BY <1>4 DEF structure_refused, FolderKinds
  <2> QED BY <1>2, <2>1
<1>5. CASE list_media(s)
  <2>1. r.kind = "mdo" /\ r.step = "list" /\ r.media = {} /\ r.results = {}
        BY <1>1, <1>5 DEF list_media, At, Carries
  <2>2. CASE run' = [run EXCEPT ![s].step = "call", ![s].blind = In(run[s].folder)]
    <3> DEFINE new == [r EXCEPT !.step = "call", !.blind = In(r.folder)]
    <3>1. run' = [run EXCEPT ![s] = new]
          BY <2>2
    <3>2. new \in Runs
          BY <1>1, MediaTypes DEF Runs, Steps
    <3>3. /\ new.step = "call" /\ new.blind = In(r.folder) /\ new.kind = r.kind
          /\ new.folder = r.folder /\ new.media = r.media /\ new.packages = r.packages
          /\ new.results = r.results
          BY <1>1 DEF Runs
    <3> HIDE DEF new
    <3>4. Carries(new)
          BY <1>1, <2>1, <3>3 DEF Carries, ResolveSteps
    <3>5. Listed(new) /\ Compared(new)
          BY <2>1, <3>3 DEF Listed, Compared
    <3>6. Quiet(s, new)
          BY <2>1, <3>3 DEF Quiet, Uses
    <3> QED BY <3>1, <3>2, <3>4, <3>5, <3>6, PlainStep DEF OKRuns
  <2>3. CASE run' = [run EXCEPT ![s].step = "read", ![s].todo = Ready(run[s].folder),
                             ![s].blind = In(run[s].folder) \cap away]
    <3> DEFINE new == [r EXCEPT !.step = "read", !.todo = Ready(r.folder),
                                !.blind = In(r.folder) \cap away]
    <3>1. run' = [run EXCEPT ![s] = new]
          BY <2>3
    <3>2. new \in Runs
          BY <1>1, MediaTypes DEF Runs, Steps
    <3>3. /\ new.step = "read" /\ new.blind = In(r.folder) \cap away /\ new.kind = r.kind
          /\ new.folder = r.folder /\ new.media = r.media /\ new.packages = r.packages
          /\ new.results = r.results /\ new.todo = Ready(r.folder)
          BY <1>1 DEF Runs
    <3> HIDE DEF new
    <3>4. Carries(new)
          BY <1>1, <2>1, <3>3 DEF Carries, ResolveSteps
    <3>5. Listed(new) /\ Compared(new)
          BY <2>1, <3>3 DEF Listed, Compared, Ready
    <3>6. Quiet(s, new)
          BY <3>3 DEF Quiet, Uses, USING
    <3> QED BY <3>1, <3>2, <3>4, <3>5, <3>6, PlainStep DEF OKRuns
  <2> QED BY <1>5, <2>2, <2>3 DEF list_media
<1>6. CASE read_media(s)
  <2>1. r.kind = "mdo" /\ r.step = "read" /\ r.todo # {} /\ r.results = {}
        BY <1>1, <1>6 DEF read_media, At, Carries
  <2> DEFINE h == First(run[s].todo)
  <2>2. h \in r.todo /\ h \in Holds
        BY <1>1, <2>1, FirstIsMember DEF Runs
  <2>3. Media({h}) \subseteq MediaRecords
        BY <2>2, MediaTypes
  <2> HIDE DEF h
  <2>4. ASSUME NEW new \in Runs, run' = [run EXCEPT ![s] = new],
               new.step = r.step, new.kind = r.kind, new.folder = r.folder,
               new.packages = r.packages, new.results = r.results, new.todo = r.todo \ {h},
               r.media \subseteq new.media, r.blind \subseteq new.blind,
               Media({h}) \subseteq new.media \/ h \in new.blind
        PROVE  \E fresh : Gives(s, fresh) /\ Quiet(s, fresh)
    <3>1. Carries(new)
          BY <1>1, <2>1, <2>4 DEF Carries, ResolveSteps
    <3>2. Listed(new)
          BY <1>1, <2>1, <2>4 DEF Listed
    <3>3. Compared(new) /\ Quiet(s, new)
          BY <2>1, <2>4 DEF Compared, Quiet, Uses, USING
    <3> QED BY <2>4, <3>1, <3>2, <3>3, PlainStep DEF OKRuns
  <2>5. CASE run' = [run EXCEPT ![s].todo = @ \ {h}, ![s].media = @ \cup Media({h})]
    <3> DEFINE new == [r EXCEPT !.todo = @ \ {h}, !.media = @ \cup Media({h})]
    <3>1. run' = [run EXCEPT ![s] = new]
          BY <2>5
    <3>2. /\ new \in Runs
          /\ new.step = r.step /\ new.kind = r.kind /\ new.folder = r.folder
          /\ new.packages = r.packages /\ new.results = r.results /\ new.todo = r.todo \ {h}
          /\ new.media = r.media \cup Media({h}) /\ new.blind = r.blind
          BY <1>1, <2>3 DEF Runs
    <3> HIDE DEF new
    <3> QED BY <2>4, <3>1, <3>2
  <2>6. CASE run' = [run EXCEPT ![s].todo = @ \ {h}, ![s].blind = @ \cup {h}]
    <3> DEFINE new == [r EXCEPT !.todo = @ \ {h}, !.blind = @ \cup {h}]
    <3>1. run' = [run EXCEPT ![s] = new]
          BY <2>6
    <3>2. /\ new \in Runs
          /\ new.step = r.step /\ new.kind = r.kind /\ new.folder = r.folder
          /\ new.packages = r.packages /\ new.results = r.results /\ new.todo = r.todo \ {h}
          /\ new.media = r.media /\ new.blind = r.blind \cup {h}
          BY <1>1, <2>2 DEF Runs
    <3> HIDE DEF new
    <3> QED BY <2>4, <3>1, <3>2
  <2>7. CASE Answer(s, FALSE)
        BY <1>2, <2>1, <2>7 DEF FolderKinds
  <2> QED BY <1>6, <2>5, <2>6, <2>7 DEF read_media, h
<1>7. CASE media_read(s)
  <2>1. r.kind = "mdo" /\ r.step = "read" /\ r.todo = {} /\ r.results = {}
        BY <1>1, <1>7 DEF media_read, At, Carries
  <2> DEFINE step == IF r.media = {} THEN "call" ELSE "resolve"
             new == [r EXCEPT !.step = step]
  <2>2. run' = [run EXCEPT ![s] = new]
        BY <1>7 DEF media_read, Goes
  <2>3. new \in Runs
        BY <1>1 DEF Runs, Steps, ResolveSteps
  <2>4. /\ new.step = step /\ new.blind = r.blind /\ new.kind = r.kind
        /\ new.folder = r.folder /\ new.media = r.media /\ new.packages = r.packages
        /\ new.results = r.results
        BY <1>1 DEF Runs
  <2> HIDE DEF new
  <2>5. Carries(new)
        BY <1>1, <2>1, <2>4 DEF Carries, ResolveSteps
  <2>6. Listed(new)
        BY <1>1, <2>1, <2>4 DEF Listed, ResolveSteps
  <2>7. Compared(new) /\ Quiet(s, new)
        BY <2>4 DEF Compared, Quiet, Uses, USING
  <2> QED BY <2>2, <2>3, <2>5, <2>6, <2>7, PlainStep DEF OKRuns
<1>8. CASE compare_results(s)
  <2>1. r.kind = "mdo" /\ r.step = "resolved" /\ r.media # {}
        BY <1>1, <1>8 DEF compare_results, At, Carries, ResolveSteps
  <2>2. CASE failures(s) = {} /\ Goes(s, "call")
    <3> DEFINE new == [r EXCEPT !.step = "call"]
    <3>1. run' = [run EXCEPT ![s] = new]
          BY <2>2 DEF Goes
    <3>2. new \in Runs
          BY <1>1 DEF Runs, Steps
    <3>3. /\ new.step = "call" /\ new.blind = r.blind /\ new.kind = r.kind
          /\ new.folder = r.folder /\ new.media = r.media /\ new.packages = r.packages
          /\ new.results = r.results /\ new.crossed = r.crossed
          BY <1>1 DEF Runs
    <3> HIDE DEF new
    <3>4. Carries(new)
          BY <1>1, <2>1, <3>3 DEF Carries, ResolveSteps
    <3>5. Listed(new)
          BY <1>1, <2>1, <3>3 DEF Listed, ResolveSteps
    <3>6. Compared(new)
          BY <2>2, <3>3 DEF Compared, failures
    <3>7. Quiet(s, new)
          BY <2>1, <3>3 DEF Quiet, Uses, Using, USING, At
    <3> QED BY <3>1, <3>2, <3>4, <3>5, <3>6, <3>7, PlainStep DEF OKRuns
  <2>3. CASE Answer(s, FALSE)
        BY <1>2, <2>1, <2>3 DEF FolderKinds
  <2> QED BY <1>8, <2>2, <2>3 DEF compare_results
<1>9. CASE make_digital_objects(s)
  <2>1. r.kind \in FolderKinds
        BY <1>9 DEF make_digital_objects, FolderKinds
  <2>2. CASE Answer(s, FALSE)
        BY <1>2, <2>1, <2>2
  <2>3. ASSUME NEW answered \in BOOLEAN,
               run' = Crossed([run EXCEPT ![s] = Answered(s, answered)], "qa", run[s].folder)
        PROVE  \E new : Gives(s, new) /\ Quiet(s, new)
    <3>1. Answered(s, answered) \in OKRuns /\ Quiet(s, Answered(s, answered))
          BY <2>1, AnswerStep
    <3>2. Gives(s, Answered(s, answered))
          BY <2>3, <3>1, CrossingStep
    <3> QED BY <3>1, <3>2
  <2> QED BY <1>9, <2>2, <2>3 DEF make_digital_objects
<1>10. CASE record_mdo(s)
       BY <1>3, <1>10 DEF record_mdo
<1>11. CASE revert_to_mdo(s)
  <2>1. CASE run' = Crossed([run EXCEPT ![s] = Idle], "qa", run[s].folder)
    <3>1. Gives(s, Idle)
          BY <2>1, IdleRun, CrossingStep
    <3> QED BY <3>1, ReturnStep
  <2> QED BY <1>3, <1>11, <2>1 DEF revert_to_mdo
<1>12. CASE resolve_failed(s)
  <2>1. CASE r.kind = "mdo" /\ Answer(s, FALSE)
        BY <1>2, <2>1 DEF FolderKinds
  <2> QED BY <1>3, <1>12, <2>1 DEF resolve_failed
<1> QED BY <1>4, <1>5, <1>6, <1>7, <1>8, <1>9, <1>10, <1>11, <1>12 DEF MakeDigitalObjects

\* A request outside Make Digital Objects that goes through its list.
LEMMA ListStep ==
    ASSUME run \in [Sessions -> OKRuns], NEW s \in Sessions, NEW new \in Runs,
           run' = [run EXCEPT ![s] = new],
           run[s].kind \in {"qa", "submit", "return"},
           new.kind = run[s].kind, new.folder = run[s].folder, new.media = run[s].media,
           new.results = run[s].results, new.packages \subseteq In(run[s].folder),
           new.step \in {"list", "read"}
    PROVE  Gives(s, new) /\ Quiet(s, new)
<1>1. Carries(run[s])
      BY DEF OKRuns
<1>2. Carries(new)
      BY <1>1 DEF Carries, ResolveSteps
<1>3. Listed(new) /\ Compared(new) /\ Quiet(s, new)
      BY DEF Listed, Compared, Quiet, Uses, USING
<1> QED BY <1>2, <1>3, PlainStep DEF OKRuns

\* The description QA and the submission, step by step.
LEMMA CheckSteps ==
    ASSUME run \in [Sessions -> OKRuns], NEW s \in Sessions, CheckDescription(s)
    PROVE  \E new : Gives(s, new) /\ Quiet(s, new)
<1> DEFINE r == run[s]
<1>1. r \in OKRuns /\ r \in Runs /\ Carries(r) /\ r.kind = "qa" /\ r.packages \subseteq In(r.folder)
      BY DEF OKRuns, Carries, CheckDescription, list_checked, validate_package, record_qa
<1>2. CASE list_checked(s)
  <2>1. CASE Answer(s, FALSE)
        BY <1>1, <2>1, AnswerStep DEF FolderKinds
  <2>2. CASE run' = [run EXCEPT ![s].step = "read", ![s].todo = Ready(run[s].folder), ![s].ok = TRUE]
    <3> DEFINE new == [r EXCEPT !.step = "read", !.todo = Ready(r.folder), !.ok = TRUE]
    <3>1. run' = [run EXCEPT ![s] = new]
          BY <2>2
    <3>2. /\ new \in Runs /\ new.step = "read" /\ new.kind = r.kind /\ new.folder = r.folder
          /\ new.media = r.media /\ new.results = r.results /\ new.packages = r.packages
          BY <1>1, MediaTypes DEF Runs, Steps
    <3> HIDE DEF new
    <3>3. Gives(s, new) /\ Quiet(s, new)
          BY <1>1, <3>1, <3>2, ListStep
    <3> QED BY <3>3
  <2> QED BY <1>2, <2>1, <2>2 DEF list_checked
<1>3. CASE validate_package(s)
  <2>1. r.step = "read"
        BY <1>3 DEF validate_package, At
  <2>2. CASE Goes(s, "record")
        BY <1>1, <2>2, GoesStep
  <2>3. ASSUME NEW h, NEW valid \in BOOLEAN,
               run' = [run EXCEPT ![s].todo = @ \ {h}, ![s].ok = @ /\ valid]
        PROVE  \E new : Gives(s, new) /\ Quiet(s, new)
    <3> DEFINE new == [r EXCEPT !.todo = @ \ {h}, !.ok = @ /\ valid]
    <3>1. run' = [run EXCEPT ![s] = new]
          BY <2>3
    <3>2. /\ new \in Runs /\ new.step = r.step /\ new.kind = r.kind /\ new.folder = r.folder
          /\ new.media = r.media /\ new.results = r.results /\ new.packages = r.packages
          BY <1>1 DEF Runs
    <3> HIDE DEF new
    <3>3. Gives(s, new) /\ Quiet(s, new)
          BY <1>1, <2>1, <3>1, <3>2, ListStep
    <3> QED BY <3>3
  <2> QED BY <1>3, <2>2, <2>3 DEF validate_package
<1>4. CASE record_qa(s)
      BY <1>4, ReturnStep DEF record_qa
<1> QED BY <1>2, <1>3, <1>4 DEF CheckDescription

LEMMA SubmitSteps ==
    ASSUME run \in [Sessions -> OKRuns], NEW s \in Sessions, SubmitToIngest(s)
    PROVE  \E new : Gives(s, new) /\ Quiet(s, new)
<1> DEFINE r == run[s]
<1>1. r.kind = "submit"
      BY DEF SubmitToIngest, active_ingest_count, collection_refused, list_submitted, read_uri,
             insert_rows, record_submit, stamp_qa
<1>2. r \in OKRuns /\ r \in Runs /\ Carries(r) /\ r.packages \subseteq In(r.folder)
      BY DEF OKRuns, Carries
<1>3. ASSUME NEW ok \in BOOLEAN, Answer(s, ok)
      PROVE  \E new : Gives(s, new) /\ Quiet(s, new)
      BY <1>1, <1>3, AnswerStep DEF FolderKinds
<1>4. Returns(s) => \E new : Gives(s, new) /\ Quiet(s, new)
      BY ReturnStep
<1>5. CASE active_ingest_count(s)
  <2>1. CASE run' = [run EXCEPT ![s].step = "list", ![s].crossed = FALSE]
    <3> DEFINE new == [r EXCEPT !.step = "list", !.crossed = FALSE]
    <3>1. run' = [run EXCEPT ![s] = new]
          BY <2>1
    <3>2. /\ new \in Runs /\ new.step = "list" /\ new.kind = r.kind /\ new.folder = r.folder
          /\ new.media = r.media /\ new.results = r.results /\ new.packages = r.packages
          BY <1>2 DEF Runs, Steps
    <3> HIDE DEF new
    <3>3. Gives(s, new) /\ Quiet(s, new)
          BY <1>1, <1>2, <3>1, <3>2, ListStep
    <3> QED BY <3>3
  <2> QED BY <1>4, <1>5, <2>1 DEF active_ingest_count
<1>6. CASE collection_refused(s)
      BY <1>3, <1>6 DEF collection_refused
<1>7. CASE list_submitted(s)
  <2>1. CASE run' = [run EXCEPT ![s].step = "read", ![s].todo = Ready(run[s].folder),
                                ![s].packages = Ready(run[s].folder)]
    <3> DEFINE new == [r EXCEPT !.step = "read", !.todo = Ready(r.folder),
                                !.packages = Ready(r.folder)]
    <3>1. run' = [run EXCEPT ![s] = new]
          BY <2>1
    <3>2. /\ new \in Runs /\ new.step = "read" /\ new.kind = r.kind /\ new.folder = r.folder
          /\ new.media = r.media /\ new.results = r.results
          /\ new.packages = Ready(r.folder)
          BY <1>2, MediaTypes DEF Runs, Steps
    <3> HIDE DEF new
    <3>3. Gives(s, new) /\ Quiet(s, new)
          BY <1>1, <3>1, <3>2, ListStep, MediaTypes
    <3> QED BY <3>3
  <2> QED BY <1>3, <1>7, <2>1 DEF list_submitted
<1>8. CASE read_uri(s)
  <2>1. ASSUME NEW h, run' = [run EXCEPT ![s].todo = @ \ {h}]
        PROVE  \E new : Gives(s, new) /\ Quiet(s, new)
    <3> DEFINE new == [r EXCEPT !.todo = @ \ {h}]
    <3>1. run' = [run EXCEPT ![s] = new]
          BY <2>1
    <3>2. /\ new \in Runs /\ new.step = r.step /\ new.kind = r.kind /\ new.folder = r.folder
          /\ new.media = r.media /\ new.results = r.results /\ new.packages = r.packages
          BY <1>2 DEF Runs
    <3>3. r.step = "read"
          BY <1>8 DEF read_uri, At
    <3> HIDE DEF new
    <3>4. Gives(s, new) /\ Quiet(s, new)
          BY <1>1, <1>2, <3>1, <3>2, <3>3, ListStep
    <3> QED BY <3>4
  <2>2. CASE Goes(s, "insert")
        BY <1>1, <2>2, GoesStep
  <2> QED BY <1>3, <1>8, <2>1, <2>2 DEF read_uri
<1>9. CASE insert_rows(s)
  <2>1. CASE run' = Crossed([run EXCEPT ![s] = Answered(s, TRUE)], "submit", run[s].folder)
    <3>1. Answered(s, TRUE) \in OKRuns /\ Quiet(s, Answered(s, TRUE))
          BY <1>1, AnswerStep DEF FolderKinds
    <3>2. Gives(s, Answered(s, TRUE))
          BY <2>1, <3>1, CrossingStep
    <3> QED BY <3>1, <3>2
  <2> QED BY <1>3, <1>9, <2>1 DEF insert_rows
<1>10. CASE record_submit(s)
  <2>1. CASE Goes(s, "stamp")
        BY <1>1, <2>1, GoesStep
  <2> QED BY <1>4, <1>10, <2>1 DEF record_submit
<1>11. CASE stamp_qa(s)
       BY <1>4, <1>11 DEF stamp_qa
<1> QED BY <1>5, <1>6, <1>7, <1>8, <1>9, <1>10, <1>11 DEF SubmitToIngest

\* Return to Packaging, step by step.
LEMMA ReturnSteps ==
    ASSUME run \in [Sessions -> OKRuns], NEW s \in Sessions, ReturnToPackaging(s)
    PROVE  \E new : Gives(s, new) /\ Quiet(s, new)
<1> DEFINE r == run[s]
           new == [r EXCEPT !.step = "write"]
<1>1. r.kind = "return"
      BY DEF ReturnToPackaging, move_from_ingest_to_ready, return_row, record_return
<1>2. r \in Runs /\ Carries(r) /\ "write" \in Steps
      BY DEF OKRuns, Steps
<1>3. CASE run' = Crossed([run EXCEPT ![s].step = "write"], "qa", run[s].folder)
  <2>1. [run EXCEPT ![s].step = "write"] = [run EXCEPT ![s] = new]
        OBVIOUS
  <2>2. /\ new \in Runs /\ new.step = "write" /\ new.kind = r.kind /\ new.folder = r.folder
        /\ new.media = r.media /\ new.results = r.results /\ new.packages = r.packages
        BY <1>2 DEF Runs
  <2>3. run' = Crossed([run EXCEPT ![s] = new], "qa", run[s].folder)
        BY <1>3, <2>1
  <2> HIDE DEF new
  <2>4. Carries(new)
        BY <1>1, <1>2, <2>2 DEF Carries, ResolveSteps
  <2>5. Listed(new) /\ Compared(new) /\ Quiet(s, new)
        BY <1>1, <2>2 DEF Listed, Compared, Quiet, Uses, USING
  <2>6. new \in OKRuns
        BY <2>2, <2>4, <2>5 DEF OKRuns
  <2> QED BY <2>3, <2>5, <2>6, CrossingStep
<1>4. CASE \E step \in {"write", "record"} : Goes(s, step)
      BY <1>1, <1>4, GoesStep
<1>5. CASE Returns(s)
      BY <1>5, ReturnStep
<1> QED BY <1>3, <1>4, <1>5
        DEF ReturnToPackaging, move_from_ingest_to_ready, return_row, record_return

\* The requests as they begin.
LEMMA BeginSteps ==
    ASSUME run \in [Sessions -> OKRuns], rows \in Seq(Rows), NEW s \in Sessions,
           \/ \E f \in Folders : Request(s, f)
           \/ post_metadata(s)
           \/ \E i \in DOMAIN rows : return_to_packaging(s, i)
    PROVE  \E new : Gives(s, new) /\ Quiet(s, new)
<1>1. ASSUME NEW f \in Folders, Request(s, f)
      PROVE  \E new : Gives(s, new) /\ Quiet(s, new)
  <2> DEFINE Asks(kind, step) == Begins(s, [Idle EXCEPT !.kind = kind, !.step = step, !.folder = f])
  <2>1. Asks("mdo", "list") \/ Asks("revert", "call") \/ Asks("qa", "list") \/ Asks("submit", "count")
        BY <1>1 DEF Request, make_digital_objects_action, revert_to_mdo_action,
             aspace_qa_check_action, submit_ingest_action
  <2>2. ASSUME NEW kind \in FolderKinds, NEW step \in {"list", "call", "count"},
               kind = "mdo" => step = "list", Asks(kind, step)
        PROVE  \E new : Gives(s, new) /\ Quiet(s, new)
        BY <2>2, BeginStep
  <2> HIDE DEF Asks
  <2> QED BY <2>1, <2>2 DEF FolderKinds
<1>2. ASSUME NEW h \in Holds, h.files # {},
             Begins(s, [Idle EXCEPT !.kind = "metadata", !.step = "resolve", !.media = Media({h})])
      PROVE  \E new : Gives(s, new) /\ Quiet(s, new)
  <2> DEFINE new == [Idle EXCEPT !.kind = "metadata", !.step = "resolve", !.media = Media({h})]
  <2>1. Media({h}) \in SUBSET MediaRecords
        BY MediaTypes
  <2>2. Media({h}) # {}
    <3>1. PICK x \in h.files : TRUE
          BY <1>2
    <3>2. [package |-> h.package, file |-> x] \in {[package |-> h.package, file |-> y] : y \in h.files}
          BY <3>1
    <3>3. Media({h}) = {[package |-> h.package, file |-> y] : y \in h.files}
          BY DEF Media
    <3> QED BY <3>2, <3>3
  <2>3. "metadata" \in Kinds /\ "resolve" \in Steps
        BY DEF Kinds, Steps, ResolveSteps
  <2>4. /\ new \in Runs /\ new.kind = "metadata" /\ new.step = "resolve" /\ new.media = Media({h})
        /\ new.results = {} /\ new.packages = {}
        BY <2>1, <2>3, IdleRun DEF Runs
  <2>5. run' = [run EXCEPT ![s] = new]
        BY <1>2 DEF Begins
  <2> HIDE DEF new
  <2>6. Carries(new)
        BY <2>2, <2>4 DEF Carries, ResolveSteps, FolderKinds
  <2>7. Listed(new) /\ Compared(new) /\ Quiet(s, new)
        BY <2>4 DEF Listed, Compared, Quiet, Uses, USING
  <2> QED BY <2>4, <2>5, <2>6, <2>7, PlainStep DEF OKRuns
<1>3. ASSUME NEW i \in DOMAIN rows, return_to_packaging(s, i)
      PROVE  \E new : Gives(s, new) /\ Quiet(s, new)
  <2> DEFINE h == rows[i].holds
             new == [Idle EXCEPT !.kind = "return", !.step = "move", !.folder = h.folder,
                              !.packages = {h}, !.id = i]
  <2>1. run' = [run EXCEPT ![s] = new]
        BY <1>3 DEF return_to_packaging, Begins
  <2>2. h \in Holds /\ i \in Nat
    <3>1. DOMAIN rows = 1..Len(rows) /\ rows \in [1..Len(rows) -> Rows] /\ Len(rows) \in Nat
          BY LenProperties
    <3>2. rows[i] \in Rows /\ i \in Nat
          BY <3>1
    <3> QED BY <3>2 DEF Rows
  <2>3. h.folder \in Folders /\ h \in In(h.folder)
        BY <2>2, MediaTypes
  <2>4. "return" \in Kinds /\ "move" \in Steps
        BY DEF Kinds, Steps, FolderKinds
  <2> HIDE DEF h
  <2>5. /\ new \in Runs /\ new.kind = "return" /\ new.step = "move" /\ new.folder = h.folder
        /\ new.media = {} /\ new.results = {} /\ new.packages = {h}
        BY <2>2, <2>3, <2>4, IdleRun DEF Runs
  <2> HIDE DEF new
  <2>6. Carries(new)
        BY <2>3, <2>5 DEF Carries, ResolveSteps
  <2>7. Listed(new) /\ Compared(new) /\ Quiet(s, new)
        BY <2>5 DEF Listed, Compared, Quiet, Uses, USING
  <2> QED BY <2>1, <2>5, <2>6, <2>7, PlainStep DEF OKRuns
<1>4. CASE post_metadata(s)
      BY <1>2, <1>4 DEF post_metadata
<1> QED BY <1>1, <1>3, <1>4

\* Every step of a session outside the id lookup.
Staff(s) ==
    \/ \E f \in Folders : Request(s, f)
    \/ MakeDigitalObjects(s) \/ CheckDescription(s) \/ SubmitToIngest(s)
    \/ ReturnToPackaging(s) \/ resolve_failed(s)
    \/ post_metadata(s) /\ UNCHANGED <<folderVars, jobVars, rows>>
    \/ \E i \in DOMAIN rows : return_to_packaging(s, i)

LEMMA StaffSteps ==
    ASSUME TablesOK, NEW s \in Sessions, Staff(s)
    PROVE  (\E new : Gives(s, new) /\ Quiet(s, new)) /\ UNCHANGED <<kqueue, ids>>
<1>1. run \in [Sessions -> OKRuns] /\ rows \in Seq(Rows)
      BY DEF TablesOK
<1>2. \E new : Gives(s, new) /\ Quiet(s, new)
      BY <1>1, MakeSteps, CheckSteps, SubmitSteps, ReturnSteps, BeginSteps DEF Staff
<1>3. ASSUME NEW f \in Folders, Request(s, f) PROVE UNCHANGED <<kqueue, ids>>
  <2>1. make_digital_objects_action(s, f) => UNCHANGED <<kqueue, ids>>
        BY DEF make_digital_objects_action
  <2>2. revert_to_mdo_action(s, f) => UNCHANGED <<kqueue, ids>>
        BY DEF revert_to_mdo_action
  <2>3. aspace_qa_check_action(s, f) => UNCHANGED <<kqueue, ids>>
        BY DEF aspace_qa_check_action
  <2>4. submit_ingest_action(s, f) => UNCHANGED <<kqueue, ids>>
        BY DEF submit_ingest_action
  <2> QED BY <1>3, <2>1, <2>2, <2>3, <2>4 DEF Request
<1>4. ASSUME NEW i \in DOMAIN rows, return_to_packaging(s, i) PROVE UNCHANGED <<kqueue, ids>>
      BY <1>4 DEF return_to_packaging
<1>5. CASE post_metadata(s)
      BY <1>2, <1>5 DEF post_metadata
<1>6. CASE MakeDigitalObjects(s) \/ resolve_failed(s)
  <2>1. Elsewhere
        BY <1>6 DEF MakeDigitalObjects, structure_refused, list_media, read_media, media_read,
             compare_results, make_digital_objects, record_mdo, revert_to_mdo, resolve_failed
  <2> QED BY <1>2, <2>1 DEF Elsewhere
<1>7. CASE CheckDescription(s) \/ SubmitToIngest(s) \/ ReturnToPackaging(s)
  <2>1. Elsewhere
        BY <1>7 DEF CheckDescription, list_checked, validate_package, record_qa, SubmitToIngest,
             active_ingest_count, collection_refused, list_submitted, read_uri, insert_rows,
             record_submit, stamp_qa, ReturnToPackaging, move_from_ingest_to_ready, return_row,
             record_return
  <2> QED BY <1>2, <2>1 DEF Elsewhere
<1> QED BY <1>2, <1>3, <1>4, <1>5, <1>6, <1>7 DEF Staff

-----------------------------------------------------------------------------
(* The lookup of ids *)

\* What a request queues: one row for each package it asks about, with all the
\* files that it asks about.
FilesOf(media, p) == {m.file : m \in {n \in media : n.package = p}}
Queued(media) == {[package |-> p, files |-> FilesOf(media, p)] : p \in PackagesOf(media)}

LEMMA QueuedRows ==
    ASSUME NEW media \in SUBSET MediaRecords
    PROVE  /\ Queued(media) \subseteq QueueRows /\ IsFiniteSet(Queued(media))
           /\ PackagesOf(media) \subseteq Names
<1>1. PackagesOf(media) \subseteq Names
      BY DEF PackagesOf, MediaRecords
<1>2. ASSUME NEW p \in PackagesOf(media)
      PROVE  FilesOf(media, p) \in (SUBSET MediaFiles) \ {{}}
  <2>1. PICK m \in media : m.package = p
        BY DEF PackagesOf
  <2>2. m.file \in FilesOf(media, p)
        BY <2>1 DEF FilesOf
  <2>3. FilesOf(media, p) \subseteq MediaFiles
        BY DEF FilesOf, MediaRecords
  <2> QED BY <2>2, <2>3
<1>3. Queued(media) \subseteq QueueRows
      BY <1>1, <1>2 DEF Queued, QueueRows
<1>4. IsFiniteSet(Holds)
      BY KalturaAssumption
<1>5. IsFiniteSet(Names)
  <2>1. [h \in Holds |-> h.package] \in Surjection(Holds, Names)
        BY DEF Surjection, Names
  <2> QED BY <1>4, <2>1, FS_Surjection
<1>6. IsFiniteSet(PackagesOf(media))
      BY <1>1, <1>5, FS_Subset
<1>7. IsFiniteSet(Queued(media))
  <2>1. [p \in PackagesOf(media) |-> [package |-> p, files |-> FilesOf(media, p)]]
           \in Surjection(PackagesOf(media), Queued(media))
        BY DEF Surjection, Queued
  <2> QED BY <1>6, <2>1, FS_Surjection
<1> QED BY <1>1, <1>3, <1>7

\* A request in the lookup keeps what it asks about.
Early == {"resolve", "clear", "clear_queue", "enqueue"}
LEMMA LookupRun ==
    ASSUME NEW r \in OKRuns, NEW new \in Runs, r.step \in ResolveSteps, new.step \in ResolveSteps,
           new.kind = r.kind, new.folder = r.folder, new.packages = r.packages,
           new.media = r.media, new.blind = r.blind,
           new.step \in Early => r.step \in Early /\ new.results = r.results,
           new.step \in {"mark", "file"} => new.row \in QueueRows
    PROVE  new \in OKRuns
<1>1. Carries(r) /\ Listed(r)
      BY DEF OKRuns
<1>2. Carries(new)
      BY <1>1 DEF Carries, ResolveSteps, Early
<1>3. Listed(new)
      BY <1>1 DEF Listed, ResolveSteps
<1>4. Compared(new)
      BY DEF Compared, ResolveSteps
<1> QED BY <1>2, <1>3, <1>4 DEF OKRuns

LEMMA LookupGoes ==
    ASSUME run \in [Sessions -> OKRuns], NEW s \in Sessions, NEW step \in ResolveSteps,
           run[s].step \in ResolveSteps, step \in Early => run[s].step \in Early,
           step \in {"mark", "file"} => run[s].row \in QueueRows
    PROVE  LET new == [run[s] EXCEPT !.step = step]
           IN  /\ new \in OKRuns /\ (Goes(s, step) => Gives(s, new) /\ run'[s] = new)
               /\ new.step = step /\ new.media = run[s].media /\ new.results = run[s].results
               /\ new.row = run[s].row /\ new.crossed = run[s].crossed /\ new.kind = run[s].kind
<1> DEFINE r == run[s]
           new == [r EXCEPT !.step = step]
<1>1. r \in OKRuns /\ r \in Runs /\ step \in Steps
      BY DEF OKRuns, Steps
<1>2. /\ new \in Runs /\ new.step = step /\ new.kind = r.kind /\ new.folder = r.folder
      /\ new.packages = r.packages /\ new.media = r.media /\ new.blind = r.blind
      /\ new.results = r.results /\ new.row = r.row /\ new.crossed = r.crossed
      BY <1>1 DEF Runs
<1>3. Goes(s, step) => run' = [run EXCEPT ![s] = new]
      BY DEF Goes
<1> HIDE DEF new
<1>4. new \in OKRuns
      BY <1>1, <1>2, LookupRun
<1>5. Goes(s, step) => Gives(s, new) /\ run'[s] = new
      BY <1>3, <1>4, PlainStep
<1> QED BY <1>2, <1>4, <1>5 DEF new

\* The queue after a deletion, and after an insertion.
LEMMA QueueDeleted ==
    ASSUME NEW S, kqueue \in Seq(S), NEW packages, kqueue' = Without(packages)
    PROVE  /\ kqueue' \in Seq(S)
           /\ \A i \in DOMAIN kqueue' : \E k \in DOMAIN kqueue :
                 kqueue'[i] = kqueue[k] /\ kqueue[k].package \notin packages
           /\ \A k \in DOMAIN kqueue : kqueue[k].package \notin packages =>
                 \E i \in DOMAIN kqueue' : kqueue'[i] = kqueue[k]
<1> DEFINE list == Without(packages)
<1>1. list \in Seq(S) /\ Range(list) = {q \in Range(kqueue) : q.package \notin packages}
      BY DeletedRows
<1> HIDE DEF list
<1>2. \A i \in DOMAIN list : \E k \in DOMAIN kqueue :
         list[i] = kqueue[k] /\ kqueue[k].package \notin packages
      BY <1>1 DEF Range
<1>3. \A k \in DOMAIN kqueue : kqueue[k].package \notin packages =>
         \E i \in DOMAIN list : list[i] = kqueue[k]
      BY <1>1 DEF Range
<1>4. kqueue' = list
      BY DEF list
<1> QED BY <1>1, <1>2, <1>3, <1>4

LEMMA QueueInserted ==
    ASSUME NEW S, kqueue \in Seq(S), NEW new \in SUBSET S, IsFiniteSet(new),
           kqueue' = kqueue \o SetToSeq(new)
    PROVE  /\ kqueue' \in Seq(S)
           /\ \A i \in DOMAIN kqueue' :
                 kqueue'[i] \in new \/ \E k \in DOMAIN kqueue : kqueue'[i] = kqueue[k]
           /\ \A q \in new : \E i \in DOMAIN kqueue' : kqueue'[i] = q
<1> DEFINE more == SetToSeq(new)
           list == kqueue \o more
<1>1. /\ more \in Seq(new) /\ Len(more) = Cardinality(new)
      /\ \A x \in new : \E i \in 1..Cardinality(new) : more[i] = x
      BY ListOfSet
<1> HIDE DEF more
<1>2. more \in Seq(S)
      BY <1>1, SeqMonotonic
<1>3. list \in Seq(S)
      BY <1>2, ConcatProperties
<1>4. Range(list) = Range(kqueue) \cup Range(more)
      BY <1>2, RangeOfConcat
<1>5. DOMAIN more = 1..Cardinality(new) /\ \A i \in DOMAIN more : more[i] \in new
      BY <1>1, LenProperties
<1>6. Range(more) = new
      BY <1>1, <1>5 DEF Range
<1> HIDE DEF list
<1>7. \A i \in DOMAIN list : list[i] \in new \/ \E k \in DOMAIN kqueue : list[i] = kqueue[k]
      BY <1>4, <1>6 DEF Range
<1>8. \A q \in new : \E i \in DOMAIN list : list[i] = q
      BY <1>4, <1>6 DEF Range
<1>9. kqueue' = list
      BY DEF list, more
<1> QED BY <1>3, <1>7, <1>8, <1>9

\* What a request that nothing crossed finds: the single entries among its
\* answers are still kept; its packages' rows are its own, with all the files
\* it asks about; and each of these is answered, or a row still asks for it.
Asked(s, m) ==
    \/ Single(m) \in run[s].results \/ Double(m) \in run[s].results
    \/ /\ run[s].step = "file"
       /\ run[s].row.package = m.package /\ m.file \in run[s].row.files
    \/ /\ run[s].step \in {"peek", "mark", "file"}
       /\ \E i \in DOMAIN kqueue : kqueue[i].package = m.package
OwnRows(s) == \A i \in DOMAIN kqueue :
    kqueue[i].package \in PackagesOf(run[s].media) =>
        kqueue[i].files = FilesOf(run[s].media, kqueue[i].package)
Alone(s) ==
    /\ \A a \in run[s].results : a.single => a \in ids
    /\ run[s].step = "enqueue" =>
          \A i \in DOMAIN kqueue : kqueue[i].package \notin PackagesOf(run[s].media)
    /\ run[s].step \in {"peek", "mark", "file"} => OwnRows(s)
    /\ run[s].step = "mark" => \E i \in DOMAIN kqueue : kqueue[i] = run[s].row
    /\ run[s].step \in {"peek", "mark", "file", "resolved"} => \A m \in run[s].media : Asked(s, m)
AloneInv == \A s \in Sessions : Using(s) /\ ~run[s].crossed => Alone(s)

\* Two requests that the queue is in the hands of at once know of each other.
Company == \A s, t \in Sessions :
    s # t /\ Using(s) /\ Using(t) => run[s].crossed /\ run[t].crossed

\* What a step of the lookup owes the queue and its own request.
Proceeds(s) ==
    /\ \E new : Gives(s, new)
    /\ kqueue' \in Seq(QueueRows) /\ ids' \subseteq {a \in Answers : a.single}
    /\ Using(s)
    /\ Using(s)' => run'[s].crossed = run[s].crossed /\ (Alone(s) => Alone(s)')

LEMMA ClearIds ==
    ASSUME TablesOK, NEW s \in Sessions, clear_ids(s)
    PROVE  Proceeds(s)
<1> DEFINE r == run[s]
           new == [r EXCEPT !.step = "clear_queue"]
<1>1. run \in [Sessions -> OKRuns] /\ r \in OKRuns /\ Carries(r) /\ r.step = "clear"
      BY DEF TablesOK, OKRuns, clear_ids, At
<1>2. r.media # {} /\ r.results = {} /\ r.step \in ResolveSteps
      BY <1>1 DEF Carries, ResolveSteps
<1>3. /\ Gives(s, new) /\ run'[s] = new /\ new.step = "clear_queue" /\ new.results = r.results
      /\ new.crossed = r.crossed
      BY <1>1, <1>2, LookupGoes DEF clear_ids, ResolveSteps, Early
<1>4. kqueue' \in Seq(QueueRows) /\ ids' \subseteq {a \in Answers : a.single}
      BY DEF TablesOK, clear_ids, Cleared
<1>5. Using(s)
      BY <1>1, <1>2 DEF Using, At, USING
<1> HIDE DEF new
<1>6. Alone(s)'
      BY <1>2, <1>3 DEF Alone
<1> QED BY <1>3, <1>4, <1>5, <1>6 DEF Proceeds

LEMMA ClearRows ==
    ASSUME TablesOK, NEW s \in Sessions, clear_rows(s)
    PROVE  Proceeds(s)
<1> DEFINE r == run[s]
           new == [r EXCEPT !.step = "enqueue"]
<1>1. run \in [Sessions -> OKRuns] /\ r \in OKRuns /\ Carries(r) /\ r.step = "clear_queue"
      BY DEF TablesOK, OKRuns, clear_rows, At
<1>2. r.media # {} /\ r.results = {} /\ r.step \in ResolveSteps
      BY <1>1 DEF Carries, ResolveSteps
<1>3. /\ Gives(s, new) /\ run'[s] = new /\ new.step = "enqueue" /\ new.results = r.results
      /\ new.crossed = r.crossed /\ new.media = r.media
      BY <1>1, <1>2, LookupGoes DEF clear_rows, ResolveSteps, Early
<1>4. /\ kqueue' \in Seq(QueueRows)
      /\ \A i \in DOMAIN kqueue' : kqueue'[i].package \notin PackagesOf(r.media)
      BY QueueDeleted DEF TablesOK, clear_rows
<1>5. Using(s)
      BY <1>1, <1>2 DEF Using, At, USING
<1>6. ids' = ids /\ ids \subseteq {a \in Answers : a.single}
      BY DEF TablesOK, clear_rows
<1> HIDE DEF new
<1>7. run'[s].media = run[s].media
      BY <1>3
<1>8. PackagesOf(run[s].media)' = PackagesOf(run[s].media)
      BY <1>7 DEF PackagesOf
<1>9. Alone(s)'
      BY <1>2, <1>3, <1>4, <1>8 DEF Alone
<1> QED BY <1>3, <1>4, <1>5, <1>6, <1>9 DEF Proceeds

LEMMA QueuePackages ==
    ASSUME TablesOK, NEW s \in Sessions, queue_packages(s)
    PROVE  Proceeds(s)
<1> DEFINE r == run[s]
           new == [r EXCEPT !.step = "peek"]
           media == r.media
<1>1. run \in [Sessions -> OKRuns] /\ r \in OKRuns /\ r \in Runs /\ Carries(r) /\ r.step = "enqueue"
      BY DEF TablesOK, OKRuns, queue_packages, At
<1>2. r.media # {} /\ r.results = {} /\ r.step \in ResolveSteps /\ media \in SUBSET MediaRecords
      BY <1>1 DEF Carries, ResolveSteps, Runs
<1>3. /\ Gives(s, new) /\ run'[s] = new /\ new.step = "peek" /\ new.results = r.results
      /\ new.crossed = r.crossed /\ new.media = r.media
      BY <1>1, <1>2, LookupGoes DEF queue_packages, ResolveSteps, Early
<1>4. Queued(media) \in SUBSET QueueRows /\ IsFiniteSet(Queued(media))
      BY <1>2, QueuedRows
<1>5. kqueue' = kqueue \o SetToSeq(Queued(media))
      BY DEF queue_packages, Queued, FilesOf
<1>6. /\ kqueue' \in Seq(QueueRows)
      /\ \A i \in DOMAIN kqueue' :
            kqueue'[i] \in Queued(media) \/ \E k \in DOMAIN kqueue : kqueue'[i] = kqueue[k]
      /\ \A q \in Queued(media) : \E i \in DOMAIN kqueue' : kqueue'[i] = q
  <2>1. kqueue \in Seq(QueueRows)
        BY DEF TablesOK
  <2>2. PICK new_rows \in SUBSET QueueRows : new_rows = Queued(media)
        BY <1>4
  <2>3. IsFiniteSet(new_rows) /\ kqueue' = kqueue \o SetToSeq(new_rows)
        BY <1>4, <1>5, <2>2
  <2>4. /\ kqueue' \in Seq(QueueRows)
        /\ \A i \in DOMAIN kqueue' :
              kqueue'[i] \in new_rows \/ \E k \in DOMAIN kqueue : kqueue'[i] = kqueue[k]
        /\ \A q \in new_rows : \E i \in DOMAIN kqueue' : kqueue'[i] = q
    <3> HIDE DEF QueueRows
    <3> QED BY <2>1, <2>3, QueueInserted
  <2> QED BY <2>2, <2>4
<1>7. Using(s)
      BY <1>1, <1>2 DEF Using, At, USING
<1>8. ids' = ids /\ ids \subseteq {a \in Answers : a.single}
      BY DEF TablesOK, queue_packages
<1> HIDE DEF new
<1>9. run'[s].media = media /\ run'[s].step = "peek" /\ run'[s].results = {}
      BY <1>2, <1>3
<1>10. ASSUME Alone(s) PROVE Alone(s)'
  <2>1. \A i \in DOMAIN kqueue : kqueue[i].package \notin PackagesOf(media)
        BY <1>1, <1>10 DEF Alone
  <2>2. ASSUME NEW i \in DOMAIN kqueue', kqueue'[i].package \in PackagesOf(media)
        PROVE  kqueue'[i].files = FilesOf(media, kqueue'[i].package)
    <3>1. PICK q : q = kqueue'[i]
          OBVIOUS
    <3>2. q \in Queued(media)
          BY <1>6, <2>1, <2>2, <3>1
    <3>3. q.files = FilesOf(media, q.package)
          BY <3>2 DEF Queued
    <3> QED BY <3>1, <3>3
  <2>3. OwnRows(s)'
        BY <1>9, <2>2 DEF OwnRows, PackagesOf, FilesOf
  <2>4. ASSUME NEW m \in media
        PROVE  \E i \in DOMAIN kqueue' : kqueue'[i].package = m.package
    <3>1. m.package \in PackagesOf(media)
          BY DEF PackagesOf
    <3>2. [package |-> m.package, files |-> FilesOf(media, m.package)] \in Queued(media)
          BY <3>1 DEF Queued
    <3>3. PICK i \in DOMAIN kqueue' :
             kqueue'[i] = [package |-> m.package, files |-> FilesOf(media, m.package)]
          BY <1>6, <3>2
    <3>4. kqueue'[i].package = m.package
          BY <3>3
    <3> QED BY <3>4
  <2>5. \A m \in run'[s].media : Asked(s, m)'
        BY <1>9, <2>4 DEF Asked
  <2> QED BY <1>9, <2>3, <2>5 DEF Alone
<1> QED BY <1>3, <1>6, <1>7, <1>8, <1>10 DEF Proceeds

LEMMA NextPackage ==
    ASSUME TablesOK, NEW s \in Sessions, get_next_package(s)
    PROVE  Proceeds(s)
<1> DEFINE r == run[s]
<1>1. run \in [Sessions -> OKRuns] /\ r \in OKRuns /\ r \in Runs /\ Carries(r) /\ r.step = "peek"
      BY DEF TablesOK, OKRuns, get_next_package, At
<1>2. r.media # {} /\ r.step \in ResolveSteps
      BY <1>1 DEF Carries, ResolveSteps
<1>3. /\ kqueue' = kqueue /\ kqueue \in Seq(QueueRows)
      /\ ids' = ids /\ ids \subseteq {a \in Answers : a.single}
      BY DEF TablesOK, get_next_package
<1>4. Using(s)
      BY <1>1, <1>2 DEF Using, At, USING
<1>5. CASE kqueue = <<>>
  <2> DEFINE new == [r EXCEPT !.step = "resolved"]
  <2>1. run' = [run EXCEPT ![s] = new]
        BY <1>5 DEF get_next_package
  <2>2. Goes(s, "resolved")
        BY <2>1 DEF Goes
  <2>3. /\ Gives(s, new) /\ run'[s] = new /\ new.step = "resolved" /\ new.results = r.results
        /\ new.crossed = r.crossed /\ new.media = r.media
        BY <1>1, <1>2, <2>2, LookupGoes DEF ResolveSteps, Early
  <2> HIDE DEF new
  <2>4. DOMAIN kqueue = {}
        BY <1>5
  <2>5. ASSUME Alone(s) PROVE Alone(s)'
    <3>1. \A m \in r.media : Asked(s, m)
          BY <1>1, <2>5 DEF Alone
    <3>2. \A m \in r.media : Single(m) \in r.results \/ Double(m) \in r.results
          BY <1>1, <2>4, <3>1 DEF Asked
    <3>3. \A m \in run'[s].media : Asked(s, m)'
          BY <2>3, <3>2 DEF Asked
    <3> QED BY <1>3, <2>3, <2>5, <3>3 DEF Alone
  <2> QED BY <1>3, <1>4, <2>3, <2>5 DEF Proceeds
<1>6. CASE kqueue # <<>>
  <2> DEFINE q == Head(kqueue)
             new == [r EXCEPT !.step = "mark", !.row = q]
  <2>1. run' = [run EXCEPT ![s] = new]
        BY <1>6 DEF get_next_package
  <2>2. 1 \in DOMAIN kqueue /\ q = kqueue[1] /\ q \in QueueRows
        BY <1>3, <1>6
  <2> HIDE DEF q
  <2>3. new \in Runs
        BY <1>1, <2>2 DEF Runs, Steps, ResolveSteps
  <2>4. /\ new.step = "mark" /\ new.row = q /\ new.results = r.results /\ new.kind = r.kind
        /\ new.crossed = r.crossed /\ new.media = r.media /\ new.blind = r.blind
        /\ new.folder = r.folder /\ new.packages = r.packages
        BY <1>1 DEF Runs
  <2> HIDE DEF new
  <2>5. new \in OKRuns
        BY <1>1, <1>2, <2>2, <2>3, <2>4, LookupRun DEF ResolveSteps, Early
  <2>6. Gives(s, new) /\ run'[s] = new
        BY <1>1, <2>1, <2>5, PlainStep
  <2>7. ASSUME Alone(s) PROVE Alone(s)'
    <3>1. \A m \in r.media : Asked(s, m)
          BY <1>1, <2>7 DEF Alone
    <3>2. \A m \in run'[s].media : Asked(s, m)'
          BY <1>1, <1>3, <2>4, <2>6, <3>1 DEF Asked
    <3>3. OwnRows(s)'
      <4>1. run'[s].media = run[s].media
            BY <2>4, <2>6
      <4>2. OwnRows(s)
            BY <1>1, <2>7 DEF Alone
      <4> QED BY <1>3, <4>1, <4>2 DEF OwnRows, PackagesOf, FilesOf
    <3>4. \E i \in DOMAIN kqueue' : kqueue'[i] = run'[s].row
          BY <1>3, <2>2, <2>4, <2>6
    <3> QED BY <1>3, <2>4, <2>6, <2>7, <3>2, <3>3, <3>4 DEF Alone
  <2> QED BY <1>3, <1>4, <2>4, <2>6, <2>7 DEF Proceeds
<1> QED BY <1>5, <1>6

LEMMA MarkPackage ==
    ASSUME TablesOK, NEW s \in Sessions, mark_package_processed(s)
    PROVE  Proceeds(s)
<1> DEFINE r == run[s]
           new == [r EXCEPT !.step = "file"]
<1>1. run \in [Sessions -> OKRuns] /\ r \in OKRuns /\ r \in Runs /\ Carries(r) /\ r.step = "mark"
      BY DEF TablesOK, OKRuns, mark_package_processed, At
<1>2. r.media # {} /\ r.step \in ResolveSteps /\ r.row \in QueueRows
      BY <1>1 DEF Carries, ResolveSteps
<1>3. /\ Gives(s, new) /\ run'[s] = new /\ new.step = "file" /\ new.results = r.results
      /\ new.crossed = r.crossed /\ new.media = r.media /\ new.row = r.row
      BY <1>1, <1>2, LookupGoes DEF mark_package_processed, ResolveSteps, Early
<1>4. kqueue' = Without({r.row.package})
      BY DEF mark_package_processed, Unprocessed
<1>5. /\ kqueue' \in Seq(QueueRows)
      /\ \A i \in DOMAIN kqueue' : \E k \in DOMAIN kqueue :
            kqueue'[i] = kqueue[k] /\ kqueue[k].package \notin {r.row.package}
      /\ \A k \in DOMAIN kqueue : kqueue[k].package \notin {r.row.package} =>
            \E i \in DOMAIN kqueue' : kqueue'[i] = kqueue[k]
      BY <1>4, QueueDeleted DEF TablesOK
<1>6. Using(s)
      BY <1>1, <1>2 DEF Using, At, USING
<1>7. ids' = ids /\ ids \subseteq {a \in Answers : a.single}
      BY DEF TablesOK, mark_package_processed
<1> HIDE DEF new
<1>8. /\ run'[s].media = r.media /\ run'[s].step = "file" /\ run'[s].results = r.results
      /\ run'[s].row = r.row
      BY <1>3
<1>9. ASSUME Alone(s) PROVE Alone(s)'
  <2>1. OwnRows(s) /\ (\E i \in DOMAIN kqueue : kqueue[i] = r.row) /\ \A m \in r.media : Asked(s, m)
        BY <1>1, <1>9 DEF Alone
  <2>2. ASSUME NEW i \in DOMAIN kqueue', kqueue'[i].package \in PackagesOf(r.media)
        PROVE  kqueue'[i].files = FilesOf(r.media, kqueue'[i].package)
    <3>1. PICK k \in DOMAIN kqueue : kqueue'[i] = kqueue[k]
          BY <1>5
    <3>2. PICK q : q = kqueue[k]
          OBVIOUS
    <3>3. q.package \in PackagesOf(r.media)
          BY <2>2, <3>1, <3>2
    <3>4. q.files = FilesOf(r.media, q.package)
          BY <2>1, <3>2, <3>3 DEF OwnRows
    <3>5. kqueue'[i] = q
          BY <3>1, <3>2
    <3> QED BY <3>4, <3>5
  <2>3. OwnRows(s)'
        BY <1>8, <2>2 DEF OwnRows, PackagesOf, FilesOf
  <2>4. ASSUME NEW m \in r.media, m.package = r.row.package
        PROVE  m.file \in r.row.files
    <3>1. m.package \in PackagesOf(r.media)
          BY DEF PackagesOf
    <3>2. r.row.files = FilesOf(r.media, r.row.package)
          BY <2>1, <2>4, <3>1 DEF OwnRows
    <3> QED BY <2>4, <3>2 DEF FilesOf
  <2>5. ASSUME NEW m \in r.media PROVE Asked(s, m)'
    <3>1. CASE m.package = r.row.package
          BY <1>8, <2>4, <3>1 DEF Asked
    <3>2. CASE m.package # r.row.package
      <4>1. CASE Single(m) \in r.results \/ Double(m) \in r.results
            BY <1>8, <4>1 DEF Asked
      <4>2. CASE \E i \in DOMAIN kqueue : kqueue[i].package = m.package
        <5>1. PICK k \in DOMAIN kqueue : kqueue[k].package = m.package
              BY <4>2
        <5>2. PICK i \in DOMAIN kqueue' : kqueue'[i] = kqueue[k]
              BY <1>5, <3>2, <5>1
        <5>3. kqueue'[i].package = m.package
              BY <5>1, <5>2
        <5> QED BY <1>8, <5>3 DEF Asked
      <4> QED BY <1>1, <2>1, <4>1, <4>2 DEF Asked
    <3> QED BY <3>1, <3>2
  <2>6. \A a \in r.results : a.single => a \in ids
        BY <1>9 DEF Alone
  <2> QED BY <1>7, <1>8, <2>3, <2>5, <2>6 DEF Alone
<1> QED BY <1>3, <1>5, <1>6, <1>7, <1>9 DEF Proceeds

LEMMA ResolveFile ==
    ASSUME TablesOK, NEW s \in Sessions, resolve_file(s)
    PROVE  Proceeds(s)
<1> DEFINE r == run[s]
           x == First(run[s].row.files)
           left == run[s].row.files \ {x}
<1>1. run \in [Sessions -> OKRuns] /\ r \in OKRuns /\ r \in Runs /\ Carries(r) /\ r.step = "file"
      BY DEF TablesOK, OKRuns, resolve_file, At
<1>2. r.media # {} /\ r.step \in ResolveSteps /\ r.row \in QueueRows /\ r.results \subseteq Answers
      BY <1>1 DEF Carries, ResolveSteps, Runs
<1>3. /\ kqueue' = kqueue /\ kqueue \in Seq(QueueRows)
      /\ ids \subseteq {a \in Answers : a.single}
      BY DEF TablesOK, resolve_file
<1>4. Using(s)
      BY <1>1, <1>2 DEF Using, At, USING
<1>5. x \in r.row.files /\ r.row.files \subseteq MediaFiles /\ r.row.package \in Names
      BY <1>2, FirstIsMember DEF QueueRows
<1>6. PICK found \in Found :
         /\ ids' = IF _extract_entry_ids(r.row.package, x, found).single
                   THEN ids \cup {_extract_entry_ids(r.row.package, x, found)} ELSE ids
         /\ run' = [run EXCEPT
               ![s].results = @ \cup {_extract_entry_ids(r.row.package, x, found)},
               ![s].row = IF left = {} THEN NoRow ELSE [@ EXCEPT !.files = left],
               ![s].step = IF left = {} THEN "peek" ELSE "file"]
      BY DEF resolve_file
<1> HIDE DEF x
<1> DEFINE answer == _extract_entry_ids(r.row.package, x, found)
           step == IF left = {} THEN "peek" ELSE "file"
           row == IF left = {} THEN NoRow ELSE [r.row EXCEPT !.files = left]
           new == [r EXCEPT !.results = @ \cup {answer}, !.row = row, !.step = step]
<1>7. answer \in [package : Names, file : MediaFiles, single : BOOLEAN]
      BY <1>5 DEF _extract_entry_ids
<1>8. /\ answer.package = r.row.package /\ answer.file = x
      /\ answer.single => answer = [package |-> r.row.package, file |-> x, single |-> TRUE]
      /\ ~answer.single => answer = [package |-> r.row.package, file |-> x, single |-> FALSE]
  <2>1. CASE found = "one"
        BY <2>1 DEF _extract_entry_ids
  <2>2. CASE found # "one"
        BY <2>2 DEF _extract_entry_ids
  <2> QED BY <2>1, <2>2
<1>9. /\ row \in QueueRows \cup {NoRow} /\ (left # {} => row \in QueueRows)
      /\ left # {} => row.package = r.row.package /\ row.files = left
      BY <1>2, <1>5 DEF QueueRows
<1>10. run' = [run EXCEPT ![s] = new]
       BY <1>6
<1>11. ids' = IF answer.single THEN ids \cup {answer} ELSE ids
       BY <1>6
<1>12. answer \in Answers
       BY <1>7 DEF Answers
<1> HIDE DEF answer, row
<1>13. /\ new \in Runs /\ new.step = step /\ new.row = row /\ new.results = r.results \cup {answer}
       /\ new.kind = r.kind /\ new.crossed = r.crossed /\ new.media = r.media
       /\ new.blind = r.blind /\ new.folder = r.folder /\ new.packages = r.packages
       BY <1>1, <1>9, <1>12 DEF Runs, Steps, ResolveSteps
<1> HIDE DEF new
<1>14. new \in OKRuns
       BY <1>1, <1>2, <1>9, <1>13, LookupRun DEF ResolveSteps, Early
<1>15. Gives(s, new) /\ run'[s] = new
       BY <1>1, <1>10, <1>14, PlainStep
<1>16. ids' \subseteq {a \in Answers : a.single}
       BY <1>3, <1>11, <1>12
<1>17. ASSUME Alone(s) PROVE Alone(s)'
  <2>1. OwnRows(s) /\ \A m \in r.media : Asked(s, m)
        BY <1>1, <1>17 DEF Alone
  <2>2. OwnRows(s)'
    <3>1. run'[s].media = run[s].media
          BY <1>13, <1>15
    <3> QED BY <1>3, <2>1, <3>1 DEF OwnRows, PackagesOf, FilesOf
  <2>3. \A a \in run'[s].results : a.single => a \in ids'
        BY <1>11, <1>13, <1>15, <1>17 DEF Alone
  <2>4. ASSUME NEW m \in r.media PROVE Asked(s, m)'
    <3>1. CASE Single(m) \in r.results \/ Double(m) \in r.results
          BY <1>13, <1>15, <3>1 DEF Asked
    <3>2. CASE \E i \in DOMAIN kqueue : kqueue[i].package = m.package
          BY <1>3, <1>13, <1>15, <3>2 DEF Asked
    <3>3. CASE r.row.package = m.package /\ m.file \in r.row.files /\ m.file = x
      <4>1. answer = Single(m) \/ answer = Double(m)
            BY <1>8, <3>3 DEF Single, Double
      <4> QED BY <1>13, <1>15, <4>1 DEF Asked
    <3>4. CASE r.row.package = m.package /\ m.file \in r.row.files /\ m.file # x
      <4>1. m.file \in left
            BY <3>4
      <4> QED BY <1>9, <1>13, <1>15, <3>4, <4>1 DEF Asked
    <3> QED BY <1>1, <2>1, <3>1, <3>2, <3>3, <3>4 DEF Asked
  <2>5. \A m \in run'[s].media : Asked(s, m)'
        BY <1>13, <1>15, <2>4
  <2> QED BY <1>13, <1>15, <2>2, <2>3, <2>5 DEF Alone
<1> QED BY <1>3, <1>4, <1>13, <1>15, <1>16, <1>17 DEF Proceeds

\* The drain is over, or the queue has been emptied.
LEMMA LookupEnds ==
    ASSUME TablesOK, NEW s \in Sessions, metadata_answered(s) \/ clear_queue_table(s)
    PROVE  Proceeds(s)
<1>1. run \in [Sessions -> OKRuns] /\ Carries(run[s])
      BY DEF TablesOK, OKRuns
<1>2. Returns(s) /\ run'[s] = Idle /\ Gives(s, Idle)
      BY <1>1, ReturnStep DEF metadata_answered, clear_queue_table, Returns
<1>3. ~Using(s)'
      BY <1>2, IdleRun DEF Using, At, Uses
<1>4. Using(s)
      BY <1>1 DEF Carries, ResolveSteps, Using, At, USING, metadata_answered, clear_queue_table
<1>5. kqueue' \in Seq(QueueRows) /\ ids' \subseteq {a \in Answers : a.single}
      BY EmptySeq DEF TablesOK, metadata_answered, clear_queue_table
<1> QED BY <1>2, <1>3, <1>4, <1>5 DEF Proceeds

\* A request that begins to use the queue, and the clearing of it by staff.
Enters(s) ==
    /\ \E new : Gives(s, new)
    /\ kqueue' \in Seq(QueueRows) /\ ids' \subseteq {a \in Answers : a.single}
    /\ \A t \in Sessions \ {s} : Using(t) => run'[s].crossed /\ run'[t].crossed
    /\ run'[s].step \in {"clear", "wipe"} /\ run'[s].results = {}

LEMMA StartSession ==
    ASSUME TablesOK, NEW s \in Sessions, start_session(s)
    PROVE  Enters(s)
<1> DEFINE r == run[s]
           new == [r EXCEPT !.step = "clear"]
           c == \E o \in Sessions \ {s} : Using(o)
           joined == [new EXCEPT !.crossed = c]
<1>1. run \in [Sessions -> OKRuns] /\ r \in OKRuns /\ Carries(r) /\ r.step = "resolve"
      BY DEF TablesOK, OKRuns, start_session, At
<1>2. r.results = {} /\ r.step \in ResolveSteps
      BY <1>1 DEF Carries, ResolveSteps
<1>3. new \in OKRuns /\ new.step = "clear" /\ new.results = {}
      BY <1>1, <1>2, LookupGoes DEF ResolveSteps, Early
<1>4. Joins(s, new)
      BY DEF start_session
<1> HIDE DEF new
<1>5. new \in Runs
      BY <1>3 DEF OKRuns
<1>6. /\ Gives(s, joined) /\ run'[s] = joined
      /\ \A t \in Sessions \ {s} : Using(t) => run'[t].crossed
      BY <1>1, <1>3, <1>4, JoiningStep
<1>7. joined.step = "clear" /\ joined.results = {} /\ (c => joined.crossed)
      BY <1>3, <1>5 DEF Runs
<1>8. kqueue' = kqueue /\ ids' = ids
      BY DEF start_session
<1> HIDE DEF joined
<1> QED BY <1>6, <1>7, <1>8 DEF Enters, TablesOK

LEMMA ClearQueue ==
    ASSUME TablesOK, NEW s \in Sessions, clear_queue(s)
    PROVE  Enters(s)
<1> DEFINE new == [Idle EXCEPT !.kind = "wipe", !.step = "wipe"]
           c == \E o \in Sessions \ {s} : Using(o)
           joined == [new EXCEPT !.crossed = c]
<1>1. run \in [Sessions -> OKRuns]
      BY DEF TablesOK
<1>2. "wipe" \in Kinds /\ "wipe" \in Steps
      BY DEF Kinds, Steps
<1>3. /\ new \in Runs /\ new.kind = "wipe" /\ new.step = "wipe" /\ new.results = {}
      /\ new.media = {} /\ new.packages = {}
      BY <1>2, IdleRun DEF Runs
<1>4. Joins(s, new)
      BY DEF clear_queue
<1> HIDE DEF new
<1>5. new \in OKRuns
      BY <1>3, BareRun DEF ResolveSteps, FolderKinds
<1>6. /\ Gives(s, joined) /\ run'[s] = joined
      /\ \A t \in Sessions \ {s} : Using(t) => run'[t].crossed
      BY <1>1, <1>4, <1>5, JoiningStep
<1>7. joined.step = "wipe" /\ joined.results = {} /\ (c => joined.crossed)
      BY <1>3 DEF Runs
<1>8. kqueue' = kqueue /\ ids' = {}
      BY DEF clear_queue
<1> HIDE DEF joined
<1> QED BY <1>6, <1>7, <1>8 DEF Enters, TablesOK

LEMMA LookupSteps ==
    ASSUME TablesOK, NEW s \in Sessions, Resolving(s) \/ clear_queue(s)
    PROVE  Proceeds(s) \/ Enters(s)
BY ClearIds, ClearRows, QueuePackages, NextPackage, MarkPackage, ResolveFile, LookupEnds,
   StartSession, ClearQueue DEF Resolving

\* A request that is at most crossed goes on as it was.
LEMMA OtherKept ==
    ASSUME run \in [Sessions -> OKRuns], NEW t \in Sessions,
           run'[t] = run[t] \/ run'[t] = [run[t] EXCEPT !.crossed = TRUE]
    PROVE  /\ Using(t)' => Using(t)
           /\ run[t].crossed => run'[t].crossed
           /\ kqueue' = kqueue /\ ids' = ids /\ Alone(t) => Alone(t)'
<1>1. run[t] \in Runs
      BY DEF OKRuns
<1>2. /\ run'[t].step = run[t].step /\ run'[t].media = run[t].media
      /\ run'[t].results = run[t].results /\ run'[t].row = run[t].row
      /\ run[t].crossed => run'[t].crossed
      BY <1>1 DEF Runs
<1>3. Using(t)' => Using(t)
      BY <1>2 DEF Using, At
<1>4. ASSUME kqueue' = kqueue, ids' = ids, Alone(t) PROVE Alone(t)'
  <2>1. OwnRows(t) => OwnRows(t)'
        BY <1>2, <1>4 DEF OwnRows, PackagesOf, FilesOf
  <2>2. \A m : Asked(t, m) => Asked(t, m)'
        BY <1>2, <1>4 DEF Asked
  <2>3. \A i \in DOMAIN kqueue : kqueue[i].package \notin PackagesOf(run[t].media) =>
           kqueue'[i].package \notin PackagesOf(run'[t].media)
        BY <1>2, <1>4
  <2>4. /\ run[t].step = "enqueue" =>
              \A i \in DOMAIN kqueue : kqueue[i].package \notin PackagesOf(run[t].media)
        /\ run[t].step \in {"peek", "mark", "file"} => OwnRows(t)
        /\ run[t].step = "mark" => \E i \in DOMAIN kqueue : kqueue[i] = run[t].row
        /\ run[t].step \in {"peek", "mark", "file", "resolved"} => \A m \in run[t].media : Asked(t, m)
        /\ \A a \in run[t].results : a.single => a \in ids
        BY <1>4 DEF Alone
  <2>5. (run[t].step = "enqueue" =>
              \A i \in DOMAIN kqueue : kqueue[i].package \notin PackagesOf(run[t].media))'
        BY <1>2, <1>4, <2>4 DEF PackagesOf
  <2> QED BY <1>2, <1>4, <2>1, <2>2, <2>4, <2>5 DEF Alone
<1> QED BY <1>2, <1>3, <1>4

\* What the queue's company and its lone user keep: in a step outside the
\* lookup; in a step of the lookup; and when a request enters it.
Hands == Company /\ AloneInv

LEMMA HandsQuiet ==
    ASSUME TablesOK, Hands, NEW s \in Sessions, NEW new, Gives(s, new), Quiet(s, new),
           UNCHANGED <<kqueue, ids>>
    PROVE  Hands'
<1>1. run \in [Sessions -> OKRuns] /\ run' \in [Sessions -> OKRuns] /\ run[s] \in Runs
      BY DEF TablesOK, OKRuns, Gives
<1>2. ASSUME NEW t \in Sessions \ {s}
      PROVE  /\ Using(t)' => Using(t)
             /\ run[t].crossed => run'[t].crossed
             /\ Alone(t) => Alone(t)'
      BY <1>1, OtherKept DEF Gives
<1>3. ASSUME Using(s)'
      PROVE  /\ Using(s)
             /\ run[s].crossed => run'[s].crossed
             /\ ~run'[s].crossed => ~run[s].crossed /\ (Alone(s) => Alone(s)')
  <2>1. PICK now : now = run'[s]
        OBVIOUS
  <2>2. now \in OKRuns /\ now \in Runs /\ Uses(now)
        BY <1>1, <1>3, <2>1 DEF OKRuns, Uses, Using, At
  <2>3. CASE now = new
    <3>1. Using(s) /\ now.step = "call" /\ now.results = run[s].results
          /\ now.crossed = run[s].crossed
          BY <2>2, <2>3 DEF Quiet
    <3>2. Alone(s) => Alone(s)'
          BY <2>1, <3>1 DEF Alone
    <3> QED BY <2>1, <3>1, <3>2
  <2>4. CASE now = [new EXCEPT !.crossed = TRUE]
    <3>1. Using(s) \/ ~Uses(new)
          BY DEF Quiet
    <3>2. now.crossed
      <4>1. "crossed" \in DOMAIN now
            BY <2>2 DEF Runs
      <4> QED BY <2>4, <4>1
    <3>3. now.step = new.step /\ now.media = new.media
          BY <2>4
    <3>4. Uses(new)
          BY <2>2, <3>3 DEF Uses
    <3> QED BY <2>1, <3>1, <3>2, <3>4
  <2> QED BY <2>1, <2>3, <2>4 DEF Gives
<1>4. Company'
      BY <1>2, <1>3 DEF Hands, Company
<1>5. ASSUME NEW t \in Sessions, Using(t)', ~run'[t].crossed PROVE Alone(t)'
      BY <1>2, <1>3, <1>5 DEF Hands, AloneInv
<1>6. AloneInv'
      BY <1>5 DEF AloneInv
<1> QED BY <1>4, <1>6 DEF Hands

LEMMA HandsProceed ==
    ASSUME TablesOK, Hands, NEW s \in Sessions, Proceeds(s)
    PROVE  Hands'
<1>1. run \in [Sessions -> OKRuns]
      BY DEF TablesOK
<1>2. PICK new : Gives(s, new)
      BY DEF Proceeds
<1>3. ASSUME NEW t \in Sessions \ {s}
      PROVE  (Using(t)' => Using(t)) /\ (run[t].crossed => run'[t].crossed)
      BY <1>1, <1>2, OtherKept DEF Gives
<1>4. Using(s) /\ (Using(s)' => run'[s].crossed = run[s].crossed /\ (Alone(s) => Alone(s)'))
      BY DEF Proceeds
<1>5. ASSUME NEW t \in Sessions \ {s}, Using(t)' PROVE run'[t].crossed /\ run[s].crossed
      BY <1>3, <1>4, <1>5 DEF Hands, Company
<1>6. Company'
      BY <1>4, <1>5 DEF Company
<1>7. ASSUME NEW t \in Sessions, Using(t)', ~run'[t].crossed PROVE Alone(t)'
  <2>1. t = s
        BY <1>5, <1>7
  <2> QED BY <1>4, <1>7, <2>1 DEF Hands, AloneInv
<1>8. AloneInv'
      BY <1>7 DEF AloneInv
<1> QED BY <1>6, <1>8 DEF Hands

LEMMA HandsEnter ==
    ASSUME TablesOK, Hands, NEW s \in Sessions, Enters(s)
    PROVE  Hands'
<1>1. run \in [Sessions -> OKRuns]
      BY DEF TablesOK
<1>2. PICK new : Gives(s, new)
      BY DEF Enters
<1>3. ASSUME NEW t \in Sessions \ {s}, Using(t)'
      PROVE  run'[t].crossed /\ run'[s].crossed
      BY <1>1, <1>2, <1>3, OtherKept DEF Gives, Enters
<1>4. Company'
  <2> SUFFICES ASSUME NEW t \in Sessions, NEW u \in Sessions, t # u, Using(t)', Using(u)'
               PROVE  run'[t].crossed /\ run'[u].crossed
      BY DEF Company
  <2>1. CASE t = s
        BY <1>3, <2>1
  <2>2. CASE u = s
        BY <1>3, <2>2
  <2>3. CASE t # s /\ u # s
        BY <1>3, <2>3
  <2> QED BY <2>1, <2>2, <2>3
<1>5. Alone(s)'
  <2>1. run'[s].results = {} /\ run'[s].step \notin {"enqueue", "peek", "mark", "file", "resolved"}
        BY DEF Enters
  <2> QED BY <2>1 DEF Alone
<1>6. AloneInv'
      BY <1>3, <1>5 DEF AloneInv
<1> QED BY <1>4, <1>6 DEF Hands

-----------------------------------------------------------------------------
(* The folders, the job history and the rows *)

\* The staff steps that write anything but their own request.
Writes(s) ==
    \/ make_digital_objects(s) \/ revert_to_mdo(s) \/ move_from_ingest_to_ready(s)
    \/ record_mdo(s) \/ record_qa(s) \/ record_submit(s) \/ stamp_qa(s) \/ record_return(s)
    \/ insert_rows(s) \/ return_row(s)

\* A request whose job has still to be recorded.
Owes(r) == r.kind \in {"mdo", "return"} /\ r.step \in {"write", "record"}
\* A submission that has counted and has not inserted, uncrossed so far.
Submits(s) ==
    run[s].kind = "submit" /\ run[s].step \in {"list", "read", "insert"} /\ ~run[s].crossed
\* A step goes on with a submission, or has just counted for one.
StaysSubmit(s) ==
    Submits(s)' => MaySubmit \/ (Submits(s) /\ run'[s].folder = run[s].folder)

LEMMA PlainSteps ==
    ASSUME TablesOK, NEW s \in Sessions, Staff(s)
    PROVE  Writes(s) \/ (/\ UNCHANGED <<folderVars, jobVars, rows>>
                         /\ ~Owes(run[s]) /\ StaysSubmit(s))
<1> DEFINE Plain == /\ UNCHANGED <<folderVars, jobVars, rows>>
                    /\ ~Owes(run[s]) /\ StaysSubmit(s)
           r == run[s]
<1>1. r \in Runs /\ run \in [Sessions -> OKRuns]
      BY DEF TablesOK, OKRuns
<1>2. ASSUME run'[s].kind # "submit" \/ run'[s].step \notin {"list", "read", "insert"}
      PROVE  StaysSubmit(s)
      BY <1>2 DEF StaysSubmit, Submits
<1>3. Returns(s) => StaysSubmit(s)
      BY <1>1, <1>2, IdleRun DEF Returns, Idle
<1>4a. \A ok \in BOOLEAN : Answer(s, ok) => run'[s].step = "record" /\ run'[s].kind = r.kind
      BY <1>1 DEF Answer, Answered, Idle
<1>4. \A ok \in BOOLEAN : Answer(s, ok) => StaysSubmit(s)
      BY <1>2, <1>4a
<1>5. ASSUME NEW f \in Folders, Request(s, f) PROVE Plain
  <2>1. /\ UNCHANGED <<folderVars, jobVars, rows>> /\ r.step = "idle"
        /\ run'[s].step \in {"list", "call", "count"}
        /\ run'[s].step = "list" => run'[s].kind \in {"mdo", "qa"}
    <3>1. make_digital_objects_action(s, f) =>
              /\ UNCHANGED <<folderVars, jobVars, rows>> /\ r.step = "idle"
              /\ run'[s].step = "list" /\ run'[s].kind = "mdo"
          BY <1>1 DEF make_digital_objects_action, Begins, Idle
    <3>2. revert_to_mdo_action(s, f) =>
              /\ UNCHANGED <<folderVars, jobVars, rows>> /\ r.step = "idle"
              /\ run'[s].step = "call"
          BY <1>1 DEF revert_to_mdo_action, Begins, Idle
    <3>3. aspace_qa_check_action(s, f) =>
              /\ UNCHANGED <<folderVars, jobVars, rows>> /\ r.step = "idle"
              /\ run'[s].step = "list" /\ run'[s].kind = "qa"
          BY <1>1 DEF aspace_qa_check_action, Begins, Idle
    <3>4. submit_ingest_action(s, f) =>
              /\ UNCHANGED <<folderVars, jobVars, rows>> /\ r.step = "idle"
              /\ run'[s].step = "count"
          BY <1>1 DEF submit_ingest_action, Begins, Idle
    <3> QED BY <1>5, <3>1, <3>2, <3>3, <3>4 DEF Request
  <2>2. run'[s].kind # "submit" \/ run'[s].step \notin {"list", "read", "insert"}
        BY <2>1
  <2> QED BY <1>2, <2>1, <2>2 DEF Owes
<1>6. ASSUME post_metadata(s), UNCHANGED <<folderVars, jobVars, rows>> PROVE Plain
  <2>1. /\ r.step = "idle" /\ run'[s].step = "resolve"
        BY <1>1, <1>6 DEF post_metadata, Begins, Idle
  <2> QED BY <1>2, <1>6, <2>1 DEF Owes
<1>7. ASSUME NEW i \in DOMAIN rows, return_to_packaging(s, i) PROVE Plain
  <2>1. /\ UNCHANGED <<folderVars, jobVars, rows>> /\ r.step = "idle" /\ run'[s].kind = "return"
        BY <1>1, <1>7 DEF return_to_packaging, Begins, Idle
  <2> QED BY <1>2, <2>1 DEF Owes
<1>8. ASSUME structure_refused(s) \/ collection_refused(s) \/ resolve_failed(s) PROVE Plain
  <2>1. UNCHANGED <<folderVars, jobVars, rows>> /\ r.step \notin {"write", "record"}
        BY <1>8 DEF structure_refused, collection_refused, resolve_failed, At
  <2>2. Answer(s, FALSE) \/ Returns(s)
        BY <1>8 DEF structure_refused, collection_refused, resolve_failed
  <2> QED BY <1>3, <1>4, <2>1, <2>2 DEF Owes
<1>9. ASSUME list_media(s) \/ read_media(s) \/ media_read(s) \/ compare_results(s) PROVE Plain
  <2>1. /\ UNCHANGED <<folderVars, jobVars, rows>> /\ r.step \in {"list", "read", "resolved"}
        /\ r.kind = "mdo"
        BY <1>9 DEF list_media, read_media, media_read, compare_results, At
  <2>2. run'[s].kind = "mdo"
    <3>1. list_media(s) => run'[s].kind = "mdo"
          BY <1>1 DEF list_media, Runs
    <3>2. ASSUME read_media(s) PROVE run'[s].kind = "mdo"
      <4>1. \/ \E todo, media : run' = [run EXCEPT ![s].todo = todo, ![s].media = media]
            \/ \E todo, blind : run' = [run EXCEPT ![s].todo = todo, ![s].blind = blind]
            \/ Answer(s, FALSE)
            BY <3>2 DEF read_media
      <4>2. ASSUME NEW todo, NEW media, run' = [run EXCEPT ![s].todo = todo, ![s].media = media]
            PROVE  run'[s].kind = r.kind
            BY <1>1, <4>2 DEF Runs
      <4>3. ASSUME NEW todo, NEW blind, run' = [run EXCEPT ![s].todo = todo, ![s].blind = blind]
            PROVE  run'[s].kind = r.kind
            BY <1>1, <4>3 DEF Runs
      <4> QED BY <1>4a, <2>1, <4>1, <4>2, <4>3
    <3>3. media_read(s) => run'[s].kind = "mdo"
          BY <1>1 DEF media_read, Goes, Runs
    <3>4. compare_results(s) => run'[s].kind = "mdo"
          BY <1>1, <1>4a DEF compare_results, Goes, Runs
    <3> QED BY <1>9, <3>1, <3>2, <3>3, <3>4
  <2> QED BY <1>2, <2>1, <2>2 DEF Owes
<1>10. ASSUME list_checked(s) \/ validate_package(s) PROVE Plain
  <2>1. UNCHANGED <<folderVars, jobVars, rows>> /\ r.kind = "qa"
        BY <1>10 DEF list_checked, validate_package
  <2>2. run'[s].kind = "qa"
    <3>0. ASSUME NEW ready, run' = [run EXCEPT ![s].step = "read", ![s].todo = ready, ![s].ok = TRUE]
          PROVE  run'[s].kind = r.kind
          BY <1>1, <3>0 DEF Runs
    <3>1. list_checked(s) => run'[s].kind = "qa"
          BY <1>4a, <2>1, <3>0 DEF list_checked
    <3>2. validate_package(s) => run'[s].kind = "qa"
          BY <1>1 DEF validate_package, Goes, Runs
    <3> QED BY <1>10, <3>1, <3>2
  <2> QED BY <1>2, <2>1, <2>2 DEF Owes
<1>11. ASSUME active_ingest_count(s) PROVE Plain
  <2>1. UNCHANGED <<folderVars, jobVars, rows>> /\ r.kind = "submit"
        BY <1>11 DEF active_ingest_count
  <2>2. MaySubmit \/ Returns(s)
        BY <1>11 DEF active_ingest_count
  <2> QED BY <1>3, <2>1, <2>2 DEF Owes, StaysSubmit
<1>12. ASSUME list_submitted(s) \/ read_uri(s) PROVE Plain
  <2>1. /\ UNCHANGED <<folderVars, jobVars, rows>> /\ r.kind = "submit"
        /\ r.step \in {"list", "read"}
        BY <1>12 DEF list_submitted, read_uri, At
  <2>2. Answer(s, FALSE) \/ (run'[s].folder = r.folder /\ run'[s].crossed = r.crossed)
    <3>1. ASSUME NEW ready, run' = [run EXCEPT ![s].step = "read", ![s].todo = ready,
                                               ![s].packages = ready]
          PROVE  run'[s].folder = r.folder /\ run'[s].crossed = r.crossed
          BY <1>1, <3>1 DEF Runs
    <3>3. list_submitted(s) =>
              Answer(s, FALSE) \/ (run'[s].folder = r.folder /\ run'[s].crossed = r.crossed)
          BY <3>1 DEF list_submitted
    <3>2. read_uri(s) =>
              Answer(s, FALSE) \/ (run'[s].folder = r.folder /\ run'[s].crossed = r.crossed)
          BY <1>1 DEF read_uri, Goes, Runs
    <3> QED BY <1>12, <3>2, <3>3
  <2>3. CASE Answer(s, FALSE)
        BY <1>4, <2>1, <2>3 DEF Owes
  <2>4. CASE run'[s].folder = r.folder /\ run'[s].crossed = r.crossed
        BY <2>1, <2>4 DEF Owes, StaysSubmit, Submits
  <2> QED BY <2>2, <2>3, <2>4
<1> QED BY <1>5, <1>6, <1>7, <1>8, <1>9, <1>10, <1>11, <1>12
        DEF Staff, Writes, MakeDigitalObjects, CheckDescription, SubmitToIngest, ReturnToPackaging

\* The rows a submission inserts are new, each for a package of its own.
NewRow(s, h) == [holds |-> h, status |-> "queued",
                 how |-> IF run[s].crossed THEN "beside" ELSE "alone"]
LEMMA RowsInserted ==
    ASSUME TablesOK, NEW s \in Sessions,
           Len(rows) + Cardinality(run[s].packages) <= MaxRows,
           rows' = rows \o SetToSeq({NewRow(s, h) : h \in run[s].packages})
    PROVE  /\ rows' \in Seq(Rows) /\ Len(rows') <= MaxRows
           /\ \A i \in DOMAIN rows' :
                 \/ i \in DOMAIN rows /\ rows'[i] = rows[i]
                 \/ i \notin DOMAIN rows /\ \E h \in run[s].packages : rows'[i] = NewRow(s, h)
           /\ \A i, j \in DOMAIN rows' :
                 i \notin DOMAIN rows /\ j \notin DOMAIN rows /\ rows'[i] = rows'[j] => i = j
<1> DEFINE packages == run[s].packages
           new == {NewRow(s, h) : h \in packages}
           more == SetToSeq(new)
           list == rows \o more
<1>1. /\ rows \in Seq(Rows) /\ packages \subseteq Holds
      BY DEF TablesOK, OKRuns, Runs
<1>2. IsFiniteSet(packages)
      BY <1>1, KalturaAssumption, FS_Subset
<1>3. IsFiniteSet(new) /\ Cardinality(new) <= Cardinality(packages)
  <2>1. [h \in packages |-> NewRow(s, h)] \in Surjection(packages, new)
        BY DEF Surjection
  <2> QED BY <1>2, <2>1, FS_Surjection
<1>4. new \subseteq Rows
      BY <1>1 DEF NewRow, Rows, ROW
<1>5. /\ more \in Seq(new) /\ Len(more) = Cardinality(new)
      /\ \A i, j \in 1..Cardinality(new) : more[i] = more[j] => i = j
      BY <1>3, ListOfSet
<1>6. DOMAIN more = 1..Len(more) /\ Len(more) \in Nat /\ \A i \in 1..Len(more) : more[i] \in new
      BY <1>5, LenProperties, ElementOfSeq
<1>7. more \in Seq(Rows)
      BY <1>4, <1>5, SeqMonotonic
<1>8. DOMAIN rows = 1..Len(rows) /\ Len(rows) \in Nat
      BY <1>1, LenProperties
<1>9. Cardinality(new) \in Nat /\ Cardinality(packages) \in Nat
      BY <1>2, <1>3, FS_CardinalityType
<1> HIDE DEF more
<1>10. /\ list \in Seq(Rows) /\ Len(list) = Len(rows) + Len(more)
       /\ \A i \in 1 .. Len(rows) + Len(more) :
             list[i] = IF i <= Len(rows) THEN rows[i] ELSE more[i - Len(rows)]
       BY <1>1, <1>7, ConcatProperties
<1>11. rows' = list
       BY DEF more
<1> HIDE DEF list
<1>12. DOMAIN list = 1..(Len(rows) + Len(more))
       BY <1>10, LenProperties
<1>13. Len(list) <= MaxRows
       BY <1>3, <1>5, <1>8, <1>9, <1>10, WorkspaceAssumption
<1>14. ASSUME NEW i \in DOMAIN list, i \notin DOMAIN rows
       PROVE  /\ i - Len(rows) \in 1..Len(more) /\ list[i] = more[i - Len(rows)] /\ i \in Nat
       BY <1>6, <1>8, <1>10, <1>12, <1>14
<1>15. \A i \in DOMAIN list :
          \/ i \in DOMAIN rows /\ list[i] = rows[i]
          \/ i \notin DOMAIN rows /\ \E h \in packages : list[i] = NewRow(s, h)
  <2> TAKE i \in DOMAIN list
  <2>1. CASE i \in DOMAIN rows
        BY <1>8, <1>10, <1>12, <2>1
  <2>2. CASE i \notin DOMAIN rows
    <3>1. list[i] \in new
          BY <1>6, <1>14, <2>2
    <3> QED BY <2>2, <3>1
  <2> QED BY <2>1, <2>2
<1>16. ASSUME NEW i \in DOMAIN list, NEW j \in DOMAIN list,
              i \notin DOMAIN rows, j \notin DOMAIN rows, list[i] = list[j]
       PROVE  i = j
  <2>1. /\ i - Len(rows) \in 1..Len(more) /\ j - Len(rows) \in 1..Len(more)
        /\ more[i - Len(rows)] = more[j - Len(rows)] /\ i \in Nat /\ j \in Nat
        BY <1>14, <1>16
  <2>2. i - Len(rows) = j - Len(rows)
        BY <1>5, <2>1
  <2> QED BY <1>8, <2>1, <2>2
<1> QED BY <1>10, <1>11, <1>13, <1>15, <1>16

\* Any other step leaves the rows, or writes one of them.
RowMoves(i) ==
    /\ i \in DOMAIN rows
    /\ \/ \E status \in ROW : /\ rows' = [rows EXCEPT ![i].status = status]
                              /\ status \in {"queued", "uploaded"} => Open(rows[i])
       \/ \E status \in ROW :
             rows' = [rows EXCEPT ![i].how = "resumed", ![i].status = status]
LEMMA RowsWritten ==
    ASSUME TablesOK, NEW i, RowMoves(i)
    PROVE  /\ rows' \in Seq(Rows) /\ Len(rows') = Len(rows) /\ DOMAIN rows' = DOMAIN rows
           /\ \A k \in DOMAIN rows : /\ rows'[k].holds = rows[k].holds
                                     /\ \/ rows'[k].how = "resumed"
                                        \/ /\ rows'[k].how = rows[k].how
                                           /\ Open(rows'[k]) => Open(rows[k])
<1>1. rows \in Seq(Rows) /\ i \in DOMAIN rows
      BY DEF TablesOK, RowMoves
<1>2. DOMAIN rows = 1..Len(rows) /\ rows \in [1..Len(rows) -> Rows] /\ Len(rows) \in Nat
      BY <1>1, LenProperties
<1>3. rows[i] \in Rows
      BY <1>1, <1>2
<1>4. PICK new \in Rows :
         /\ rows' = [rows EXCEPT ![i] = new] /\ new.holds = rows[i].holds
         /\ \/ new.how = "resumed"
            \/ new.how = rows[i].how /\ (Open(new) => Open(rows[i]))
  <2>1. ASSUME NEW status \in ROW, rows' = [rows EXCEPT ![i].status = status],
               status \in {"queued", "uploaded"} => Open(rows[i])
        PROVE  \E new \in Rows :
                 /\ rows' = [rows EXCEPT ![i] = new] /\ new.holds = rows[i].holds
                 /\ new.how = rows[i].how /\ (Open(new) => Open(rows[i]))
    <3> DEFINE new == [rows[i] EXCEPT !.status = status]
    <3>1. new \in Rows /\ new.holds = rows[i].holds /\ new.how = rows[i].how /\ new.status = status
          BY <1>3 DEF Rows
    <3>2. rows' = [rows EXCEPT ![i] = new]
          BY <2>1
    <3>3. Open(new) => Open(rows[i])
          BY <2>1, <3>1 DEF Open
    <3> QED BY <3>1, <3>2, <3>3
  <2>2. ASSUME NEW status \in ROW,
               rows' = [rows EXCEPT ![i].how = "resumed", ![i].status = status]
        PROVE  \E new \in Rows :
                 /\ rows' = [rows EXCEPT ![i] = new] /\ new.holds = rows[i].holds
                 /\ new.how = "resumed"
    <3> DEFINE new == [rows[i] EXCEPT !.how = "resumed", !.status = status]
    <3>1. new \in Rows /\ new.holds = rows[i].holds /\ new.how = "resumed"
          BY <1>3 DEF Rows
    <3>2. rows' = [rows EXCEPT ![i] = new]
          BY <2>2
    <3> QED BY <3>1, <3>2
  <2> QED BY <2>1, <2>2 DEF RowMoves
<1>5. rows' \in [1..Len(rows) -> Rows]
      BY <1>2, <1>4
<1>6. rows' \in Seq(Rows) /\ Len(rows') = Len(rows) /\ DOMAIN rows' = DOMAIN rows
      BY <1>2, <1>5
<1>7. \A k \in DOMAIN rows : rows'[k] = IF k = i THEN new ELSE rows[k]
      BY <1>2, <1>4
<1> QED BY <1>4, <1>6, <1>7 DEF Open

LEMMA RowSteps ==
    ASSUME TablesOK
    PROVE  /\ \A i \in DOMAIN rows : Row(i) => RowMoves(i)
           /\ \A s \in Sessions : return_row(s) => rows' = rows \/ \E i : RowMoves(i)
<1>1. rows \in Seq(Rows)
      BY DEF TablesOK
<1>2. DOMAIN rows = 1..Len(rows) /\ rows \in [1..Len(rows) -> Rows] /\ Len(rows) \in Nat
      BY <1>1, LenProperties
<1>3. ASSUME NEW i \in DOMAIN rows, Row(i) PROVE RowMoves(i)
  <2>1. CASE upload_package(i)
        BY <2>1 DEF upload_package, Becomes, RowMoves, ROW, Open
  <2>2. CASE complete_row(i)
        BY <2>2 DEF complete_row, Becomes, RowMoves, ROW
  <2>3. CASE halt_row(i)
        BY <2>3 DEF halt_row, Becomes, RowMoves, ROW
  <2>4. CASE resume_row(i)
    <3> DEFINE status == IF rows[i].holds \in away THEN "uploaded" ELSE "queued"
    <3>1. rows' = [rows EXCEPT ![i].how = "resumed", ![i].status = status]
          BY <2>4 DEF resume_row
    <3>2. status \in ROW
          BY DEF ROW
    <3> QED BY <3>1, <3>2 DEF RowMoves
  <2> QED BY <1>3, <2>1, <2>2, <2>3, <2>4 DEF Row
<1>4. ASSUME NEW s \in Sessions, return_row(s)
      PROVE  rows' = rows \/ \E i : RowMoves(i)
  <2>1. rows' = [rows EXCEPT ![run[s].id].status = "closed"]
        BY <1>4 DEF return_row, Becomes
  <2>2. CASE run[s].id \in DOMAIN rows
    <3>1. RowMoves(run[s].id)
          BY <2>1, <2>2 DEF RowMoves, ROW
    <3> QED BY <3>1
  <2>3. CASE run[s].id \notin DOMAIN rows
        BY <1>2, <2>1, <2>3
  <2> QED BY <2>2, <2>3
<1> QED BY <1>3, <1>4

\* The folders and the job history keep their types.
FolderTables ==
    /\ away \subseteq Holds /\ uri \subseteq Holds
    /\ component \in [ComponentsOf(Holds) -> COMPONENT]
    /\ backed \subseteq Components
    /\ jobs \in [Folders -> {"none", "QA", "other"}]
    /\ checked \in [Folders -> {"no", "checked", "stamped", "muddled"}]

LEMMA ComponentTypes ==
    \A holds \in SUBSET Holds :
        ComponentsOf(holds) \subseteq ComponentsOf(Holds) /\ ComponentsOf(holds) \subseteq Components
BY DEF ComponentsOf, Components, Folders, Names, MediaFiles

LEMMA FoldersWritten ==
    ASSUME TablesOK, NEW s \in Sessions, Writes(s)
    PROVE  FolderTables'
<1> DEFINE r == run[s]
           f == run[s].folder
<1>1. r \in Runs /\ Carries(r)
      BY DEF TablesOK, OKRuns
<1>2. FolderTables
      BY DEF TablesOK, FolderTables
<1>3. \A job, basis : record_job(f, job, basis) /\ job \in {"none", "QA", "other"}
                      /\ basis \in {"no", "checked", "stamped", "muddled"} =>
         /\ jobs' \in [Folders -> {"none", "QA", "other"}]
         /\ checked' \in [Folders -> {"no", "checked", "stamped", "muddled"}]
      BY <1>2 DEF record_job, FolderTables
<1>4. Outdates(f) => checked' \in [Folders -> {"no", "checked", "stamped", "muddled"}]
      BY <1>2 DEF Outdates, FolderTables
<1>5. CASE make_digital_objects(s)
  <2> DEFINE new == ComponentsOf(Ready(f) \ uri)
  <2>1. away' = away /\ jobs' = jobs
        BY <1>5 DEF make_digital_objects
  <2>2. Ready(f) \subseteq Holds /\ new \subseteq Components
        BY MediaTypes, ComponentTypes
  <2>3. \A c : Made(s, c) \in COMPONENT
        BY DEF Made, COMPONENT
  <2> HIDE DEF new
  <2>4. \/ UNCHANGED <<uri, component, backed, checked>>
        \/ /\ uri' = uri \cup Ready(f)
           /\ component' = [c \in DOMAIN component |->
                              IF c \in new THEN Made(s, c) ELSE component[c]]
           /\ backed' = IF run[s].crossed THEN backed
                        ELSE backed \cup {c \in new : Made(s, c) = "attached"}
           /\ UNCHANGED checked \/ Outdates(f)
        BY <1>5 DEF make_digital_objects, new
  <2>5. CASE UNCHANGED <<uri, component, backed, checked>>
        BY <1>2, <2>1, <2>5 DEF FolderTables
  <2>6. CASE /\ uri' = uri \cup Ready(f)
             /\ component' = [c \in DOMAIN component |->
                                IF c \in new THEN Made(s, c) ELSE component[c]]
             /\ backed' = IF run[s].crossed THEN backed
                          ELSE backed \cup {c \in new : Made(s, c) = "attached"}
             /\ UNCHANGED checked \/ Outdates(f)
    <3>1. uri' \subseteq Holds /\ backed' \subseteq Components
          BY <1>2, <2>2, <2>6 DEF FolderTables
    <3>2. component' \in [ComponentsOf(Holds) -> COMPONENT]
          BY <1>2, <2>3, <2>6 DEF FolderTables
    <3>3. checked' \in [Folders -> {"no", "checked", "stamped", "muddled"}]
          BY <1>2, <1>4, <2>6 DEF FolderTables
    <3> QED BY <1>2, <2>1, <3>1, <3>2, <3>3 DEF FolderTables
  <2> QED BY <2>4, <2>5, <2>6
<1>6. CASE revert_to_mdo(s)
      BY <1>2, <1>4, <1>6 DEF revert_to_mdo, FolderTables
<1>7. CASE move_from_ingest_to_ready(s)
      BY <1>2, <1>4, <1>7 DEF move_from_ingest_to_ready, FolderTables
<1>8. CASE record_mdo(s) \/ record_submit(s) \/ record_return(s)
  <2>1. record_job(f, "other", "no") /\ UNCHANGED folderVars
        BY <1>8 DEF record_mdo, record_submit, record_return
  <2> QED BY <1>2, <1>3, <2>1 DEF FolderTables, folderVars
<1>9. CASE record_qa(s)
  <2> DEFINE basis == IF run[s].crossed THEN "muddled" ELSE IF run[s].ok THEN "checked" ELSE "no"
  <2>1. record_job(f, QaJob(s), basis) /\ UNCHANGED folderVars
        BY <1>9 DEF record_qa
  <2>2. QaJob(s) \in {"none", "QA", "other"} /\ basis \in {"no", "checked", "stamped", "muddled"}
        BY DEF QaJob
  <2> QED BY <1>2, <1>3, <2>1, <2>2 DEF FolderTables, folderVars
<1>10. CASE stamp_qa(s)
  <2>1. record_job(f, "QA", "stamped") /\ UNCHANGED folderVars
        BY <1>10 DEF stamp_qa
  <2> QED BY <1>2, <1>3, <2>1 DEF FolderTables, folderVars
<1>11. CASE insert_rows(s) \/ return_row(s)
       BY <1>2, <1>11 DEF insert_rows, return_row, FolderTables, folderVars, jobVars
<1> QED BY <1>5, <1>6, <1>7, <1>8, <1>9, <1>10, <1>11 DEF Writes

LEMMA RowsKept ==
    ASSUME TablesOK, NEW s \in Sessions, Writes(s)
    PROVE  \/ rows' = rows
           \/ \E i : RowMoves(i)
           \/ /\ insert_rows(s)
              /\ Len(rows) + Cardinality(run[s].packages) <= MaxRows
              /\ rows' = rows \o SetToSeq({NewRow(s, h) : h \in run[s].packages})
<1>1. CASE return_row(s)
      BY <1>1, RowSteps
<1>2. CASE insert_rows(s)
      BY <1>2 DEF insert_rows, NewRow
<1>3. CASE ~return_row(s) /\ ~insert_rows(s)
      BY <1>3 DEF Writes, make_digital_objects, revert_to_mdo, move_from_ingest_to_ready,
           record_mdo, record_qa, record_submit, stamp_qa, record_return
<1> QED BY <1>1, <1>2, <1>3

LEMMA NextSteps ==
    ASSUME Next
    PROVE  \/ \E s \in Sessions : Staff(s) \/ resolve_packages(s) \/ clear_kaltura_queue(s)
           \/ \E i \in DOMAIN rows : Row(i)
           \/ crash
BY DEF Next, Staff

\* A request is counted as it begins.
LEMMA RequestsCounted ==
    ASSUME TablesOK, NEW s \in Sessions,
           Staff(s) \/ resolve_packages(s) \/ clear_kaltura_queue(s)
    PROVE  runs' \in 0..MaxRuns
<1>1. runs \in 0..MaxRuns /\ MaxRuns \in Nat
      BY KalturaAssumption DEF TablesOK
<1>2. SUFFICES runs' = runs \/ (runs < MaxRuns /\ runs' = runs + 1)
      BY <1>1
<1>3. ASSUME NEW f \in Folders, Request(s, f) PROVE runs < MaxRuns /\ runs' = runs + 1
      BY <1>3 DEF Request, make_digital_objects_action, revert_to_mdo_action,
           aspace_qa_check_action, submit_ingest_action, Begins
<1>4. post_metadata(s) => runs < MaxRuns /\ runs' = runs + 1
      BY DEF post_metadata, Begins
<1>5. \A i \in DOMAIN rows : return_to_packaging(s, i) => runs < MaxRuns /\ runs' = runs + 1
      BY DEF return_to_packaging, Begins
<1>6. clear_kaltura_queue(s) => runs < MaxRuns /\ runs' = runs + 1
      BY DEF clear_kaltura_queue, clear_queue
<1>7. resolve_packages(s) => runs' = runs
      BY DEF resolve_packages, Resolving, start_session, clear_ids, clear_rows, queue_packages,
           get_next_package, mark_package_processed, resolve_file, metadata_answered,
           clear_queue_table
<1>8. MakeDigitalObjects(s) \/ resolve_failed(s) => runs' = runs
      BY DEF MakeDigitalObjects, structure_refused, list_media, read_media, media_read,
           compare_results, make_digital_objects, record_mdo, revert_to_mdo, resolve_failed,
           Elsewhere
<1>9. CheckDescription(s) \/ SubmitToIngest(s) \/ ReturnToPackaging(s) => runs' = runs
  <2>1. CheckDescription(s) \/ SubmitToIngest(s) \/ ReturnToPackaging(s) => Elsewhere
        BY DEF CheckDescription, list_checked, validate_package, record_qa, SubmitToIngest,
             active_ingest_count, collection_refused, list_submitted, read_uri, insert_rows,
             record_submit, stamp_qa, ReturnToPackaging, move_from_ingest_to_ready, return_row,
             record_return
  <2> QED BY <2>1 DEF Elsewhere
<1> QED BY <1>3, <1>4, <1>5, <1>6, <1>7, <1>8, <1>9 DEF Staff

\* The invariant's tables, step by step.
LEMMA TablesKept ==
    ASSUME TablesOK, [Next]_vars
    PROVE  TablesOK'
<1> DEFINE Requests == /\ kqueue' \in Seq(QueueRows) /\ ids' \subseteq {a \in Answers : a.single}
                       /\ run' \in [Sessions -> OKRuns] /\ runs' \in 0..MaxRuns
           RowsOK == rows' \in Seq(Rows) /\ Len(rows') <= MaxRows
<1>0. SUFFICES Requests /\ FolderTables' /\ RowsOK
      BY DEF TablesOK, FolderTables
<1>1. /\ FolderTables /\ kqueue \in Seq(QueueRows) /\ ids \subseteq {a \in Answers : a.single}
      /\ run \in [Sessions -> OKRuns] /\ runs \in 0..MaxRuns
      /\ rows \in Seq(Rows) /\ Len(rows) <= MaxRows
      BY DEF TablesOK, FolderTables
<1>2. rows' = rows => RowsOK
      BY <1>1
<1>3. UNCHANGED <<folderVars, jobVars>> => FolderTables'
      BY <1>1 DEF FolderTables, folderVars, jobVars
<1>4. (\E i : RowMoves(i)) => RowsOK
      BY <1>1, RowsWritten
<1>5. ASSUME NEW s \in Sessions, Staff(s) PROVE Requests /\ FolderTables' /\ RowsOK
  <2>1. Requests
    <3>1. (\E new : Gives(s, new)) /\ UNCHANGED <<kqueue, ids>>
          BY <1>5, StaffSteps
    <3>2. runs' \in 0..MaxRuns
          BY <1>5, RequestsCounted
    <3> QED BY <1>1, <3>1, <3>2 DEF Gives
  <2>2. CASE UNCHANGED <<folderVars, jobVars, rows>>
        BY <1>2, <1>3, <2>1, <2>2
  <2>3. CASE Writes(s)
    <3>1. FolderTables'
          BY <2>3, FoldersWritten
    <3>2. RowsOK
      <4>1. CASE /\ Len(rows) + Cardinality(run[s].packages) <= MaxRows
                 /\ rows' = rows \o SetToSeq({NewRow(s, h) : h \in run[s].packages})
            BY <4>1, RowsInserted
      <4> QED BY <1>2, <1>4, <2>3, <4>1, RowsKept
    <3> QED BY <2>1, <3>1, <3>2
  <2> QED BY <1>5, <2>2, <2>3, PlainSteps
<1>6. ASSUME NEW s \in Sessions, resolve_packages(s) \/ clear_kaltura_queue(s)
      PROVE  Requests /\ FolderTables' /\ RowsOK
  <2>1. Proceeds(s) \/ Enters(s)
        BY <1>6, LookupSteps DEF resolve_packages, clear_kaltura_queue
  <2>2. runs' \in 0..MaxRuns
        BY <1>6, RequestsCounted
  <2>3. Requests
        BY <2>1, <2>2 DEF Proceeds, Enters, Gives
  <2>4. /\ UNCHANGED <<away, uri, component>> /\ UNCHANGED <<jobVars, rows>>
        /\ backed' \subseteq backed
        BY <1>6 DEF resolve_packages, clear_kaltura_queue
  <2>5. FolderTables'
        BY <1>1, <2>4 DEF FolderTables, jobVars
  <2> QED BY <1>2, <2>3, <2>4, <2>5
<1>7. ASSUME NEW i \in DOMAIN rows, Row(i) PROVE Requests /\ FolderTables' /\ RowsOK
  <2>1. UNCHANGED kalturaVars /\ UNCHANGED <<uri, component, backed>> /\ UNCHANGED jobVars
        BY <1>7 DEF Row, upload_package, complete_row, halt_row, resume_row, PipelineOnly
  <2>2. away' \subseteq Holds
    <3>1. rows[i] \in Rows
          BY <1>1, LenProperties
    <3>2. away' = away \/ away' = away \cup {rows[i].holds}
          BY <1>7 DEF Row, upload_package, complete_row, halt_row, resume_row
    <3> QED BY <1>1, <3>1, <3>2 DEF FolderTables, Rows
  <2>3. FolderTables'
        BY <1>1, <2>1, <2>2 DEF FolderTables, jobVars
  <2>4. RowsOK
        BY <1>4, <1>7, RowSteps
  <2>5. Requests
        BY <1>1, <2>1 DEF kalturaVars
  <2> QED BY <2>3, <2>4, <2>5
<1>8. ASSUME crash PROVE Requests /\ FolderTables' /\ RowsOK
  <2>1. run' = [t \in Sessions |-> Idle] /\ UNCHANGED <<kqueue, ids, runs, jobs>>
        /\ UNCHANGED <<folderVars, rows>>
        BY <1>8 DEF crash
  <2>2. run' \in [Sessions -> OKRuns]
        BY <2>1, IdleRun
  <2>3. checked' \in [Folders -> {"no", "checked", "stamped", "muddled"}]
        BY <1>1, <1>8 DEF crash, FolderTables
  <2>4. FolderTables'
        BY <1>1, <2>1, <2>3 DEF FolderTables, folderVars
  <2>5. Requests
        BY <1>1, <2>1, <2>2
  <2> QED BY <1>2, <2>1, <2>4, <2>5
<1>9. CASE UNCHANGED vars
  <2>1. UNCHANGED <<kqueue, ids, run, runs>> /\ rows' = rows /\ UNCHANGED <<folderVars, jobVars>>
        BY <1>9 DEF vars, kalturaVars
  <2>2. Requests
        BY <1>1, <2>1
  <2> QED BY <1>2, <1>3, <2>1, <2>2
<1> QED BY <1>5, <1>6, <1>7, <1>8, <1>9, NextSteps

-----------------------------------------------------------------------------
(* What each step keeps *)

LEMMA HandsKept ==
    ASSUME TablesOK, Hands, [Next]_vars
    PROVE  Hands'
<1>1. ASSUME NEW s \in Sessions, Staff(s) PROVE Hands'
      BY <1>1, StaffSteps, HandsQuiet
<1>2. ASSUME NEW s \in Sessions, resolve_packages(s) \/ clear_kaltura_queue(s) PROVE Hands'
      BY <1>2, LookupSteps, HandsProceed, HandsEnter DEF resolve_packages, clear_kaltura_queue
<1>3. ASSUME UNCHANGED <<kqueue, ids, run>> PROVE Hands'
  <2>1. \A t \in Sessions : /\ (Using(t)' => Using(t)) /\ (Alone(t) => Alone(t)')
                            /\ run'[t].crossed = run[t].crossed
    <3> TAKE t \in Sessions
    <3>1. run \in [Sessions -> OKRuns] /\ run'[t] = run[t]
          BY <1>3 DEF TablesOK
    <3> QED BY <1>3, <3>1, OtherKept
  <2>2. Company'
        BY <2>1 DEF Hands, Company
  <2>3. AloneInv'
        BY <2>1 DEF Hands, AloneInv
  <2> QED BY <2>2, <2>3 DEF Hands
<1>4. ASSUME NEW i \in DOMAIN rows, Row(i) PROVE UNCHANGED <<kqueue, ids, run>>
      BY <1>4 DEF Row, upload_package, complete_row, halt_row, resume_row, PipelineOnly, kalturaVars
<1>5. ASSUME crash PROVE Hands'
  <2>1. run' = [t \in Sessions |-> Idle]
        BY <1>5 DEF crash
  <2>2. \A t \in Sessions : ~Using(t)'
        BY <2>1, IdleRun DEF Using, At, Uses
  <2>3. Company' /\ AloneInv'
        BY <2>2 DEF Company, AloneInv
  <2> QED BY <2>3 DEF Hands
<1>6. CASE UNCHANGED vars
      BY <1>3, <1>6 DEF vars, kalturaVars
<1> QED BY <1>1, <1>2, <1>3, <1>4, <1>5, <1>6, NextSteps

\* Only the call makes components, and it makes none bare.
LEMMA OnlyTheCallMakes ==
    ASSUME TablesOK, [Next]_vars
    PROVE  \/ component' = component
           \/ \E s \in Sessions : make_digital_objects(s)
<1>1. ASSUME NEW s \in Sessions, Staff(s)
      PROVE  component' = component \/ make_digital_objects(s)
  <2>1. CASE UNCHANGED <<folderVars, jobVars, rows>>
        BY <2>1 DEF folderVars
  <2>2. CASE Writes(s)
        BY <2>2 DEF Writes, revert_to_mdo, move_from_ingest_to_ready, record_mdo, record_qa,
             record_submit, stamp_qa, record_return, insert_rows, return_row, folderVars
  <2> QED BY <1>1, <2>1, <2>2, PlainSteps
<1>2. ASSUME NEW s \in Sessions, resolve_packages(s) \/ clear_kaltura_queue(s)
      PROVE  component' = component
      BY <1>2 DEF resolve_packages, clear_kaltura_queue
<1>3. ASSUME NEW i \in DOMAIN rows, Row(i) PROVE component' = component
      BY <1>3 DEF Row, upload_package, complete_row, halt_row, resume_row, PipelineOnly
<1>4. crash \/ UNCHANGED vars => component' = component
      BY DEF crash, vars, folderVars
<1> QED BY <1>1, <1>2, <1>3, <1>4, NextSteps

\* What the call makes of a media file that the run saw is attached.
LEMMA CallAttaches ==
    ASSUME TablesOK, NEW s \in Sessions, run[s].kind = "mdo", At(s, "call"),
           NEW c \in ComponentsOf(Ready(run[s].folder) \ uri)
    PROVE  Made(s, c) \in {"attached", "unseen"}
<1> DEFINE r == run[s]
           m == [package |-> c.package, file |-> c.file]
<1>1. Listed(r) /\ Compared(r) /\ r.kind = "mdo" /\ r.step = "call"
      BY DEF TablesOK, OKRuns, At
<1>2. PICK h \in Ready(r.folder) : c.package = h.package /\ c.file \in h.files
      BY DEF ComponentsOf
<1>3. h \in In(r.folder) /\ h \in Holds
      BY <1>2, MediaTypes
<1>4. m \in Media({h})
  <2>1. m = [package |-> h.package, file |-> c.file]
        BY <1>2
  <2> QED BY <1>2, <2>1 DEF Media
<1>5. CASE h \in r.blind
  <2>1. \E k \in run[s].blind : k.package = c.package
        BY <1>2, <1>5
  <2> QED BY <2>1 DEF Made
<1>6. CASE h \notin r.blind
  <2>1. m \in r.media
        BY <1>1, <1>3, <1>4, <1>6 DEF Listed
  <2>2. Single(m) \in r.results
        BY <1>1, <2>1 DEF Compared
  <2> QED BY <2>1, <2>2 DEF Made
<1> QED BY <1>5, <1>6

LEMMA NoneLeftBareKept ==
    ASSUME TablesOK, NoneLeftBare, [Next]_vars
    PROVE  NoneLeftBare'
<1>1. ASSUME NEW s \in Sessions, make_digital_objects(s) PROVE NoneLeftBare'
  <2> DEFINE new == ComponentsOf(Ready(run[s].folder) \ uri)
  <2>1. run[s].kind = "mdo" /\ At(s, "call")
        BY <1>1 DEF make_digital_objects
  <2>2. \A c \in new : Made(s, c) # "bare"
        BY <2>1, CallAttaches
  <2> HIDE DEF new
  <2>3. \/ component' = component
        \/ component' = [c \in DOMAIN component |->
                            IF c \in new THEN Made(s, c) ELSE component[c]]
        BY <1>1 DEF make_digital_objects, new
  <2> QED BY <2>2, <2>3 DEF NoneLeftBare
<1>2. CASE component' = component
      BY <1>2 DEF NoneLeftBare
<1> QED BY <1>1, <1>2, OnlyTheCallMakes

\* What has no id any more was cleared with it.
LEMMA IdsKept ==
    ASSUME TablesOK, Hands, StageFiveFindsIds, [Next]_vars
    PROVE  StageFiveFindsIds'
<1>1. ASSUME backed' \subseteq backed, ids \subseteq ids' PROVE StageFiveFindsIds'
      BY <1>1 DEF StageFiveFindsIds, has_entry_id
<1>2. ASSUME NEW s \in Sessions, make_digital_objects(s) PROVE StageFiveFindsIds'
  <2> DEFINE r == run[s]
             new == ComponentsOf(Ready(run[s].folder) \ uri)
  <2>1. r.kind = "mdo" /\ At(s, "call") /\ ids' = ids /\ r \in Runs
        BY <1>2 DEF make_digital_objects, Elsewhere, TablesOK, OKRuns
  <2>2. CASE backed' = backed
        BY <1>1, <2>1, <2>2
  <2>3. CASE ~run[s].crossed /\ backed' = backed \cup {c \in new : Made(s, c) = "attached"}
    <3>1. ASSUME NEW c \in new, Made(s, c) = "attached" PROVE has_entry_id(c.package, c.file)
      <4> DEFINE m == [package |-> c.package, file |-> c.file]
      <4>1. Single(m) \in r.results /\ m \in r.media
            BY <3>1 DEF Made
      <4>2. Using(s)
            BY <2>1, <4>1 DEF Using, At, USING
      <4>3. \A a \in r.results : a.single => a \in ids
            BY <2>3, <4>2 DEF Hands, AloneInv, Alone
      <4>4. Single(m) = [package |-> c.package, file |-> c.file, single |-> TRUE]
            BY DEF Single
      <4> QED BY <4>1, <4>3, <4>4 DEF has_entry_id
    <3> HIDE DEF new
    <3> QED BY <2>1, <2>3, <3>1 DEF StageFiveFindsIds, has_entry_id
  <2> QED BY <1>2, <2>2, <2>3 DEF make_digital_objects
<1>3. ASSUME NEW s \in Sessions, Staff(s) PROVE StageFiveFindsIds'
  <2>1. ids' = ids
        BY <1>3, StaffSteps
  <2>2. CASE UNCHANGED <<folderVars, jobVars, rows>>
        BY <1>1, <2>1, <2>2 DEF folderVars
  <2>3. CASE Writes(s) /\ ~make_digital_objects(s)
    <3>1. backed' = backed
          BY <2>3 DEF Writes, revert_to_mdo, move_from_ingest_to_ready, record_mdo, record_qa,
               record_submit, stamp_qa, record_return, insert_rows, return_row, folderVars
    <3> QED BY <1>1, <2>1, <3>1
  <2> QED BY <1>2, <1>3, <2>2, <2>3, PlainSteps
<1>4. ASSUME NEW s \in Sessions, resolve_packages(s) PROVE StageFiveFindsIds'
  <2>1. CASE clear_ids(s)
    <3>1. /\ backed' = {c \in backed : c.package \notin PackagesOf(run[s].media)}
          /\ ids' = {a \in ids : a.package \notin PackagesOf(run[s].media)}
          BY <1>4, <2>1 DEF resolve_packages, clear_ids, Cleared
    <3> QED BY <3>1 DEF StageFiveFindsIds, has_entry_id
  <2>2. CASE ~clear_ids(s)
    <3>1. ids \subseteq ids'
          BY <1>4, <2>2 DEF resolve_packages, Resolving, start_session, clear_rows, queue_packages,
               get_next_package, mark_package_processed, resolve_file, metadata_answered,
               clear_queue_table
    <3>2. backed' \subseteq backed
          BY <1>4 DEF resolve_packages
    <3> QED BY <1>1, <3>1, <3>2
  <2> QED BY <2>1, <2>2
<1>5. ASSUME NEW s \in Sessions, clear_kaltura_queue(s) PROVE StageFiveFindsIds'
      BY <1>5 DEF clear_kaltura_queue, StageFiveFindsIds
<1>6. ASSUME NEW i \in DOMAIN rows, Row(i) PROVE StageFiveFindsIds'
  <2>1. backed' = backed /\ ids' = ids
        BY <1>6 DEF Row, upload_package, complete_row, halt_row, resume_row, PipelineOnly, kalturaVars
  <2> QED BY <1>1, <2>1
<1>7. CASE crash \/ UNCHANGED vars
      BY <1>1, <1>7 DEF crash, vars, folderVars, kalturaVars
<1> QED BY <1>3, <1>4, <1>5, <1>6, <1>7, NextSteps

\* A submission that nothing crossed since its count: its folder has no open
\* row but one that was resumed since.
SubmitInv == \A s \in Sessions : Submits(s) =>
    \A i \in DOMAIN rows :
        Open(rows[i]) /\ rows[i].how # "resumed" => rows[i].holds.folder # run[s].folder
OpenRows == OneOpenRow /\ SubmitInv

\* A submission elsewhere is as it was, or crossed.
LEMMA SubmitsElsewhere ==
    ASSUME run \in [Sessions -> OKRuns], NEW t \in Sessions,
           run'[t] = run[t] \/ run'[t] = [run[t] EXCEPT !.crossed = TRUE]
    PROVE  /\ Submits(t)' => Submits(t)
           /\ run'[t].folder = run[t].folder /\ run'[t].kind = run[t].kind
           /\ run'[t].step = run[t].step
<1>1. run[t] \in Runs
      BY DEF OKRuns
<1>2. /\ run'[t].kind = run[t].kind /\ run'[t].step = run[t].step
      /\ run'[t].folder = run[t].folder /\ (run[t].crossed => run'[t].crossed)
      BY <1>1 DEF Runs
<1> QED BY <1>2 DEF Submits

LEMMA OpenRowsMoved ==
    ASSUME TablesOK, OpenRows, rows' = rows \/ \E i : RowMoves(i),
           \A t \in Sessions : Submits(t)' =>
               (rows' = rows /\ MaySubmit) \/ (Submits(t) /\ run'[t].folder = run[t].folder)
    PROVE  OpenRows'
<1>1. /\ DOMAIN rows' = DOMAIN rows
      /\ \A k \in DOMAIN rows : /\ rows'[k].holds = rows[k].holds
                                /\ \/ rows'[k].how = "resumed"
                                   \/ /\ rows'[k].how = rows[k].how
                                      /\ Open(rows'[k]) => Open(rows[k])
      BY RowsWritten
<1>2. OneOpenRow'
  <2> SUFFICES ASSUME NEW i \in DOMAIN rows', NEW j \in DOMAIN rows', i < j,
                      rows'[i].holds = rows'[j].holds, Open(rows[i])', Open(rows[j])'
               PROVE  {rows'[i].how, rows'[j].how} \cap {"beside", "resumed"} # {}
      BY DEF OneOpenRow
  <2>1. CASE rows'[i].how = "resumed" \/ rows'[j].how = "resumed"
        BY <2>1
  <2>2. CASE rows'[i].how # "resumed" /\ rows'[j].how # "resumed"
    <3>1. /\ rows'[i].how = rows[i].how /\ rows'[i].holds = rows[i].holds /\ Open(rows[i])
          /\ i \in DOMAIN rows
          BY <1>1, <2>2 DEF Open
    <3>2. /\ rows'[j].how = rows[j].how /\ rows'[j].holds = rows[j].holds /\ Open(rows[j])
          /\ j \in DOMAIN rows
          BY <1>1, <2>2 DEF Open
    <3>3. {rows[i].how, rows[j].how} \cap {"beside", "resumed"} # {}
          BY <3>1, <3>2 DEF OpenRows, OneOpenRow
    <3> QED BY <3>1, <3>2, <3>3
  <2> QED BY <2>1, <2>2
<1>3. ASSUME NEW t \in Sessions, Submits(t)', NEW i \in DOMAIN rows',
             Open(rows[i])', rows'[i].how # "resumed"
      PROVE  rows'[i].holds.folder # run'[t].folder
  <2>1. i \in DOMAIN rows /\ Open(rows[i]) /\ rows[i].how # "resumed" /\ rows'[i].holds = rows[i].holds
        BY <1>1, <1>3 DEF Open
  <2>2. ~MaySubmit
        BY <2>1 DEF MaySubmit
  <2> QED BY <1>3, <2>1, <2>2 DEF OpenRows, SubmitInv
<1>4. SubmitInv'
      BY <1>3 DEF SubmitInv
<1> QED BY <1>2, <1>4 DEF OpenRows

LEMMA OpenRowsInserted ==
    ASSUME TablesOK, OpenRows, NEW s \in Sessions, insert_rows(s),
           Len(rows) + Cardinality(run[s].packages) <= MaxRows,
           rows' = rows \o SetToSeq({NewRow(s, h) : h \in run[s].packages}),
           run' = Crossed([run EXCEPT ![s] = Answered(s, TRUE)], "submit", run[s].folder)
    PROVE  OpenRows'
<1> DEFINE r == run[s]
           f == run[s].folder
<1>1. /\ r \in Runs /\ r.packages \subseteq In(f) /\ r.kind = "submit" /\ r.step = "insert"
      /\ run \in [Sessions -> OKRuns]
      BY DEF TablesOK, OKRuns, Carries, insert_rows, At
<1>2. \A h \in r.packages : h.folder = f
      BY <1>1 DEF In
<1>3. /\ \A i \in DOMAIN rows' :
            \/ i \in DOMAIN rows /\ rows'[i] = rows[i]
            \/ i \notin DOMAIN rows /\ \E h \in r.packages : rows'[i] = NewRow(s, h)
      /\ \A i, j \in DOMAIN rows' :
            i \notin DOMAIN rows /\ j \notin DOMAIN rows /\ rows'[i] = rows'[j] => i = j
      BY RowsInserted
<1>4. \A h : /\ NewRow(s, h).holds = h
             /\ ~r.crossed => NewRow(s, h).how = "alone"
             /\ r.crossed => NewRow(s, h).how = "beside"
      BY DEF NewRow
<1>5. ASSUME NEW t \in Sessions, Submits(t)'
      PROVE  Submits(t) /\ run'[t].folder = run[t].folder /\ run[t].folder # f
  <2>1. t # s
    <3>1. Answered(s, TRUE).step = "record"
          BY DEF Answered, Idle
    <3>2. run'[s].step = "record"
          BY <1>1, <3>1 DEF Crossed, Answered, Idle
    <3> QED BY <1>5, <3>2 DEF Submits
  <2>2. run'[t] = IF run[t].kind = "submit" /\ run[t].folder = f
                  THEN [run[t] EXCEPT !.crossed = TRUE] ELSE run[t]
        BY <1>1, <2>1 DEF Crossed
  <2>3. Submits(t) /\ run'[t].folder = run[t].folder
        BY <1>1, <1>5, <2>2, SubmitsElsewhere
  <2>4. run[t] \in Runs
        BY <1>1 DEF OKRuns
  <2>5. ~run'[t].crossed /\ run[t].kind = "submit"
        BY <1>5, <2>3 DEF Submits
  <2> QED BY <2>2, <2>3, <2>4, <2>5 DEF Runs
<1>6. ASSUME NEW t \in Sessions, Submits(t)', NEW i \in DOMAIN rows',
             Open(rows[i])', rows'[i].how # "resumed"
      PROVE  rows'[i].holds.folder # run'[t].folder
  <2>1. CASE i \in DOMAIN rows /\ rows'[i] = rows[i]
        BY <1>5, <1>6, <2>1 DEF OpenRows, SubmitInv, Open
  <2>2. CASE \E h \in r.packages : rows'[i] = NewRow(s, h)
    <3>1. PICK h \in r.packages : rows'[i] = NewRow(s, h)
          BY <2>2
    <3>2. rows'[i].holds = h /\ h.folder = f
          BY <1>2, <1>4, <3>1
    <3>3. run'[t].folder # f
          BY <1>5, <1>6
    <3> QED BY <3>2, <3>3
  <2> QED BY <1>3, <2>1, <2>2
<1>7. SubmitInv'
      BY <1>6 DEF SubmitInv
<1>8. ASSUME NEW i \in DOMAIN rows, NEW h \in r.packages, Open(rows[i]),
             rows[i].holds = h, rows[i].how # "resumed"
      PROVE  NewRow(s, h).how = "beside"
  <2>1. CASE r.crossed
        BY <1>4, <2>1
  <2>2. CASE ~r.crossed
    <3>1. Submits(s)
          BY <1>1, <2>2 DEF Submits
    <3> QED BY <1>2, <1>8, <3>1 DEF OpenRows, SubmitInv
  <2> QED BY <2>1, <2>2
<1>9. OneOpenRow'
  <2> SUFFICES ASSUME NEW i \in DOMAIN rows', NEW j \in DOMAIN rows', i < j,
                      rows'[i].holds = rows'[j].holds, Open(rows[i])', Open(rows[j])'
               PROVE  {rows'[i].how, rows'[j].how} \cap {"beside", "resumed"} # {}
      BY DEF OneOpenRow
  <2>1. CASE i \in DOMAIN rows /\ j \in DOMAIN rows
    <3>1. rows'[i] = rows[i] /\ rows'[j] = rows[j]
          BY <1>3, <2>1
    <3> QED BY <2>1, <3>1 DEF OpenRows, OneOpenRow, Open
  <2>2. CASE i \in DOMAIN rows /\ j \notin DOMAIN rows
    <3>1. rows'[i] = rows[i]
          BY <1>3, <2>2
    <3>2. PICK h \in r.packages : rows'[j] = NewRow(s, h)
          BY <1>3, <2>2
    <3>3. rows[i].how = "resumed" \/ rows'[j].how = "beside"
          BY <1>4, <1>8, <2>2, <3>1, <3>2 DEF Open
    <3> QED BY <3>1, <3>3
  <2>3. CASE i \notin DOMAIN rows /\ j \in DOMAIN rows
    <3>1. rows'[j] = rows[j]
          BY <1>3, <2>3
    <3>2. PICK h \in r.packages : rows'[i] = NewRow(s, h)
          BY <1>3, <2>3
    <3>3. rows[j].how = "resumed" \/ rows'[i].how = "beside"
          BY <1>4, <1>8, <2>3, <3>1, <3>2 DEF Open
    <3> QED BY <3>1, <3>3
  <2>4. CASE i \notin DOMAIN rows /\ j \notin DOMAIN rows
    <3>1. PICK h \in r.packages : rows'[i] = NewRow(s, h)
          BY <1>3, <2>4
    <3>2. PICK k \in r.packages : rows'[j] = NewRow(s, k)
          BY <1>3, <2>4
    <3>3. h = k
          BY <1>4, <3>1, <3>2
    <3>4. i = j
          BY <1>3, <2>4, <3>1, <3>2, <3>3
    <3>5. i \in Nat /\ j \in Nat
      <4>1. rows' \in Seq(Rows)
            BY RowsInserted
      <4>2. DOMAIN rows' = 1..Len(rows') /\ Len(rows') \in Nat
            BY <4>1, LenProperties
      <4> QED BY <4>2
    <3> QED BY <3>4, <3>5
  <2> QED BY <2>1, <2>2, <2>3, <2>4
<1> QED BY <1>7, <1>9 DEF OpenRows

LEMMA OpenRowsKept ==
    ASSUME TablesOK, OpenRows, [Next]_vars
    PROVE  OpenRows'
<1>1. run \in [Sessions -> OKRuns]
      BY DEF TablesOK
<1>2. ASSUME NEW s \in Sessions, NEW new, Gives(s, new), StaysSubmit(s),
             rows' = rows \/ (~Submits(s)' /\ \E i : RowMoves(i))
      PROVE  OpenRows'
  <2>1. \A t \in Sessions \ {s} :
           Submits(t)' => Submits(t) /\ run'[t].folder = run[t].folder
        BY <1>1, <1>2, SubmitsElsewhere DEF Gives
  <2> QED BY <1>2, <2>1, OpenRowsMoved DEF StaysSubmit
<1>3. ASSUME NEW s \in Sessions, run'[s].kind # "submit" \/ run'[s].step \notin {"list", "read", "insert"}
      PROVE  StaysSubmit(s) /\ ~Submits(s)'
      BY <1>3 DEF StaysSubmit, Submits
<1>4. ASSUME NEW s \in Sessions, Staff(s) PROVE OpenRows'
  <2>1. PICK new : Gives(s, new) /\ Quiet(s, new)
        BY <1>4, StaffSteps
  <2>2. CASE UNCHANGED <<folderVars, jobVars, rows>> /\ StaysSubmit(s)
        BY <1>2, <2>1, <2>2
  <2>3. CASE Writes(s) /\ ~insert_rows(s)
    <3>1. run'[s].kind # "submit" \/ run'[s].step \notin {"list", "read", "insert"}
      <4>0. run[s] \in Runs
            BY <1>1 DEF OKRuns
      <4>1. CASE make_digital_objects(s) \/ revert_to_mdo(s) \/ move_from_ingest_to_ready(s)
        <5>1. make_digital_objects(s) => run'[s].kind = "mdo"
              BY <1>1 DEF make_digital_objects, Answer, Answered, Crossed, Idle
        <5>2. revert_to_mdo(s) => run'[s].kind = "none"
              BY <1>1 DEF revert_to_mdo, Returns, Crossed, Idle
        <5>3. move_from_ingest_to_ready(s) => run'[s].kind = "return"
              BY <1>1, <4>0 DEF move_from_ingest_to_ready, Goes, Crossed, Runs
        <5> QED BY <4>1, <5>1, <5>2, <5>3
      <4>2. CASE Returns(s) \/ Goes(s, "stamp") \/ Goes(s, "record")
            BY <1>1, <4>0, <4>2 DEF Returns, Goes, Idle, Runs
      <4> QED BY <2>3, <4>1, <4>2 DEF Writes, record_mdo, record_qa, record_submit, stamp_qa,
               record_return, return_row
    <3>2. rows' = rows \/ \E i : RowMoves(i)
          BY <2>3, RowsKept
    <3> QED BY <1>2, <1>3, <2>1, <3>1, <3>2
  <2>4. CASE insert_rows(s)
    <3>1. CASE Answer(s, FALSE) /\ UNCHANGED rows
      <4>1. run'[s].step = "record"
            BY <1>1, <3>1 DEF Answer, Answered, Idle
      <4> QED BY <1>2, <1>3, <2>1, <3>1, <4>1
    <3>2. CASE /\ Len(rows) + Cardinality(run[s].packages) <= MaxRows
               /\ rows' = rows \o SetToSeq({NewRow(s, h) : h \in run[s].packages})
               /\ run' = Crossed([run EXCEPT ![s] = Answered(s, TRUE)], "submit", run[s].folder)
          BY <2>4, <3>2, OpenRowsInserted
    <3> QED BY <2>4, <3>1, <3>2 DEF insert_rows, NewRow
  <2> QED BY <1>4, <2>2, <2>3, <2>4, PlainSteps
<1>5. ASSUME NEW s \in Sessions, resolve_packages(s) \/ clear_kaltura_queue(s) PROVE OpenRows'
  <2>1. rows' = rows /\ (Proceeds(s) \/ Enters(s))
        BY <1>5, LookupSteps DEF resolve_packages, clear_kaltura_queue
  <2>2. PICK new : Gives(s, new)
        BY <2>1 DEF Proceeds, Enters
  <2>3. run'[s] \in OKRuns /\ Carries(run[s])
        BY <1>1, <2>2 DEF Gives, OKRuns
  <2>4. run'[s].step \in ResolveSteps \cup {"wipe", "idle"}
    <3> DEFINE Within == run'[s].step \in ResolveSteps \cup {"wipe", "idle"}
    <3>0. run[s] \in Runs
          BY <1>1 DEF OKRuns
    <3>1. clear_ids(s) \/ clear_rows(s) \/ queue_packages(s) \/ mark_package_processed(s) => Within
          BY <1>1, <3>0 DEF clear_ids, clear_rows, queue_packages, mark_package_processed, Goes,
               Runs, ResolveSteps
    <3>2. metadata_answered(s) \/ clear_queue_table(s) => Within
          BY <1>1 DEF metadata_answered, clear_queue_table, Returns, Idle
    <3>3. start_session(s) \/ clear_queue(s) => Within
          BY StartSession, ClearQueue DEF Enters, ResolveSteps
    <3>4. ASSUME get_next_package(s) PROVE Within
      <4>1. CASE kqueue = <<>>
        <5>1. run' = [run EXCEPT ![s] = [run[s] EXCEPT !.step = "resolved"]]
              BY <3>4, <4>1 DEF get_next_package
        <5> QED BY <1>1, <3>0, <5>1 DEF Runs, ResolveSteps
      <4>2. CASE kqueue # <<>>
        <5>1. run' = [run EXCEPT ![s] = [run[s] EXCEPT !.step = "mark", !.row = Head(kqueue)]]
              BY <3>4, <4>2 DEF get_next_package
        <5> QED BY <1>1, <3>0, <5>1 DEF Runs, ResolveSteps
      <4> QED BY <4>1, <4>2
    <3>5. ASSUME resolve_file(s) PROVE Within
      <4> DEFINE left == run[s].row.files \ {First(run[s].row.files)}
      <4>1. ASSUME NEW found,
                   run' = [run EXCEPT
                      ![s].results = @ \cup {_extract_entry_ids(run[s].row.package,
                                                                First(run[s].row.files), found)},
                      ![s].row = IF left = {} THEN NoRow ELSE [@ EXCEPT !.files = left],
                      ![s].step = IF left = {} THEN "peek" ELSE "file"]
            PROVE  run'[s].step = IF left = {} THEN "peek" ELSE "file"
        <5> HIDE DEF left
        <5> QED BY <1>1, <3>0, <4>1 DEF Runs
      <4>2. run'[s].step = IF left = {} THEN "peek" ELSE "file"
            BY <3>5, <4>1 DEF resolve_file
      <4> QED BY <4>2 DEF ResolveSteps
    <3> QED BY <1>5, <3>1, <3>2, <3>3, <3>4, <3>5
            DEF resolve_packages, clear_kaltura_queue, Resolving
  <2> QED BY <1>2, <1>3, <2>1, <2>2, <2>4 DEF ResolveSteps
<1>6. ASSUME UNCHANGED run, rows' = rows \/ \E i : RowMoves(i) PROVE OpenRows'
  <2>1. \A t \in Sessions : Submits(t)' => Submits(t) /\ run'[t].folder = run[t].folder
        BY <1>6 DEF Submits
  <2> QED BY <1>6, <2>1, OpenRowsMoved
<1>7. ASSUME NEW i \in DOMAIN rows, Row(i) PROVE OpenRows'
  <2>1. UNCHANGED run
        BY <1>7 DEF Row, upload_package, complete_row, halt_row, resume_row, PipelineOnly, kalturaVars
  <2> QED BY <1>6, <1>7, <2>1, RowSteps
<1>8. ASSUME crash PROVE OpenRows'
  <2>1. \A t \in Sessions : ~Submits(t)'
        BY <1>8 DEF crash, Submits, Idle
  <2>2. rows' = rows
        BY <1>8 DEF crash
  <2> QED BY <2>1, <2>2, OpenRowsMoved
<1>9. CASE UNCHANGED vars
      BY <1>6, <1>9 DEF vars, kalturaVars
<1> QED BY <1>4, <1>5, <1>7, <1>8, <1>9, NextSteps

\* What hides a folder changes only with what was checked in it, with the job
\* that says so, or with a job that is still to be recorded.
LEMMA HiddenKept ==
    ASSUME TablesOK, HiddenWasChecked, [Next]_vars
    PROVE  HiddenWasChecked'
<1>1. /\ run \in [Sessions -> OKRuns]
      /\ jobs \in [Folders -> {"none", "QA", "other"}]
      /\ checked \in [Folders -> {"no", "checked", "stamped", "muddled"}]
      BY DEF TablesOK
<1>2. ASSUME NEW s \in Sessions, NEW new, Gives(s, new), NEW f, Unrecorded(f)
      PROVE  Unrecorded(f)' \/ (Owes(run[s]) /\ run[s].folder = f)
  <2>1. PICK t \in Sessions : Owes(run[t]) /\ run[t].folder = f
        BY <1>2 DEF Unrecorded, Owes
  <2>2. CASE t # s
    <3>1. /\ run'[t].folder = run[t].folder /\ run'[t].kind = run[t].kind
          /\ run'[t].step = run[t].step
          BY <1>1, <1>2, <2>2, SubmitsElsewhere DEF Gives
    <3> QED BY <2>1, <3>1 DEF Unrecorded, Owes
  <2> QED BY <2>1, <2>2
<1>3. ASSUME NEW f \in Folders, jobs'[f] = jobs[f], checked'[f] = checked[f],
             Ready(f)' \cap uri' \subseteq Ready(f) \cap uri, Unrecorded(f) => Unrecorded(f)'
      PROVE  Hidden(f)' => checked'[f] # "no" \/ Unrecorded(f)'
      BY <1>3 DEF HiddenWasChecked, Hidden, qa_passed
<1>4. ASSUME UNCHANGED <<folderVars, jobVars>>, \A f : Unrecorded(f) => Unrecorded(f)'
      PROVE  HiddenWasChecked'
  <2>1. \A f : Ready(f)' \cap uri' \subseteq Ready(f) \cap uri
        BY <1>4 DEF Ready, folderVars
  <2>2. \A f : jobs'[f] = jobs[f] /\ checked'[f] = checked[f]
        BY <1>4 DEF jobVars
  <2> QED BY <1>3, <1>4, <2>1, <2>2 DEF HiddenWasChecked
<1>5. ASSUME NEW s \in Sessions, Writes(s) PROVE HiddenWasChecked'
  <2> DEFINE r == run[s]
  <2>0. PICK f : f = run[s].folder
        OBVIOUS
  <2> USE <2>0
  <2>1. PICK new : Gives(s, new)
        BY <1>5, StaffSteps DEF Writes, Staff, MakeDigitalObjects, CheckDescription, SubmitToIngest,
             ReturnToPackaging
  <2>2. r \in Runs /\ Carries(r)
        BY <1>1 DEF OKRuns
  <2>3. r.kind \in FolderKinds /\ f \in Folders
        BY <1>5, <2>2 DEF Writes, make_digital_objects, revert_to_mdo, move_from_ingest_to_ready,
             record_mdo, record_qa, record_submit, stamp_qa, record_return, insert_rows, return_row,
             FolderKinds, Carries
  <2>4. ASSUME NEW g \in Folders \ {f}, jobs'[g] = jobs[g], checked'[g] = checked[g],
               Ready(g)' \cap uri' \subseteq Ready(g) \cap uri
        PROVE  Hidden(g)' => checked'[g] # "no" \/ Unrecorded(g)'
        BY <1>2, <1>3, <2>1, <2>4
  <2>5. ASSUME NEW job, NEW basis, record_job(f, job, basis), UNCHANGED folderVars,
               job = "QA" => basis # "no"
        PROVE  HiddenWasChecked'
    <3>1. jobs'[f] = job /\ checked'[f] = basis
          BY <1>1, <2>3, <2>5 DEF record_job
    <3>2. Hidden(f)' => checked'[f] # "no"
          BY <2>5, <3>1 DEF Hidden, qa_passed
    <3>3. ASSUME NEW g \in Folders \ {f} PROVE Hidden(g)' => checked'[g] # "no" \/ Unrecorded(g)'
      <4>1. jobs'[g] = jobs[g] /\ checked'[g] = checked[g]
            BY <1>1, <2>5 DEF record_job
      <4>2. Ready(g)' \cap uri' \subseteq Ready(g) \cap uri
            BY <2>5 DEF Ready, folderVars
      <4> QED BY <2>4, <4>1, <4>2
    <3> QED BY <3>2, <3>3 DEF HiddenWasChecked
  <2>6. ASSUME ~Owes(r), UNCHANGED <<folderVars, jobVars>> PROVE HiddenWasChecked'
        BY <1>2, <1>4, <2>1, <2>6
  <2>7. ASSUME jobs' = jobs, checked' = checked \/ Outdates(f),
               \A g \in Folders \ {f} : Ready(g)' \cap uri' \subseteq Ready(g) \cap uri,
               Hidden(f)' => Unrecorded(f)'
        PROVE  HiddenWasChecked'
    <3>1. ASSUME NEW g \in Folders \ {f} PROVE Hidden(g)' => checked'[g] # "no" \/ Unrecorded(g)'
      <4>1. jobs'[g] = jobs[g] /\ checked'[g] = checked[g]
            BY <1>1, <2>7 DEF Outdates
      <4> QED BY <2>4, <2>7, <4>1
    <3> QED BY <2>7, <3>1 DEF HiddenWasChecked
  <2>8. \A g \in Folders \ {f} : In(g) \cap In(f) = {}
        BY DEF In
  <2>9. CASE make_digital_objects(s)
    <3>1. run'[s].kind = "mdo" /\ run'[s].step = "record" /\ run'[s].folder = f
      <4>1. Answer(s, FALSE) => run'[s].kind = "mdo" /\ run'[s].step = "record" /\ run'[s].folder = f
            BY <1>1, <2>9 DEF make_digital_objects, Answer, Answered, Idle
      <4>2. ASSUME NEW answered, run' = Crossed([run EXCEPT ![s] = Answered(s, answered)], "qa", run[s].folder)
            PROVE  run'[s].kind = "mdo" /\ run'[s].step = "record" /\ run'[s].folder = f
            BY <1>1, <2>9, <4>2 DEF make_digital_objects, Answered, Crossed, Idle
      <4> QED BY <2>9, <4>1, <4>2 DEF make_digital_objects
    <3>2. Unrecorded(f)'
          BY <3>1 DEF Unrecorded
    <3>3. jobs' = jobs /\ away' = away /\ (checked' = checked \/ Outdates(f))
          /\ (uri' = uri \/ uri' = uri \cup Ready(f))
          BY <2>9 DEF make_digital_objects
    <3>4. \A g \in Folders \ {f} : Ready(g)' \cap uri' \subseteq Ready(g) \cap uri
          BY <2>8, <3>3 DEF Ready
    <3> QED BY <2>7, <3>2, <3>3, <3>4
  <2>10. CASE revert_to_mdo(s)
    <3>1. CASE uri' = uri \ Ready(f) /\ Outdates(f) /\ UNCHANGED <<away, jobs>>
      <4>1. ~Hidden(f)'
            BY <3>1 DEF Hidden, Ready
      <4>2. \A g \in Folders \ {f} : Ready(g)' \cap uri' \subseteq Ready(g) \cap uri
            BY <3>1 DEF Ready
      <4> QED BY <2>7, <3>1, <4>1, <4>2
    <3>2. CASE UNCHANGED <<folderVars, jobVars>> /\ r.step = "call"
          BY <2>6, <3>2 DEF Owes
    <3> QED BY <2>10, <3>1, <3>2 DEF revert_to_mdo, folderVars, jobVars, At
  <2>11. CASE move_from_ingest_to_ready(s)
    <3>1. run'[s].kind = "return" /\ run'[s].step = "write" /\ run'[s].folder = f
      <4>1. CASE Goes(s, "write")
            BY <1>1, <2>2, <2>11, <4>1 DEF move_from_ingest_to_ready, Goes, Runs
      <4>2. CASE run' = Crossed([run EXCEPT ![s].step = "write"], "qa", run[s].folder)
            BY <1>1, <2>2, <2>11, <4>2 DEF move_from_ingest_to_ready, Crossed, Runs
      <4> QED BY <2>11, <4>1, <4>2 DEF move_from_ingest_to_ready
    <3>2. Unrecorded(f)'
          BY <3>1 DEF Unrecorded
    <3>3. jobs' = jobs /\ uri' = uri /\ (checked' = checked \/ Outdates(f))
          /\ (away' = away \/ away' = away \ r.packages)
          BY <2>11 DEF move_from_ingest_to_ready
    <3>4. \A g \in Folders \ {f} : Ready(g)' \cap uri' \subseteq Ready(g) \cap uri
          BY <2>2, <2>8, <3>3 DEF Ready, Carries
    <3> QED BY <2>7, <3>2, <3>3, <3>4
  <2>12. CASE record_mdo(s) \/ record_submit(s) \/ record_return(s)
    <3>1. record_job(f, "other", "no") /\ UNCHANGED folderVars
          BY <2>12 DEF record_mdo, record_submit, record_return
    <3> QED BY <2>5, <3>1
  <2>13. CASE record_qa(s)
    <3> DEFINE basis == IF run[s].crossed THEN "muddled" ELSE IF run[s].ok THEN "checked" ELSE "no"
    <3>1. record_job(f, QaJob(s), basis) /\ UNCHANGED folderVars
          BY <2>13 DEF record_qa
    <3>2. QaJob(s) = "QA" => basis # "no"
          BY DEF QaJob
    <3> QED BY <2>5, <3>1, <3>2
  <2>14. CASE stamp_qa(s)
    <3>1. record_job(f, "QA", "stamped") /\ UNCHANGED folderVars
          BY <2>14 DEF stamp_qa
    <3> QED BY <2>5, <3>1
  <2>15. CASE insert_rows(s)
         BY <2>6, <2>15 DEF insert_rows, Owes
  <2>16. CASE return_row(s)
    <3>1. run'[s].kind = "return" /\ run'[s].step = "record" /\ run'[s].folder = f
          BY <1>1, <2>2, <2>16 DEF return_row, Goes, Runs
    <3>2. \A g : Unrecorded(g) => Unrecorded(g)'
          BY <1>2, <2>1, <3>1 DEF Unrecorded
    <3>3. UNCHANGED <<folderVars, jobVars>>
          BY <2>16 DEF return_row
    <3> QED BY <1>4, <3>2, <3>3
  <2> QED BY <1>5, <2>9, <2>10, <2>11, <2>12, <2>13, <2>14, <2>15, <2>16 DEF Writes
<1>6. ASSUME NEW s \in Sessions, Staff(s) PROVE HiddenWasChecked'
  <2>1. PICK new : Gives(s, new)
        BY <1>6, StaffSteps
  <2>2. CASE UNCHANGED <<folderVars, jobVars, rows>> /\ ~Owes(run[s])
        BY <1>2, <1>4, <2>1, <2>2
  <2> QED BY <1>5, <1>6, <2>2, PlainSteps
<1>7. ASSUME NEW s \in Sessions, resolve_packages(s) \/ clear_kaltura_queue(s)
      PROVE  HiddenWasChecked'
  <2>1. PICK new : Gives(s, new)
        BY <1>7, LookupSteps DEF resolve_packages, clear_kaltura_queue, Proceeds, Enters
  <2>2. ~Owes(run[s])
        BY <1>7 DEF resolve_packages, clear_kaltura_queue, Resolving, start_session, clear_ids,
             clear_rows, queue_packages, get_next_package, mark_package_processed, resolve_file,
             metadata_answered, clear_queue_table, clear_queue, At, Owes
  <2>3. UNCHANGED <<away, uri, component>> /\ UNCHANGED jobVars
        BY <1>7 DEF resolve_packages, clear_kaltura_queue
  <2>4. ASSUME NEW f \in Folders PROVE Hidden(f)' => checked'[f] # "no" \/ Unrecorded(f)'
    <3>1. /\ jobs'[f] = jobs[f] /\ checked'[f] = checked[f]
          /\ Ready(f)' \cap uri' \subseteq Ready(f) \cap uri
          BY <2>3 DEF Ready, jobVars
    <3>2. Unrecorded(f) => Unrecorded(f)'
          BY <1>2, <2>1, <2>2
    <3> QED BY <1>3, <3>1, <3>2
  <2> QED BY <2>4 DEF HiddenWasChecked
<1>8. ASSUME NEW i \in DOMAIN rows, Row(i) PROVE HiddenWasChecked'
  <2>1. UNCHANGED <<run, uri, jobs, checked>> /\ away \subseteq away'
        BY <1>8 DEF Row, upload_package, complete_row, halt_row, resume_row, PipelineOnly,
             kalturaVars, jobVars
  <2>2. ASSUME NEW f \in Folders PROVE Hidden(f)' => checked'[f] # "no" \/ Unrecorded(f)'
    <3>1. /\ jobs'[f] = jobs[f] /\ checked'[f] = checked[f]
          /\ Ready(f)' \cap uri' \subseteq Ready(f) \cap uri
          BY <2>1 DEF Ready
    <3>2. Unrecorded(f) => Unrecorded(f)'
          BY <2>1 DEF Unrecorded
    <3> QED BY <1>3, <3>1, <3>2
  <2> QED BY <2>2 DEF HiddenWasChecked
<1>9. ASSUME crash PROVE HiddenWasChecked'
  <2>1. /\ UNCHANGED <<away, uri, jobs>>
        /\ checked' = [f \in Folders |-> IF Unrecorded(f) /\ checked[f] = "no" THEN "muddled"
                                         ELSE checked[f]]
        BY <1>9 DEF crash, folderVars
  <2>2. ASSUME NEW f \in Folders, Hidden(f)' PROVE checked'[f] # "no"
    <3>1. Hidden(f)
          BY <2>1, <2>2 DEF Hidden, qa_passed, Ready
    <3>2. checked[f] # "no" \/ Unrecorded(f)
          BY <3>1 DEF HiddenWasChecked
    <3> QED BY <2>1, <3>2
  <2> QED BY <2>2 DEF HiddenWasChecked
<1>10. CASE UNCHANGED vars
  <2>1. UNCHANGED <<folderVars, jobVars>> /\ run' = run
        BY <1>10 DEF vars, kalturaVars
  <2>2. \A f : Unrecorded(f) => Unrecorded(f)'
        BY <2>1 DEF Unrecorded
  <2> QED BY <1>4, <2>1, <2>2
<1> QED BY <1>6, <1>7, <1>8, <1>9, <1>10, NextSteps

-----------------------------------------------------------------------------
(* The theorems *)

WorkspaceIndInv ==
    /\ TablesOK /\ Hands /\ NoneLeftBare /\ OpenRows /\ StageFiveFindsIds /\ HiddenWasChecked

LEMMA WorkspaceStarts ==
    ASSUME Init
    PROVE  WorkspaceIndInv
<1>1. kqueue = <<>> /\ ids = {} /\ run = [s \in Sessions |-> Idle] /\ runs = 0
      BY DEF Init, KalturaInit
<1>2. away = {} /\ uri = {} /\ backed = {} /\ rows = <<>>
      /\ component = [c \in ComponentsOf(Holds) |-> "none"]
      /\ jobs = [f \in Folders |-> "none"] /\ checked = [f \in Folders |-> "no"]
      BY DEF Init
<1>3. run \in [Sessions -> OKRuns] /\ \A s \in Sessions : run[s] = Idle
      BY <1>1, IdleRun
<1>4. DOMAIN rows = {} /\ Len(rows) = 0 /\ rows \in Seq(Rows) /\ kqueue \in Seq(QueueRows)
      BY <1>1, <1>2, EmptySeq
<1>5. TablesOK
  <2>1. runs \in 0..MaxRuns /\ Len(rows) <= MaxRows
        BY <1>1, <1>4, KalturaAssumption, WorkspaceAssumption
  <2> QED BY <1>1, <1>2, <1>3, <1>4, <2>1 DEF TablesOK, COMPONENT
<1>6. \A s \in Sessions : ~Using(s) /\ ~Submits(s)
  <2> TAKE s \in Sessions
  <2>1. run[s].step = "idle"
        BY <1>3 DEF Idle
  <2> QED BY <2>1 DEF Using, At, USING, Submits
<1>7. Hands
      BY <1>6 DEF Hands, Company, AloneInv
<1>8. NoneLeftBare /\ StageFiveFindsIds
      BY <1>2 DEF NoneLeftBare, StageFiveFindsIds
<1>9. OpenRows
      BY <1>4, <1>6 DEF OpenRows, OneOpenRow, SubmitInv
<1>10. HiddenWasChecked
       BY <1>2 DEF HiddenWasChecked, Hidden, qa_passed
<1> QED BY <1>5, <1>7, <1>8, <1>9, <1>10 DEF WorkspaceIndInv

LEMMA WorkspaceSteps ==
    ASSUME WorkspaceIndInv, [Next]_vars
    PROVE  WorkspaceIndInv'
BY TablesKept, HandsKept, NoneLeftBareKept, OpenRowsKept, IdsKept, HiddenKept DEF WorkspaceIndInv

\* The workspace keeps its invariant: what every request carries at its step,
\* who has the id queue in hand and what a lone one finds there, the rows a
\* submission sees, the ids of attached components, the QA behind a folder.
THEOREM WorkspaceInvariant == Spec => []WorkspaceIndInv
BY WorkspaceStarts, WorkspaceSteps, PTL DEF Spec

\* The tables of the invariant are the types of the modules.
LEMMA TablesAreTyped ==
    ASSUME TablesOK
    PROVE  TypeOK
<1>1. \A q \in Range(kqueue) : q.package \in Names /\ q.files \subseteq MediaFiles
  <2>1. kqueue \in [1..Len(kqueue) -> QueueRows] /\ DOMAIN kqueue = 1..Len(kqueue)
        BY LenProperties DEF TablesOK
  <2> QED BY <2>1 DEF Range, QueueRows
<1>2. \A s \in Sessions : run[s].results \subseteq Answers
      BY DEF TablesOK, OKRuns, Runs
<1>3. \A i \in DOMAIN rows : rows[i].status \in ROW
  <2>1. rows \in [1..Len(rows) -> Rows] /\ DOMAIN rows = 1..Len(rows)
        BY LenProperties DEF TablesOK
  <2> QED BY <2>1 DEF Rows
<1>4. KalturaTypeOK
      BY <1>1, <1>2 DEF KalturaTypeOK, TablesOK
<1> QED BY <1>3, <1>4 DEF TypeOK, TablesOK

\* Every table keeps its type; Make Digital Objects makes no component without
\* its Kaltura id for a file the run had listed; and two open rows of one
\* package take two submissions past the count at once, or a resumed row.
THEOREM WorkspaceIsKept == Spec => []WorkspaceInv
<1>1. WorkspaceIndInv => WorkspaceInv
      BY TablesAreTyped DEF WorkspaceIndInv, WorkspaceInv, OpenRows
<1> QED BY <1>1, WorkspaceInvariant, PTL

\* The id of a component that was attached is there for stage 5, until a
\* request names its package or staff clear the queue.
THEOREM AttachedIdsAreFound == Spec => []StageFiveFindsIds
<1>1. WorkspaceIndInv => StageFiveFindsIds
      BY DEF WorkspaceIndInv
<1> QED BY <1>1, WorkspaceInvariant, PTL

\* However many requests share the queue: a run that none of them overlapped
\* has an answer for every file it asked about.
THEOREM LoneRunsAreAnswered == Spec => []AloneIsAnswered
<1>1. WorkspaceIndInv => AloneIsAnswered
  <2> SUFFICES ASSUME WorkspaceIndInv, NEW s \in Sessions, At(s, "resolved"), ~run[s].crossed,
                      NEW m \in run[s].media
               PROVE  {Single(m), Double(m)} \cap run[s].results # {}
      BY DEF AloneIsAnswered
  <2>1. Using(s)
        BY DEF Using, At, USING
  <2>2. Asked(s, m)
        BY <2>1 DEF WorkspaceIndInv, Hands, AloneInv, Alone, At
  <2> QED BY <2>2 DEF Asked, At
<1> QED BY <1>1, WorkspaceInvariant, PTL

\* A folder that the QA view hides was checked as it is now, or vouched for,
\* or its QA ran across a change, or the job of the change is missing.
THEOREM HiddenFoldersWereChecked == Spec => []HiddenWasChecked
<1>1. WorkspaceIndInv => HiddenWasChecked
      BY DEF WorkspaceIndInv
<1> QED BY <1>1, WorkspaceInvariant, PTL
=============================================================================
