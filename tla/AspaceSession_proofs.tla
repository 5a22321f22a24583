------------------------- MODULE AspaceSession_proofs -------------------------
(***************************************************************************)
(* Proofs about AspaceSession, for any number of fetches that overlap, any *)
(* number of attempts, culls and failures: each login has a cause of its   *)
(* own, the requests are paced, and a refusal that a stage is told of is   *)
(* real.                                                                   *)
(***************************************************************************)
EXTENDS AspaceSession, FiniteSetTheorems, SequenceTheorems, TLAPS

-----------------------------------------------------------------------------
(* The invariant *)

Fetches == [at : Steps, attempt : 1..Attempts, token : Nat, again : BOOLEAN, answer : Answers]
Books == [logins : Nat, login_due : Int, fetch_due : Int, broken : BOOLEAN,
          faults : 0..MaxFaults, culls : 0..MaxCulls]

Types ==
    /\ fetch \in [Callers -> Fetches] /\ book \in Books /\ line \in Seq(Callers)
    /\ token \in 0..book.logins /\ minting \in {"no", "asked", "issued", "failed"}
    /\ live \subseteq 1..book.logins /\ slot \in {"free", "spent"}

\* The chain holds each caller that waits for a slot, once.
InLine ==
    /\ \A i, j \in DOMAIN line : line[i] = line[j] => i = j
    /\ \A c \in Callers : fetch[c].at = "pace" <=> \E i \in DOMAIN line : line[i] = c

\* A caller backs off before an attempt it still has.
Backing == \A c \in Callers : fetch[c].at = "backoff" => fetch[c].attempt < Attempts

\* A login in flight is all the holder has, and a caller that waits has one to wait for.
Holder ==
    /\ minting # "no" => token = None /\ book.logins > 0
    /\ minting = "failed" => book.broken
    /\ \A c \in Callers :
         /\ fetch[c].at = "login" => minting # "no"
         /\ fetch[c].at = "asked" => fetch[c].token # None
         /\ fetch[c].at \in {"idle", "pace"} => ~fetch[c].again
         /\ fetch[c].at = "answered" /\ fetch[c].answer = "lost" => book.broken

\* An answer that will drop the token, and with it the cause of a login.
Blames(f) == f.at = "answered" /\ (f.answer = "lost" \/ (f.answer = "refused" /\ ~f.again))
\* A request that is still to be made in the slot, or by the refusal, that stands for it.
Owed(f) == f.at = "login" \/ (f.at = "answered" /\ f.answer = "refused" /\ ~f.again)
Truth(p) == IF p THEN 1 ELSE 0
BlameCount == Cardinality({c \in Callers : Blames(fetch[c])})
OwedCount == Cardinality({c \in Callers : Owed(fetch[c])})
Causes ==
    book.login_due >= BlameCount + Truth(minting = "failed") + Truth(token = None /\ minting = "no")
Paced == book.fetch_due >= OwedCount + Truth(slot = "free")

\* While no connection broke: before the first cull every token that is held, asked with or on
\* its way is honoured; after one cull those of a second request still are, and a login that
\* the cull overtook finds nobody who asked before it.
Refusal(f) == f.at = "answered" /\ f.answer = "refused"
Honoured ==
    ~book.broken /\ book.culls = 0 =>
        /\ token # None => token \in live
        /\ minting = "issued" => book.logins \in live
        /\ \A c \in Callers :
             /\ fetch[c].at = "asked" => token # None /\ fetch[c].token \in live
             /\ ~fetch[c].again /\ ~Refusal(fetch[c])
Overtaken ==
    ~book.broken /\ book.culls = 1 =>
        /\ \A c \in Callers : fetch[c].again =>
             /\ ~Refusal(fetch[c])
             /\ fetch[c].at = "asked" => fetch[c].token \in live
             /\ fetch[c].at = "login" /\ minting = "issued" => book.logins \in live
        /\ minting = "issued" /\ book.logins \notin live =>
             \A c \in Callers : fetch[c].at # "asked" /\ ~Refusal(fetch[c])

IInv == Types /\ InLine /\ Backing /\ Holder /\ Causes /\ Paced /\ Honoured /\ Overtaken /\ RefusalIsReal

-----------------------------------------------------------------------------
(* One caller at a time *)

LEMMA CallersAreFinite == IsFiniteSet(Callers)
BY FS_Interval, BoundsAssumption DEF Callers

\* A set that differs from another in one caller at most.
LEMMA OneMore ==
    ASSUME NEW S \in SUBSET Callers, NEW T \in SUBSET Callers, NEW c \in Callers, S \ {c} = T \ {c}
    PROVE  /\ Cardinality(S) \in Nat /\ Cardinality(T) \in Nat
           /\ Cardinality(T) = Cardinality(S) - Truth(c \in S) + Truth(c \in T)
<1>1. \A U \in SUBSET Callers : IsFiniteSet(U) /\ Cardinality(U) \in Nat
      BY CallersAreFinite, FS_Subset, FS_CardinalityType
<1>2. \A U \in SUBSET Callers :
         Cardinality(U \ {c}) = IF c \in U THEN Cardinality(U) - 1 ELSE Cardinality(U)
      BY <1>1, FS_RemoveElement
<1>3. Cardinality(S \ {c}) = Cardinality(T \ {c})
      OBVIOUS
<1>4. PICK s \in Nat, t \in Nat : s = Cardinality(S) /\ t = Cardinality(T)
      BY <1>1
<1>5. (IF c \in S THEN s - 1 ELSE s) = (IF c \in T THEN t - 1 ELSE t)
      BY <1>2, <1>3, <1>4
<1>6. t = s - Truth(c \in S) + Truth(c \in T)
      BY <1>5 DEF Truth
<1> QED BY <1>4, <1>6

\* A step of one caller counts in the sums with what it was and what it is.
LEMMA OneCaller ==
    ASSUME Types, NEW c \in Callers, NEW g \in Fetches, fetch' = [fetch EXCEPT ![c] = g]
    PROVE  /\ fetch' \in [Callers -> Fetches] /\ fetch'[c] = g
           /\ \A d \in Callers \ {c} : fetch'[d] = fetch[d]
           /\ BlameCount \in Nat /\ OwedCount \in Nat
           /\ BlameCount' = BlameCount - Truth(Blames(fetch[c])) + Truth(Blames(g))
           /\ OwedCount' = OwedCount - Truth(Owed(fetch[c])) + Truth(Owed(g))
<1>1. /\ fetch' \in [Callers -> Fetches] /\ fetch'[c] = g
      /\ \A d \in Callers \ {c} : fetch'[d] = fetch[d]
      BY DEF Types
<1>2. PICK S, T : S = {d \in Callers : Blames(fetch[d])} /\ T = {d \in Callers : Blames(fetch'[d])}
      OBVIOUS
<1>3. S \ {c} = T \ {c} /\ (c \in S <=> Blames(fetch[c])) /\ (c \in T <=> Blames(g))
      BY <1>1, <1>2
<1>4. /\ BlameCount = Cardinality(S) /\ BlameCount' = Cardinality(T)
      BY <1>2 DEF BlameCount, Blames
<1>5. /\ BlameCount \in Nat
      /\ BlameCount' = BlameCount - Truth(Blames(fetch[c])) + Truth(Blames(g))
  <2>1. /\ Cardinality(S) \in Nat
        /\ Cardinality(T) = Cardinality(S) - Truth(c \in S) + Truth(c \in T)
        BY <1>2, <1>3, OneMore
  <2>2. Truth(c \in S) = Truth(Blames(fetch[c])) /\ Truth(c \in T) = Truth(Blames(g))
        BY <1>3 DEF Truth
  <2> QED BY <1>4, <2>1, <2>2
<1>6. PICK S2, T2 : S2 = {d \in Callers : Owed(fetch[d])} /\ T2 = {d \in Callers : Owed(fetch'[d])}
      OBVIOUS
<1>7. S2 \ {c} = T2 \ {c} /\ (c \in S2 <=> Owed(fetch[c])) /\ (c \in T2 <=> Owed(g))
      BY <1>1, <1>6
<1>8. /\ OwedCount = Cardinality(S2) /\ OwedCount' = Cardinality(T2)
      BY <1>6 DEF OwedCount, Owed
<1>9. /\ OwedCount \in Nat
      /\ OwedCount' = OwedCount - Truth(Owed(fetch[c])) + Truth(Owed(g))
  <2>1. /\ Cardinality(S2) \in Nat
        /\ Cardinality(T2) = Cardinality(S2) - Truth(c \in S2) + Truth(c \in T2)
        BY <1>6, <1>7, OneMore
  <2>2. Truth(c \in S2) = Truth(Owed(fetch[c])) /\ Truth(c \in T2) = Truth(Owed(g))
        BY <1>7 DEF Truth
  <2> QED BY <1>8, <2>1, <2>2
<1> QED BY <1>1, <1>5, <1>9

-----------------------------------------------------------------------------
(* The chain *)

LEMMA LineKept ==
    ASSUME Types, InLine, NEW c \in Callers, NEW g \in Fetches, fetch' = [fetch EXCEPT ![c] = g],
           UNCHANGED line, fetch[c].at # "pace", g.at # "pace"
    PROVE  InLine'
<1>1. \A d \in Callers : fetch'[d].at = "pace" <=> fetch[d].at = "pace"
      BY DEF Types
<1> QED BY <1>1 DEF InLine

LEMMA LineJoined ==
    ASSUME Types, InLine, NEW c \in Callers, NEW g \in Fetches, fetch' = [fetch EXCEPT ![c] = g],
           line' = Append(line, c), fetch[c].at # "pace", g.at = "pace"
    PROVE  InLine' /\ line' \in Seq(Callers)
<1>1. /\ line' \in Seq(Callers) /\ Len(line') = Len(line) + 1 /\ Len(line) \in Nat
      /\ \A i \in 1..Len(line) : line'[i] = line[i]
      /\ line'[Len(line) + 1] = c
      BY AppendProperties, LenProperties DEF Types
<1>2. DOMAIN line = 1..Len(line) /\ DOMAIN line' = 1..(Len(line) + 1)
      BY <1>1, LenProperties DEF Types
<1>3. \A i \in DOMAIN line : line[i] # c /\ line[i] \in Callers
      BY <1>2, ElementOfSeq DEF InLine, Types
<1>4. \A d \in Callers : fetch'[d].at = "pace" <=> fetch[d].at = "pace" \/ d = c
      BY DEF Types
<1>5. \A i, j \in DOMAIN line' : line'[i] = line'[j] => i = j
      BY <1>1, <1>2, <1>3 DEF InLine
<1>6. \A d \in Callers : (\E i \in DOMAIN line' : line'[i] = d)
                            <=> (d = c \/ \E i \in DOMAIN line : line[i] = d)
      BY <1>1, <1>2
<1> QED BY <1>1, <1>4, <1>5, <1>6 DEF InLine

LEMMA LineLeft ==
    ASSUME Types, InLine, NEW c \in Callers, NEW g \in Fetches, fetch' = [fetch EXCEPT ![c] = g],
           line # <<>>, line' = Tail(line), c = Head(line), g.at # "pace"
    PROVE  InLine' /\ line' \in Seq(Callers)
<1>1. /\ line' \in Seq(Callers) /\ Len(line') = Len(line) - 1 /\ Len(line) \in Nat \ {0}
      /\ \A i \in 1..Len(line') : line'[i] = line[i + 1]
      /\ line[1] = c
      BY HeadTailProperties, LenProperties, EmptySeq DEF Types
<1>2. DOMAIN line = 1..Len(line) /\ DOMAIN line' = 1..(Len(line) - 1)
      BY <1>1, LenProperties DEF Types
<1>3. \A i, j \in DOMAIN line' : line'[i] = line'[j] => i = j
      BY <1>1, <1>2 DEF InLine
<1>4. \A d \in Callers : fetch'[d].at = "pace" <=> fetch[d].at = "pace" /\ d # c
      BY DEF Types
<1>5. ASSUME NEW d \in Callers
      PROVE  (\E i \in DOMAIN line' : line'[i] = d) <=> (d # c /\ \E i \in DOMAIN line : line[i] = d)
  <2>1. ASSUME NEW i \in DOMAIN line', line'[i] = d
        PROVE  d # c /\ \E j \in DOMAIN line : line[j] = d
    <3>1. i + 1 \in DOMAIN line /\ line[i + 1] = d /\ i + 1 # 1 /\ 1 \in DOMAIN line
          BY <1>1, <1>2, <2>1
    <3> QED BY <1>1, <3>1 DEF InLine
  <2>2. ASSUME NEW j \in DOMAIN line, line[j] = d, d # c
        PROVE  \E i \in DOMAIN line' : line'[i] = d
    <3>1. j # 1
          BY <1>1, <2>2
    <3>2. j - 1 \in DOMAIN line' /\ line'[j - 1] = line[j]
          BY <1>1, <1>2, <3>1
    <3> QED BY <2>2, <3>2
  <2> QED BY <2>1, <2>2
<1> QED BY <1>1, <1>3, <1>4, <1>5 DEF InLine

-----------------------------------------------------------------------------
(* The steps that the sessions do not notice *)

\* A refusal that a stage was told of stays told, and what made it real stays.
LEMMA ToldOnce ==
    ASSUME Types, RefusalIsReal, NEW c \in Callers, NEW g \in Fetches,
           fetch' = [fetch EXCEPT ![c] = g],
           book'.culls = book.culls, book.broken => book'.broken,
           g.at = "done" /\ g.answer = "refused" => book.culls >= 2 \/ book'.broken
    PROVE  RefusalIsReal'
<1>1. \A d \in Callers : fetch'[d] = fetch[d] \/ (d = c /\ fetch'[d] = g)
      BY DEF Types
<1> QED BY <1>1 DEF RefusalIsReal

\* A caller that neither asks nor waits for the login, before and after.
LEMMA AsideKeeps ==
    ASSUME IInv, NEW c \in Callers, NEW g \in Fetches, fetch' = [fetch EXCEPT ![c] = g],
           UNCHANGED <<minting, live, slot, book>>,
           token' = token,
           fetch[c].at # "login", ~Blames(fetch[c]), ~Refusal(fetch[c]) \/ g.at = "done",
           g.at \in {"pace", "backoff", "done"}, g.again => fetch[c].again,
           g.at = "backoff" => g.attempt < Attempts,
           g.at = "pace" => ~g.again,
           g.at = "done" /\ g.answer = "refused" => book.culls >= 2 \/ book.broken,
           InLine', line' \in Seq(Callers)
    PROVE  IInv'
<1>1. /\ fetch' \in [Callers -> Fetches] /\ fetch'[c] = g
      /\ \A d \in Callers \ {c} : fetch'[d] = fetch[d]
      /\ BlameCount \in Nat /\ OwedCount \in Nat
      /\ BlameCount' = BlameCount - Truth(Blames(fetch[c])) + Truth(Blames(g))
      /\ OwedCount' = OwedCount - Truth(Owed(fetch[c])) + Truth(Owed(g))
      BY OneCaller DEF IInv
<1>2. Types' /\ Backing' /\ Holder'
      BY <1>1 DEF IInv, Types, Backing, Holder
<1>3. BlameCount' = BlameCount /\ OwedCount' = OwedCount
      BY <1>1 DEF Blames, Owed, Truth
<1>4. Causes' /\ Paced'
      BY <1>3 DEF IInv, Causes, Paced
<1>5. Honoured' /\ Overtaken'
      BY <1>1 DEF IInv, Honoured, Overtaken, Refusal
<1>6. RefusalIsReal'
      BY ToldOnce DEF IInv
<1> QED BY <1>2, <1>4, <1>5, <1>6 DEF IInv

\* A failed attempt backs off, or is the last.
LEMMA FailedFetch ==
    ASSUME NEW f \in Fetches
    PROVE  /\ Failed(f) \in Fetches /\ Failed(f).at \in {"backoff", "done"}
           /\ Failed(f).answer # "refused" /\ (Failed(f).again => f.again)
           /\ Failed(f).at = "backoff" => Failed(f).attempt < Attempts
           /\ Done(f) \in Fetches /\ Done(f).at = "done" /\ Done(f).answer = f.answer
           /\ ~Done(f).again
<1>1. \A h \in Fetches : /\ Done(h) \in Fetches /\ Done(h).at = "done"
                          /\ Done(h).answer = h.answer /\ ~Done(h).again
  <2> SUFFICES ASSUME NEW h \in Fetches
               PROVE  /\ Done(h) \in Fetches /\ Done(h).at = "done"
                      /\ Done(h).answer = h.answer /\ ~Done(h).again
      OBVIOUS
  <2>1. 1 \in 1..Attempts /\ "done" \in Steps
        BY BoundsAssumption DEF Steps
  <2>2. Done(h) \in Fetches
        BY <2>1 DEF Done, Fetches
  <2>3. Done(h).at = "done" /\ Done(h).answer = h.answer
        BY DEF Done, Fetches
  <2>4. ~Done(h).again
        BY DEF Done, Fetches
  <2> QED BY <2>2, <2>3, <2>4
<1>2. CASE f.attempt < Attempts
      BY <1>1, <1>2 DEF Failed, Fetches, Steps, Answers
<1>3. CASE ~(f.attempt < Attempts)
  <2>1. PICK lost : lost = [f EXCEPT !.answer = "lost"]
        OBVIOUS
  <2>2. lost \in Fetches /\ lost.answer = "lost"
        BY <2>1 DEF Fetches, Answers
  <2>3. Failed(f) = Done(lost)
        BY <1>3, <2>1 DEF Failed
  <2> QED BY <1>1, <2>2, <2>3
<1> QED BY <1>2, <1>3

LEMMA FetchStarts ==
    ASSUME IInv, NEW c \in Callers, fetch_record_with_retry(c)
    PROVE  IInv'
<1> DEFINE g == [fetch[c] EXCEPT !.at = "pace"]
<1>1. fetch[c] \in Fetches /\ fetch[c].at = "idle"
      BY DEF IInv, Types, fetch_record_with_retry
<1>2. g \in Fetches /\ g.at = "pace" /\ g.again = fetch[c].again
      BY <1>1 DEF Fetches, Steps
<1>3. ~fetch[c].again
      BY <1>1 DEF IInv, Holder
<1>4. fetch' = [fetch EXCEPT ![c] = g] /\ line' = Append(line, c)
      /\ UNCHANGED <<token, minting, live, slot, book>>
      BY <1>1 DEF fetch_record_with_retry, _pace, IInv, Types
<1> HIDE DEF g
<1>5. InLine' /\ line' \in Seq(Callers)
      BY <1>1, <1>2, <1>4, LineJoined DEF IInv
<1>6. ~Blames(fetch[c]) /\ ~Refusal(fetch[c])
      BY <1>1 DEF Blames, Refusal
<1> QED BY <1>1, <1>2, <1>3, <1>4, <1>5, <1>6, AsideKeeps

LEMMA RetryKeeps ==
    ASSUME IInv, NEW c \in Callers, Retry(c)
    PROVE  IInv'
<1> DEFINE g == [fetch[c] EXCEPT !.at = "pace", !.attempt = @ + 1, !.again = FALSE]
<1>1. fetch[c] \in Fetches /\ fetch[c].at = "backoff"
      BY DEF IInv, Types, Retry
<1>2. fetch[c].attempt + 1 \in 1..Attempts
      BY <1>1, BoundsAssumption DEF IInv, Backing, Fetches
<1>3. g \in Fetches /\ g.at = "pace" /\ ~g.again
      BY <1>1, <1>2 DEF Fetches, Steps
<1>4. fetch' = [fetch EXCEPT ![c] = g] /\ line' = Append(line, c)
      /\ UNCHANGED <<token, minting, live, slot, book>>
  <2>1. fetch \in [Callers -> Fetches]
        BY DEF IInv, Types
  <2> QED BY <1>1, <2>1 DEF Retry, _pace, Fetches
<1> HIDE DEF g
<1>5. InLine' /\ line' \in Seq(Callers)
      BY <1>1, <1>3, <1>4, LineJoined DEF IInv
<1>6. ~Blames(fetch[c]) /\ ~Refusal(fetch[c])
      BY <1>1 DEF Blames, Refusal
<1> QED BY <1>1, <1>3, <1>4, <1>5, <1>6, AsideKeeps

\* The answers that leave the holder alone.
LEMMA AnswersTaken ==
    ASSUME IInv, NEW c \in Callers,
           Returned(c) \/ Throttled(c) \/ (Refused(c) /\ fetch[c].again)
    PROVE  IInv'
<1>1. PICK g : g = IF Throttled(c) THEN Failed(fetch[c]) ELSE Done(fetch[c])
      OBVIOUS
<1>2. fetch[c] \in Fetches /\ fetch[c].at = "answered"
      BY DEF IInv, Types, Returned, Throttled, Refused
<1>3. /\ g \in Fetches /\ g.at \in {"backoff", "done"} /\ (g.again => fetch[c].again)
      /\ g.at = "backoff" => g.attempt < Attempts
      /\ g.answer = "refused" => fetch[c].answer = "refused" /\ g.at = "done"
      BY <1>1, <1>2, FailedFetch
<1>4. fetch' = [fetch EXCEPT ![c] = g] /\ UNCHANGED <<token, minting, live, line, slot, book>>
  <2>1. CASE Throttled(c)
        BY <1>1, <2>1 DEF Throttled
  <2>2. CASE ~Throttled(c)
    <3>1. g = Done(fetch[c])
          BY <1>1, <2>2
    <3> QED BY <2>2, <3>1 DEF Returned, Refused
  <2> QED BY <2>1, <2>2
<1>5. ~Blames(fetch[c]) /\ (Refusal(fetch[c]) => fetch[c].again)
      BY DEF Blames, Refusal, Returned, Throttled, Refused
<1>6. Refusal(fetch[c]) => g.at = "done"
      BY <1>1, <1>2, FailedFetch DEF Refusal, Returned, Throttled, Refused
<1>7. fetch[c].answer = "refused" => book.culls >= 2 \/ book.broken
  <2>1. fetch[c].answer = "refused" => Refusal(fetch[c])
        BY <1>2 DEF Refusal
  <2>2. book.culls \in Nat
        BY BoundsAssumption DEF IInv, Types, Books
  <2> QED BY <1>5, <2>1, <2>2 DEF IInv, Honoured, Overtaken
<1>8. InLine' /\ line' \in Seq(Callers)
      BY <1>2, <1>3, <1>4, LineKept DEF IInv, Types
<1> QED BY <1>2, <1>3, <1>4, <1>5, <1>6, <1>7, <1>8, AsideKeeps

-----------------------------------------------------------------------------
(* The steps that the holder takes *)

\* A broken connection: the token goes, and the cause it leaves becomes the holder's.
LEMMA BrokenKeeps ==
    ASSUME IInv, NEW c \in Callers, Broken(c)
    PROVE  IInv'
<1>1. fetch[c] \in Fetches /\ fetch[c].at = "answered" /\ fetch[c].answer = "lost" /\ book.broken
      BY DEF IInv, Types, Broken, Holder
<1>2. PICK g : g = Failed(fetch[c])
      OBVIOUS
<1>3. /\ g \in Fetches /\ g.at \in {"backoff", "done"} /\ g.answer # "refused"
      /\ g.at = "backoff" => g.attempt < Attempts
      BY <1>1, <1>2, FailedFetch
<1>4. fetch' = [fetch EXCEPT ![c] = g] /\ token' = None
      /\ UNCHANGED <<minting, live, line, slot, book>>
      BY <1>2 DEF Broken
<1>5. /\ fetch' \in [Callers -> Fetches] /\ fetch'[c] = g
      /\ \A d \in Callers \ {c} : fetch'[d] = fetch[d]
      /\ BlameCount \in Nat /\ OwedCount \in Nat
      /\ BlameCount' = BlameCount - Truth(Blames(fetch[c])) + Truth(Blames(g))
      /\ OwedCount' = OwedCount - Truth(Owed(fetch[c])) + Truth(Owed(g))
      BY <1>3, <1>4, OneCaller DEF IInv
<1>6. Types'
  <2>1. None \in 0..book.logins
        BY DEF IInv, Types, Books, None
  <2> QED BY <1>4, <1>5, <2>1 DEF IInv, Types
<1>7. InLine'
      BY <1>1, <1>3, <1>4, LineKept DEF IInv
<1>8. Backing' /\ Holder'
      BY <1>3, <1>4, <1>5 DEF IInv, Backing, Holder
<1>9. Causes'
  <2>1. BlameCount' = BlameCount - 1
        BY <1>1, <1>3, <1>5 DEF Blames, Truth
  <2> QED BY <1>4, <1>5, <2>1 DEF IInv, Causes, Truth, Types, Books
<1>10. Paced'
  <2>1. OwedCount' = OwedCount
        BY <1>1, <1>3, <1>5 DEF Owed, Truth
  <2> QED BY <1>4, <2>1 DEF IInv, Paced
<1>11. Honoured' /\ Overtaken'
      BY <1>1, <1>4 DEF Honoured, Overtaken
<1>12. RefusalIsReal'
      BY <1>3, <1>4, ToldOnce DEF IInv
<1> QED BY <1>6, <1>7, <1>8, <1>9, <1>10, <1>11, <1>12 DEF IInv

\* An answer arrives: a refusal brings the means of the login and the request it will cost.
LEMMA RecordKeeps ==
    ASSUME IInv, NEW c \in Callers, get_record(c)
    PROVE  IInv'
<1>1. fetch[c] \in Fetches /\ fetch[c].at = "asked"
      BY DEF IInv, Types, get_record
<1>2. PICK a \in {"definitive", "refused", "busy", "lost"} :
         /\ fetch' = [fetch EXCEPT ![c] = Answered(fetch[c], a)]
         /\ a = "definitive" => book' = book
         /\ a = "refused" => fetch[c].token \notin live
               /\ book' = [book EXCEPT !.login_due = @ + 1, !.fetch_due = @ + 1]
         /\ a = "busy" => MayFail /\ book' = [book EXCEPT !.faults = @ + 1]
         /\ a = "lost" => MayFail /\ book' = Break(book)
      BY DEF get_record
<1>3. PICK g : g = Answered(fetch[c], a)
      OBVIOUS
<1>4. /\ g \in Fetches /\ g.at = "answered" /\ g.answer = a /\ g.again = fetch[c].again
      BY <1>1, <1>2, <1>3 DEF Answered, Fetches, Steps, Answers, None
<1>5. fetch' = [fetch EXCEPT ![c] = g] /\ UNCHANGED <<token, minting, live, line, slot>>
      BY <1>2, <1>3 DEF get_record
<1>6. /\ fetch' \in [Callers -> Fetches] /\ fetch'[c] = g
      /\ \A d \in Callers \ {c} : fetch'[d] = fetch[d]
      /\ BlameCount \in Nat /\ OwedCount \in Nat
      /\ BlameCount' = BlameCount - Truth(Blames(fetch[c])) + Truth(Blames(g))
      /\ OwedCount' = OwedCount - Truth(Owed(fetch[c])) + Truth(Owed(g))
      BY <1>4, <1>5, OneCaller DEF IInv
<1>7. /\ book' \in Books /\ book'.logins = book.logins /\ book'.culls = book.culls
      /\ book.broken => book'.broken
      /\ a = "lost" => book'.broken
      /\ book'.login_due >= book.login_due + (IF a \in {"refused", "lost"} THEN 1 ELSE 0)
      /\ book'.fetch_due >= book.fetch_due + (IF a = "refused" THEN 1 ELSE 0)
  <2>0. book \in Books
        BY DEF IInv, Types
  <2>1. CASE a = "definitive"
        BY <1>2, <2>0, <2>1 DEF Books
  <2>2. CASE a = "refused"
    <3>1. book' = [book EXCEPT !.login_due = @ + 1, !.fetch_due = @ + 1]
          BY <1>2, <2>2
    <3>2. book' \in Books
      <4>1. book.login_due + 1 \in Int /\ book.fetch_due + 1 \in Int
            BY <2>0 DEF Books
      <4> QED BY <2>0, <3>1, <4>1 DEF Books
    <3>3. /\ book'.logins = book.logins /\ book'.culls = book.culls /\ book'.broken = book.broken
          /\ book'.login_due = book.login_due + 1 /\ book'.fetch_due = book.fetch_due + 1
          BY <2>0, <3>1 DEF Books
    <3>4. book.login_due \in Int /\ book.fetch_due \in Int
          BY <2>0 DEF Books
    <3> QED BY <2>2, <3>2, <3>3, <3>4
  <2>3. CASE a = "busy"
    <3>1. book' = [book EXCEPT !.faults = @ + 1] /\ book.faults < MaxFaults
          BY <1>2, <2>3 DEF MayFail
    <3>2. book.faults + 1 \in 0..MaxFaults
          BY <2>0, <3>1, BoundsAssumption DEF Books
    <3> QED BY <2>0, <2>3, <3>1, <3>2 DEF Books
  <2>4. CASE a = "lost"
    <3>1. book' = Break(book) /\ book.faults < MaxFaults
          BY <1>2, <2>4 DEF MayFail
    <3>2. book.faults + 1 \in 0..MaxFaults
          BY <2>0, <3>1, BoundsAssumption DEF Books
    <3>3. book' \in Books
      <4>1. book.login_due + 1 \in Int
            BY <2>0 DEF Books
      <4> QED BY <2>0, <3>1, <3>2, <4>1 DEF Books, Break
    <3>4. /\ book'.logins = book.logins /\ book'.culls = book.culls /\ book'.broken
          /\ book'.login_due = book.login_due + 1 /\ book'.fetch_due = book.fetch_due
          BY <2>0, <3>1 DEF Books, Break
    <3>5. book.login_due \in Int /\ book.fetch_due \in Int
          BY <2>0 DEF Books
    <3> QED BY <2>4, <3>3, <3>4, <3>5
  <2> QED BY <1>2, <2>1, <2>2, <2>3, <2>4
<1>8. Types'
      BY <1>5, <1>6, <1>7 DEF IInv, Types
<1>9. InLine'
      BY <1>1, <1>4, <1>5, LineKept DEF IInv
<1>10. Backing' /\ Holder'
      BY <1>4, <1>5, <1>6, <1>7 DEF IInv, Backing, Holder
<1>11. Causes' /\ Paced'
  <2>1. BlameCount' = BlameCount + Truth(Blames(g)) /\ OwedCount' = OwedCount + Truth(Owed(g))
        BY <1>1, <1>6 DEF Blames, Owed, Truth
  <2>2. /\ book'.login_due >= book.login_due + Truth(Blames(g))
        /\ book'.fetch_due >= book.fetch_due + Truth(Owed(g))
    <3>1. book \in Books
          BY DEF IInv, Types
    <3>2. Blames(g) => a \in {"refused", "lost"}
          BY <1>4 DEF Blames
    <3>3. Owed(g) => a = "refused"
          BY <1>4 DEF Owed
    <3> QED BY <1>7, <3>1, <3>2, <3>3 DEF Books, Truth
  <2>3. book.login_due \in Int /\ book'.login_due \in Int
        /\ book.fetch_due \in Int /\ book'.fetch_due \in Int
        BY <1>7 DEF IInv, Types, Books
  <2>4. Truth(Blames(g)) \in Int /\ Truth(Owed(g)) \in Int
        BY DEF Truth
  <2> QED BY <1>5, <1>6, <2>1, <2>2, <2>3, <2>4 DEF IInv, Causes, Paced, Truth
<1>12. Honoured' /\ Overtaken'
  <2>1. CASE a = "refused"
    <3>1. ~book.broken => book.culls # 0
          BY <1>1, <1>2, <2>1 DEF IInv, Honoured
    <3>2. ~book.broken /\ book.culls = 1 => ~fetch[c].again /\ ~(minting = "issued" /\ book.logins \notin live)
          BY <1>1, <1>2, <2>1 DEF IInv, Overtaken
    <3>3. book'.broken = book.broken
          BY <1>2, <2>1 DEF IInv, Types, Books
    <3> QED BY <1>4, <1>5, <1>6, <1>7, <3>1, <3>2, <3>3 DEF IInv, Honoured, Overtaken
  <2>2. CASE a # "refused"
        BY <1>4, <1>5, <1>6, <1>7, <2>2 DEF IInv, Honoured, Overtaken, Refusal
  <2> QED BY <2>1, <2>2
<1>13. RefusalIsReal'
      BY <1>4, <1>5, <1>7, ToldOnce DEF IInv
<1> QED BY <1>8, <1>9, <1>10, <1>11, <1>12, <1>13 DEF IInv

\* The books of a login, and of n requests.
LEMMA LoginBook ==
    ASSUME NEW b \in Books
    PROVE  /\ Login(b) \in Books /\ Login(b).logins = b.logins + 1
           /\ Login(b).login_due = b.login_due - 1 /\ Login(b).fetch_due = b.fetch_due
           /\ Login(b).culls = b.culls /\ Login(b).broken = b.broken
<1>1. b.logins + 1 \in Nat /\ b.login_due - 1 \in Int
      BY DEF Books
<1>2. Login(b) \in Books
      BY <1>1 DEF Books, Login
<1>3. /\ Login(b).logins = b.logins + 1
      /\ Login(b).login_due = b.login_due - 1 /\ Login(b).fetch_due = b.fetch_due
      /\ Login(b).culls = b.culls /\ Login(b).broken = b.broken
      BY DEF Books, Login
<1> QED BY <1>2, <1>3

LEMMA SentBook ==
    ASSUME NEW b \in Books, NEW n \in Nat
    PROVE  /\ Sent(b, n) \in Books /\ Sent(b, n).logins = b.logins
           /\ Sent(b, n).login_due = b.login_due /\ Sent(b, n).fetch_due = b.fetch_due - n
           /\ Sent(b, n).culls = b.culls /\ Sent(b, n).broken = b.broken
<1>1. b.fetch_due - n \in Int
      BY DEF Books
<1>2. Sent(b, n) \in Books
      BY <1>1 DEF Books, Sent
<1>3. /\ Sent(b, n).logins = b.logins
      /\ Sent(b, n).login_due = b.login_due /\ Sent(b, n).fetch_due = b.fetch_due - n
      /\ Sent(b, n).culls = b.culls /\ Sent(b, n).broken = b.broken
      BY DEF Books, Sent
<1> QED BY <1>2, <1>3

\* A caller that finds no token: it has the cause of the login that it starts, or waits for
\* the one in flight.
LEMMA WaitsKeeps ==
    ASSUME IInv, NEW c \in Callers, NEW f \in Fetches, fetch' = [fetch EXCEPT ![c] = Awaits(f)],
           IF minting = "no" THEN minting' = "asked" /\ book' = Login(book)
                             ELSE UNCHANGED minting /\ book' = book,
           token' = None, UNCHANGED live, slot' \in {"free", "spent"},
           token = None \/ Blames(fetch[c]),
           Truth(slot' = "free") + 1 - Truth(Owed(fetch[c])) <= Truth(slot = "free"),
           f.again => Refusal(fetch[c]),
           InLine', line' \in Seq(Callers)
    PROVE  IInv'
<1>1. PICK g : g = Awaits(f)
      OBVIOUS
<1>2. g \in Fetches /\ g.at = "login" /\ g.again = f.again
      BY <1>1 DEF Awaits, Fetches, Steps
<1>3. /\ fetch' \in [Callers -> Fetches] /\ fetch'[c] = g
      /\ \A d \in Callers \ {c} : fetch'[d] = fetch[d]
      /\ BlameCount \in Nat /\ OwedCount \in Nat
      /\ BlameCount' = BlameCount - Truth(Blames(fetch[c])) + Truth(Blames(g))
      /\ OwedCount' = OwedCount - Truth(Owed(fetch[c])) + Truth(Owed(g))
      BY <1>1, <1>2, OneCaller DEF IInv
<1>4. book \in Books /\ book.logins \in Nat /\ book.login_due \in Int /\ book.fetch_due \in Int
      /\ book.culls \in Nat
      BY BoundsAssumption DEF IInv, Types, Books
<1>5. /\ book' \in Books /\ book'.culls = book.culls /\ book'.broken = book.broken
      /\ book'.fetch_due = book.fetch_due
      /\ book'.login_due = book.login_due - Truth(minting = "no")
      /\ book'.logins = book.logins + Truth(minting = "no")
  <2>1. CASE minting = "no"
        BY <1>4, <2>1, LoginBook DEF Truth
  <2>2. CASE minting # "no"
        BY <1>4, <2>2 DEF Truth
  <2> QED BY <2>1, <2>2
<1>6. minting' \in {"asked", "issued", "failed"} /\ (minting' = minting \/ minting = "no")
      /\ (minting' # "asked" => minting' = minting)
      BY DEF IInv, Types
<1>7. Types'
  <2>1. book'.logins \in Nat /\ book.logins <= book'.logins
        BY <1>4, <1>5 DEF Truth
  <2>2. live' \subseteq 1..book'.logins /\ token' \in 0..book'.logins
        BY <1>4, <2>1 DEF IInv, Types, None
  <2> QED BY <1>3, <1>5, <1>6, <2>2 DEF IInv, Types
<1>8. Backing'
      BY <1>2, <1>3 DEF IInv, Backing
<1>9. Holder'
  <2>1. book'.logins > 0
        BY <1>4, <1>5 DEF IInv, Holder, Types, Truth
  <2>2. minting' = "failed" => book'.broken
        BY <1>5, <1>6 DEF IInv, Holder
  <2> QED BY <1>2, <1>3, <1>5, <1>6, <2>1, <2>2 DEF IInv, Holder
<1>10. Causes'
  <2>1. Truth(Blames(g)) = 0
        BY <1>2 DEF Blames, Truth
  <2>2. Truth(minting = "no") <= Truth(Blames(fetch[c])) + Truth(token = None /\ minting = "no")
        BY DEF Truth
  <2>3. Truth(minting' = "failed") = Truth(minting = "failed")
        BY <1>6 DEF Truth
  <2>4. Truth(token' = None /\ minting' = "no") = 0
        BY <1>6 DEF Truth
  <2>5. PICK m \in Int, x \in Int, y \in Int, z \in Int :
           /\ m = Truth(minting = "no") /\ x = Truth(Blames(fetch[c]))
           /\ y = Truth(token = None /\ minting = "no") /\ z = Truth(minting = "failed")
        BY DEF Truth
  <2>6. book.login_due >= BlameCount + z + y
        BY <2>5 DEF IInv, Causes
  <2>7. BlameCount' = BlameCount - x + 0
        BY <1>3, <2>1, <2>5
  <2>8. book'.login_due = book.login_due - m /\ m <= x + y
        BY <1>5, <2>2, <2>5
  <2>9. book'.login_due >= BlameCount' + z + 0
    <3>1. \A b, d \in Int : d >= b + z + y /\ m <= x + y => d - m >= (b - x + 0) + z + 0
          OBVIOUS
    <3>2. BlameCount \in Int /\ book.login_due \in Int
          BY <1>3, <1>4
    <3> QED BY <2>6, <2>7, <2>8, <3>1, <3>2
  <2>10. z = Truth(minting' = "failed") /\ 0 = Truth(token' = None /\ minting' = "no")
        BY <2>3, <2>4, <2>5
  <2> QED BY <2>9, <2>10 DEF Causes
<1>11. Paced'
  <2>1. Truth(Owed(g)) = 1
        BY <1>2 DEF Owed, Truth
  <2>2. PICK x \in Int, y \in Int, z \in Int :
           /\ x = Truth(slot' = "free") /\ y = Truth(Owed(fetch[c])) /\ z = Truth(slot = "free")
        BY DEF Truth
  <2>3. book.fetch_due >= OwedCount + z /\ x + 1 - y <= z
        BY <2>2 DEF IInv, Paced
  <2>4. OwedCount' = OwedCount - y + 1
        BY <1>3, <2>1, <2>2
  <2>5. book'.fetch_due >= OwedCount' + x
    <3>1. \A b, d \in Int : d >= b + z /\ x + 1 - y <= z => d >= (b - y + 1) + x
          OBVIOUS
    <3>2. OwedCount \in Int /\ book.fetch_due \in Int
          BY <1>3, <1>4
    <3> QED BY <1>5, <2>3, <2>4, <3>1, <3>2
  <2> QED BY <2>2, <2>5 DEF Paced
<1>12. Honoured'
  <2>1. ~book.broken /\ book.culls = 0 => ~f.again /\ token = None
        BY DEF IInv, Honoured, Refusal, Blames, Holder
  <2> QED BY <1>2, <1>3, <1>5, <1>6, <2>1 DEF IInv, Honoured, Refusal, None
<1>13. Overtaken'
  <2>1. ASSUME ~book.broken, book.culls = 1
        PROVE  f.again /\ minting' = "issued" => book'.logins \in live
    <3>1. f.again /\ minting' = "issued" => book.logins \in live
          BY <1>6, <2>1 DEF IInv, Overtaken
    <3> QED BY <1>6, <3>1
  <2> QED BY <1>2, <1>3, <1>5, <1>6, <2>1 DEF IInv, Overtaken, Refusal
<1>14. RefusalIsReal'
      BY <1>1, <1>2, <1>5, ToldOnce DEF IInv
<1> QED BY <1>7, <1>8, <1>9, <1>10, <1>11, <1>12, <1>13, <1>14 DEF IInv

\* A first refusal asks again with the next token.
LEMMA RefusalKeeps ==
    ASSUME IInv, NEW c \in Callers, Refused(c), ~fetch[c].again
    PROVE  IInv'
<1>1. fetch[c] \in Fetches /\ fetch[c].at = "answered" /\ fetch[c].answer = "refused"
      BY DEF IInv, Types, Refused
<1>2. PICK f : f = [fetch[c] EXCEPT !.again = TRUE]
      OBVIOUS
<1>3. f \in Fetches
      BY <1>1, <1>2 DEF Fetches
<1>4. /\ fetch' = [fetch EXCEPT ![c] = Awaits(f)] /\ token' = None
      /\ IF minting = "no" THEN minting' = "asked" /\ book' = Login(book)
                           ELSE UNCHANGED minting /\ book' = book
      /\ UNCHANGED <<live, line, slot>>
      BY <1>2 DEF Refused, get, None
<1>5. Blames(fetch[c]) /\ Refusal(fetch[c]) /\ Owed(fetch[c])
      BY <1>1 DEF Blames, Refusal, Owed
<1>6. Truth(slot' = "free") + 1 - Truth(Owed(fetch[c])) <= Truth(slot = "free")
      BY <1>4, <1>5 DEF Truth
<1>7. InLine' /\ line' \in Seq(Callers)
  <2>1. Awaits(f) \in Fetches /\ Awaits(f).at # "pace"
        BY <1>3 DEF Awaits, Fetches, Steps
  <2> QED BY <1>1, <1>4, <2>1, LineKept DEF IInv, Types
<1>8. slot' \in {"free", "spent"}
      BY <1>4 DEF IInv, Types
<1> QED BY <1>3, <1>4, <1>5, <1>6, <1>7, <1>8, WaitsKeeps

\* A slot: the first in line asks, or waits for the token.
LEMMA TurnKeeps ==
    ASSUME IInv, Turn
    PROVE  IInv'
<1>1. PICK c : c = Head(line)
      OBVIOUS
<1>2. c \in Callers /\ fetch[c] \in Fetches /\ fetch[c].at = "pace" /\ ~fetch[c].again
  <2>1. line \in Seq(Callers) /\ line # <<>>
        BY DEF IInv, Types, Turn
  <2>2. c \in Callers /\ 1 \in DOMAIN line /\ line[1] = c
        BY <1>1, <2>1, HeadTailProperties, EmptySeq, LenProperties
  <2> QED BY <2>2 DEF IInv, Types, InLine, Holder
<1>3. slot = "free" /\ slot' = "spent" /\ UNCHANGED <<token, live>>
      /\ line # <<>> /\ line' = Tail(line)
      BY DEF Turn
<1>4. CASE token = None
  <2>1. /\ fetch' = [fetch EXCEPT ![c] = Awaits(fetch[c])] /\ token' = None
        /\ IF minting = "no" THEN minting' = "asked" /\ book' = Login(book)
                             ELSE UNCHANGED minting /\ book' = book
        BY <1>1, <1>4 DEF Turn, get
  <2>2. Truth(slot' = "free") + 1 - Truth(Owed(fetch[c])) <= Truth(slot = "free")
        BY <1>2, <1>3 DEF Owed, Truth
  <2>3. InLine' /\ line' \in Seq(Callers)
    <3>1. Awaits(fetch[c]) \in Fetches /\ Awaits(fetch[c]).at # "pace"
          BY <1>2 DEF Awaits, Fetches, Steps
    <3> QED BY <1>1, <1>2, <1>3, <2>1, <3>1, LineLeft DEF IInv
  <2> QED BY <1>2, <1>3, <1>4, <2>1, <2>2, <2>3, WaitsKeeps
<1>5. CASE token # None
  <2>1. PICK g : g = Asks(fetch[c], token)
        OBVIOUS
  <2>2. g \in Fetches /\ g.at = "asked" /\ g.token = token /\ ~g.again
    <3>1. token \in Nat
          BY DEF IInv, Types, Books
    <3> QED BY <1>2, <2>1, <3>1 DEF Asks, Fetches, Steps
  <2>3. /\ fetch' = [fetch EXCEPT ![c] = g] /\ book' = Sent(book, 1) /\ minting' = minting
        BY <1>1, <1>5, <2>1 DEF Turn, get
  <2>4. /\ fetch' \in [Callers -> Fetches] /\ fetch'[c] = g
        /\ \A d \in Callers \ {c} : fetch'[d] = fetch[d]
        /\ BlameCount \in Nat /\ OwedCount \in Nat
        /\ BlameCount' = BlameCount - Truth(Blames(fetch[c])) + Truth(Blames(g))
        /\ OwedCount' = OwedCount - Truth(Owed(fetch[c])) + Truth(Owed(g))
        BY <1>2, <2>2, <2>3, OneCaller DEF IInv
  <2>5. book \in Books
        BY DEF IInv, Types
  <2>6. /\ book' \in Books /\ book'.logins = book.logins /\ book'.login_due = book.login_due
        /\ book'.fetch_due = book.fetch_due - 1
        /\ book'.culls = book.culls /\ book'.broken = book.broken
        BY <2>3, <2>5, SentBook
  <2>7. InLine' /\ line' \in Seq(Callers)
        BY <1>1, <1>2, <1>3, <2>2, <2>3, LineLeft DEF IInv
  <2>8. Types' /\ Backing' /\ Holder'
        BY <1>3, <1>5, <2>2, <2>3, <2>4, <2>6, <2>7 DEF IInv, Types, Backing, Holder
  <2>9. BlameCount' = BlameCount /\ OwedCount' = OwedCount
    <3>1. /\ Truth(Blames(fetch[c])) = 0 /\ Truth(Blames(g)) = 0
          /\ Truth(Owed(fetch[c])) = 0 /\ Truth(Owed(g)) = 0
          BY <1>2, <2>2 DEF Blames, Owed, Truth
    <3> QED BY <2>4, <3>1
  <2>10. Causes'
        BY <1>3, <2>3, <2>6, <2>9 DEF IInv, Causes
  <2>11. Paced'
    <3>1. book.fetch_due >= OwedCount + 1
          BY <1>3 DEF IInv, Paced, Truth
    <3>2. book.fetch_due - 1 >= OwedCount + 0
          BY <2>4, <2>5, <3>1 DEF Books
    <3> QED BY <1>3, <2>6, <2>9, <3>2 DEF Paced, Truth
  <2>12. Honoured' /\ Overtaken'
    <3>1. minting = "no"
          BY <1>5 DEF IInv, Holder
    <3> QED BY <1>3, <1>5, <2>2, <2>3, <2>4, <2>6, <3>1 DEF IInv, Honoured, Overtaken, Refusal
  <2>13. RefusalIsReal'
        BY <1>2, <2>2, <2>3, <2>6, ToldOnce DEF IInv
  <2> QED BY <2>7, <2>8, <2>10, <2>11, <2>12, <2>13 DEF IInv
<1> QED BY <1>4, <1>5

-----------------------------------------------------------------------------
(* The steps of no caller *)

LEMMA CountsStay ==
    ASSUME fetch' = fetch
    PROVE  BlameCount' = BlameCount /\ OwedCount' = OwedCount
BY DEF BlameCount, OwedCount

LEMMA IntervalKeeps ==
    ASSUME IInv, IntervalEnds
    PROVE  IInv'
<1>1. book \in Books /\ book.fetch_due + 1 \in Int
      BY DEF IInv, Types, Books
<1>2. /\ book' \in Books /\ book'.logins = book.logins /\ book'.login_due = book.login_due
      /\ book'.fetch_due = book.fetch_due + 1
      /\ book'.culls = book.culls /\ book'.broken = book.broken
  <2>1. book' \in Books
        BY <1>1 DEF IntervalEnds, Books
  <2>2. /\ book'.logins = book.logins /\ book'.login_due = book.login_due
        /\ book'.fetch_due = book.fetch_due + 1
        /\ book'.culls = book.culls /\ book'.broken = book.broken
        BY <1>1 DEF IntervalEnds, Books
  <2> QED BY <2>1, <2>2
<1>3. slot = "spent" /\ slot' = "free" /\ UNCHANGED <<token, minting, live, line, fetch>>
      BY DEF IntervalEnds
<1>4. BlameCount' = BlameCount /\ OwedCount' = OwedCount
      BY <1>3, CountsStay
<1>5. Types' /\ InLine' /\ Backing' /\ Holder'
      BY <1>2, <1>3 DEF IInv, Types, InLine, Backing, Holder
<1>6. Causes'
      BY <1>2, <1>3, <1>4 DEF IInv, Causes
<1>7. Paced'
  <2>1. OwedCount \in Nat
        BY CallersAreFinite, FS_Subset, FS_CardinalityType DEF OwedCount
  <2>2. book.fetch_due >= OwedCount + 0
        BY <1>3 DEF IInv, Paced, Truth
  <2>3. book.fetch_due + 1 >= OwedCount + 1
        BY <1>1, <2>1, <2>2 DEF Books
  <2> QED BY <1>2, <1>3, <1>4, <2>3 DEF Paced, Truth
<1>8. Honoured' /\ Overtaken' /\ RefusalIsReal'
      BY <1>2, <1>3 DEF IInv, Honoured, Overtaken, RefusalIsReal
<1> QED BY <1>5, <1>6, <1>7, <1>8 DEF IInv

\* The sessions end: the token that is held or on its way may be one of them.
LEMMA CullKeeps ==
    ASSUME IInv, Cull
    PROVE  IInv'
<1>1. book \in Books /\ book.culls + 1 \in 0..MaxCulls /\ book.culls \in Nat
      BY BoundsAssumption DEF IInv, Types, Books, Cull
<1>2. /\ book' \in Books /\ book'.logins = book.logins /\ book'.login_due = book.login_due
      /\ book'.fetch_due = book.fetch_due
      /\ book'.culls = book.culls + 1 /\ book'.broken = book.broken
  <2>1. book' \in Books
        BY <1>1 DEF Cull, Books
  <2>2. /\ book'.logins = book.logins /\ book'.login_due = book.login_due
        /\ book'.fetch_due = book.fetch_due
        /\ book'.culls = book.culls + 1 /\ book'.broken = book.broken
        BY <1>1 DEF Cull, Books
  <2> QED BY <2>1, <2>2
<1>3. live' = {} /\ UNCHANGED <<token, minting, line, slot, fetch>>
      BY DEF Cull
<1>4. BlameCount' = BlameCount /\ OwedCount' = OwedCount
      BY <1>3, CountsStay
<1>5. Types' /\ InLine' /\ Backing' /\ Holder'
      BY <1>2, <1>3 DEF IInv, Types, InLine, Backing, Holder
<1>6. Causes' /\ Paced'
      BY <1>2, <1>3, <1>4 DEF IInv, Causes, Paced
<1>7. Honoured'
      BY <1>1, <1>2 DEF Honoured
<1>8. Overtaken'
  <2>1. ASSUME ~book.broken, book.culls = 0
        PROVE  /\ \A c \in Callers : ~fetch[c].again /\ ~Refusal(fetch[c])
               /\ minting = "issued" => \A c \in Callers : fetch[c].at # "asked"
        BY <2>1 DEF IInv, Honoured, Holder
  <2> QED BY <1>1, <1>2, <1>3, <2>1 DEF Overtaken
<1>9. RefusalIsReal'
      BY <1>1, <1>2, <1>3 DEF IInv, RefusalIsReal
<1> QED BY <1>5, <1>6, <1>7, <1>8, <1>9 DEF IInv

\* The login's answer: a session that is honoured from now on, or a failure that is the cause
\* of the next login.
LEMMA TokenKeeps ==
    ASSUME IInv, get_session_token
    PROVE  IInv'
<1>1. minting = "asked" /\ UNCHANGED <<token, line, slot, fetch>>
      BY DEF get_session_token
<1>2. book \in Books /\ book.logins \in Nat /\ book.logins > 0 /\ token = None
      BY <1>1 DEF IInv, Types, Books, Holder
<1>3. BlameCount' = BlameCount /\ OwedCount' = OwedCount
      BY <1>1, CountsStay
<1>4. BlameCount \in Nat
      BY CallersAreFinite, FS_Subset, FS_CardinalityType DEF BlameCount
<1>5. CASE minting' = "issued" /\ live' = live \union {book.logins} /\ UNCHANGED book
  <2>1. Types' /\ InLine' /\ Backing' /\ Holder'
    <3>1. live' \subseteq 1..book'.logins
      <4>1. book.logins \in 1..book.logins /\ live \subseteq 1..book.logins
            BY <1>2 DEF IInv, Types
      <4> QED BY <1>5, <4>1
    <3>2. Types'
          BY <1>1, <1>5, <3>1 DEF IInv, Types
    <3>3. InLine' /\ Backing'
          BY <1>1 DEF IInv, InLine, Backing
    <3>4. Holder'
          BY <1>1, <1>5 DEF IInv, Holder
    <3> QED BY <3>2, <3>3, <3>4
  <2>2. Causes' /\ Paced'
    <3>1. Truth(minting' = "failed") = Truth(minting = "failed")
          /\ Truth(token' = None /\ minting' = "no") = Truth(token = None /\ minting = "no")
          BY <1>1, <1>5 DEF Truth
    <3> QED BY <1>1, <1>3, <1>5, <3>1 DEF IInv, Causes, Paced
  <2>3. Honoured' /\ Overtaken' /\ RefusalIsReal'
        BY <1>1, <1>5 DEF IInv, Honoured, Overtaken, RefusalIsReal
  <2> QED BY <2>1, <2>2, <2>3 DEF IInv
<1>6. CASE MayFail /\ minting' = "failed" /\ book' = Break(book) /\ UNCHANGED live
  <2>1. book.faults + 1 \in 0..MaxFaults /\ book.login_due + 1 \in Int
        BY <1>2, <1>6, BoundsAssumption DEF MayFail, Books
  <2>2. /\ book' \in Books /\ book'.logins = book.logins /\ book'.login_due = book.login_due + 1
        /\ book'.fetch_due = book.fetch_due
        /\ book'.culls = book.culls /\ book'.broken
    <3>1. book' \in Books
          BY <1>2, <1>6, <2>1 DEF Break, Books
    <3>2. /\ book'.logins = book.logins /\ book'.login_due = book.login_due + 1
          /\ book'.fetch_due = book.fetch_due
          /\ book'.culls = book.culls /\ book'.broken
          BY <1>2, <1>6 DEF Break, Books
    <3> QED BY <3>1, <3>2
  <2>3. Types' /\ InLine' /\ Backing' /\ Holder'
        BY <1>1, <1>2, <1>6, <2>2 DEF IInv, Types, InLine, Backing, Holder
  <2>4. Causes'
    <3>1. book.login_due >= BlameCount + 0 + 0
          BY <1>1 DEF IInv, Causes, Truth
    <3>2. book.login_due + 1 >= BlameCount + 1 + 0
          BY <1>2, <1>4, <3>1 DEF Books
    <3> QED BY <1>1, <1>3, <1>6, <2>2, <3>2 DEF Causes, Truth
  <2>5. Paced'
        BY <1>1, <1>3, <2>2 DEF IInv, Paced
  <2>6. Honoured' /\ Overtaken' /\ RefusalIsReal'
        BY <1>1, <2>2 DEF IInv, Honoured, Overtaken, RefusalIsReal
  <2> QED BY <2>3, <2>4, <2>5, <2>6 DEF IInv
<1> QED BY <1>5, <1>6 DEF get_session_token

\* The login is over for all who wait for it at once.
LEMMA ReturnsKeeps ==
    ASSUME IInv, LoginReturns
    PROVE  IInv'
<1> DEFINE Waiting == {c \in Callers : fetch[c].at = "login"}
<1>1. minting \in {"issued", "failed"} /\ minting' = "no" /\ UNCHANGED <<live, line, slot>>
      BY DEF LoginReturns
<1>2. /\ book \in Books /\ book.logins \in Nat /\ book.logins > 0 /\ token = None
      /\ book.fetch_due \in Int /\ book.login_due \in Int
      /\ fetch \in [Callers -> Fetches]
      BY <1>1 DEF IInv, Types, Books, Holder
<1>3. PICK W, O, B : /\ W = Waiting /\ O = {c \in Callers : Owed(fetch[c])}
                     /\ B = {c \in Callers : Blames(fetch[c])}
      OBVIOUS
<1>4. /\ W \subseteq O /\ O \subseteq Callers /\ B \subseteq Callers
      /\ OwedCount = Cardinality(O) /\ BlameCount = Cardinality(B)
      BY <1>3 DEF OwedCount, BlameCount, Owed, Blames
<1>5. /\ Cardinality(O \ W) = Cardinality(O) - Cardinality(W)
      /\ Cardinality(O) \in Nat /\ Cardinality(W) \in Nat /\ Cardinality(O \ W) \in Nat
      /\ Cardinality(B) \in Nat
  <2>1. IsFiniteSet(O) /\ IsFiniteSet(B) /\ IsFiniteSet(W) /\ IsFiniteSet(O \ W)
        BY <1>4, CallersAreFinite, FS_Subset
  <2>2. O \cap W = W
        BY <1>4
  <2> QED BY <2>1, <2>2, FS_Difference, FS_CardinalityType
<1>6. ASSUME fetch' \in [Callers -> Fetches],
             \A c \in Callers \ W : fetch'[c] = fetch[c],
             \A c \in W : fetch'[c].at \in {"asked", "backoff", "done"}
      PROVE  BlameCount' = BlameCount /\ OwedCount' = Cardinality(O \ W) /\ InLine'
  <2>1. \A c \in Callers : Blames(fetch'[c]) <=> Blames(fetch[c])
        BY <1>3, <1>6 DEF Blames
  <2>2. \A c \in Callers : Owed(fetch'[c]) <=> Owed(fetch[c]) /\ c \notin W
        BY <1>3, <1>6 DEF Owed
  <2>3. {c \in Callers : Owed(fetch'[c])} = O \ W /\ {c \in Callers : Blames(fetch'[c])} = B
        BY <1>3, <2>1, <2>2
  <2>4. BlameCount' = Cardinality({c \in Callers : Blames(fetch'[c])})
        /\ OwedCount' = Cardinality({c \in Callers : Owed(fetch'[c])})
        BY DEF BlameCount, OwedCount, Blames, Owed
  <2>5. \A c \in Callers : fetch'[c].at = "pace" <=> fetch[c].at = "pace"
        BY <1>3, <1>6
  <2>6. InLine'
        BY <1>1, <2>5 DEF IInv, InLine
  <2> QED BY <1>4, <2>3, <2>4, <2>6
<1>7. CASE minting = "issued"
  <2>1. /\ token' = book.logins /\ book' = Sent(book, Cardinality(W))
        /\ fetch' = [c \in Callers |-> IF c \in W THEN Asks(fetch[c], book.logins) ELSE fetch[c]]
        BY <1>3, <1>7 DEF LoginReturns
  <2>2. \A c \in W : /\ Asks(fetch[c], book.logins) \in Fetches
                     /\ Asks(fetch[c], book.logins).at = "asked"
                     /\ Asks(fetch[c], book.logins).token = book.logins
                     /\ Asks(fetch[c], book.logins).again = fetch[c].again
    <3> SUFFICES ASSUME NEW c \in W
                 PROVE  /\ Asks(fetch[c], book.logins) \in Fetches
                        /\ Asks(fetch[c], book.logins).at = "asked"
                        /\ Asks(fetch[c], book.logins).token = book.logins
                        /\ Asks(fetch[c], book.logins).again = fetch[c].again
        OBVIOUS
    <3>1. fetch[c] \in Fetches
          BY <1>2, <1>3
    <3> QED BY <1>2, <3>1 DEF Asks, Fetches, Steps
  <2>3. /\ fetch' \in [Callers -> Fetches]
        /\ \A c \in Callers \ W : fetch'[c] = fetch[c]
        /\ \A c \in W : /\ fetch'[c].at = "asked" /\ fetch'[c].token = book.logins
                        /\ fetch'[c].again = fetch[c].again
    <3>1. \A c \in Callers : fetch'[c] = IF c \in W THEN Asks(fetch[c], book.logins) ELSE fetch[c]
          BY <2>1
    <3>2. \A c \in Callers : fetch'[c] \in Fetches
          BY <1>2, <2>2, <3>1
    <3>3. fetch' \in [Callers -> Fetches]
          BY <2>1, <3>2
    <3> QED BY <1>3, <2>2, <3>1, <3>3
  <2>4. BlameCount' = BlameCount /\ OwedCount' = Cardinality(O \ W) /\ InLine'
        BY <1>6, <2>3
  <2>5. /\ book' \in Books /\ book'.logins = book.logins /\ book'.login_due = book.login_due
        /\ book'.fetch_due = book.fetch_due - Cardinality(W)
        /\ book'.culls = book.culls /\ book'.broken = book.broken
        BY <1>2, <1>5, <2>1, SentBook
  <2>6. Types'
        BY <1>1, <1>2, <2>1, <2>3, <2>5 DEF IInv, Types
  <2>7. Backing' /\ Holder'
        BY <1>1, <1>2, <1>3, <2>3, <2>5 DEF IInv, Backing, Holder, None
  <2>8. Causes'
    <3>1. book.login_due >= BlameCount + 0 + 0
          BY <1>2, <1>7 DEF IInv, Causes, Truth
    <3>2. Truth(minting' = "failed") = 0 /\ Truth(token' = None /\ minting' = "no") = 0
          BY <1>1, <1>2, <2>1 DEF Truth, None
    <3> QED BY <2>4, <2>5, <3>1, <3>2 DEF Causes
  <2>9. Paced'
    <3>1. book.fetch_due >= OwedCount + Truth(slot = "free") /\ Truth(slot = "free") \in Int
          BY DEF IInv, Paced, Truth
    <3>2. \A x, o, w, z \in Int : x >= o + z => x - w >= (o - w) + z
          OBVIOUS
    <3>3. book.fetch_due - Cardinality(W) >= Cardinality(O \ W) + Truth(slot = "free")
          BY <1>2, <1>4, <1>5, <3>1, <3>2
    <3> QED BY <1>1, <2>4, <2>5, <3>3 DEF Paced
  <2>10. Honoured'
        BY <1>1, <1>2, <1>3, <1>7, <2>1, <2>3, <2>5 DEF IInv, Honoured, Refusal, None
  <2>11. Overtaken'
        BY <1>1, <1>3, <1>7, <2>3, <2>5 DEF IInv, Overtaken, Refusal
  <2>12. RefusalIsReal'
        BY <1>3, <2>3, <2>5 DEF IInv, RefusalIsReal
  <2> QED BY <2>4, <2>6, <2>7, <2>8, <2>9, <2>10, <2>11, <2>12 DEF IInv
<1>8. CASE minting = "failed"
  <2>1. /\ token' = None /\ book' = book
        /\ fetch' = [c \in Callers |-> IF c \in W THEN Failed(fetch[c]) ELSE fetch[c]]
        BY <1>3, <1>8 DEF LoginReturns
  <2>2. \A c \in W : /\ Failed(fetch[c]) \in Fetches /\ Failed(fetch[c]).at \in {"backoff", "done"}
                     /\ Failed(fetch[c]).at = "backoff" => Failed(fetch[c]).attempt < Attempts
        BY <1>2, <1>3, FailedFetch
  <2>3. /\ fetch' \in [Callers -> Fetches]
        /\ \A c \in Callers \ W : fetch'[c] = fetch[c]
        /\ \A c \in W : /\ fetch'[c].at \in {"backoff", "done"}
                        /\ fetch'[c].at = "backoff" => fetch'[c].attempt < Attempts
    <3>1. \A c \in Callers : fetch'[c] = IF c \in W THEN Failed(fetch[c]) ELSE fetch[c]
          BY <2>1
    <3>2. \A c \in Callers : fetch'[c] \in Fetches
          BY <1>2, <2>2, <3>1
    <3>3. fetch' \in [Callers -> Fetches]
          BY <2>1, <3>2
    <3> QED BY <1>3, <2>2, <3>1, <3>3
  <2>4. BlameCount' = BlameCount /\ OwedCount' = Cardinality(O \ W) /\ InLine'
        BY <1>6, <2>3
  <2>5. book.broken
        BY <1>8 DEF IInv, Holder
  <2>6. Types'
        BY <1>1, <1>2, <2>1, <2>3 DEF IInv, Types
  <2>7. Backing' /\ Holder'
        BY <1>1, <1>2, <1>3, <2>1, <2>3 DEF IInv, Backing, Holder
  <2>8. Causes'
    <3>1. book.login_due >= BlameCount + 1 + 0
          BY <1>8 DEF IInv, Causes, Truth
    <3>2. Truth(minting' = "failed") = 0 /\ Truth(token' = None /\ minting' = "no") = 1
          BY <1>1, <2>1 DEF Truth
    <3>3. book.login_due >= BlameCount + 0 + 1
          BY <1>2, <1>4, <1>5, <3>1
    <3> QED BY <2>1, <2>4, <3>2, <3>3 DEF Causes
  <2>9. Paced'
    <3>1. book.fetch_due >= OwedCount + Truth(slot = "free") /\ Truth(slot = "free") \in Int
          BY DEF IInv, Paced, Truth
    <3>2. \A x, o, z \in Int, w \in Nat : x >= o + z => x >= (o - w) + z
          OBVIOUS
    <3>3. book.fetch_due >= Cardinality(O \ W) + Truth(slot = "free")
          BY <1>2, <1>4, <1>5, <3>1, <3>2
    <3> QED BY <1>1, <2>1, <2>4, <3>3 DEF Paced
  <2>10. Honoured' /\ Overtaken' /\ RefusalIsReal'
        BY <2>1, <2>5 DEF Honoured, Overtaken, RefusalIsReal
  <2> QED BY <2>4, <2>6, <2>7, <2>8, <2>9, <2>10 DEF IInv
<1> QED BY <1>1, <1>7, <1>8

-----------------------------------------------------------------------------
(* The theorem *)

LEMMA SessionStarts ==
    ASSUME Init
    PROVE  IInv
<1>1. 1 \in 1..Attempts /\ MaxFaults \in Nat /\ MaxCulls \in Nat
      BY BoundsAssumption
<1>2. \A c \in Callers : fetch[c] = [at |-> "idle", attempt |-> 1, token |-> None,
                                     again |-> FALSE, answer |-> "none"]
      BY DEF Init
<1>3. /\ token = None /\ minting = "no" /\ live = {} /\ line = <<>> /\ slot = "free"
      /\ book = [logins |-> 0, login_due |-> 1, fetch_due |-> 1, broken |-> FALSE,
                 faults |-> 0, culls |-> 0]
      BY DEF Init
<1>4. Types
  <2>1. fetch \in [Callers -> Fetches]
        BY <1>1 DEF Init, Fetches, Steps, Answers, None
  <2>2. book \in Books
        BY <1>1, <1>3 DEF Books
  <2> QED BY <1>3, <2>1, <2>2 DEF Types, None
<1>5. InLine /\ Backing /\ Holder
  <2>1. DOMAIN line = {}
        BY <1>3
  <2> QED BY <1>2, <1>3, <2>1 DEF InLine, Backing, Holder
<1>6. BlameCount = 0 /\ OwedCount = 0
  <2>1. {c \in Callers : Blames(fetch[c])} = {} /\ {c \in Callers : Owed(fetch[c])} = {}
        BY <1>2 DEF Blames, Owed
  <2> QED BY <2>1, FS_EmptySet DEF BlameCount, OwedCount
<1>7. Causes /\ Paced
      BY <1>3, <1>6 DEF Causes, Paced, Truth
<1>8. Honoured /\ Overtaken /\ RefusalIsReal
      BY <1>2, <1>3 DEF Honoured, Overtaken, RefusalIsReal, Refusal
<1> QED BY <1>4, <1>5, <1>7, <1>8 DEF IInv

LEMMA SessionSteps ==
    ASSUME IInv, [Next]_vars
    PROVE  IInv'
<1>1. CASE UNCHANGED vars
  <2>1. BlameCount' = BlameCount /\ OwedCount' = OwedCount
        BY <1>1, CountsStay DEF vars
  <2> QED BY <1>1, <2>1 DEF vars, IInv, Types, InLine, Backing, Holder, Causes, Paced, Honoured,
           Overtaken, RefusalIsReal
<1>2. ASSUME NEW c \in Callers, fetch_record_with_retry(c) \/ CallerStep(c) PROVE IInv'
  <2>1. CASE Refused(c)
        BY <2>1, AnswersTaken, RefusalKeeps
  <2> QED BY <1>2, <2>1, FetchStarts, AnswersTaken, BrokenKeeps, RetryKeeps, RecordKeeps DEF CallerStep
<1> QED BY <1>1, <1>2, TurnKeeps, IntervalKeeps, TokenKeeps, ReturnsKeeps, CullKeeps DEF Next

\* However many stages fetch at once and whatever ArchivesSpace does: the session keeps its
\* types; each login is the first or due to a refusal or a broken connection; one record request
\* is made per interval, and one more per refusal; and a stage is told of a refusal only after
\* two culls or a broken connection (libs/aspace_session.js, libs/archivesspace.js).
THEOREM SessionIsKept == Spec => []SessionInv
<1>1. IInv => SessionInv
  <2> SUFFICES ASSUME IInv PROVE SessionInv
      OBVIOUS
  <2>1. BlameCount \in Nat /\ OwedCount \in Nat
        BY CallersAreFinite, FS_Subset, FS_CardinalityType DEF BlameCount, OwedCount
  <2>2. LoginsHaveCauses /\ LoadIsPaced
    <3>1. book.login_due \in Int /\ book.fetch_due \in Int
          BY DEF IInv, Types, Books
    <3>2. PICK x \in Nat, y \in Nat, z \in Nat :
             /\ x = Truth(minting = "failed") /\ y = Truth(token = None /\ minting = "no")
             /\ z = Truth(slot = "free")
          BY DEF Truth
    <3>3. book.login_due >= BlameCount + x + y /\ book.fetch_due >= OwedCount + z
          BY <3>2 DEF IInv, Causes, Paced
    <3> QED BY <2>1, <3>1, <3>3 DEF LoginsHaveCauses, LoadIsPaced
  <2>3. TypeOK
    <3>1. \A i \in DOMAIN line : fetch[line[i]].at = "pace"
      <4>1. \A i \in DOMAIN line : line[i] \in Callers
            BY ElementOfSeq, LenProperties DEF IInv, Types
      <4> QED BY <4>1 DEF IInv, InLine
    <3>2. \A c \in Callers :
             /\ fetch[c].at \in Steps /\ fetch[c].answer \in Answers
             /\ fetch[c].attempt \in 1..Attempts
          BY DEF IInv, Types, Fetches
    <3>3. book.faults \in 0..MaxFaults /\ book.culls \in 0..MaxCulls /\ book.logins \in Nat
          BY DEF IInv, Types, Books
    <3> QED BY <3>1, <3>2, <3>3 DEF TypeOK, IInv, Types, InLine, Holder
  <2> QED BY <2>2, <2>3 DEF SessionInv, IInv
<1>2. Init => IInv
      BY SessionStarts
<1>3. IInv /\ [Next]_vars => IInv'
      BY SessionSteps
<1> QED BY <1>1, <1>2, <1>3, PTL DEF Spec
=============================================================================
