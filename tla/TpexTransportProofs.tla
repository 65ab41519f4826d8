------------------------ MODULE TpexTransportProofs ------------------------
(***************************************************************************)
(* Proofs about TpexTransport for any number of lanes, dates and versions  *)
(* of a relay file: rows stored as a day's are that day's, whichever       *)
(* transport answered and whichever lane changed the isolate's date, and   *)
(* the relay branch only moves forward.                                    *)
(***************************************************************************)
EXTENDS TpexTransport, TLAPS

USE TransportAssumption DEF Days, NoDay

(***************************************************************************)
(* Types.                                                                  *)
(***************************************************************************)

\* The places a call can be in hold what belongs there.
CallsOK ==
    /\ call \in [Lanes -> [Datasets -> Calls]]
    /\ \A l \in Lanes, s \in Datasets :
        /\ call[l][s].at = "modern" => call[l][s].want # NoDay
        /\ call[l][s].at = "payload" => FirstDate(call[l][s].body) # NoDay

\* The dates, the branch and the workflows.
WorldOK ==
    /\ web \in Days /\ api \in 1 .. web
    /\ relay \in Trees /\ latest \in Days /\ context \in Days \cup {NoDay}
    /\ job \in [Jobs -> [at : {"idle", "loaded", "built"}, tree : Trees]]
    /\ stage \in [Lanes -> {"idle", "exact", "sbl"}]
    /\ faults \in 0 .. MaxFaults

StoredOK == stored \in [Lanes -> [Layers -> SUBSET [label : Days, of : Days]]]

LEMMA TypeParts == TypeOK <=> CallsOK /\ WorldOK /\ StoredOK
BY DEF TypeOK, CallsOK, WorldOK, StoredOK

\* Bodies are made of rows that are of a day.
LEMMA RowsAreRows ==
    ASSUME NEW d \in Days, NEW n \in Days, NEW e \in Days
    PROVE  /\ Row(d, n) \in Rows /\ Row(NoDay, n) \in Rows
           /\ Stamped(d) \in Bodies /\ FirstDate(Stamped(d)) = d
           /\ \A r, q \in Rows : Body(r, q) \in Bodies
           /\ Body(Row(e, d), Row(e, n)) \in Bodies
BY DEF Row, Rows, Stamped, Body, Bodies, FirstDate

LEMMA CallIsCall ==
    ASSUME NEW at \in CallPlace, NEW want \in Days \cup {NoDay}, NEW version \in 0 .. MaxVersion,
           NEW body \in Bodies
    PROVE  /\ Call(at, want, version, body) \in Calls
           /\ Call(at, want, version, body).at = at /\ Call(at, want, version, body).want = want
           /\ Call(at, want, version, body).body = body
BY DEF Call, Calls

LEMMA NoBodyIsBody == NoBody \in Bodies /\ FirstDate(NoBody) = NoDay
BY DEF Bodies, NoBody, FirstDate, Body, Row

LEMMA IdleIsCall == Idle \in Calls /\ Idle.at = "idle"
BY CallIsCall, NoBodyIsBody DEF Idle, CallPlace

\* A call moves on to what belongs where it goes.
LEMMA MovedType ==
    ASSUME CallsOK, NEW l \in Lanes, NEW s \in Datasets, NEW c \in Calls, Moved(l, s, c),
           c.at = "modern" => c.want # NoDay,
           c.at = "payload" => FirstDate(c.body) # NoDay
    PROVE  CallsOK'
<1>1. call' = [call EXCEPT ![l] = [call[l] EXCEPT ![s] = c]]
    BY DEF Moved
<1>2. \A k \in Lanes, t \in Datasets : call'[k][t] = IF k = l /\ t = s THEN c ELSE call[k][t]
    BY <1>1 DEF CallsOK
<1>3. call' \in [Lanes -> [Datasets -> Calls]]
    BY <1>1 DEF CallsOK
<1> QED BY <1>2, <1>3 DEF CallsOK

LEMMA GoesType ==
    ASSUME CallsOK, NEW l \in Lanes, NEW s \in Datasets, NEW at \in {"failed", "manifest", "modern"},
           Goes(l, s, at), at = "modern" => call[l][s].want # NoDay
    PROVE  CallsOK'
<1>1. CASE at = "failed"
    <2>1. Call("failed", NoDay, 0, NoBody) \in Calls /\ Call("failed", NoDay, 0, NoBody).at = "failed"
        BY CallIsCall, NoBodyIsBody DEF CallPlace
    <2> QED BY <1>1, <2>1, MovedType DEF Goes, Fails
<1>2. CASE at # "failed"
    <2>1. call[l][s] \in Calls /\ call[l][s].want \in Days \cup {NoDay}
        BY DEF CallsOK, Calls
    <2> DEFINE c == Call(at, call[l][s].want, 0, NoBody)
    <2>2. c \in Calls /\ c.at = at /\ c.want = call[l][s].want
        BY <2>1, CallIsCall, NoBodyIsBody DEF CallPlace
    <2>3. Moved(l, s, c)
        BY <1>2 DEF Goes
    <2> HIDE DEF c
    <2> QED BY <1>2, <2>2, <2>3, MovedType
<1> QED BY <1>1, <1>2

LEMMA GetsType ==
    ASSUME CallsOK, NEW l \in Lanes, NEW s \in Datasets, NEW b \in Bodies, Gets(l, s, b)
    PROVE  CallsOK'
<1> DEFINE c == Call("got", NoDay, 0, IF s = "sbl_volume" THEN NoBody ELSE b)
<1>1. c \in Calls /\ c.at = "got"
    BY CallIsCall, NoBodyIsBody DEF CallPlace
<1>2. Moved(l, s, c)
    BY DEF Gets
<1> HIDE DEF c
<1> QED BY <1>1, <1>2, MovedType

(***************************************************************************)
(* What the transports answer.                                             *)
(***************************************************************************)

\* A row as a source gives it: of a day, and of the day it carries.
Honest(r) == r \in Rows /\ r.stamp \in {NoDay, r.of}

LEMMA RowsFromAreHonest ==
    ASSUME NEW d \in Days, NEW source, NEW r \in RowsFrom(source, d)
    PROVE  Honest(r)
<1>1. r \in {Row(d, d), Row(NoDay, d)}
    BY DEF RowsFrom
<1> QED BY <1>1 DEF Honest, Row, Rows

LEMMA OpenApiIsHonest ==
    ASSUME NEW b \in OpenApi
    PROVE  b \in Bodies /\ Honest(b.first) /\ Honest(b.rest)
<1>1. PICK r \in UNION {RowsFrom("openapi", d) : d \in {api - 1, api} \cap Days},
           q \in UNION {RowsFrom("openapi", d) : d \in {api - 1, api} \cap Days} : b = Body(r, q)
    BY DEF OpenApi
<1>2. Honest(r) /\ Honest(q)
    BY <1>1, RowsFromAreHonest
<1> QED BY <1>1, <1>2 DEF Body, Bodies, Honest

LEMMA LegacyIsHonest ==
    ASSUME WorldOK, NEW d \in Days, NEW b \in Legacy(d)
    PROVE  b \in Bodies /\ Honest(b.first) /\ b.rest = b.first
<1>1. PICK r \in RowsFrom("legacy", IF d <= web THEN d ELSE web) : b = Body(r, r)
    BY DEF Legacy
<1>2. Honest(r)
    BY <1>1, RowsFromAreHonest DEF WorldOK
<1> QED BY <1>1, <1>2 DEF Body, Bodies, Honest

\* Where every row carries the date, every row is of the date.
LEMMA DatedIsStamped ==
    ASSUME NEW d \in Days, NEW b \in Bodies, Honest(b.first), Honest(b.rest), EveryRowDated(b, d)
    PROVE  b = Stamped(d)
<1>1. b.first = Row(d, d) /\ b.rest = Row(d, d)
    BY DEF EveryRowDated, RowsOf, Honest, Rows, Row
<1>2. b = [first |-> b.first, rest |-> b.rest]
    BY DEF Bodies, NoBody, Body
<1> QED BY <1>1, <1>2 DEF Stamped, Body

\* Old rows of the legacy page are stamped with the date only for lending.
LEMMA LegacyIsStamped ==
    ASSUME WorldOK, NEW s, NEW d \in Days, NEW b \in Legacy(d), LegacyIsGood(s, b, d)
    PROVE  Stamp(d, b) \in Bodies /\ (s \in Exact => Stamp(d, b) = Stamped(d))
<1>1. b \in Bodies /\ Honest(b.first) /\ b.rest = b.first
    BY LegacyIsHonest
<1>2. Stamp(d, b) \in Bodies
    BY <1>1, RowsAreRows DEF Stamp, Honest, Rows
<1>3. s \in Exact => b.first.of = d
    BY <1>1 DEF LegacyIsGood, FirstDate, Honest, Rows
<1> QED BY <1>1, <1>2, <1>3 DEF Stamp, Stamped

\* The modern page proves the date for its rows, whether they carry it or not.
LEMMA ModernIsStamped ==
    ASSUME WorldOK, NEW d \in Days, NEW m \in Modern(d), ModernIsExact(m, d)
    PROVE  Stamp(d, Body(Row(m.table, m.of), Row(m.table, m.of))) = Stamped(d)
<1>1. PICK r \in {web, d}, t \in {NoDay, web} :
        m = [root |-> r, table |-> t, of |-> IF t = NoDay THEN r ELSE t]
    BY DEF Modern
<1>2. m.of = d
    BY <1>1 DEF ModernIsExact, WorldOK
<1> QED BY <1>2 DEF Stamp, Stamped, Body, Row

(***************************************************************************)
(* The calls of a lane.                                                    *)
(***************************************************************************)

\* A call of an exact dataset moves on with its date.
LEMMA MovedDay ==
    ASSUME CallsOK, ExactCallsKeepTheirDay, NEW l \in Lanes, NEW s \in Datasets, NEW c, Moved(l, s, c),
           s \in Exact => /\ c.at \in {"direct", "manifest", "payload", "modern"} => c.want = Target[l]
                          /\ c.at \in {"payload", "got"} => c.body = Stamped(Target[l])
    PROVE  ExactCallsKeepTheirDay'
<1>1. \A k \in Lanes, t \in Datasets : call'[k][t] = IF k = l /\ t = s THEN c ELSE call[k][t]
    BY DEF Moved, CallsOK
<1>2. ASSUME NEW k \in Lanes, NEW t \in Exact
      PROVE  /\ call'[k][t].at \in {"direct", "manifest", "payload", "modern"} => call'[k][t].want = Target[k]
             /\ call'[k][t].at \in {"payload", "got"} => call'[k][t].body = Stamped(Target[k])
    <2>1. t \in Datasets
        BY DEF Datasets
    <2>2. CASE k = l /\ t = s
        BY <1>1, <2>1, <2>2
    <2>3. CASE ~(k = l /\ t = s)
        BY <1>1, <2>1, <2>3 DEF ExactCallsKeepTheirDay
    <2> QED BY <2>2, <2>3
<1> QED BY <1>2 DEF ExactCallsKeepTheirDay, Stamped, Body, Row

LEMMA GoesDay ==
    ASSUME CallsOK, ExactCallsKeepTheirDay, NEW l \in Lanes, NEW s \in Datasets,
           NEW at \in {"failed", "manifest", "modern"}, Goes(l, s, at),
           call[l][s].at \in {"direct", "manifest", "payload", "modern"}
    PROVE  ExactCallsKeepTheirDay'
<1>1. s \in Exact => call[l][s].want = Target[l]
    BY DEF ExactCallsKeepTheirDay
<1>2. CASE at = "failed"
    <2> DEFINE c == Call("failed", NoDay, 0, NoBody)
    <2>1. c.at = "failed"
        BY DEF Call
    <2>2. Moved(l, s, c)
        BY <1>2 DEF Goes, Fails
    <2> HIDE DEF c
    <2> QED BY <2>1, <2>2, MovedDay
<1>3. CASE at # "failed"
    <2> DEFINE c == Call(at, call[l][s].want, 0, NoBody)
    <2>1. c.at = at /\ c.want = call[l][s].want
        BY DEF Call
    <2>2. Moved(l, s, c)
        BY <1>3 DEF Goes
    <2> HIDE DEF c
    <2> QED BY <1>1, <2>1, <2>2, MovedDay
<1> QED BY <1>2, <1>3

LEMMA GetsDay ==
    ASSUME CallsOK, ExactCallsKeepTheirDay, NEW l \in Lanes, NEW s \in Datasets, NEW b, Gets(l, s, b),
           s \in Exact => b = Stamped(Target[l])
    PROVE  ExactCallsKeepTheirDay'
<1> DEFINE c == Call("got", NoDay, 0, IF s = "sbl_volume" THEN NoBody ELSE b)
<1>1. c.at = "got" /\ (s # "sbl_volume" => c.body = b)
    BY DEF Call
<1>2. Moved(l, s, c)
    BY DEF Gets
<1>3. "sbl_volume" \notin Exact
    OBVIOUS
<1> HIDE DEF c
<1> QED BY <1>1, <1>2, <1>3, MovedDay

\* Whatever a transport answers, the call holds what belongs where it is.
LEMMA TransportsKeep ==
    ASSUME CallsOK, WorldOK, ExactCallsKeepTheirDay, NEW l \in Lanes, NEW s \in Datasets,
           Direct(l, s) \/ ReadManifest(l, s) \/ ReadPayload(l, s) \/ ReadModern(l, s)
             \/ ReadLegacy(l, s)
    PROVE  CallsOK' /\ ExactCallsKeepTheirDay'
<1>1. call[l][s] \in Calls /\ call[l][s].want \in Days \cup {NoDay} /\ Target[l] \in Days
    BY DEF CallsOK, Calls
<1>2. s \in Exact /\ call[l][s].at \in {"direct", "manifest", "payload", "modern"}
        => call[l][s].want = Target[l]
    BY DEF ExactCallsKeepTheirDay
<1>3. ASSUME Goes(l, s, "manifest"), call[l][s].at = "direct" PROVE CallsOK' /\ ExactCallsKeepTheirDay'
    BY <1>3, GoesType, GoesDay
<1>4. ASSUME Goes(l, s, AfterRelay(l, s)), call[l][s].at \in {"manifest", "payload"}
      PROVE  CallsOK' /\ ExactCallsKeepTheirDay'
    <2>1. AfterRelay(l, s) \in {"failed", "modern"} /\ (AfterRelay(l, s) = "modern" => call[l][s].want # NoDay)
        BY DEF AfterRelay
    <2> QED BY <1>4, <2>1, GoesType, GoesDay
<1>5. ASSUME Fails(l, s), call[l][s].at = "modern" PROVE CallsOK' /\ ExactCallsKeepTheirDay'
    <2>1. Goes(l, s, "failed")
        BY <1>5 DEF Goes
    <2> QED BY <1>5, <2>1, GoesType, GoesDay
<1>6. CASE Direct(l, s)
    <2>1. CASE \E b \in OpenApi : DirectIsGood(s, b, call[l][s].want) /\ Gets(l, s, b)
        <3>1. PICK b \in OpenApi : DirectIsGood(s, b, call[l][s].want) /\ Gets(l, s, b)
            BY <2>1
        <3>2. b \in Bodies /\ Honest(b.first) /\ Honest(b.rest)
            BY OpenApiIsHonest
        <3>3. s \in Exact => b = Stamped(Target[l])
            BY <1>1, <1>2, <1>6, <3>1, <3>2, DatedIsStamped DEF Direct, DirectIsGood
        <3> QED BY <3>1, <3>2, <3>3, GetsType, GetsDay
    <2> QED BY <1>3, <1>6, <2>1 DEF Direct
<1>7. CASE ReadManifest(l, s)
    <2>1. CASE Goes(l, s, AfterRelay(l, s))
        BY <1>4, <1>7, <2>1 DEF ReadManifest
    <2>2. CASE ~Goes(l, s, AfterRelay(l, s))
        <3> DEFINE d == Wanted(l, s)
                   c == [call[l][s] EXCEPT !.at = "payload", !.version = relay[d][s],
                                           !.body = Stamped(d)]
        <3>1. Moved(l, s, c)
            BY <1>7, <2>2 DEF ReadManifest
        <3>2. d \in Days /\ (s \in Exact => d = Target[l])
            BY <1>1, <1>2, <1>7 DEF ReadManifest, Wanted, WorldOK
        <3>3. relay[d][s] \in 0 .. MaxVersion
            BY <3>2 DEF WorldOK, Trees
        <3>4. Stamped(d) \in Bodies /\ FirstDate(Stamped(d)) = d
            BY <3>2, RowsAreRows
        <3>5. /\ c \in Calls /\ c.at = "payload" /\ c.want = call[l][s].want
              /\ c.body = Stamped(d)
            BY <1>1, <3>3, <3>4 DEF Calls, CallPlace
        <3>6. s \in Exact => c.want = Target[l] /\ c.body = Stamped(Target[l])
            BY <1>2, <1>7, <3>2, <3>5 DEF ReadManifest
        <3> HIDE DEF c, d
        <3> QED BY <3>1, <3>2, <3>4, <3>5, <3>6, MovedType, MovedDay
    <2> QED BY <2>1, <2>2
<1>8. CASE ReadPayload(l, s)
    <2>1. CASE Goes(l, s, AfterRelay(l, s))
        BY <1>4, <1>8, <2>1 DEF ReadPayload
    <2>2. CASE Gets(l, s, call[l][s].body)
        <3>1. call[l][s].body \in Bodies
            BY <1>1 DEF Calls
        <3>2. s \in Exact => call[l][s].body = Stamped(Target[l])
            BY <1>8 DEF ReadPayload, ExactCallsKeepTheirDay
        <3> QED BY <2>2, <3>1, <3>2, GetsType, GetsDay
    <2> QED BY <1>8, <2>1, <2>2 DEF ReadPayload
<1>9. ASSUME call[l][s].at = "modern" PROVE call[l][s].want \in Days
    BY <1>1, <1>9 DEF CallsOK
<1>10. CASE ReadModern(l, s)
    <2> DEFINE d == call[l][s].want
    <2>1. CASE Fails(l, s)
        BY <1>5, <1>10, <2>1 DEF ReadModern
    <2>2. CASE ~Fails(l, s)
        <3>1. PICK m \in Modern(d) : /\ ModernIsExact(m, d)
                                     /\ Gets(l, s, Stamp(d, Body(Row(m.table, m.of), Row(m.table, m.of))))
            BY <1>10, <2>2 DEF ReadModern
        <3>2. d \in Days /\ (s \in Exact => d = Target[l])
            BY <1>2, <1>9, <1>10 DEF ReadModern
        <3>3. Gets(l, s, Stamped(d)) /\ Stamped(d) \in Bodies
            BY <3>1, <3>2, ModernIsStamped, RowsAreRows
        <3> QED BY <3>2, <3>3, GetsType, GetsDay
    <2> QED BY <2>1, <2>2
<1>11. CASE ReadLegacy(l, s)
    <2> DEFINE d == call[l][s].want
    <2>1. CASE Fails(l, s)
        BY <1>5, <1>11, <2>1 DEF ReadLegacy
    <2>2. CASE ~Fails(l, s)
        <3>1. PICK b \in Legacy(d) : LegacyIsGood(s, b, d) /\ Gets(l, s, Stamp(d, b))
            BY <1>11, <2>2 DEF ReadLegacy
        <3>2. d \in Days /\ (s \in Exact => d = Target[l])
            BY <1>2, <1>9, <1>11 DEF ReadLegacy
        <3>3. Stamp(d, b) \in Bodies /\ (s \in Exact => Stamp(d, b) = Stamped(d))
            BY <3>1, <3>2, LegacyIsStamped
        <3> QED BY <3>1, <3>2, <3>3, GetsType, GetsDay
    <2> QED BY <2>1, <2>2
<1> QED BY <1>6, <1>7, <1>8, <1>10, <1>11

\* A lane begins, asks for the lending datasets, and ends.
LEMMA LanesKeep ==
    ASSUME CallsOK, WorldOK, StoredOK, ExactCallsKeepTheirDay, NEW l \in Lanes,
           Wake(l) \/ AskLending(l) \/ Store(l)
    PROVE  CallsOK' /\ ExactCallsKeepTheirDay'
<1>1. Target[l] \in Days /\ 0 \in 0 .. MaxVersion /\ Exact \subseteq Datasets
    BY DEF Datasets
<1>2. ASSUME NEW f \in [Datasets -> Calls], call' = [call EXCEPT ![l] = f],
             \A s \in Datasets : \/ f[s].at \in {"idle", "direct"}
                                 \/ f[s] = call[l][s],
             \A s \in Exact : \/ f[s].at = "idle"
                              \/ f[s].at = "direct" /\ f[s].want = Target[l]
                              \/ f[s] = call[l][s]
      PROVE  CallsOK' /\ ExactCallsKeepTheirDay'
    <2>1. \A k \in Lanes : call'[k] = IF k = l THEN f ELSE call[k]
        BY <1>2 DEF CallsOK
    <2>2. CallsOK'
        BY <1>2, <2>1 DEF CallsOK
    <2>3. ASSUME NEW k \in Lanes, NEW t \in Exact
          PROVE  /\ call'[k][t].at \in {"direct", "manifest", "payload", "modern"}
                      => call'[k][t].want = Target[k]
                 /\ call'[k][t].at \in {"payload", "got"} => call'[k][t].body = Stamped(Target[k])
        BY <1>1, <1>2, <2>1 DEF ExactCallsKeepTheirDay
    <2> QED BY <2>2, <2>3 DEF ExactCallsKeepTheirDay, Stamped, Body, Row
<1>3. ASSUME NEW want \in Days \cup {NoDay}
      PROVE  /\ Call("direct", want, 0, NoBody) \in Calls
             /\ Call("direct", want, 0, NoBody).at = "direct"
             /\ Call("direct", want, 0, NoBody).want = want
    BY <1>1, CallIsCall, NoBodyIsBody DEF CallPlace
<1>4. CASE Wake(l)
    <2> DEFINE f == [s \in Datasets |->
                       IF s \in Due(l) THEN Call("direct", Target[l], 0, NoBody) ELSE Idle]
    <2>1. f \in [Datasets -> Calls] /\ call' = [call EXCEPT ![l] = f]
        BY <1>1, <1>3, <1>4, IdleIsCall DEF Wake
    <2>2. ASSUME NEW s \in Datasets
          PROVE  \/ f[s].at = "idle"
                 \/ f[s].at = "direct" /\ f[s].want = Target[l]
        <3>1. f[s] = IF s \in Due(l) THEN Call("direct", Target[l], 0, NoBody) ELSE Idle
            OBVIOUS
        <3> HIDE DEF f
        <3> QED BY <1>1, <1>3, <3>1, IdleIsCall
    <2> HIDE DEF f
    <2> QED BY <1>1, <1>2, <2>1, <2>2
<1>5. CASE AskLending(l)
    <2> DEFINE f == [s \in Datasets |-> IF s \notin Exact /\ "sbl" \in Due(l)
                       THEN Call("direct", context, 0, NoBody) ELSE call[l][s]]
    <2>1. f \in [Datasets -> Calls] /\ call' = [call EXCEPT ![l] = f]
        BY <1>3, <1>5 DEF AskLending, CallsOK, WorldOK
    <2>2. /\ \A s \in Datasets : f[s].at = "direct" \/ f[s] = call[l][s]
          /\ \A s \in Exact : f[s] = call[l][s]
        BY <1>1, <1>3 DEF WorldOK
    <2> HIDE DEF f
    <2> QED BY <1>2, <2>1, <2>2
<1>6. CASE Store(l)
    <2> DEFINE f == [s \in Datasets |-> Idle]
    <2>1. f \in [Datasets -> Calls] /\ call' = [call EXCEPT ![l] = f]
        BY <1>6, IdleIsCall DEF Store
    <2>2. \A s \in Datasets : f[s] = Idle
        OBVIOUS
    <2> HIDE DEF f
    <2> QED BY <1>1, <1>2, <2>1, <2>2, IdleIsCall
<1> QED BY <1>4, <1>5, <1>6

(***************************************************************************)
(* What is stored.                                                         *)
(***************************************************************************)

\* The rows of a layer are of days; those of an exact one are of its date, and
\* the lending layer has a row of its date.
LEMMA LayerRowsAreOfTheDay ==
    ASSUME CallsOK, ExactCallsKeepTheirDay, NEW l \in Lanes, NEW y \in Layers
    PROVE  /\ LayerRows(l, y) \subseteq [label : Days, of : Days]
           /\ y \in Exact => \A r \in LayerRows(l, y) : r.label = Target[l] /\ r.of = Target[l]
           /\ LayerRows(l, y) # {} => \E r \in LayerRows(l, y) : r.label = Target[l]
<1> DEFINE s == IF y = "sbl" THEN "sbl_balance" ELSE y
<1>1. s \in Datasets /\ Target[l] \in Days
    BY DEF Datasets, Layers
<1>2. CASE LayerRows(l, y) = {}
    BY <1>2
<1>3. CASE LayerRows(l, y) # {}
    <2> DEFINE b == call[l][s].body
    <2>1. LayerRows(l, y) = Labelled(b, Target[l]) /\ Valid(l, s)
        BY <1>3 DEF LayerRows
    <2>2. b \in Bodies /\ FirstDate(b) = Target[l] /\ call[l][s].at = "got"
        BY <1>1, <2>1 DEF Valid, CallsOK, Calls
    <2>3. b.first \in Rows /\ b.rest \in Rows
        BY <1>1, <2>2, NoBodyIsBody DEF Bodies
    <2> HIDE DEF b
    <2>4. \A r \in {b.first, b.rest} :
            [label |-> IF r.stamp = NoDay THEN Target[l] ELSE r.stamp, of |-> r.of]
              \in Labelled(b, Target[l])
        BY DEF Labelled, RowsOf
    <2>5. Labelled(b, Target[l]) \subseteq [label : Days, of : Days]
        BY <1>1, <2>3 DEF Labelled, RowsOf, Rows
    <2>6. \E r \in Labelled(b, Target[l]) : r.label = Target[l]
        BY <1>1, <2>2, <2>3, <2>4 DEF FirstDate
    <2>7. ASSUME y \in Exact
          PROVE  \A r \in Labelled(b, Target[l]) : r.label = Target[l] /\ r.of = Target[l]
        <3>1. s = y
            BY <2>7
        <3>2. b = Stamped(Target[l])
            BY <2>2, <2>7, <3>1 DEF b, ExactCallsKeepTheirDay
        <3> QED BY <1>1, <3>2 DEF Labelled, RowsOf, Stamped, Body, Row
    <2> QED BY <2>1, <2>5, <2>6, <2>7
<1> QED BY <1>2, <1>3

(***************************************************************************)
(* The relay branch.                                                       *)
(***************************************************************************)

\* A workflow that builds on a copy builds on something no older.
LEMMA CopiesStay ==
    ASSUME WorldOK, CopiesAreNoOlder, NEW j \in Jobs, NEW tree \in Trees,
           job[j].at # "idle", relay' = relay, Built(j, tree),
           \A d \in Days, s \in Datasets : job[j].tree[d][s] <= tree[d][s]
    PROVE  CopiesAreNoOlder' /\ job' \in [Jobs -> [at : {"idle", "loaded", "built"}, tree : Trees]]
<1>1. job' = [job EXCEPT ![j] = [at |-> "built", tree |-> tree]]
    BY DEF Built
<1>2. job'[j].tree = tree /\ \A i \in Jobs \ {j} : job'[i] = job[i] /\ job[i].at = "idle"
    BY <1>1 DEF WorldOK, CopiesAreNoOlder
<1>3. ASSUME NEW d \in Days, NEW s \in Datasets PROVE relay[d][s] <= tree[d][s]
    <2>1. /\ relay[d][s] <= job[j].tree[d][s] /\ job[j].tree[d][s] <= tree[d][s]
          /\ relay[d][s] \in Nat /\ job[j].tree[d][s] \in Nat /\ tree[d][s] \in Nat
        BY DEF CopiesAreNoOlder, WorldOK, Trees
    <2> QED BY <2>1
<1> QED BY <1>1, <1>2, <1>3 DEF CopiesAreNoOlder, WorldOK

\* What a workflow publishes is nowhere older than the branch.
LEMMA PublishedIsNoOlder ==
    ASSUME WorldOK, CopiesAreNoOlder, NEW j \in Jobs, PublishRelay(j)
    PROVE  /\ relay' \in Trees
           /\ \A d \in Days, s \in Datasets : relay[d][s] <= relay'[d][s]
           /\ latest' = latest \/ (latest' = Today /\ \E s \in Datasets : relay'[Today][s] # 0)
<1> DEFINE tree == [d \in Days |-> [s \in Datasets |->
                       IF job[j].tree[d][s] # 0 THEN job[j].tree[d][s] ELSE relay[d][s]]]
<1>1. relay' = tree /\ latest' = IF j = "historical" THEN latest ELSE Newest(tree)
    BY DEF PublishRelay
<1>2. \A d \in Days, s \in Datasets :
        /\ tree[d][s] = IF job[j].tree[d][s] # 0 THEN job[j].tree[d][s] ELSE relay[d][s]
        /\ job[j].tree[d][s] \in 0 .. MaxVersion /\ relay[d][s] \in 0 .. MaxVersion
        /\ relay[d][s] <= job[j].tree[d][s]
    <2>1. job[j].at # "idle" /\ job[j].tree \in Trees /\ relay \in Trees
        BY DEF PublishRelay, WorldOK
    <2>2. \A d \in Days, s \in Datasets : relay[d][s] <= job[j].tree[d][s]
        BY <2>1 DEF CopiesAreNoOlder
    <2> QED BY <2>1, <2>2 DEF Trees
<1>3. tree \in Trees
    BY <1>2 DEF Trees
<1> HIDE DEF tree
<1>4. \A d \in Days, s \in Datasets : relay[d][s] <= relay'[d][s]
    BY <1>1, <1>2
<1>5. latest' = latest \/ (latest' = Today /\ \E s \in Datasets : relay'[Today][s] # 0)
    BY <1>1 DEF Newest
<1> QED BY <1>1, <1>3, <1>4, <1>5

\* The empty copy.
LEMMA NoTreeIsTree == NoTree \in Trees
BY DEF NoTree, Trees

\* The dates, the branch and the workflows stay what they are; a workflow's copy
\* is of the branch or of what it has added to it.
LEMMA BranchKeeps ==
    ASSUME TypeOK, CopiesAreNoOlder, LatestIsRelayed, [Next]_vars
    PROVE  /\ relay' \in Trees /\ latest' \in Days
           /\ job' \in [Jobs -> [at : {"idle", "loaded", "built"}, tree : Trees]]
           /\ CopiesAreNoOlder' /\ LatestIsRelayed'
           /\ \A d \in Days, s \in Datasets : relay[d][s] <= relay'[d][s]
<1>1. WorldOK
    BY TypeParts
<1>2. /\ \A d \in Days, s \in Datasets : relay[d][s] \in Nat
      /\ \A j \in Jobs : job[j].tree \in Trees
      /\ \A j \in Jobs, d \in Days, s \in Datasets : job[j].tree[d][s] \in 0 .. MaxVersion
    BY <1>1 DEF WorldOK, Trees
<1> DEFINE Goal == /\ relay' \in Trees /\ latest' \in Days
                   /\ job' \in [Jobs -> [at : {"idle", "loaded", "built"}, tree : Trees]]
                   /\ CopiesAreNoOlder' /\ LatestIsRelayed'
                   /\ \A d \in Days, s \in Datasets : relay[d][s] <= relay'[d][s]
<1>3. ASSUME UNCHANGED <<relay, latest>> PROVE /\ relay' \in Trees /\ latest' \in Days /\ LatestIsRelayed'
                                               /\ \A d \in Days, s \in Datasets : relay[d][s] <= relay'[d][s]
    BY <1>1, <1>2, <1>3 DEF WorldOK, LatestIsRelayed
<1>4. CASE UNCHANGED branch
    BY <1>1, <1>3, <1>4 DEF branch, WorldOK, CopiesAreNoOlder
<1>5. ASSUME NEW j \in Jobs, LoadBranch(j) PROVE Goal
    <2>1. job' = [job EXCEPT ![j] = [at |-> "loaded", tree |-> relay]] /\ UNCHANGED <<relay, latest>>
        BY <1>5 DEF LoadBranch
    <2>2. job' \in [Jobs -> [at : {"idle", "loaded", "built"}, tree : Trees]]
        BY <1>1, <2>1 DEF WorldOK
    <2>3. job'[j].tree = relay /\ \A i \in Jobs \ {j} : job'[i].at = "idle"
        BY <1>1, <1>5, <2>1 DEF LoadBranch, WorldOK
    <2>4. CopiesAreNoOlder'
        BY <1>2, <2>1, <2>3 DEF CopiesAreNoOlder
    <2> QED BY <1>3, <2>1, <2>2, <2>4
<1>6. CASE CaptureToday
    <2> DEFINE old == job["official"].tree
    <2>1. PICK d \in {Today}, S \in {Datasets, Exact, Lending, {}} :
            Built("official", [old EXCEPT ![d] = [s \in Datasets |->
                        IF s \in S /\ old[d][s] = 0 THEN 1 ELSE old[d][s]]])
        BY <1>6 DEF CaptureToday, JobDays
    <2> DEFINE tree == [old EXCEPT ![d] = [s \in Datasets |->
                        IF s \in S /\ old[d][s] = 0 THEN 1 ELSE old[d][s]]]
    <2>2. "official" \in Jobs /\ d \in Days /\ old \in Trees
        BY <1>2 DEF Jobs
    <2>3. [s \in Datasets |-> IF s \in S /\ old[d][s] = 0 THEN 1 ELSE old[d][s]]
            \in [Datasets -> 0 .. MaxVersion]
        BY <1>2, <2>2
    <2>4. tree \in Trees
        BY <2>2, <2>3 DEF Trees
    <2>5. \A e \in Days, s \in Datasets : old[e][s] <= tree[e][s]
        BY <1>2, <2>2 DEF Trees
    <2>6. Built("official", tree) /\ job["official"].at # "idle" /\ UNCHANGED <<relay, latest>>
        BY <1>6, <2>1 DEF CaptureToday
    <2> HIDE DEF tree, old
    <2>7. \A e \in Days, s \in Datasets : job["official"].tree[e][s] <= tree[e][s]
        BY <2>5 DEF old
    <2> QED BY <1>1, <1>3, <2>2, <2>4, <2>6, <2>7, CopiesStay
<1>7. ASSUME NEW j \in Jobs, NEW d \in Days, job[j].at # "idle", UNCHANGED <<relay, latest>>,
             \A s \in Datasets : job[j].tree[d][s] < MaxVersion, Built(j, Anew(job[j].tree, d))
      PROVE  Goal
    <2> DEFINE old == job[j].tree
    <2>1. old \in [Days -> [Datasets -> 0 .. MaxVersion]] /\ MaxVersion \in Nat
        BY <1>2 DEF Trees, TransportAssumption
    <2>2. [s \in Datasets |-> old[d][s] + 1] \in [Datasets -> 0 .. MaxVersion]
        <3>1. ASSUME NEW s \in Datasets PROVE old[d][s] + 1 \in 0 .. MaxVersion
            <4>1. old[d][s] \in 0 .. MaxVersion /\ old[d][s] < MaxVersion
                BY <2>1, <1>7
            <4> QED BY <2>1, <4>1
        <3> HIDE DEF old
        <3> QED BY <3>1
    <2>3. Anew(old, d) \in Trees
        BY <2>1, <2>2 DEF Trees, Anew
    <2>4. ASSUME NEW e \in Days, NEW s \in Datasets PROVE old[e][s] <= Anew(old, d)[e][s]
        <3>1. old[e][s] \in Nat
            BY <2>1
        <3>2. Anew(old, d)[e] = IF e = d THEN [r \in Datasets |-> old[d][r] + 1] ELSE old[e]
            BY <2>1 DEF Anew
        <3> QED BY <3>1, <3>2
    <2> QED BY <1>1, <1>3, <1>7, <2>3, <2>4, CopiesStay
<1>8. ASSUME NEW j \in Jobs, job[j].at # "idle", UNCHANGED <<relay, latest>>, Built(j, job[j].tree)
      PROVE  Goal
    <2>1. \A e \in Days, s \in Datasets : job[j].tree[e][s] <= job[j].tree[e][s]
        BY <1>2
    <2> QED BY <1>1, <1>2, <1>3, <1>8, <2>1, CopiesStay
<1>9. CASE CaptureHistory
    <2>1. "historical" \in Jobs /\ job["historical"].at # "idle" /\ UNCHANGED <<relay, latest>>
        BY <1>9 DEF Jobs, CaptureHistory
    <2>2. JobDays("historical") \subseteq Days
        BY <1>1 DEF JobDays, WorldOK
    <2> QED BY <1>7, <1>8, <1>9, <2>1, <2>2 DEF CaptureHistory
<1>10. ASSUME NEW j \in Jobs, Stops(j), \A i \in Jobs \ {j} : job[i].at = "idle"
       PROVE  /\ job' \in [Jobs -> [at : {"idle", "loaded", "built"}, tree : Trees]]
              /\ CopiesAreNoOlder'
    BY <1>1, <1>10, NoTreeIsTree DEF Stops, WorldOK, CopiesAreNoOlder
<1>11. ASSUME NEW j \in Jobs, Stops(j), UNCHANGED <<relay, latest>>, job[j].at # "idle"
       PROVE  Goal
    <2>1. \A i \in Jobs \ {j} : job[i].at = "idle"
        BY <1>11 DEF CopiesAreNoOlder
    <2> QED BY <1>3, <1>10, <1>11, <2>1
<1>12. CASE CaptureWatchdog
    <2>1. "watchdog" \in Jobs /\ job["watchdog"].at # "idle" /\ UNCHANGED <<relay, latest>>
        BY <1>12 DEF Jobs, CaptureWatchdog
    <2>2. PICK d \in Days :
            \/ Built("watchdog", job["watchdog"].tree) \/ Stops("watchdog")
            \/ /\ \A s \in Datasets : job["watchdog"].tree[d][s] < MaxVersion
               /\ Built("watchdog", Anew(job["watchdog"].tree, d))
        BY <1>12 DEF CaptureWatchdog, JobDays
    <2> QED BY <1>7, <1>8, <1>11, <2>1, <2>2
<1>13. ASSUME NEW j \in Jobs, JobFails(j) PROVE Goal
    BY <1>11, <1>13 DEF JobFails
<1>14. ASSUME NEW j \in Jobs, PublishRelay(j) PROVE Goal
    <2>1. /\ relay' \in Trees
          /\ \A d \in Days, s \in Datasets : relay[d][s] <= relay'[d][s]
          /\ latest' = latest \/ (latest' = Today /\ \E s \in Datasets : relay'[Today][s] # 0)
        BY <1>1, <1>14, PublishedIsNoOlder
    <2>2. \A i \in Jobs \ {j} : job[i].at = "idle"
        BY <1>14 DEF PublishRelay, CopiesAreNoOlder
    <2>3. latest' \in Days
        BY <1>1, <2>1 DEF WorldOK
    <2>4. LatestIsRelayed'
        <3>1. CASE latest' = latest
            <4>1. PICK s \in Datasets : relay[latest][s] # 0
                BY DEF LatestIsRelayed
            <4>2. relay[latest][s] \in Nat /\ relay'[latest][s] \in Nat
                  /\ relay[latest][s] <= relay'[latest][s]
                BY <1>1, <1>2, <2>1 DEF WorldOK, Trees
            <4>3. relay'[latest][s] # 0
                BY <4>1, <4>2
            <4> QED BY <3>1, <4>3 DEF LatestIsRelayed
        <3>2. CASE latest' # latest
            BY <2>1, <3>2 DEF LatestIsRelayed
        <3> QED BY <3>1, <3>2
    <2>5. Stops(j)
        BY <1>14 DEF PublishRelay
    <2> QED BY <1>10, <2>1, <2>2, <2>3, <2>4, <2>5
<1>15. ASSUME NEW l \in Lanes, LaneStep(l) PROVE UNCHANGED branch
    BY <1>15 DEF LaneStep, Wake, AskLending, Store, Direct, ReadManifest, ReadPayload, ReadModern,
        ReadLegacy, Elsewhere
<1>16. UNCHANGED branch \/ CaptureToday \/ CaptureHistory \/ CaptureWatchdog
         \/ \E j \in Jobs : LoadBranch(j) \/ PublishRelay(j) \/ JobFails(j)
    BY <1>15 DEF Next, PublishWeb, PublishApi, vars, branch
<1> QED BY <1>4, <1>5, <1>6, <1>9, <1>12, <1>13, <1>14, <1>16

(***************************************************************************)
(* Theorems.                                                               *)
(***************************************************************************)

\* Dates before today are published, relayed and in their types at the start.
LEMMA InitOK == Init => TransportInv
<1> SUFFICES ASSUME Init PROVE TransportInv
    OBVIOUS
<1>1. CallsOK
    BY IdleIsCall DEF Init, CallsOK
<1>2. WorldOK
    <2>1. relay \in Trees
        BY DEF Init, Trees
    <2>2. job \in [Jobs -> [at : {"idle", "loaded", "built"}, tree : Trees]]
        BY NoTreeIsTree DEF Init
    <2> QED BY <2>1, <2>2 DEF Init, WorldOK
<1>3. StoredOK
    BY DEF Init, StoredOK
<1>4. LendingHasItsDay
    BY DEF Init, LendingHasItsDay, Layers
<1>5. LatestIsRelayed
    BY DEF Init, LatestIsRelayed, Datasets
<1>6. ExactCallsKeepTheirDay
    BY IdleIsCall DEF Init, ExactCallsKeepTheirDay, Datasets
<1>7. CopiesAreNoOlder
    BY DEF Init, CopiesAreNoOlder
<1> QED BY <1>1, <1>2, <1>3, <1>4, <1>5, <1>6, <1>7, TypeParts DEF TransportInv

\* What a lane stores is of the days it is filed under.
LEMMA StoreKeeps ==
    ASSUME CallsOK, StoredOK, ExactCallsKeepTheirDay, NEW l \in Lanes, Store(l)
    PROVE  /\ StoredOK'
           /\ LendingHasItsDay => LendingHasItsDay'
           /\ ExactRowsAreOfTheDay => ExactRowsAreOfTheDay'
<1>1. \A k \in Lanes, y \in Layers : stored'[k][y] \in {stored[k][y], LayerRows(k, y)}
    BY DEF Store, StoredOK
<1>2. StoredOK'
    <2>1. \A y \in Layers : LayerRows(l, y) \in SUBSET [label : Days, of : Days]
        BY LayerRowsAreOfTheDay
    <2> DEFINE f == [y \in Layers |-> IF y \in Due(l) THEN LayerRows(l, y) ELSE stored[l][y]]
    <2>2. f \in [Layers -> SUBSET [label : Days, of : Days]]
        BY <2>1 DEF StoredOK
    <2>3. stored' = [stored EXCEPT ![l] = f]
        BY DEF Store
    <2> HIDE DEF f
    <2> QED BY <2>2, <2>3 DEF StoredOK
<1>3. ASSUME LendingHasItsDay PROVE LendingHasItsDay'
    <2>1. "sbl" \in Layers
        BY DEF Layers
    <2> QED BY <1>1, <1>3, <2>1, LayerRowsAreOfTheDay DEF LendingHasItsDay
<1>4. ASSUME ExactRowsAreOfTheDay PROVE ExactRowsAreOfTheDay'
    <2>1. Exact \subseteq Layers
        BY DEF Layers
    <2> QED BY <1>1, <1>4, <2>1, LayerRowsAreOfTheDay DEF ExactRowsAreOfTheDay
<1> QED BY <1>2, <1>3, <1>4

\* The clocks of the TPEx and of the lanes stay in their types.
LEMMA ClocksKeep ==
    ASSUME TypeOK, [Next]_vars
    PROVE  /\ web' \in Days /\ api' \in 1 .. web' /\ context' \in Days \cup {NoDay}
           /\ stage' \in [Lanes -> {"idle", "exact", "sbl"}] /\ faults' \in 0 .. MaxFaults
<1>1. WorldOK
    BY TypeParts
<1>2. faults' = faults \/ Fault
    <2>1. ASSUME NEW l \in Lanes, LaneStep(l) PROVE faults' = faults \/ Fault
        BY <2>1 DEF LaneStep, Wake, AskLending, Store, Direct, ReadManifest, ReadPayload, ReadModern,
            ReadLegacy
    <2>2. ASSUME NEW j \in Jobs, LoadBranch(j) \/ PublishRelay(j) \/ JobFails(j)
          PROVE  faults' = faults \/ Fault
        BY <2>2 DEF LoadBranch, PublishRelay, JobFails
    <2>3. CASE CaptureToday \/ CaptureHistory \/ CaptureWatchdog
        BY <2>3 DEF CaptureToday, CaptureHistory, CaptureWatchdog
    <2>4. CASE PublishWeb \/ PublishApi \/ UNCHANGED vars
        BY <2>4 DEF PublishWeb, PublishApi, vars
    <2> QED BY <2>1, <2>2, <2>3, <2>4 DEF Next
<1>3. faults' \in 0 .. MaxFaults
    BY <1>1, <1>2 DEF WorldOK, Fault
<1>4. web' \in Days /\ api' \in 1 .. web'
    <2>1. CASE PublishWeb
        BY <1>1, <2>1 DEF PublishWeb, WorldOK
    <2>2. CASE PublishApi
        BY <1>1, <2>2 DEF PublishApi, WorldOK
    <2>3. CASE UNCHANGED external
        BY <1>1, <2>3 DEF external, WorldOK
    <2>4. ASSUME NEW l \in Lanes, LaneStep(l) PROVE UNCHANGED external
        BY <2>4 DEF LaneStep, Wake, AskLending, Store, Direct, ReadManifest, ReadPayload, ReadModern,
            ReadLegacy, Elsewhere
    <2>5. ASSUME NEW j \in Jobs, LoadBranch(j) \/ PublishRelay(j) \/ JobFails(j)
          PROVE  UNCHANGED external
        BY <2>5 DEF LoadBranch, PublishRelay, JobFails
    <2>6. CaptureToday \/ CaptureHistory \/ CaptureWatchdog \/ UNCHANGED vars => UNCHANGED external
        BY DEF CaptureToday, CaptureHistory, CaptureWatchdog, external, vars
    <2> QED BY <2>1, <2>2, <2>3, <2>4, <2>5, <2>6 DEF Next
<1>5. context' \in Days \cup {NoDay} /\ stage' \in [Lanes -> {"idle", "exact", "sbl"}]
    <2>1. ASSUME NEW l \in Lanes, Wake(l) \/ AskLending(l) \/ Store(l)
          PROVE  context' \in Days \cup {NoDay} /\ stage' \in [Lanes -> {"idle", "exact", "sbl"}]
        BY <1>1, <2>1 DEF Wake, AskLending, Store, WorldOK
    <2>2. CASE UNCHANGED <<context, stage>>
        BY <1>1, <2>2 DEF WorldOK
    <2>3. ASSUME NEW l \in Lanes, NEW s \in Datasets,
                 Direct(l, s) \/ ReadManifest(l, s) \/ ReadPayload(l, s) \/ ReadModern(l, s)
                   \/ ReadLegacy(l, s)
          PROVE  UNCHANGED <<context, stage>>
        BY <2>3 DEF Direct, ReadManifest, ReadPayload, ReadModern, ReadLegacy, Elsewhere
    <2>4. ASSUME NEW j \in Jobs, LoadBranch(j) \/ PublishRelay(j) \/ JobFails(j)
          PROVE  UNCHANGED <<context, stage>>
        BY <2>4 DEF LoadBranch, PublishRelay, JobFails
    <2>5. CaptureToday \/ CaptureHistory \/ CaptureWatchdog \/ PublishWeb \/ PublishApi
            \/ UNCHANGED vars => UNCHANGED <<context, stage>>
        BY DEF CaptureToday, CaptureHistory, CaptureWatchdog, PublishWeb, PublishApi, vars
    <2> QED BY <2>1, <2>2, <2>3, <2>4, <2>5 DEF Next, LaneStep
<1> QED BY <1>3, <1>4, <1>5

\* Every step keeps calls and layers as they are said to be.
LEMMA CallsKeep ==
    ASSUME TypeOK, ExactCallsKeepTheirDay, [Next]_vars
    PROVE  /\ CallsOK' /\ ExactCallsKeepTheirDay' /\ StoredOK'
           /\ LendingHasItsDay => LendingHasItsDay'
           /\ ExactRowsAreOfTheDay => ExactRowsAreOfTheDay'
<1>1. CallsOK /\ WorldOK /\ StoredOK
    BY TypeParts
<1>2. ASSUME UNCHANGED stored
      PROVE  /\ StoredOK' /\ (LendingHasItsDay => LendingHasItsDay')
             /\ ExactRowsAreOfTheDay => ExactRowsAreOfTheDay'
    BY <1>1, <1>2 DEF StoredOK, LendingHasItsDay, ExactRowsAreOfTheDay
<1>3. ASSUME UNCHANGED call PROVE CallsOK' /\ ExactCallsKeepTheirDay'
    BY <1>1, <1>3 DEF CallsOK, ExactCallsKeepTheirDay, FirstDate, Stamped, Body, Row
<1>4. ASSUME NEW l \in Lanes, LaneStep(l) PROVE CallsOK' /\ ExactCallsKeepTheirDay'
    BY <1>1, <1>4, LanesKeep, TransportsKeep DEF LaneStep
<1>5. ASSUME NEW l \in Lanes, LaneStep(l), ~Store(l) PROVE UNCHANGED stored
    BY <1>5 DEF LaneStep, Wake, AskLending, Direct, ReadManifest, ReadPayload, ReadModern, ReadLegacy,
        Elsewhere
<1>6. (\E l \in Lanes : LaneStep(l)) \/ UNCHANGED <<call, stored>>
    BY DEF Next, LoadBranch, PublishRelay, JobFails, CaptureToday, CaptureHistory,
        CaptureWatchdog, PublishWeb, PublishApi, vars
<1> QED BY <1>1, <1>2, <1>3, <1>4, <1>5, <1>6, StoreKeeps

\* What is stored and relayed is of the days it is filed under, and so is what
\* is on its way there.
THEOREM TransportIsSound == Spec => []TransportInv
<1>1. TransportInv /\ [Next]_vars => TransportInv'
    <2> SUFFICES ASSUME TransportInv, [Next]_vars PROVE TransportInv'
        OBVIOUS
    <2>1. /\ TypeOK /\ LendingHasItsDay /\ LatestIsRelayed /\ ExactCallsKeepTheirDay
          /\ CopiesAreNoOlder
        BY DEF TransportInv
    <2>2. CallsOK' /\ ExactCallsKeepTheirDay' /\ StoredOK' /\ LendingHasItsDay'
        BY <2>1, CallsKeep
    <2>3. WorldOK' /\ CopiesAreNoOlder' /\ LatestIsRelayed'
        BY <2>1, ClocksKeep, BranchKeeps DEF WorldOK
    <2>4. TypeOK'
        BY <2>2, <2>3 DEF TypeOK, CallsOK, WorldOK, StoredOK
    <2> QED BY <2>2, <2>3, <2>4 DEF TransportInv
<1> QED BY <1>1, InitOK, PTL DEF Spec

\* The rows stored for the institutional and margin layers of a date are that
\* date's, whatever the TPEx answers and whichever transport answered.
THEOREM ExactRowsStay == Spec => []ExactRowsAreOfTheDay
<1>1. Init => ExactRowsAreOfTheDay
    BY DEF Init, ExactRowsAreOfTheDay, Layers
<1>2. TransportInv /\ ExactRowsAreOfTheDay /\ [Next]_vars => ExactRowsAreOfTheDay'
    BY CallsKeep DEF TransportInv
<1> QED BY <1>1, <1>2, TransportIsSound, PTL DEF Spec

\* A file of the relay branch is never lost or replaced by an older one.
THEOREM RelayOnlyGrows == Spec => RelayIsMonotonic
<1>1. TransportInv /\ [Next]_vars =>
        [\A d \in Days, s \in Datasets : relay[d][s] <= relay'[d][s]]_vars
    BY BranchKeeps DEF TransportInv
<1> QED BY <1>1, TransportIsSound, PTL DEF Spec, RelayIsMonotonic
=============================================================================
