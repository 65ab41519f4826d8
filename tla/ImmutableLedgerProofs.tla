----------------------- MODULE ImmutableLedgerProofs -----------------------
(***************************************************************************)
(* Proofs about ImmutableLedger for any number of callers, keys, contents, *)
(* retries, calls and faults.  One fact carries them: a record that is     *)
(* there never changes, so what a call has read of it stays true however   *)
(* late the call, or a PUT it left behind, makes use of it.                *)
(* The theorems about MarketReaders follow in a part of their own; the     *)
(* two machines share no name.                                             *)
(***************************************************************************)
EXTENDS ImmutableLedger, MarketReaders, TLAPS

USE LedgerAssumption

(***************************************************************************)
(* Types.                                                                  *)
(***************************************************************************)

\* The empty ledger is well typed.
LEMMA InitTypeOK == Init => TypeOK
BY DEF Init, TypeOK

\* Every step keeps the variables in their sets.
LEMMA NextTypeOK == TypeOK /\ [Next]_vars => TypeOK'
<1> SUFFICES ASSUME TypeOK, [Next]_vars PROVE TypeOK'
    OBVIOUS
<1> USE DEF TypeOK, files, caller, Go, Return, Throw
<1>1. ASSUME NEW c \in Callers, NEW k \in Keys, NEW h \in Hashes, Call(c, k, h)
      PROVE  TypeOK'
    <2>1. calls + 1 \in 1..MaxCalls
        BY <1>1 DEF Call
    <2>2. [hash |-> h, at |-> calls + 1] \in Record
        BY <2>1 DEF Record
    <2> QED BY <1>1, <2>1, <2>2 DEF Call
<1>2. ASSUME NEW c \in Callers, CheckReference(c) PROVE TypeOK'
    BY <1>2 DEF CheckReference
<1>3. ASSUME NEW c \in Callers, ReplayFound(c) PROVE TypeOK'
    BY <1>3 DEF ReplayFound, Record
<1>4. ASSUME NEW c \in Callers, LookupConflict(c) PROVE TypeOK'
    BY <1>4 DEF LookupConflict
<1>5. ASSUME NEW c \in Callers, LookupFree(c) PROVE TypeOK'
    BY <1>5 DEF LookupFree
<1>6. ASSUME NEW c \in Callers, ReadRecord(c) PROVE TypeOK'
    BY <1>6 DEF ReadRecord, Record
<1>7. ASSUME NEW c \in Callers, PutRecord(c) PROVE TypeOK'
    BY SMTT(30), <1>7 DEF PutRecord, Refused, Record
<1>8. ASSUME NEW c \in Callers, ReadIndex(c) PROVE TypeOK'
    BY <1>8 DEF ReadIndex
<1>9. ASSUME NEW c \in Callers, PutIndex(c) PROVE TypeOK'
    BY <1>9 DEF PutIndex, Refused, Indexed, Record
<1>10. ASSUME NEW c \in Callers, Abandon(c) PROVE TypeOK'
    <2>1. \A s \in {pc[c]} \cap {"putRecord", "putIndex"} :
            [step |-> s, key |-> key[c], value |-> value[c],
             at |-> recordedAt[c], seen |-> seen[c]] \in LatePut
        BY <1>10 DEF Abandon, LatePut
    <2>2. late' \subseteq LatePut
        BY <1>10, <2>1 DEF Abandon
    <2> QED BY <1>10, <2>2 DEF Abandon
<1>11. ASSUME NEW r \in late, ServeLate(r) PROVE TypeOK'
    BY <1>11 DEF ServeLate, Indexed, LatePut
<1>12. CASE Rest \/ UNCHANGED vars
    BY <1>12 DEF Rest, vars
<1> QED BY <1>1, <1>2, <1>3, <1>4, <1>5, <1>6, <1>7, <1>8, <1>9, <1>10, <1>11,
           <1>12 DEF Next, Step

\* Every variable of the ledger stays in its set.
THEOREM TypeCorrect == Spec => []TypeOK
<1> QED BY InitTypeOK, NextTypeOK, PTL DEF Spec

(***************************************************************************)
(* Facts that stay true.                                                   *)
(***************************************************************************)

\* A record that is there keeps its content, its clock and its place.
RecordsKept == \A k \in Keys : record[k] # NoRecord => record'[k] = record[k]

\* Every write of a record is a creation: the PUT names no file sha.
LEMMA StepKeepsRecords == TypeOK /\ [Next]_vars => RecordsKept
<1> SUFFICES ASSUME TypeOK, [Next]_vars PROVE RecordsKept
    OBVIOUS
<1>1. ASSUME NEW c \in Callers, PutRecord(c) PROVE RecordsKept
    BY <1>1 DEF PutRecord, TypeOK, RecordsKept
<1>2. ASSUME NEW r \in late, ServeLate(r) PROVE RecordsKept
    BY <1>2 DEF ServeLate, TypeOK, RecordsKept
<1>3. CASE UNCHANGED record
    BY <1>3 DEF RecordsKept
<1> QED BY <1>1, <1>2, <1>3
        DEF Next, Step, Call, CheckReference, ReplayFound, LookupConflict, LookupFree,
            ReadRecord, ReadIndex, PutIndex, Abandon, Rest, files, vars

\* So do the facts that calls have read of it.
LEMMA FactsStay ==
    ASSUME TypeOK, RecordsKept, NEW k \in Keys
    PROVE  /\ Referred(k) => Referred(k)'
           /\ \A at : StoredAt(k, at) => StoredAt(k, at)'
           /\ \A h : record[k] # NoRecord /\ record[k].hash = h =>
                     record'[k] # NoRecord /\ record'[k].hash = h
BY DEF TypeOK, RecordsKept, Referred, StoredAt

\* A record that is there stays there unchanged.
THEOREM RecordsNeverChange == Spec => [][RecordsKept]_vars
<1>1. TypeOK /\ [Next]_vars => [RecordsKept]_vars
    BY StepKeepsRecords
<1> QED BY <1>1, TypeCorrect, PTL DEF Spec

(***************************************************************************)
(* The invariant.                                                          *)
(***************************************************************************)

\* What the calls rely on stays true, and each establishes it before it relies
\* on it.
LEMMA NextCallsRelyOnFacts == LedgerInv /\ [Next]_vars => CallsRelyOnFacts'
<1> SUFFICES ASSUME LedgerInv, [Next]_vars, NEW c \in Callers
             PROVE  /\ pc'[c] \in {"lookup", "readRecord", "putRecord"} => Referred(key[c])'
                    /\ pc'[c] \in {"readIndex", "putIndex"} =>
                         /\ StoredAt(key[c], recordedAt[c])'
                         /\ record'[key'[c]].hash = value'[c].hash
    BY DEF CallsRelyOnFacts
<1>t. TypeOK /\ TypeOK' /\ RecordsKept /\ CallsRelyOnFacts
    BY NextTypeOK, StepKeepsRecords DEF LedgerInv
<1> DEFINE Facts == /\ pc'[c] \in {"lookup", "readRecord", "putRecord"} => Referred(key[c])'
                    /\ pc'[c] \in {"readIndex", "putIndex"} =>
                         /\ StoredAt(key[c], recordedAt[c])'
                         /\ record'[key'[c]].hash = value'[c].hash
<1>u. ASSUME /\ key'[c] = key[c] /\ value'[c] = value[c] /\ recordedAt'[c] = recordedAt[c]
             /\ pc'[c] # "idle" =>
                  \/ pc'[c] = pc[c]
                  \/ pc[c] \in {"lookup", "readRecord", "putRecord"}
                     /\ pc'[c] \in {"lookup", "readRecord", "putRecord"}
                  \/ pc[c] \in {"readIndex", "putIndex"} /\ pc'[c] \in {"readIndex", "putIndex"}
      PROVE  Facts
    <2>1. CASE pc'[c] = "idle"
        BY <2>1
    <2>2. CASE pc'[c] # "idle"
        <3>1. pc[c] # "idle" /\ key[c] \in Keys
            BY <1>t, <1>u, <2>2 DEF TypeOK
        <3> QED BY <1>t, <1>u, <2>2, <3>1, FactsStay DEF CallsRelyOnFacts, StoredAt, Referred
    <2> QED BY <2>1, <2>2
<1>1. ASSUME NEW d \in Callers, NEW k \in Keys, NEW h \in Hashes, Call(d, k, h)
      PROVE  Facts
    BY <1>t, <1>u, <1>1 DEF Call, Go, TypeOK
<1>2. ASSUME NEW d \in Callers, CheckReference(d) PROVE Facts
    <2>1. CASE d = c
        BY <1>t, <1>2, <2>1 DEF CheckReference, Go, Return, TypeOK, Referred, caller, files
    <2> QED BY <1>t, <1>u, <1>2, <2>1 DEF CheckReference, Go, Return, TypeOK, caller
<1>3. ASSUME NEW d \in Callers, ReplayFound(d) PROVE Facts
    <2>1. CASE d = c
        BY <1>t, <1>3, <2>1 DEF ReplayFound, Go, TypeOK, StoredAt, files
    <2> QED BY <1>t, <1>u, <1>3, <2>1 DEF ReplayFound, Go, TypeOK
<1>4. ASSUME NEW d \in Callers, LookupConflict(d) \/ LookupFree(d) \/ ReadIndex(d) \/ Abandon(d)
      PROVE  Facts
    BY <1>t, <1>u, <1>4 DEF LookupConflict, LookupFree, ReadIndex, Abandon, Go, Return, Throw,
                            TypeOK, caller
<1>5. ASSUME NEW d \in Callers, ReadRecord(d) PROVE Facts
    <2>1. CASE d = c /\ pc'[c] = "readIndex"
        <3>1. /\ record' = record /\ key' = key /\ value' = value
              /\ record[key[c]] = value[c] /\ recordedAt'[c] = value[c].at
            BY <1>t, <1>5, <2>1 DEF ReadRecord, Go, Return, TypeOK, files
        <3>2. value[c] \in Record /\ value[c] # NoRecord
            BY <1>t, <1>5, <2>1 DEF ReadRecord, TypeOK, Record
        <3> QED BY <2>1, <3>1, <3>2 DEF StoredAt
    <2> QED BY <1>t, <1>u, <1>5, <2>1 DEF ReadRecord, Go, Return, TypeOK
<1>6. ASSUME NEW d \in Callers, PutRecord(d) PROVE Facts
    <2>1. CASE d = c /\ pc'[c] = "readIndex"
        <3>1. /\ key' = key /\ value' = value
              /\ record'[key[c]] = value[c] /\ recordedAt'[c] = value[c].at
            BY <1>t, <1>6, <2>1 DEF PutRecord, Refused, Go, Return, Throw, TypeOK
        <3>2. value[c] \in Record /\ value[c] # NoRecord
            BY <1>t, <1>6, <2>1 DEF PutRecord, TypeOK, Record
        <3> QED BY <2>1, <3>1, <3>2 DEF StoredAt
    <2> QED BY <1>t, <1>u, <1>6, <2>1 DEF PutRecord, Refused, Go, Return, Throw, TypeOK
<1>7. ASSUME NEW d \in Callers, PutIndex(d) PROVE Facts
    BY <1>t, <1>u, <1>7 DEF PutIndex, Refused, Go, Return, Throw, TypeOK, caller
<1>8. ASSUME NEW r \in late, ServeLate(r) PROVE Facts
    BY <1>t, <1>u, <1>8 DEF ServeLate, TypeOK, caller
<1>9. CASE Rest \/ UNCHANGED vars
    BY <1>t, <1>u, <1>9 DEF Rest, vars
<1> QED BY <1>1, <1>2, <1>3, <1>4, <1>5, <1>6, <1>7, <1>8, <1>9 DEF Next, Step

\* A PUT left behind relies on what its call relied on.
LEMMA NextLatePuts == LedgerInv /\ [Next]_vars => LatePutsRelyOnFacts'
<1> SUFFICES ASSUME LedgerInv, [Next]_vars, NEW r \in late'
             PROVE  /\ r.key \in broken'
                    /\ r.step = "putRecord" => Referred(r.key)'
                    /\ r.step = "putIndex" => StoredAt(r.key, r.at)'
    BY DEF LatePutsRelyOnFacts
<1>t. TypeOK /\ RecordsKept /\ CallsRelyOnFacts /\ LatePutsRelyOnFacts
    BY StepKeepsRecords DEF LedgerInv
<1>1. broken \subseteq broken'
    BY DEF Next, Step, Call, CheckReference, ReplayFound, LookupConflict, LookupFree,
           ReadRecord, PutRecord, Refused, ReadIndex, PutIndex, Abandon, ServeLate, Rest,
           Throw, vars
<1>2. CASE r \in late
    <2>1. r.key \in Keys
        BY <1>t, <1>2 DEF TypeOK, LatePut
    <2> QED BY <1>t, <1>1, <1>2, <2>1, FactsStay DEF LatePutsRelyOnFacts
<1>3. CASE r \notin late
    <2>1. PICK c \in Callers : Abandon(c)
        BY <1>3 DEF Next, Step, Call, CheckReference, ReplayFound, LookupConflict, LookupFree,
               ReadRecord, PutRecord, ReadIndex, PutIndex, ServeLate, Rest, vars
    <2>2. /\ pc[c] \in {"putRecord", "putIndex"} /\ r.step = pc[c]
          /\ r.key = key[c] /\ r.at = recordedAt[c]
        BY <1>3, <2>1 DEF Abandon
    <2>3. key[c] \in Keys /\ key[c] \in broken'
        BY <1>t, <2>1 DEF Abandon, Throw, TypeOK
    <2> QED BY <1>t, <2>2, <2>3, FactsStay DEF CallsRelyOnFacts
<1> QED BY <1>2, <1>3

\* An entry is made from a fact, and its record is kept.
LEMMA NextEntriesMatch == LedgerInv /\ [Next]_vars => EntriesMatchRecords'
<1> SUFFICES ASSUME LedgerInv, [Next]_vars, NEW k \in Keys, index'[k] # 0
             PROVE  StoredAt(k, index[k])'
    BY DEF EntriesMatchRecords, StoredAt
<1>t. TypeOK /\ RecordsKept /\ CallsRelyOnFacts /\ LatePutsRelyOnFacts /\ EntriesMatchRecords
    BY StepKeepsRecords DEF LedgerInv
<1>1. CASE index'[k] = index[k]
    BY <1>t, <1>1, FactsStay DEF EntriesMatchRecords, StoredAt
<1>2. ASSUME NEW at, StoredAt(k, at), index'[k] = at
      PROVE  StoredAt(k, index[k])'
    BY <1>t, <1>2, FactsStay DEF StoredAt
<1>3. ASSUME NEW c \in Callers, PutIndex(c) PROVE StoredAt(k, index[k])'
    BY <1>t, <1>1, <1>2, <1>3 DEF PutIndex, Indexed, CallsRelyOnFacts, TypeOK
<1>4. ASSUME NEW r \in late, ServeLate(r) PROVE StoredAt(k, index[k])'
    BY <1>t, <1>1, <1>2, <1>4 DEF ServeLate, Indexed, LatePutsRelyOnFacts, LatePut, TypeOK
<1>5. CASE UNCHANGED index
    BY <1>1, <1>5
<1> QED BY <1>3, <1>4, <1>5
        DEF Next, Step, Call, CheckReference, ReplayFound, LookupConflict, LookupFree,
            ReadRecord, PutRecord, ReadIndex, Abandon, Rest, files, vars

\* An entry that is there stays there.
LEMMA EntriesKept ==
    ASSUME TypeOK, [Next]_vars, NEW k \in Keys, index[k] # 0 PROVE index'[k] # 0
BY DEF TypeOK, Next, Step, Call, CheckReference, ReplayFound, LookupConflict, LookupFree,
       ReadRecord, PutRecord, ReadIndex, PutIndex, Indexed, Abandon, ServeLate, Rest, files, vars

\* Only a call that has made its entry says that it is recorded.
LEMMA NextAcked == LedgerInv /\ [Next]_vars => AckedIsListed'
<1> SUFFICES ASSUME LedgerInv, [Next]_vars, NEW a \in acked'
             PROVE  /\ record'[a[1]] # NoRecord
                    /\ record'[a[1]].hash = a[2]
                    /\ index'[a[1]] # 0
    BY DEF AckedIsListed
<1>t. TypeOK /\ RecordsKept /\ CallsRelyOnFacts /\ AckedIsListed
    BY StepKeepsRecords DEF LedgerInv
<1>1. CASE a \in acked
    <2>1. a[1] \in Keys
        BY <1>t, <1>1 DEF TypeOK
    <2> QED BY <1>t, <1>1, <2>1, FactsStay, EntriesKept DEF AckedIsListed
<1>2. CASE a \notin acked
    <2>1. PICK c \in Callers : PutIndex(c)
        BY <1>2 DEF Next, Step, Call, CheckReference, ReplayFound, LookupConflict, LookupFree,
               ReadRecord, PutRecord, ReadIndex, Abandon, ServeLate, Rest, vars
    <2>2. /\ a = <<key[c], value[c].hash>> /\ index' = Indexed(key[c], recordedAt[c])
          /\ pc[c] = "putIndex" /\ record' = record
        BY <1>2, <2>1 DEF PutIndex
    <2>3. /\ key[c] \in Keys
          /\ StoredAt(key[c], recordedAt[c]) /\ record[key[c]].hash = value[c].hash
        BY <1>t, <2>2 DEF CallsRelyOnFacts, TypeOK
    <2>4. recordedAt[c] # 0
        BY <1>t, <2>3 DEF StoredAt, TypeOK, Record
    <2> QED BY <1>t, <2>2, <2>3, <2>4 DEF Indexed, StoredAt, TypeOK
<1> QED BY <1>1, <1>2

\* Records and index agree, what was acknowledged is there and listed, and what
\* is under way keeps it so (putIndexedImmutableRecord).
THEOREM LedgerIsConsistent == Spec => []LedgerInv
<1>1. Init => LedgerInv
    BY InitTypeOK DEF Init, LedgerInv, EntriesMatchRecords, AckedIsListed, CallsRelyOnFacts,
                      LatePutsRelyOnFacts
<1>2. LedgerInv /\ [Next]_vars => LedgerInv'
    BY NextTypeOK, NextCallsRelyOnFacts, NextLatePuts, NextEntriesMatch, NextAcked
       DEF LedgerInv
<1> QED BY <1>1, <1>2, PTL DEF Spec

(***************************************************************************)
(* What follows from it.                                                   *)
(***************************************************************************)

\* A record is created by a call that goes on to the index, or by a PUT of a call
\* that was cut off; it is given up only by a call that throws.
THEOREM UnlistedAreUnfinished == Spec => []UnlistedIsUnfinished
<1>1. Init => UnlistedIsUnfinished
    BY DEF Init, UnlistedIsUnfinished
<1>2. UnlistedIsUnfinished /\ LedgerInv /\ [Next]_vars => UnlistedIsUnfinished'
    <2> SUFFICES ASSUME UnlistedIsUnfinished, LedgerInv, [Next]_vars,
                        NEW k \in Keys, record'[k] # NoRecord, index'[k] = 0, k \notin broken'
                 PROVE  \E c \in Callers : key'[c] = k /\ pc'[c] \in {"readIndex", "putIndex"}
        BY DEF UnlistedIsUnfinished
    <2>t. TypeOK /\ CallsRelyOnFacts /\ LatePutsRelyOnFacts /\ index[k] = 0
        BY EntriesKept DEF LedgerInv
    <2>1. broken \subseteq broken'
        BY DEF Next, Step, Call, CheckReference, ReplayFound, LookupConflict, LookupFree,
               ReadRecord, PutRecord, Refused, ReadIndex, PutIndex, Abandon, ServeLate, Rest,
               Throw, vars
    <2>2. CASE record[k] = NoRecord
        <3>1. ASSUME NEW c \in Callers, PutRecord(c)
              PROVE  key'[c] = k /\ pc'[c] = "readIndex"
            BY <2>t, <2>2, <3>1 DEF PutRecord, Go, TypeOK
        <3>2. ASSUME NEW r \in late, ServeLate(r) PROVE FALSE
            BY <2>t, <2>1, <2>2, <3>2 DEF ServeLate, LatePutsRelyOnFacts, TypeOK
        <3>3. ~ UNCHANGED record
            BY <2>2
        <3> QED BY <3>1, <3>2, <3>3
                DEF Next, Step, Call, CheckReference, ReplayFound, LookupConflict, LookupFree,
                    ReadRecord, ReadIndex, PutIndex, Abandon, Rest, files, vars
    <2>3. CASE record[k] # NoRecord
        <3>1. PICK c \in Callers : key[c] = k /\ pc[c] \in {"readIndex", "putIndex"}
            BY <2>t, <2>1, <2>3 DEF UnlistedIsUnfinished
        <3>2. recordedAt[c] # 0
            BY <2>t, <3>1 DEF CallsRelyOnFacts, StoredAt, TypeOK, Record
        <3>3. ASSUME NEW d \in Callers, PutIndex(d)
              PROVE  key'[c] = k /\ pc'[c] \in {"readIndex", "putIndex"}
            <4>1. d # c \/ seen[d] # version
                BY <2>t, <3>1, <3>2, <3>3 DEF PutIndex, Indexed, TypeOK
            <4> QED BY <2>t, <3>1, <3>3, <4>1
                    DEF PutIndex, Refused, Go, Return, Throw, caller, TypeOK
        <3>4. ASSUME NEW d \in Callers, Abandon(d)
              PROVE  key'[c] = k /\ pc'[c] \in {"readIndex", "putIndex"}
            BY <2>t, <3>1, <3>4 DEF Abandon, Go, Return, Throw, caller, TypeOK
        <3>5. ASSUME NEW d \in Callers, PutRecord(d) \/ ReadRecord(d) \/ ReadIndex(d)
              PROVE  key'[c] = k /\ pc'[c] \in {"readIndex", "putIndex"}
            BY <2>t, <3>1, <3>5 DEF PutRecord, ReadRecord, ReadIndex, Refused, Go, Return, Throw,
                                    TypeOK
        <3>6. ASSUME NEW d \in Callers,
                     \/ CheckReference(d) \/ ReplayFound(d) \/ LookupConflict(d) \/ LookupFree(d)
                     \/ \E j \in Keys, h \in Hashes : Call(d, j, h)
              PROVE  key'[c] = k /\ pc'[c] \in {"readIndex", "putIndex"}
            BY <2>t, <3>1, <3>6 DEF CheckReference, ReplayFound, LookupConflict, LookupFree, Call,
                                    Go, Return, caller, TypeOK
        <3>7. CASE UNCHANGED <<key, pc>>
            BY <3>1, <3>7
        <3> QED BY <3>3, <3>4, <3>5, <3>6, <3>7
                DEF Next, Step, ServeLate, Rest, caller, vars
    <2> QED BY <2>2, <2>3
<1> QED BY <1>1, <1>2, LedgerIsConsistent, PTL DEF Spec

\* A record is written only when what it refers to is recorded, and that stays.
THEOREM ReferencesAlwaysResolve == Spec => []ReferencesResolve
<1>1. Init => ReferencesResolve
    BY DEF Init, ReferencesResolve
<1>2. ReferencesResolve /\ LedgerInv /\ [Next]_vars => ReferencesResolve'
    <2> SUFFICES ASSUME ReferencesResolve, LedgerInv, [Next]_vars,
                        NEW k \in Keys, record'[k] # NoRecord
                 PROVE  Referred(k)'
        BY DEF ReferencesResolve, Referred
    <2>t. TypeOK /\ RecordsKept /\ CallsRelyOnFacts /\ LatePutsRelyOnFacts
        BY StepKeepsRecords DEF LedgerInv
    <2>1. Referred(k) => Referred(k)'
        BY <2>t, FactsStay
    <2>2. CASE record[k] # NoRecord
        BY <2>1, <2>2 DEF ReferencesResolve, Referred
    <2>3. CASE record[k] = NoRecord
        <3>1. ASSUME NEW c \in Callers, PutRecord(c) PROVE Referred(k)
            BY <2>t, <2>3, <3>1 DEF PutRecord, CallsRelyOnFacts, TypeOK
        <3>2. ASSUME NEW r \in late, ServeLate(r) PROVE Referred(k)
            BY <2>t, <2>3, <3>2 DEF ServeLate, LatePutsRelyOnFacts, TypeOK
        <3>3. ~ UNCHANGED record
            BY <2>3
        <3> QED BY <2>1, <3>1, <3>2, <3>3
                DEF Next, Step, Call, CheckReference, ReplayFound, LookupConflict, LookupFree,
                    ReadRecord, ReadIndex, PutIndex, Abandon, Rest, files, vars
    <2> QED BY <2>2, <2>3
<1> QED BY <1>1, <1>2, LedgerIsConsistent, PTL DEF Spec
-----------------------------------------------------------------------------
(***************************************************************************)
(* The on-demand readers (MarketReaders), for any questions, clock and     *)
(* number of failures.                                                     *)
(***************************************************************************)
USE ReadersAssumption

\* The parts of the readers' invariant that are the same for every reader.
Shared == ReadersTypeOK /\ FetchesAreShared /\ EntriesAreCurrent /\ FetchesShowTheirTime

\* The pages of a layer and the origins of a ranking are pages.
LEMMA PagesAreOfLayers ==
    /\ \A l \in Layers, m \in Markets : PagesOf(l, m) \subseteq Pages
    /\ Origins \subseteq Pages /\ "short_sell" \in Pages
<1>1. \A l \in Layers, m \in Markets : PagesOf(l, m) \subseteq Official
    BY DEF Official
<1>2. "short_sell" \in PagesOf("sbl", "otc") /\ "sbl" \in Layers /\ "otc" \in Markets
    BY DEF PagesOf, Layers, Markets
<1> QED BY <1>1, <1>2 DEF Pages

\* The time that stands for never comes after every time of the clock.
LEMMA NeverIsLater == Never \in Nat /\ MaxTime \in Nat /\ MaxTime < Never
BY DEF ReadersAssumption, Never

\* Before the first question nothing is kept and nothing shared.
LEMMA InitShared == ASSUME ReadersInit PROVE Shared
<1>1. wants \in [Queries -> SUBSET Topics(reader)] /\ reader \in Readers
    BY DEF ReadersAssumption, ReadersInit
<1>2. has \in SUBSET Topics(reader)
    BY <1>1 DEF ReadersInit
<1>3. volumes \in {"old", "undated"} /\ known \in BOOLEAN /\ answered \subseteq Queries
    BY DEF ReadersInit
<1>4. NoQuery \notin Queries /\ Ttl \in Nat
    BY DEF ReadersAssumption
<1>5. ReadersTypeOK
    BY <1>1, <1>2, <1>3, NeverIsLater DEF ReadersAssumption, ReadersInit, ReadersTypeOK, NoEntry
<1>6. FetchesAreShared
    BY DEF ReadersInit, FetchesAreShared, Asks
<1>7. EntriesAreCurrent
    BY DEF ReadersInit, EntriesAreCurrent, NoEntry
<1>8. FetchesShowTheirTime
    BY DEF ReadersInit, FetchesShowTheirTime
<1> QED BY <1>5, <1>6, <1>7, <1>8 DEF Shared

\* What a question that asks does to the pages it asks for, and leaves alone.
LEMMA AskShared ==
    ASSUME Shared, NEW q \in Queries, Ask(q)
    PROVE  Shared'
<1> DEFINE pages == {p \in Needs(q) : ~Asks(q, p)}
           begun == {p \in pages : ~Kept(p)}
<1>1. NoQuery \notin Queries /\ Ttl \in Nat \ {0} /\ MaxTime \in Nat /\ now \in 0 .. MaxTime
    BY DEF ReadersAssumption, Shared, ReadersTypeOK
<1>2. UNCHANGED <<stock, published, now, answered, failures>>
    BY DEF Ask
<1>3. ASSUME NEW r \in Queries, NEW p \in Pages
      PROVE  /\ asked'[r][p] = IF r = q /\ p \in pages THEN now ELSE asked[r][p]
             /\ source'[r][p] = IF r = q /\ p \in pages THEN Shares(q, p) ELSE source[r][p]
             /\ promise'[r][p] = IF r = q /\ p \in begun THEN "pending" ELSE promise[r][p]
    BY DEF Ask, Shared, ReadersTypeOK
<1>4. \A p \in Pages :
        cache'[p] = IF p \in begun THEN [by |-> q, expires |-> now + Ttl] ELSE cache[p]
    BY DEF Ask
<1>5. \A p \in pages : source[q][p] = NoQuery
    BY DEF Asks
<1>6. begun \subseteq pages /\ \A p \in pages \ begun : Kept(p)
    OBVIOUS
<1>7. \A p \in begun : ~Kept(p)
    OBVIOUS
<1>8. ReadersTypeOK'
    <2>1. \A p \in Pages : Shares(q, p) \in Queries \cup {NoQuery}
        BY DEF Shared, ReadersTypeOK, Shares
    <2>2. asked' \in [Queries -> [Pages -> 0 .. MaxTime]]
        BY <1>1 DEF Ask, Shared, ReadersTypeOK
    <2>3. source' \in [Queries -> [Pages -> Queries \cup {NoQuery}]]
        BY <2>1 DEF Ask, Shared, ReadersTypeOK
    <2>4. promise' \in [Queries -> [Pages -> Outcomes \cup {"none", "pending"}]]
        BY DEF Ask, Shared, ReadersTypeOK
    <2>5. [by |-> q, expires |-> now + Ttl]
            \in [by : Queries \cup {NoQuery}, expires : 0 .. MaxTime + Ttl]
        BY <1>1
    <2>6. cache' \in [Pages -> [by : Queries \cup {NoQuery}, expires : 0 .. MaxTime + Ttl]]
        BY <2>5 DEF Ask, Shared, ReadersTypeOK
    <2> QED BY <1>2, <2>2, <2>3, <2>4, <2>6 DEF Shared, ReadersTypeOK, stock
<1> HIDE DEF pages, begun
<1>9. ASSUME NEW r \in Queries, NEW p \in Pages, ~(r = q /\ p \in pages)
      PROVE  /\ asked'[r][p] = asked[r][p] /\ source'[r][p] = source[r][p]
             /\ promise'[r][p] = promise[r][p]
    BY <1>3, <1>6, <1>9
\* Who has begun a fetch of p is not one that asks for it now.
<1>10. ASSUME NEW r \in Queries, NEW p \in Pages, promise[r][p] # "none"
       PROVE  ~(r = q /\ p \in pages)
    BY <1>1, <1>5, <1>10 DEF Shared, FetchesAreShared
<1>11. ASSUME NEW p \in Pages, Kept(p)
       PROVE  /\ cache[p].by \in Queries /\ promise[cache[p].by][p] \notin {"none", "failed"}
              /\ now < asked[cache[p].by][p] + Ttl
    <2>1. cache[p].by \in Queries /\ cache[p].expires > now
        BY <1>11 DEF Kept, Shared, ReadersTypeOK
    <2> QED BY <2>1, <1>11 DEF Shared, EntriesAreCurrent, Kept
<1>12. FetchesAreShared'
    <2> SUFFICES ASSUME NEW r \in Queries, NEW p \in Pages
                 PROVE  /\ asked'[r][p] <= now
                        /\ promise'[r][p] # "none" => source'[r][p] = r
                        /\ source'[r][p] # NoQuery =>
                             /\ promise'[source'[r][p]][p] # "none"
                             /\ asked'[r][p] < asked'[source'[r][p]][p] + Ttl
        BY <1>2 DEF FetchesAreShared, Asks
    <2>1. CASE ~(r = q /\ p \in pages)
        <3>1. /\ asked[r][p] <= now
              /\ promise[r][p] # "none" => source[r][p] = r
              /\ source[r][p] # NoQuery => /\ promise[source[r][p]][p] # "none"
                                           /\ asked[r][p] < asked[source[r][p]][p] + Ttl
            BY DEF Shared, FetchesAreShared, Asks
        <3>2. source[r][p] # NoQuery => source[r][p] \in Queries
            BY DEF Shared, ReadersTypeOK
        <3> QED BY <2>1, <3>1, <3>2, <1>9, <1>10
    <2>2. CASE r = q /\ p \in pages /\ Kept(p)
        <3>1. source'[r][p] = cache[p].by /\ asked'[r][p] = now
            BY <1>3, <2>2 DEF Shares
        <3>2. promise'[r][p] = "none"
            BY <1>3, <1>5, <1>7, <2>2, <1>10
        <3>3. /\ promise'[cache[p].by][p] # "none"
              /\ asked'[cache[p].by][p] = asked[cache[p].by][p]
            BY <1>9, <1>10, <1>11, <2>2
        <3> QED BY <1>1, <3>1, <3>2, <3>3, <1>11, <2>2
    <2>3. CASE r = q /\ p \in begun
        <3>1. source'[r][p] = q /\ asked'[r][p] = now /\ promise'[r][p] = "pending"
            BY <1>3, <1>6, <1>7, <2>3 DEF Shares
        <3> QED BY <1>1, <2>3, <3>1
    <2> QED BY <2>1, <2>2, <2>3, <1>6
<1>13. EntriesAreCurrent'
    <2> SUFFICES ASSUME NEW p \in Pages, cache'[p].by # NoQuery
                 PROVE  /\ promise'[cache'[p].by][p] \notin {"none", "failed"}
                        /\ cache'[p].expires = asked'[cache'[p].by][p] + Ttl
        BY DEF EntriesAreCurrent
    <2>1. CASE p \in begun
        BY <1>3, <1>4, <1>6, <2>1
    <2>2. CASE p \notin begun
        <3>1. cache'[p] = cache[p] /\ cache[p].by \in Queries
            BY <1>4, <2>2 DEF Shared, ReadersTypeOK
        <3>2. /\ promise[cache[p].by][p] \notin {"none", "failed"}
              /\ cache[p].expires = asked[cache[p].by][p] + Ttl
            BY <3>1 DEF Shared, EntriesAreCurrent
        <3> QED BY <1>9, <1>10, <3>1, <3>2
    <2> QED BY <2>1, <2>2
<1>14. FetchesShowTheirTime'
    <2> SUFFICES ASSUME NEW r \in Queries, NEW p \in Pages
                 PROVE  /\ promise'[r][p] \in {"day", "empty"} => published[p] # Never
                        /\ promise'[r][p] = "empty" => "ranking" \notin has
                        /\ promise'[r][p] \in {"old", "undated"} =>
                             Undated(p) \/ asked'[r][p] <= published[p]
                        /\ promise'[r][p] = "undated" =>
                             p \notin Origins /\ (p = "short_sell" => Undated(p))
        BY <1>2 DEF FetchesShowTheirTime, Undated, stock
    <2>1. CASE promise'[r][p] = promise[r][p]
        <3>1. promise[r][p] # "none" => asked'[r][p] = asked[r][p]
            BY <1>9, <1>10
        <3> QED BY <2>1, <3>1 DEF Shared, FetchesShowTheirTime
    <2>2. CASE promise'[r][p] = "pending"
        BY <2>2
    <2> QED BY <2>1, <2>2, <1>3
<1> QED BY <1>8, <1>12, <1>13, <1>14 DEF Shared

\* A fetch that ends changes its own promise, from pending; a page's time of
\* publication is set once.
LEMMA SettleShared ==
    ASSUME Shared, NEW q \in Queries, NEW p \in Pages, Settle(q, p)
    PROVE  Shared'
<1>1. NoQuery \notin Queries /\ Ttl \in Nat \ {0} /\ MaxTime \in Nat /\ now \in 0 .. MaxTime
      /\ Never \in Nat /\ MaxTime < Never
    BY NeverIsLater DEF ReadersAssumption, Shared, ReadersTypeOK
<1>2. UNCHANGED <<stock, now, asked, source, answered>> /\ promise[q][p] = "pending"
    BY DEF Settle
<1>3. PICK v \in Outcomes :
        /\ promise' = [promise EXCEPT ![q][p] = v]
        /\ v = "undated" => p \notin Origins /\ (p = "short_sell" => Undated(p))
        /\ v = "failed" => Forgets(p)
        /\ v # "failed" => cache' = cache
        /\ v \in {"day", "empty"} => published' = [published EXCEPT ![p] = IF @ = Never THEN now ELSE @]
        /\ v \in {"old", "undated"} => Undated(p) \/ asked[q][p] <= published'[p]
        /\ v = "empty" => "ranking" \notin has
        /\ published' # published =>
             published' = [published EXCEPT ![p] = IF @ = Never THEN now ELSE @]
    <2>1. Before(p) \in {"old", "undated"} /\ (p \in Origins => Before(p) = "old")
          /\ (p = "short_sell" /\ Before(p) = "undated" => Undated(p))
        BY DEF Before, Origins, Undated, Shared, ReadersTypeOK
    <2>2. Undated(p) => p \notin Origins
        BY DEF Undated, Origins
    <2>3. {"old", "undated", "day", "empty", "failed"} \cup Faulty \subseteq Outcomes
        BY DEF Outcomes, Bodies, Faulty
    <2>4. CASE asked[q][p] <= published[p] /\ promise' = [promise EXCEPT ![q][p] = Before(p)]
               /\ UNCHANGED <<published, cache, failures>>
        <3> Before(p) \in Outcomes
            BY <2>1, <2>3
        <3> WITNESS Before(p) \in Outcomes
        <3> QED BY <2>1, <2>4
    <2>5. CASE /\ promise' = [promise EXCEPT ![q][p] = After(p)]
               /\ published' = [published EXCEPT ![p] = IF @ = Never THEN now ELSE @]
               /\ UNCHANGED <<cache, failures>>
        <3>1. /\ After(p) \in {"undated", "empty", "day"}
              /\ After(p) = "undated" => Undated(p)
              /\ After(p) = "empty" => "ranking" \notin has
            BY DEF After
        <3>2. After(p) \in Outcomes
            BY <2>3, <3>1
        <3> WITNESS After(p) \in Outcomes
        <3> QED BY <2>2, <2>5, <3>1
    <2>6. CASE promise' = [promise EXCEPT ![q][p] = "failed"] /\ Forgets(p) /\ UNCHANGED published
        <3> "failed" \in Outcomes
            BY <2>1, <2>3
        <3> WITNESS "failed" \in Outcomes
        <3> QED BY <2>6
    <2>7. ASSUME NEW body \in Faulty, promise' = [promise EXCEPT ![q][p] = body],
                 UNCHANGED <<published, cache>>
          PROVE  \E v \in Outcomes :
                    /\ promise' = [promise EXCEPT ![q][p] = v]
                    /\ v \notin {"old", "undated", "day", "empty", "failed"}
                    /\ cache' = cache /\ published' = published
        <3> body \in Outcomes
            BY <2>3
        <3> WITNESS body \in Outcomes
        <3> QED BY <2>7 DEF Faulty
    <2>8. CASE \E body \in Faulty : /\ promise' = [promise EXCEPT ![q][p] = body]
                                    /\ UNCHANGED <<published, cache>>
        BY <2>7, <2>8
    <2> QED BY <2>4, <2>5, <2>6, <2>8 DEF Settle
<1>4. published' \in [Pages -> 0 .. Never]
    <2>1. published \in [Pages -> 0 .. Never] /\ now \in 0 .. Never
        BY <1>1 DEF Shared, ReadersTypeOK
    <2>2. \/ published' = published
          \/ published' = [published EXCEPT ![p] = IF @ = Never THEN now ELSE @]
        BY <1>3
    <2> QED BY <2>1, <2>2
<1>5. \A a \in Pages : published[a] # Never => published'[a] = published[a]
    BY <1>3 DEF Shared, ReadersTypeOK
<1>6. \A a \in Pages :
        published'[a] = published[a] \/ (published[a] = Never /\ published'[a] = now)
    BY <1>3 DEF Shared, ReadersTypeOK
<1>7. ASSUME NEW r \in Queries, NEW a \in Pages
      PROVE  promise'[r][a] = IF r = q /\ a = p THEN v ELSE promise[r][a]
    BY <1>3 DEF Shared, ReadersTypeOK
<1>8. \A a \in Pages : cache'[a] = cache[a] \/ (a = p /\ cache'[a] = NoEntry)
    BY <1>3 DEF Forgets, Shared, ReadersTypeOK
<1>9. ReadersTypeOK'
    <2>1. promise' \in [Queries -> [Pages -> Outcomes \cup {"none", "pending"}]]
        BY <1>3 DEF Shared, ReadersTypeOK
    <2>2. NoEntry \in [by : Queries \cup {NoQuery}, expires : 0 .. MaxTime + Ttl]
        BY <1>1 DEF NoEntry
    <2> DEFINE E == [by : Queries \cup {NoQuery}, expires : 0 .. MaxTime + Ttl]
    <2>3. cache' \in [Pages -> E]
        <3>1. cache \in [Pages -> E] /\ NoEntry \in E
            BY <2>2 DEF Shared, ReadersTypeOK
        <3> HIDE DEF E
        <3>2. cache' = cache \/ cache' = [cache EXCEPT ![p] = NoEntry]
            BY <1>3 DEF Forgets
        <3> QED BY <3>1, <3>2
    <2>4. failures' \in 0 .. MaxFailures
        BY DEF Settle, Shared, ReadersTypeOK, ReadersAssumption
    <2> QED BY <1>2, <1>4, <2>1, <2>3, <2>4 DEF Shared, ReadersTypeOK, stock
<1>10. v # "none" /\ v # "pending"
    BY DEF Outcomes, Bodies, Faulty
<1>11. FetchesAreShared'
    <2> SUFFICES ASSUME NEW r \in Queries, NEW a \in Pages
                 PROVE  /\ asked[r][a] <= now
                        /\ promise'[r][a] # "none" => source[r][a] = r
                        /\ source[r][a] # NoQuery =>
                             /\ promise'[source[r][a]][a] # "none"
                             /\ asked[r][a] < asked[source[r][a]][a] + Ttl
        BY <1>2 DEF FetchesAreShared, Asks
    <2>1. source[r][a] # NoQuery => source[r][a] \in Queries
        BY DEF Shared, ReadersTypeOK
    <2> QED BY <1>2, <1>7, <1>10, <2>1 DEF Shared, FetchesAreShared, Asks
<1>12. EntriesAreCurrent'
    <2> SUFFICES ASSUME NEW a \in Pages, cache'[a].by # NoQuery
                 PROVE  /\ promise'[cache'[a].by][a] \notin {"none", "failed"}
                        /\ cache'[a].expires = asked[cache'[a].by][a] + Ttl
        BY <1>2 DEF EntriesAreCurrent
    <2>1. cache'[a] = cache[a] /\ cache[a].by \in Queries
        BY <1>8 DEF NoEntry, Shared, ReadersTypeOK
    <2>2. /\ promise[cache[a].by][a] \notin {"none", "failed"}
          /\ cache[a].expires = asked[cache[a].by][a] + Ttl
        BY <2>1 DEF Shared, EntriesAreCurrent
    <2>3. a = p => v # "failed"
        BY <1>3, <2>1 DEF Forgets, NoEntry, Shared, ReadersTypeOK
    <2> QED BY <1>7, <1>10, <2>1, <2>2, <2>3
<1>13. FetchesShowTheirTime'
    <2> SUFFICES ASSUME NEW r \in Queries, NEW a \in Pages
                 PROVE  /\ promise'[r][a] \in {"day", "empty"} => published'[a] # Never
                        /\ promise'[r][a] = "empty" => "ranking" \notin has
                        /\ promise'[r][a] \in {"old", "undated"} =>
                             Undated(a) \/ asked[r][a] <= published'[a]
                        /\ promise'[r][a] = "undated" =>
                             a \notin Origins /\ (a = "short_sell" => Undated(a))
        BY <1>2 DEF FetchesShowTheirTime, Undated, stock
    <2>1. CASE r = q /\ a = p
        <3>1. promise'[r][a] = v
            BY <1>7, <2>1
        <3>2. v \in {"day", "empty"} => published'[a] # Never
            BY <1>1, <1>3, <2>1 DEF Shared, ReadersTypeOK
        <3> QED BY <1>3, <2>1, <3>1, <3>2
    <2>2. CASE ~(r = q /\ a = p)
        <3>1. promise'[r][a] = promise[r][a]
            BY <1>7, <2>2
        <3>2. asked[r][a] \in Nat /\ asked[r][a] <= now
            BY DEF Shared, ReadersTypeOK, FetchesAreShared
        <3>3. asked[r][a] <= published[a] => asked[r][a] <= published'[a]
            BY <1>6, <3>2
        <3> QED BY <1>5, <3>1, <3>3 DEF Shared, FetchesShowTheirTime
    <2> QED BY <2>1, <2>2
<1> QED BY <1>9, <1>11, <1>12, <1>13 DEF Shared

\* The day is published on a page that did not show it: it is there from now on.
LEMMA PublishShared ==
    ASSUME Shared, NEW p \in Pages, Publish(p)
    PROVE  Shared'
<1>1. /\ MaxTime \in Nat /\ now \in 0 .. MaxTime /\ Never \in Nat /\ MaxTime < Never
      /\ published \in [Pages -> 0 .. Never] /\ published[p] = Never
      /\ published' = [published EXCEPT ![p] = now]
    BY NeverIsLater DEF Shared, ReadersTypeOK, Publish
<1>2. UNCHANGED <<stock, now, cache, promise, asked, source, answered, failures>>
    BY DEF Publish
<1>3. ReadersTypeOK'
    <2>1. published' \in [Pages -> 0 .. Never]
        BY <1>1
    <2> QED BY <1>2, <2>1 DEF Shared, ReadersTypeOK, stock
<1>4. FetchesAreShared' /\ EntriesAreCurrent'
    BY <1>2 DEF Shared, FetchesAreShared, EntriesAreCurrent, Asks
<1>5. ASSUME NEW r \in Queries, NEW a \in Pages
      PROVE  /\ published[a] # Never => published'[a] # Never
             /\ asked[r][a] <= published[a] => asked[r][a] <= published'[a]
    BY <1>1 DEF Shared, ReadersTypeOK, FetchesAreShared
<1>6. FetchesShowTheirTime'
    BY <1>2, <1>5 DEF Shared, FetchesShowTheirTime, Undated, stock
<1> QED BY <1>3, <1>4, <1>6 DEF Shared

\* Neither the clock nor an answer changes what is kept or shared.
LEMMA NextShared == ASSUME Shared, [ReadersNext]_readersVars PROVE Shared'
<1>1. CASE Tick
    <2>1. now' \in 0 .. MaxTime /\ now' > now
        BY <1>1 DEF Tick, Shared, ReadersTypeOK, ReadersAssumption
    <2>2. UNCHANGED <<stock, published, cache, promise, asked, source, answered, failures>>
        BY <1>1 DEF Tick
    <2>3. ReadersTypeOK'
        BY <2>1, <2>2 DEF Shared, ReadersTypeOK, stock
    <2>4. \A q \in Queries, p \in Pages : asked[q][p] \in Nat /\ now \in Nat /\ asked[q][p] <= now
        BY DEF Shared, ReadersTypeOK, FetchesAreShared
    <2>5. FetchesAreShared'
        BY <2>1, <2>2, <2>4 DEF Shared, FetchesAreShared, Asks
    <2>6. EntriesAreCurrent' /\ FetchesShowTheirTime'
        BY <2>2 DEF Shared, EntriesAreCurrent, FetchesShowTheirTime, Undated, stock
    <2> QED BY <2>3, <2>5, <2>6 DEF Shared
<1>2. ASSUME NEW q \in Queries, Answer(q) PROVE Shared'
    <2>1. UNCHANGED <<stock, published, now, cache, promise, asked, source, failures>>
          /\ answered' \subseteq Queries
        BY <1>2 DEF Answer, Shared, ReadersTypeOK
    <2>2. ReadersTypeOK'
        BY <2>1 DEF Shared, ReadersTypeOK, stock
    <2> QED BY <2>1, <2>2 DEF Shared, FetchesAreShared, EntriesAreCurrent,
                              FetchesShowTheirTime, Asks, Undated, stock
<1>3. CASE UNCHANGED readersVars
    <2>1. ReadersTypeOK'
        BY <1>3 DEF Shared, ReadersTypeOK, readersVars
    <2> QED BY <1>3, <2>1 DEF Shared, FetchesAreShared, EntriesAreCurrent,
                              FetchesShowTheirTime, Asks, Undated, readersVars
<1> QED BY <1>1, <1>2, <1>3, AskShared, SettleShared, PublishShared DEF ReadersNext

\* What was settled stays: a question asks for a page once, and a promise is
\* settled once.
LEMMA SettledStays ==
    ASSUME Shared, [ReadersNext]_readersVars, NEW r \in Queries, NEW a \in Pages,
           Settled(r, a)
    PROVE  Given(r, a)' = Given(r, a) /\ Settled(r, a)'
<1> DEFINE s == source[r][a]
<1>1. Asks(r, a) /\ s \in Queries /\ promise[s][a] \in Outcomes /\ Given(r, a) = promise[s][a]
    BY DEF Settled, Given, Asks, Outcomes, Bodies, Faulty, Shared, ReadersTypeOK
<1>2. promise[s][a] # "none" /\ promise[s][a] # "pending"
    BY <1>1 DEF Outcomes, Bodies, Faulty
<1>3. source[s][a] = s /\ NoQuery \notin Queries
    BY <1>1, <1>2 DEF Shared, FetchesAreShared, ReadersAssumption
<1>4. source'[r][a] = s /\ promise'[s][a] = promise[s][a]
    <2>1. CASE \E q \in Queries : Ask(q)
        <3>1. PICK q \in Queries : Ask(q)
            BY <2>1
        <3>2. /\ ~(a \in {p \in Needs(q) : ~Asks(q, p)}) => /\ source'[q][a] = source[q][a]
                                                            /\ promise'[q][a] = promise[q][a]
              /\ \A x \in Queries \ {q} : source'[x] = source[x] /\ promise'[x] = promise[x]
            BY <3>1 DEF Ask, Shared, ReadersTypeOK
        <3>3. Asks(s, a)
            BY <1>1, <1>3 DEF Asks
        <3> QED BY <1>1, <3>2, <3>3
    <2>2. CASE \E q \in Queries, p \in Pages : Settle(q, p)
        <3>1. PICK q \in Queries, p \in Pages : Settle(q, p)
            BY <2>2
        <3>2. ~(q = s /\ p = a) /\ source' = source
            BY <1>2, <3>1 DEF Settle
        <3>3. PICK v : promise' = [promise EXCEPT ![q][p] = v]
            BY <3>1 DEF Settle
        <3> QED BY <1>1, <3>2, <3>3 DEF Shared, ReadersTypeOK
    <2>3. CASE UNCHANGED <<source, promise>>
        BY <2>3
    <2> QED BY <2>1, <2>2, <2>3 DEF ReadersNext, Answer, Publish, Tick, readersVars
<1>5. Given(r, a)' = promise[s][a]
    BY <1>1, <1>3, <1>4 DEF Given, Asks
<1> QED BY <1>1, <1>5 DEF Settled

\* What a ranking needs of the two origins, and what it has asked for.
Ranked ==
    /\ RankingsAreTold
    /\ reader = "broker" => \A q \in Queries : Asks(q, "5850web") => Useless(q, "concords")

\* What a ranking needed is settled, so no further page comes to be needed, and an
\* origin that was of no use stays so.
LEMMA RankingsStayTold ==
    ASSUME Shared, Ranked, [ReadersNext]_readersVars
    PROVE  Ranked'
<1>1. reader' = reader /\ wants' = wants
    BY DEF ReadersNext, Ask, Settle, Answer, Publish, Tick, stock, readersVars
<1>2. RankingsAreTold'
    <2> SUFFICES ASSUME reader' = "broker", NEW q \in answered', wants'[q] # {}
                 PROVE  \A p \in BrokerNeeds(q)' : Settled(q, p)'
        BY DEF RankingsAreTold
    <2>1. q \in Queries
        BY NextShared DEF Shared, ReadersTypeOK
    <2>2. \A p \in BrokerNeeds(q) : Settled(q, p)
        <3>1. CASE q \in answered
            BY <1>1, <3>1 DEF Ranked, RankingsAreTold
        <3>2. CASE q \notin answered
            <4>1. Answer(q)
                BY <3>2 DEF ReadersNext, Ask, Settle, Answer, Publish, Tick, readersVars
            <4> QED BY <1>1, <4>1 DEF Answer, Ended
        <3> QED BY <3>1, <3>2
    <2>3. "concords" \in BrokerNeeds(q) /\ BrokerNeeds(q) \subseteq Pages
        BY PagesAreOfLayers DEF BrokerNeeds, Origins
    <2>4. \A p \in BrokerNeeds(q) : Given(q, p)' = Given(q, p) /\ Settled(q, p)'
        BY <2>1, <2>2, <2>3, SettledStays
    <2>5. BrokerNeeds(q)' = BrokerNeeds(q)
        BY <2>3, <2>4 DEF BrokerNeeds, Useless
    <2> QED BY <2>4, <2>5
<1>3. ASSUME reader' = "broker", NEW q \in Queries, Asks(q, "5850web")'
      PROVE  Useless(q, "concords")'
    <2>1. Origins \subseteq Pages /\ {"concords", "5850web"} \subseteq Pages
        BY PagesAreOfLayers DEF Origins
    <2>2. Useless(q, "concords")
        <3>1. CASE Asks(q, "5850web")
            BY <1>1, <1>3, <3>1 DEF Ranked
        <3>2. CASE ~Asks(q, "5850web")
            <4>1. source'[q]["5850web"] # source[q]["5850web"]
                BY <1>3, <3>2 DEF Asks
            <4>2. PICK r \in Queries : Ask(r)
                BY <4>1 DEF ReadersNext, Settle, Answer, Publish, Tick, readersVars
            <4>3. r = q /\ "5850web" \in Needs(q)
                BY <4>1, <4>2, <2>1 DEF Ask, Shared, ReadersTypeOK
            <4> QED BY <1>1, <1>3, <4>3 DEF Needs, BrokerNeeds
        <3> QED BY <3>1, <3>2
    <2>3. Settled(q, "concords")
        BY <2>2 DEF Useless, Settled, Outcomes, Bodies, Faulty
    <2>4. Given(q, "concords")' = Given(q, "concords")
        BY <2>1, <2>3, SettledStays
    <2> QED BY <2>2, <2>4 DEF Useless
<1> QED BY <1>2, <1>3 DEF Ranked

\* A fetch that showed the day before was begun before the day was published, and
\* is shared for less than Ttl.
LEMMA SharedDayIsSeen == ASSUME Shared PROVE PublishedDayIsSeen
<1> SUFFICES ASSUME NEW q \in Queries, NEW p \in Pages, Asks(q, p),
                    published[p] + Ttl <= asked[q][p], ~Undated(p)
             PROVE  Given(q, p) \notin {"old", "undated"}
    BY DEF PublishedDayIsSeen
<1> DEFINE s == source[q][p]
<1>1. s \in Queries /\ Given(q, p) = promise[s][p]
    BY DEF Asks, Given, Shared, ReadersTypeOK
<1>2. promise[s][p] # "none" /\ asked[q][p] < asked[s][p] + Ttl
    BY DEF Shared, FetchesAreShared
<1>3. asked[q][p] \in Nat /\ asked[s][p] \in Nat /\ published[p] \in Nat /\ Ttl \in Nat
    BY <1>1, NeverIsLater DEF Shared, ReadersTypeOK, ReadersAssumption
<1>4. promise[s][p] \notin {"old", "undated"}
    BY <1>1, <1>2, <1>3 DEF Shared, FetchesShowTheirTime
<1> QED BY <1>1, <1>4

\* An origin that was settled and is of use has shown one of the pages that end
\* the loop, and the second is taken when the first was of no use.
LEMMA ToldIsInTurn ==
    ASSUME Shared, Ranked PROVE OriginsInTurn
<1> SUFFICES ASSUME reader = "broker", NEW q \in Queries, q \in answered, wants[q] # {}
             PROVE  \/ Given(q, Taken(q)) \in {"old", "day", "empty", "dateless", "rowless"}
                    \/ \A p \in Origins : Useless(q, p)
    BY DEF Ranked, OriginsInTurn
<1> DEFINE p == Taken(q)
<1>1. p \in BrokerNeeds(q) /\ p \in Origins /\ p \in Pages
    BY PagesAreOfLayers DEF Taken, BrokerNeeds, Origins
<1>2. Given(q, p) \in Outcomes
    BY <1>1 DEF Ranked, RankingsAreTold, Settled
<1>3. CASE Useless(q, p)
    BY <1>3 DEF Taken, Origins
<1>4. CASE ~Useless(q, p)
    <2>1. Asks(q, p) /\ source[q][p] \in Queries /\ Given(q, p) = promise[source[q][p]][p]
        BY <1>1, <1>2 DEF Given, Asks, Outcomes, Bodies, Faulty, Shared, ReadersTypeOK
    <2>2. Given(q, p) # "undated"
        BY <1>1, <2>1 DEF Shared, FetchesShowTheirTime
    <2> QED BY <1>2, <1>4, <2>2 DEF Outcomes, Bodies, Faulty, Useless
<1> QED BY <1>3, <1>4

\* Whatever is shared, kept or failing: a day published for as long as a promise
\* is kept is seen, the second origin of a ranking is asked when the first was of
\* no use and only then, and what is kept is what it is taken for
\* (fetchJsonCached, fetchMoneyDjRangePage).
THEOREM ReadersTellWhatTheySaw ==
    ReadersSpec => []ReadersInv
<1>1. ReadersInit => Shared /\ Ranked
    <2>1. ReadersInit => RankingsAreTold
        BY DEF ReadersInit, RankingsAreTold
    <2>2. ReadersInit => \A q \in Queries : ~Asks(q, "5850web")
        BY PagesAreOfLayers DEF ReadersInit, Asks, Origins
    <2> QED BY <2>1, <2>2, InitShared DEF Ranked
<1>2. Shared /\ Ranked /\ [ReadersNext]_readersVars => Shared' /\ Ranked'
    BY NextShared, RankingsStayTold
<1>3. Shared /\ Ranked => ReadersInv
    BY SharedDayIsSeen, ToldIsInTurn DEF ReadersInv, Shared, Ranked
<1> QED BY <1>1, <1>2, <1>3, PTL DEF ReadersSpec

\* A ready layer has shown the day on each dated page, so it was published there,
\* and so has the origin a ready ranking was taken from.
LEMMA SharedNotBefore == ASSUME Shared PROVE NothingOfTheDayBefore
<1>1. ASSUME NEW q \in Queries, NEW p \in Pages, Given(q, p) \in {"day", "empty", "undated"}
      PROVE  /\ Given(q, p) \in {"day", "empty"} => published[p] # Never
             /\ p = "short_sell" /\ Given(q, p) = "undated" => Undated(p)
    <2>1. source[q][p] \in Queries /\ Given(q, p) = promise[source[q][p]][p]
        BY <1>1 DEF Given, Asks, Shared, ReadersTypeOK
    <2> QED BY <1>1, <2>1 DEF Shared, FetchesShowTheirTime
<1>2. ASSUME reader = "broker", NEW q \in Answers, BrokerStatus(q) \in {"READY", "READY_EMPTY"}
      PROVE  published[Taken(q)] # Never
    <2>1. q \in Queries /\ Taken(q) \in Pages
        BY PagesAreOfLayers DEF Answers, Shared, ReadersTypeOK, Taken, Origins
    <2>2. Given(q, Taken(q)) \in {"day", "empty"}
        BY <1>2 DEF BrokerStatus
    <2> QED BY <1>1, <2>1, <2>2
<1>3. ASSUME reader # "broker", NEW q \in Answers, NEW l \in wants[q], NEW m \in Markets,
             LayerStatus(q, l, m) \in {"READY", "READY_EMPTY"}, NEW p \in PagesOf(l, m)
      PROVE  Undated(p) \/ published[p] # Never
    <2>1. q \in Queries /\ l \in Layers
        BY <1>3 DEF Answers, Shared, ReadersTypeOK, Topics
    <2>2. OfTheDay(q, l, m) /\ p \in Pages
        BY <1>3, <2>1, PagesAreOfLayers DEF LayerStatus
    <2>3. Given(q, p) = "day" \/ (p = "short_sell" /\ Given(q, p) = "undated")
        BY <2>2 DEF OfTheDay
    <2> QED BY <1>1, <2>1, <2>2, <2>3
<1> QED BY <1>2, <1>3 DEF NothingOfTheDayBefore, Status

\* A layer in an answer that is ready has taken nothing dated from a page that
\* still showed the day before (loadTpexSbl, fetchOtcSbl).
THEOREM OnlyTheDay ==
    ReadersSpec => []NothingOfTheDayBefore
<1>1. ReadersInv => NothingOfTheDayBefore
    BY SharedNotBefore DEF ReadersInv, Shared
<1> QED BY <1>1, ReadersTellWhatTheySaw, PTL

\* The stock's own market is among those looked at, and an empty layer of it has
\* no row of the stock; an origin that says the day has no ranking is right.
LEMMA EmptyHasNoRow == ASSUME Shared PROVE EmptyIsSound
<1> SUFFICES ASSUME NEW q \in Answers, NEW l \in wants[q], Status(q, l) = "READY_EMPTY",
                    reader = "fast" => known
             PROVE  l \notin has
    BY DEF EmptyIsSound
<1>1. LayerStatus(q, l, market) = "READY_EMPTY" => l \notin has
    BY DEF LayerStatus, Row
<1>2. CASE reader = "fast"
    BY <1>1, <1>2 DEF Status, Chosen
<1>3. CASE reader = "chip"
    <2>1. market \in Inferred(q)
        BY DEF Inferred, Shared, ReadersTypeOK
    <2>2. LayerStatus(q, l, market) \in {"READY", "READY_EMPTY", "PENDING", "ERROR"}
        BY DEF LayerStatus
    <2>3. LayerStatus(q, l, market) \in {LayerStatus(q, l, m) : m \in Inferred(q)}
        BY <2>1
    <2>4. PairStatus(q, l) = "READY_EMPTY"
        BY <1>3 DEF Status
    <2>5. LayerStatus(q, l, market) = "READY_EMPTY"
        BY <2>2, <2>3, <2>4 DEF PairStatus
    <2> QED BY <1>1, <2>5
<1>4. CASE reader = "broker"
    <2> DEFINE p == Taken(q)
    <2>1. q \in Queries /\ p \in Pages /\ l = "ranking"
        BY <1>4, PagesAreOfLayers DEF Answers, Shared, ReadersTypeOK, Topics, Taken, Origins
    <2>2. Given(q, p) = "empty"
        BY <1>4 DEF Status, BrokerStatus
    <2>3. source[q][p] \in Queries /\ promise[source[q][p]][p] = "empty"
        BY <2>1, <2>2 DEF Given, Asks, Shared, ReadersTypeOK
    <2> QED BY <2>1, <2>3 DEF Shared, FetchesShowTheirTime
<1>5. reader \in {"fast", "chip", "broker"}
    BY DEF Shared, ReadersTypeOK, ReadersAssumption
<1> QED BY <1>2, <1>3, <1>4, <1>5

\* READY_EMPTY is never said of a layer or a ranking in which the stock has a row
\* that day; the fast path is held to it where the archive knows the market
\* (choosePair, layerFromBody, getTwBrokerRankedOnDemand).
THEOREM EmptyStaysSound ==
    ReadersSpec => []EmptyIsSound
<1>1. ReadersInv => EmptyIsSound
    BY EmptyHasNoRow DEF ReadersInv, Shared
<1> QED BY <1>1, ReadersTellWhatTheySaw, PTL

\* Nobody is given a fetch that has already failed (the delete in
\* fetchJsonCached).
THEOREM FailuresReachTheWaiting ==
    ReadersSpec => FailuresAreCurrent
<1> DEFINE Fresh == \A q \in Queries, p \in Pages :
                source[q][p] # source'[q][p] => promise[source'[q][p]][p] # "failed"
<1>1. ASSUME ReadersInv, ReadersNext PROVE Fresh
    <2> SUFFICES ASSUME NEW q \in Queries, NEW p \in Pages, source[q][p] # source'[q][p]
                 PROVE  promise[source'[q][p]][p] # "failed"
        OBVIOUS
    <2>1. Shared
        BY <1>1 DEF ReadersInv, Shared
    <2>2. PICK r \in Queries : Ask(r)
        BY <1>1 DEF ReadersNext, Answer, Settle, Publish, Tick
    <2>3. r = q /\ source'[q][p] = Shares(q, p) /\ source[q][p] = NoQuery
        BY <2>1, <2>2 DEF Ask, Asks, Shared, ReadersTypeOK
    <2>4. CASE Kept(p)
        BY <2>1, <2>3, <2>4 DEF Shares, Kept, Shared, EntriesAreCurrent, ReadersTypeOK
    <2>5. CASE ~Kept(p)
        <3>1. NoQuery # q
            BY DEF ReadersAssumption
        <3>2. promise[q][p] = "none"
            BY <2>1, <2>3, <3>1 DEF Shared, FetchesAreShared
        <3> QED BY <2>3, <2>5, <3>2 DEF Shares
    <2> QED BY <2>4, <2>5
<1>2. ReadersInv /\ [ReadersNext]_readersVars => [Fresh]_readersVars
    BY <1>1
<1> QED BY <1>2, ReadersTellWhatTheySaw, PTL DEF ReadersSpec, FailuresAreCurrent
=============================================================================
