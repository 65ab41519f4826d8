-------------------------- MODULE ImmutableLedger --------------------------
(***************************************************************************)
(* putIndexedImmutableRecord of src/v6/github-data-store.ts and the ledgers *)
(* built on it (signals, events, experiments, decisions, judgments,        *)
(* reviews): one immutable record per key, and a collection index that the *)
(* listings read.                                                          *)
(*                                                                         *)
(* The record and the index entry are two commits, so a call that ends in  *)
(* between leaves a record no listing shows until the call is repeated.    *)
(* One PUT is one step here; GitHubStore models the requests underneath,   *)
(* and a PUT sent by a call that was cut off may be served later.          *)
(***************************************************************************)
EXTENDS Naturals

CONSTANTS
    Callers,    \* concurrent tool calls
    Keys,       \* record keys of the collections (id and version)
    Hashes,     \* content_hash values
    Parent,     \* Parent[k]: the record that k's record refers to, or NoKey
    NoKey,
    NoRecord,
    Retries,    \* retries of each of the two writes (5 in the code)
    MaxCalls,   \* bound: calls in a behaviour
    MaxFaults   \* bound: calls cut off by an exception or an eviction

ASSUME LedgerAssumption ==
    /\ NoKey \notin Keys
    /\ NoRecord \notin [hash : Hashes, at : 1..MaxCalls]
    /\ Parent \in [Keys -> Keys \cup {NoKey}]
    /\ Retries \in Nat \ {0}
    /\ MaxCalls \in Nat
    /\ MaxFaults \in Nat

VARIABLES
    record,     \* the record file of each key
    index,      \* the index entry of each key: its recorded_at, 0 for none
    version,    \* the index file's blob sha: updated_at makes each write new
    late,       \* PUTs of calls that were cut off, not served yet
    pc, key, value, attempt,    \* each caller: step, key, record, attempt
    recordedAt, \* each caller: the recorded_at its index entry will carry
    seen,       \* each caller: the index version it read
    outcome,    \* each caller: how its last call ended
    calls, faults,
    acked,      \* <<key, hash>> of calls that returned ok
    broken      \* keys on which some call did not reach its end

files  == <<record, index, version>>
caller == <<key, value, recordedAt, seen>>
vars   == <<record, index, version, late, pc, key, value, attempt, recordedAt,
            seen, outcome, calls, faults, acked, broken>>

\* A record: what its content_hash covers, and the clock at its call.
Record == [hash : Hashes, at : 1..MaxCalls]

Go(c, where) == pc' = [pc EXCEPT ![c] = where]

Return(c, how) ==
    /\ Go(c, "idle")
    /\ outcome' = [outcome EXCEPT ![c] = how]

Throw(c, how) ==
    /\ Return(c, how)
    /\ broken' = broken \cup {key[c]}

(***************************************************************************)
(* recordSignalLedger and its kind: canonical content, hash, recorded_at.  *)
(***************************************************************************)

Call(c, k, h) ==
    /\ pc[c] = "idle"
    /\ calls < MaxCalls
    /\ calls' = calls + 1
    /\ key' = [key EXCEPT ![c] = k]
    /\ value' = [value EXCEPT ![c] = [hash |-> h, at |-> calls + 1]]
    /\ outcome' = [outcome EXCEPT ![c] = "none"]
    /\ Go(c, "reference")
    /\ UNCHANGED <<files, late, attempt, recordedAt, seen, faults, acked, broken>>

\* Mutant of CheckReference: what the record refers to is not looked up.
CheckReferenceNever(c) ==
    /\ pc[c] = "reference"
    /\ Go(c, "lookup")
    /\ UNCHANGED <<files, late, caller, attempt, outcome, calls, faults, acked,
                   broken>>

\* A signal's events, a decision's experiment and a review's judgment must be
\* in their ledger; the record is read by its key, not looked up in the index.
CheckReference(c) ==
    /\ pc[c] = "reference"
    /\ LET p == Parent[key[c]] IN
       IF p # NoKey /\ record[p] = NoRecord
       THEN Return(c, "reference_missing")
       ELSE Go(c, "lookup") /\ UNCHANGED outcome
    /\ UNCHANGED <<files, late, caller, attempt, calls, faults, acked, broken>>

(***************************************************************************)
(* putIndexedImmutableRecord.                                              *)
(***************************************************************************)

\* Mutant of ReplayFound: the index entry takes the repeated call's own clock.
ReplayFoundOwnClock(c) ==
    /\ pc[c] = "lookup"
    /\ record[key[c]] # NoRecord
    /\ record[key[c]].hash = value[c].hash
    /\ recordedAt' = [recordedAt EXCEPT ![c] = value[c].at]
    /\ attempt' = [attempt EXCEPT ![c] = 1]
    /\ Go(c, "readIndex")
    /\ UNCHANGED <<files, late, key, value, seen, outcome, calls, faults, acked,
                   broken>>

\* The record exists with the same content_hash: go on with the stored one.
ReplayFound(c) ==
    /\ pc[c] = "lookup"
    /\ record[key[c]] # NoRecord
    /\ record[key[c]].hash = value[c].hash
    /\ recordedAt' = [recordedAt EXCEPT ![c] = record[key[c]].at]
    /\ attempt' = [attempt EXCEPT ![c] = 1]
    /\ Go(c, "readIndex")
    /\ UNCHANGED <<files, late, key, value, seen, outcome, calls, faults, acked,
                   broken>>

\* The record exists with another content_hash.
LookupConflict(c) ==
    /\ pc[c] = "lookup"
    /\ record[key[c]] # NoRecord
    /\ record[key[c]].hash # value[c].hash
    /\ Return(c, "conflict")
    /\ UNCHANGED <<files, late, caller, attempt, calls, faults, acked, broken>>

LookupFree(c) ==
    /\ pc[c] = "lookup"
    /\ record[key[c]] = NoRecord
    /\ attempt' = [attempt EXCEPT ![c] = 1]
    /\ Go(c, "readRecord")
    /\ UNCHANGED <<files, late, caller, outcome, calls, faults, acked, broken>>

\* putImmutableGitHubJson reads again and compares the whole stored text,
\* recorded_at included.
ReadRecord(c) ==
    /\ pc[c] = "readRecord"
    /\ \/ /\ record[key[c]] = NoRecord
          /\ Go(c, "putRecord")
          /\ UNCHANGED <<attempt, recordedAt, outcome>>
       \/ /\ record[key[c]] = value[c]
          /\ recordedAt' = [recordedAt EXCEPT ![c] = value[c].at]
          /\ attempt' = [attempt EXCEPT ![c] = 1]
          /\ Go(c, "readIndex")
          /\ UNCHANGED outcome
       \/ /\ record[key[c]] \notin {NoRecord, value[c]}
          /\ Return(c, "conflict")
          /\ UNCHANGED <<attempt, recordedAt>>
    /\ UNCHANGED <<files, late, key, value, seen, calls, faults, acked, broken>>

\* After a 409/422: another attempt from step "again", or exhaustion.
Refused(c, again) ==
    IF attempt[c] < Retries
    THEN /\ attempt' = [attempt EXCEPT ![c] = @ + 1]
         /\ Go(c, again)
         /\ UNCHANGED <<outcome, broken>>
    ELSE /\ Throw(c, "exhausted")
         /\ UNCHANGED attempt

\* Mutant of PutRecord: a record just created is not indexed.
PutRecordOnly(c) ==
    /\ pc[c] = "putRecord"
    /\ \/ /\ record[key[c]] = NoRecord
          /\ record' = [record EXCEPT ![key[c]] = value[c]]
          /\ Return(c, "ok")
          /\ UNCHANGED <<attempt, broken>>
       \/ /\ record[key[c]] # NoRecord
          /\ Refused(c, "readRecord")
          /\ UNCHANGED record
    /\ UNCHANGED <<index, version, late, caller, calls, faults, acked>>

PutRecord(c) ==
    /\ pc[c] = "putRecord"
    /\ \/ /\ record[key[c]] = NoRecord
          /\ record' = [record EXCEPT ![key[c]] = value[c]]
          /\ recordedAt' = [recordedAt EXCEPT ![c] = value[c].at]
          /\ attempt' = [attempt EXCEPT ![c] = 1]
          /\ Go(c, "readIndex")
          /\ UNCHANGED <<outcome, broken>>
       \/ /\ record[key[c]] # NoRecord
          /\ Refused(c, "readRecord")
          /\ UNCHANGED <<record, recordedAt>>
    /\ UNCHANGED <<index, version, late, key, value, seen, calls, faults, acked>>

ReadIndex(c) ==
    /\ pc[c] = "readIndex"
    /\ seen' = [seen EXCEPT ![c] = version]
    /\ Go(c, "putIndex")
    /\ UNCHANGED <<files, late, key, value, recordedAt, attempt, outcome, calls,
                   faults, acked, broken>>

\* The index entry of k after merging: the first entry of a key is kept.
Indexed(k, at) == [index EXCEPT ![k] = IF @ = 0 THEN at ELSE @]

PutIndex(c) ==
    /\ pc[c] = "putIndex"
    /\ \/ /\ seen[c] = version
          /\ index' = Indexed(key[c], recordedAt[c])
          /\ version' = version + 1
          /\ Return(c, "ok")
          /\ acked' = acked \cup {<<key[c], value[c].hash>>}
          /\ UNCHANGED <<attempt, broken>>
       \/ /\ seen[c] # version
          /\ Refused(c, "readIndex")
          /\ UNCHANGED <<index, version, acked>>
    /\ UNCHANGED <<record, late, caller, calls, faults>>

(***************************************************************************)
(* Faults.                                                                 *)
(***************************************************************************)

\* A call is cut off; a PUT it had sent may still be served.
Abandon(c) ==
    /\ pc[c] # "idle"
    /\ faults < MaxFaults
    /\ faults' = faults + 1
    /\ Throw(c, "unknown")
    /\ late' \in {late, late \cup
         {[step |-> s, key |-> key[c], value |-> value[c],
           at |-> recordedAt[c], seen |-> seen[c]]
           : s \in {pc[c]} \cap {"putRecord", "putIndex"}}}
    /\ UNCHANGED <<files, caller, attempt, calls, acked>>

\* A late PUT meets the same compare-and-swap as any other.
ServeLate(r) ==
    /\ late' = late \ {r}
    /\ IF r.step = "putRecord"
       THEN /\ record' = [record EXCEPT ![r.key] =
                            IF @ = NoRecord THEN r.value ELSE @]
            /\ UNCHANGED <<index, version>>
       ELSE /\ index' = IF r.seen = version THEN Indexed(r.key, r.at) ELSE index
            /\ version' = IF r.seen = version THEN version + 1 ELSE version
            /\ UNCHANGED record
    /\ UNCHANGED <<pc, caller, attempt, outcome, calls, faults, acked, broken>>

\* The bound on calls is used up and nothing is left to do.
Rest ==
    /\ calls = MaxCalls
    /\ late = {}
    /\ \A c \in Callers : pc[c] = "idle"
    /\ UNCHANGED vars

Init ==
    /\ record = [k \in Keys |-> NoRecord]
    /\ index = [k \in Keys |-> 0]
    /\ version = 0
    /\ late = {}
    /\ pc = [c \in Callers |-> "idle"]
    /\ key = [c \in Callers |-> NoKey]
    /\ value = [c \in Callers |-> NoRecord]
    /\ attempt = [c \in Callers |-> 0]
    /\ recordedAt = [c \in Callers |-> 0]
    /\ seen = [c \in Callers |-> 0]
    /\ outcome = [c \in Callers |-> "none"]
    /\ calls = 0
    /\ faults = 0
    /\ acked = {}
    /\ broken = {}

Step(c) ==
    \/ CheckReference(c)
    \/ ReplayFound(c) \/ LookupConflict(c) \/ LookupFree(c)
    \/ ReadRecord(c) \/ PutRecord(c) \/ ReadIndex(c) \/ PutIndex(c)

Next ==
    \/ \E c \in Callers :
         Step(c) \/ Abandon(c) \/ \E k \in Keys, h \in Hashes : Call(c, k, h)
    \/ \E r \in late : ServeLate(r)
    \/ Rest

Spec == Init /\ [][Next]_vars

(***************************************************************************)
(* Properties.                                                             *)
(***************************************************************************)

LatePut == [step : {"putRecord", "putIndex"}, key : Keys, value : Record,
            at : 0..MaxCalls, seen : Nat]

\* Every variable stays in its set.
TypeOK ==
    /\ record \in [Keys -> {NoRecord} \cup Record]
    /\ index \in [Keys -> 0..MaxCalls]
    /\ version \in Nat
    /\ late \subseteq LatePut
    /\ pc \in [Callers -> {"idle", "reference", "lookup", "readRecord",
                           "putRecord", "readIndex", "putIndex"}]
    /\ \A c \in Callers :
         pc[c] # "idle" => key[c] \in Keys /\ value[c] \in Record
    /\ attempt \in [Callers -> 0..Retries]
    /\ recordedAt \in [Callers -> 0..MaxCalls]
    /\ seen \in [Callers -> Nat]
    /\ key \in [Callers -> Keys \cup {NoKey}]
    /\ value \in [Callers -> {NoRecord} \cup Record]
    /\ outcome \in [Callers -> {"none", "ok", "reference_missing", "conflict",
                                "exhausted", "unknown"}]
    /\ calls \in 0..MaxCalls /\ faults \in 0..MaxFaults
    /\ acked \subseteq Keys \X Hashes
    /\ broken \subseteq Keys

\* A listing reads the index and then each record: every entry has its record,
\* and the recorded_at that listings sort by is the record's own, also when the
\* entry was added by a later repetition of a call that was cut off.
EntriesMatchRecords ==
    \A k \in Keys : index[k] # 0 => record[k] # NoRecord /\ index[k] = record[k].at

\* What a call was told is recorded stays recorded with that content, and is
\* listed.
AckedIsListed ==
    \A a \in acked : /\ record[a[1]] # NoRecord
                     /\ record[a[1]].hash = a[2]
                     /\ index[a[1]] # 0

\* What the record of k refers to is recorded.
Referred(k) == Parent[k] # NoKey => record[Parent[k]] # NoRecord

\* The record of k is there, with this recorded_at.
StoredAt(k, at) == record[k] # NoRecord /\ record[k].at = at

\* A call that has passed the reference check may rely on it until its record is
\* written, and one that writes the index on the record it writes it for: what
\* both have read can no longer change.
CallsRelyOnFacts ==
    \A c \in Callers :
      /\ pc[c] \in {"lookup", "readRecord", "putRecord"} => Referred(key[c])
      /\ pc[c] \in {"readIndex", "putIndex"} =>
           StoredAt(key[c], recordedAt[c]) /\ record[key[c]].hash = value[c].hash

\* So may a PUT whose call was cut off, however late it is served.
LatePutsRelyOnFacts ==
    \A r \in late :
      /\ r.key \in broken
      /\ r.step = "putRecord" => Referred(r.key)
      /\ r.step = "putIndex" => StoredAt(r.key, r.at)

\* The ledger is consistent: records and index agree, neither has forgotten
\* what a caller was told, and what is under way keeps it so
\* (putIndexedImmutableRecord).
LedgerInv ==
    /\ TypeOK /\ EntriesMatchRecords /\ AckedIsListed
    /\ CallsRelyOnFacts /\ LatePutsRelyOnFacts

\* A record that no listing shows is the work of a call still under way or of
\* one that did not reach its end.
UnlistedIsUnfinished ==
    \A k \in Keys : record[k] # NoRecord /\ index[k] = 0 =>
      \/ k \in broken
      \/ \E c \in Callers : key[c] = k /\ pc[c] \in {"readIndex", "putIndex"}

\* Signals refer to recorded events, decisions to recorded experiments,
\* reviews to recorded judgments.
ReferencesResolve ==
    \A k \in Keys :
      record[k] # NoRecord /\ Parent[k] # NoKey => record[Parent[k]] # NoRecord
=============================================================================
