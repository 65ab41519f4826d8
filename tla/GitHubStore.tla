---------------------------- MODULE GitHubStore ----------------------------
(***************************************************************************)
(* src/v6/github-data-store.ts and src/v6/github-atomic-json.ts: Worker    *)
(* invocations that share one branch of one GitHub repository.             *)
(*                                                                         *)
(* updateGitHubJson and putImmutableGitHubJson read one file and PUT it    *)
(* back under the blob sha they read; atomicUpdateGitHubJsonFiles reads a  *)
(* commit, builds a new one on top of it and moves the branch to it        *)
(* without force.  Both kinds of compare-and-swap meet on the same branch. *)
(* A request that has left a Worker stays on the wire when the Worker is   *)
(* evicted or its fetch fails, and may be served long after the call was   *)
(* repeated.                                                               *)
(***************************************************************************)
EXTENDS StoreJobs, Naturals

CONSTANTS
    Callers,    \* concurrent Worker invocations
    Retries,    \* Retries[j]: the retries argument of job j
    NoJob,      \* what an invocation works on before its first call
    MaxCalls,   \* bound: store calls in a behaviour
    MaxFaults   \* bound: calls that end by an exception or an eviction

ASSUME StoreAssumption ==
    /\ Retries \in [Jobs -> Nat]
    /\ NoJob \notin Jobs
    /\ MaxCalls \in Nat
    /\ MaxFaults \in Nat

VARIABLES
    head,       \* number of the commit the branch points to
    tree,       \* that commit's files
    wire,       \* write requests GitHub has not processed yet
    pc,         \* where each invocation is in its call
    job,        \* the call's job
    callId,     \* the call's number
    attempt,    \* the retry loop's counter
    baseHead,   \* commit current when the attempt read
    base,       \* the files as the attempt read them
    callHead,   \* commit current when the call began
    outcome,    \* how the invocation's last call ended
    calls,      \* calls begun so far
    faults,     \* calls that ended by an exception or an eviction
    acked       \* jobs some call has returned ok for

branch == <<head, tree>>
local  == <<job, callId, callHead>>
look   == <<baseHead, base>>
vars   == <<head, tree, wire, pc, job, callId, attempt, baseHead, base,
            callHead, outcome, calls, faults, acked>>

\* Math.max(1, Math.min(8, input.retries ?? default))
Attempts(j) == IF Retries[j] < 1 THEN 1 ELSE IF Retries[j] > 8 THEN 8
                                        ELSE Retries[j]

Request == [from : Callers, call : Nat, job : Jobs, parent : Nat, base : Tree]

(***************************************************************************)
(* GitHub's side.                                                          *)
(***************************************************************************)

\* Mutant of Accepts: the ref is moved with force:true.
AcceptsForced(r) ==
    Kind[r.job] # Atomic => \A p \in Targets[r.job] : tree[p] = r.base[p]

\* A Contents PUT succeeds when the file still has the blob sha it names (no
\* file, for a PUT without one); a ref PATCH with force:false succeeds when
\* the new commit's parent is still the head.
Accepts(r) ==
    IF Kind[r.job] = Atomic
    THEN r.parent = head
    ELSE \A p \in Targets[r.job] : tree[p] = r.base[p]

\* Mutant of NewTree: the files of a job are written one commit at a time, and
\* the call ends after the first.
NewTreeFirstFile(r) ==
    [p \in Paths |->
        IF p = (CHOOSE q \in Targets[r.job] : TRUE)
        THEN r.base[p] \cup {Value[r.job]}
        ELSE IF Kind[r.job] = Atomic THEN r.base[p] ELSE tree[p]]

\* The tree of the new head: a Contents PUT changes its file in the current
\* tree, a new commit is the staged files on top of the tree its caller read.
NewTree(r) ==
    [p \in Paths |->
        IF p \in Targets[r.job] THEN r.base[p] \cup {Value[r.job]}
        ELSE IF Kind[r.job] = Atomic THEN r.base[p] ELSE tree[p]]

\* The response reaches the caller only while it still waits for it.
Answer(r, what) ==
    pc' = [pc EXCEPT ![r.from] =
             IF @ = "waiting" /\ callId[r.from] = r.call THEN what ELSE @]

Accept(r) ==
    /\ r \in wire
    /\ Accepts(r)
    /\ head' = head + 1
    /\ tree' = NewTree(r)
    /\ wire' = wire \ {r}
    /\ Answer(r, "accepted")
    /\ UNCHANGED <<local, look, attempt, outcome, calls, faults, acked>>

\* 409 or 422: the sha no longer matches, or the branch moved under a Contents
\* PUT whose own file did not change.
Refuse(r) ==
    /\ r \in wire
    /\ ~Accepts(r) \/ r.parent # head
    /\ wire' = wire \ {r}
    /\ Answer(r, "refused")
    /\ UNCHANGED <<branch, local, look, attempt, outcome, calls, faults, acked>>

(***************************************************************************)
(* The caller's side.                                                      *)
(***************************************************************************)

Call(w, j) ==
    /\ pc[w] = "idle"
    /\ calls < MaxCalls
    /\ calls' = calls + 1
    /\ pc' = [pc EXCEPT ![w] = "reading"]
    /\ job' = [job EXCEPT ![w] = j]
    /\ callId' = [callId EXCEPT ![w] = calls + 1]
    /\ attempt' = [attempt EXCEPT ![w] = 1]
    /\ callHead' = [callHead EXCEPT ![w] = head]
    /\ outcome' = [outcome EXCEPT ![w] = "none"]
    /\ UNCHANGED <<branch, wire, look, faults, acked>>

\* The GET of the file, or of the head commit and every file at that commit.
\* A commit never changes, so its files are read as of the head read first; a
\* Contents call uses its own file of base only.
Read(w) ==
    /\ pc[w] = "reading"
    /\ pc' = [pc EXCEPT ![w] = "merging"]
    /\ baseHead' = [baseHead EXCEPT ![w] = head]
    /\ base' = [base EXCEPT ![w] = tree]
    /\ UNCHANGED <<branch, wire, local, attempt, outcome, calls, faults, acked>>

Return(w, how) ==
    /\ pc' = [pc EXCEPT ![w] = "idle"]
    /\ outcome' = [outcome EXCEPT ![w] = how]

\* The merged text equals what was read: return without writing.
AlreadyThere(w) ==
    /\ pc[w] = "merging"
    /\ Landed(job[w], base[w])
    /\ Return(w, "idempotent")
    /\ acked' = acked \cup {job[w]}
    /\ UNCHANGED <<branch, wire, local, look, attempt, calls, faults>>

\* Mutant of Occupied: no look at what the record holds before writing it.
OccupiedNever(j, t) == FALSE

\* A different record already occupies an immutable path.
Occupied(j, t) == Kind[j] = Immutable /\ ~Free(j, t) /\ ~Landed(j, t)

Conflict(w) ==
    /\ pc[w] = "merging"
    /\ Occupied(job[w], base[w])
    /\ Return(w, "conflict")
    /\ UNCHANGED <<branch, wire, local, look, attempt, calls, faults, acked>>

\* Mutant of Send: the new commit's parent is the head of this moment, not the
\* one the files were read at.
SendOntoHead(w) ==
    /\ pc[w] = "merging"
    /\ ~Landed(job[w], base[w])
    /\ ~Occupied(job[w], base[w])
    /\ wire' = wire \cup
         {[from |-> w, call |-> callId[w], job |-> job[w],
           parent |-> head, base |-> base[w]]}
    /\ pc' = [pc EXCEPT ![w] = "waiting"]
    /\ UNCHANGED <<branch, local, look, attempt, outcome, calls, faults, acked>>

\* Creating blobs, tree and commit leaves the branch alone; what the other
\* invocations can see begins with the request that moves it.
Send(w) ==
    /\ pc[w] = "merging"
    /\ ~Landed(job[w], base[w])
    /\ ~Occupied(job[w], base[w])
    /\ wire' = wire \cup
         {[from |-> w, call |-> callId[w], job |-> job[w],
           parent |-> baseHead[w], base |-> base[w]]}
    /\ pc' = [pc EXCEPT ![w] = "waiting"]
    /\ UNCHANGED <<branch, local, look, attempt, outcome, calls, faults, acked>>

Finish(w) ==
    /\ pc[w] = "accepted"
    /\ Return(w, "written")
    /\ acked' = acked \cup {job[w]}
    /\ UNCHANGED <<branch, wire, local, look, attempt, calls, faults>>

\* Mutant of Retry: the next attempt reuses what the last one read.
RetryWithoutReading(w) ==
    /\ pc[w] = "refused"
    /\ attempt[w] < Attempts(job[w])
    /\ attempt' = [attempt EXCEPT ![w] = @ + 1]
    /\ pc' = [pc EXCEPT ![w] = "merging"]
    /\ UNCHANGED <<branch, wire, local, look, outcome, calls, faults, acked>>

\* Mutant of Retry: the same, and the attempts are not counted.
RetryForever(w) ==
    /\ pc[w] = "refused"
    /\ pc' = [pc EXCEPT ![w] = "merging"]
    /\ UNCHANGED <<branch, wire, local, look, attempt, outcome, calls, faults,
                   acked>>

Retry(w) ==
    /\ pc[w] = "refused"
    /\ attempt[w] < Attempts(job[w])
    /\ attempt' = [attempt EXCEPT ![w] = @ + 1]
    /\ pc' = [pc EXCEPT ![w] = "reading"]
    /\ UNCHANGED <<branch, wire, local, look, outcome, calls, faults, acked>>

\* Mutant of GiveUp: the last 409/422 is ignored.
GiveUpSilently(w) ==
    /\ pc[w] = "refused"
    /\ attempt[w] >= Attempts(job[w])
    /\ Return(w, "written")
    /\ acked' = acked \cup {job[w]}
    /\ UNCHANGED <<branch, wire, local, look, attempt, calls, faults>>

GiveUp(w) ==
    /\ pc[w] = "refused"
    /\ attempt[w] >= Attempts(job[w])
    /\ Return(w, "exhausted")
    /\ UNCHANGED <<branch, wire, local, look, attempt, calls, faults, acked>>

\* Any status but 404, 409 and 422 throws, a fetch may fail, a merge callback
\* may throw and the platform may evict the Worker.  A request already sent
\* stays on the wire.
Abandon(w) ==
    /\ pc[w] # "idle"
    /\ faults < MaxFaults
    /\ faults' = faults + 1
    /\ Return(w, "unknown")
    /\ UNCHANGED <<branch, wire, local, look, attempt, calls, acked>>

\* The bound on calls is used up and nothing is left to do.
Rest ==
    /\ calls = MaxCalls
    /\ wire = {}
    /\ \A w \in Callers : pc[w] = "idle"
    /\ UNCHANGED vars

Init ==
    /\ head = 0
    /\ tree = [p \in Paths |-> {}]
    /\ wire = {}
    /\ pc = [w \in Callers |-> "idle"]
    /\ job = [w \in Callers |-> NoJob]
    /\ callId = [w \in Callers |-> 0]
    /\ attempt = [w \in Callers |-> 0]
    /\ baseHead = [w \in Callers |-> 0]
    /\ base = [w \in Callers |-> tree]
    /\ callHead = [w \in Callers |-> 0]
    /\ outcome = [w \in Callers |-> "none"]
    /\ calls = 0
    /\ faults = 0
    /\ acked = {}

Step(w) ==
    \/ Read(w) \/ AlreadyThere(w) \/ Conflict(w) \/ Send(w)
    \/ Finish(w) \/ Retry(w) \/ GiveUp(w)

Serve(w) == \E r \in wire : r.from = w /\ (Accept(r) \/ Refuse(r))

Next ==
    \/ \E w \in Callers :
         Step(w) \/ Serve(w) \/ Abandon(w) \/ \E j \in Jobs : Call(w, j)
    \/ Rest

Spec == Init /\ [][Next]_vars

\* A Worker that is not evicted runs on, and GitHub answers what it receives.
Fairness == \A w \in Callers : WF_vars(Step(w)) /\ WF_vars(Serve(w))

FairSpec == Spec /\ Fairness

(***************************************************************************)
(* Properties.                                                             *)
(***************************************************************************)

Phases   == {"idle", "reading", "merging", "waiting", "accepted", "refused"}
Outcomes == {"none", "idempotent", "conflict", "written", "exhausted",
             "unknown"}

\* Every variable stays in its set.
TypeOK ==
    /\ head \in Nat
    /\ tree \in Tree
    /\ wire \subseteq Request
    /\ pc \in [Callers -> Phases]
    /\ job \in [Callers -> Jobs \cup {NoJob}]
    /\ \A w \in Callers : pc[w] # "idle" => job[w] \in Jobs
    /\ callId \in [Callers -> Nat]
    /\ attempt \in [Callers -> Nat]
    /\ baseHead \in [Callers -> Nat]
    /\ base \in [Callers -> Tree]
    /\ callHead \in [Callers -> Nat]
    /\ outcome \in [Callers -> Outcomes]
    /\ calls \in Nat
    /\ faults \in Nat
    /\ acked \subseteq Jobs

\* No lost update: what a call was told is stored stays stored, whatever the
\* other invocations, their retries and requests served late do ("a 409/422 is
\* never ignored").
NoLostUpdate == \A j \in acked : Landed(j, tree)

\* A multi-file commit is seen in all its files or in none, although Contents
\* PUTs to some of them run beside it.  It speaks of jobs whose contribution no
\* other job makes: otherwise one file could owe it to the other job.
AllOrNothing ==
    \A j \in Jobs :
      (\A i \in Jobs : Value[i] = Value[j] => i = j)
        => \A p, q \in Targets[j] :
             Value[j] \in tree[p] => Value[j] \in tree[q]

\* An immutable record, once there, never changes.
RecordsImmutable ==
    [][\A p \in RecordPaths : tree[p] # {} => tree'[p] = tree[p]]_vars

\* GITHUB_CAS_EXHAUSTED is only ever reported because of contention: while the
\* call ran, others moved the branch once for each of its attempts.
ExhaustionMeansContention ==
    \A w \in Callers :
      outcome[w] = "exhausted" => head >= callHead[w] + Attempts(job[w])

\* Every call ends, by a result or by an exception.
EveryCallReturns ==
    \A w \in Callers : pc[w] # "idle" ~> pc[w] = "idle"

\* The store keeps MergeStore's promise: every request GitHub accepts merges
\* its job into the files as they are at that moment, and every ok a caller
\* gets follows such a merge.
Promise == INSTANCE MergeStore WITH content <- tree
Implements == Promise!Spec

(***************************************************************************)
(* The inductive invariant behind the safety properties.                   *)
(***************************************************************************)

\* s is an earlier tree than t: contributions are never taken back and a
\* record is never replaced.
Grown(s, t) ==
    \A p \in Paths :
      /\ s[p] \subseteq t[p]
      /\ p \in RecordPaths /\ s[p] # {} => s[p] = t[p]

\* What an invocation read is an earlier tree, the current one if the branch
\* has not moved since.
SnapshotsAreHistory ==
    \A w \in Callers :
      /\ baseHead[w] <= head
      /\ baseHead[w] = head => base[w] = tree
      /\ Grown(base[w], tree)

\* A request on the wire carries what its caller read, and a record is only
\* ever sent to a path its caller found free.
RequestsAreHistory ==
    \A r \in wire :
      /\ r.parent <= head
      /\ r.parent = head => r.base = tree
      /\ Kind[r.job] = Immutable => Free(r.job, r.base)

\* A request belongs to the attempt its caller waits on, unless the caller has
\* abandoned that call; no call has two requests on the wire.
RequestsBelong ==
    /\ \A w \in Callers : callId[w] <= calls
    /\ \A r \in wire :
         /\ r.call <= calls
         /\ r.call = callId[r.from] =>
              /\ pc[r.from] \in {"waiting", "idle"}
              /\ r.job = job[r.from]
              /\ r.parent = baseHead[r.from]
    /\ \A r, s \in wire : r.from = s.from /\ r.call = s.call => r = s

\* A caller about to return ok is right.
AcceptedLanded ==
    \A w \in Callers : pc[w] = "accepted" => Landed(job[w], tree)

\* Each attempt of a call read a later head than the attempt before it.
AttemptsAdvance ==
    \A w \in Callers :
      /\ pc[w] = "reading" => head + 1 >= callHead[w] + attempt[w]
      /\ pc[w] \in {"merging", "waiting", "accepted", "refused"} =>
           baseHead[w] + 1 >= callHead[w] + attempt[w]
      /\ pc[w] = "refused" => head > baseHead[w]
      /\ outcome[w] = "exhausted" => pc[w] = "idle" /\ job[w] \in Jobs

IInv ==
    /\ TypeOK
    /\ SnapshotsAreHistory
    /\ RequestsAreHistory
    /\ RequestsBelong
    /\ AcceptedLanded
    /\ AttemptsAdvance
    /\ NoLostUpdate
    /\ AllOrNothing
    /\ ExhaustionMeansContention
=============================================================================
