------------------------- MODULE GitHubStoreProofs -------------------------
(***************************************************************************)
(* Proofs about GitHubStore for any number of invocations, files, jobs,    *)
(* retries, calls and faults.  TLC checks the same formulas on the small   *)
(* instances of MCGitHubStore.                                             *)
(***************************************************************************)
EXTENDS GitHubStore, TLAPS

USE JobsAssumption, RecordsApart, StoreAssumption

(***************************************************************************)
(* Lemmas about the data.                                                  *)
(***************************************************************************)

\* A merge adds to its own files and leaves the others alone.
LEMMA AppliedType ==
    ASSUME NEW j \in Jobs, NEW t \in Tree
    PROVE  /\ Applied(j, t) \in Tree
           /\ Landed(j, Applied(j, t))
BY DEF Tree, Values, Applied, Landed

\* Merging a job that respects record paths only makes the tree grow.
LEMMA AppliedGrows ==
    ASSUME NEW j \in Jobs, NEW t \in Tree, Kind[j] = Immutable => Free(j, t)
    PROVE  Grown(t, Applied(j, t))
<1> SUFFICES ASSUME NEW p \in Paths
             PROVE  /\ t[p] \subseteq Applied(j, t)[p]
                    /\ p \in RecordPaths /\ t[p] # {} => t[p] = Applied(j, t)[p]
    BY DEF Grown
<1>1. CASE p \notin Targets[j]
    BY <1>1 DEF Applied
<1>2. CASE p \in Targets[j]
    <2>1. p \in RecordPaths => Kind[j] = Immutable
        BY <1>2
    <2>2. p \in RecordPaths => t[p] = {}
        BY <1>2, <2>1 DEF Free
    <2> QED BY <1>2, <2>2 DEF Applied
<1> QED BY <1>1, <1>2

\* A tree has grown from itself, and growing twice is growing.
LEMMA GrownReflexive == ASSUME NEW t \in Tree PROVE Grown(t, t)
BY DEF Grown

\* A tree that has grown twice has grown.
LEMMA GrownTransitive ==
    ASSUME NEW s \in Tree, NEW t \in Tree, NEW u \in Tree,
           Grown(s, t), Grown(t, u)
    PROVE  Grown(s, u)
BY DEF Grown, Tree

\* What has landed stays landed.
LEMMA LandedGrows ==
    ASSUME NEW s \in Tree, NEW t \in Tree, NEW j \in Jobs,
           Grown(s, t), Landed(j, s)
    PROVE  Landed(j, t)
BY DEF Grown, Landed, Tree

\* A merge enters all the files of a job or none of them.
LEMMA AppliedTogether ==
    ASSUME NEW i \in Jobs, TypeOK, AllOrNothing, tree' = Applied(i, tree)
    PROVE  AllOrNothing'
<1> SUFFICES ASSUME NEW j \in Jobs,
                    \A k \in Jobs : Value[k] = Value[j] => k = j,
                    NEW p \in Targets[j], NEW q \in Targets[j],
                    Value[j] \in tree'[p]
             PROVE  Value[j] \in tree'[q]
    BY DEF AllOrNothing
<1>1. p \in Paths /\ q \in Paths
    OBVIOUS
<1>2. CASE i = j
    BY <1>1, <1>2 DEF Applied
<1>3. CASE i # j
    <2>1. Value[j] # Value[i]
        BY <1>3
    <2>2. Value[j] \in tree[p]
        BY <1>1, <2>1 DEF Applied
    <2>3. Value[j] \in tree[q]
        BY <2>2 DEF AllOrNothing
    <2> QED BY <1>1, <2>3 DEF Applied
<1> QED BY <1>2, <1>3

\* The request GitHub accepts is merged into the files of that moment: neither
\* compare-and-swap lets a stale base through.
LEMMA AcceptApplies ==
    ASSUME TypeOK, RequestsAreHistory, NEW r \in wire, Accepts(r)
    PROVE  /\ r.job \in Jobs
           /\ NewTree(r) = Applied(r.job, tree)
           /\ Kind[r.job] = Immutable => Free(r.job, tree)
<1>1. r \in Request /\ r.job \in Jobs
    BY DEF TypeOK, Request
<1>2. CASE Kind[r.job] = Atomic
    <2>1. r.base = tree
        BY <1>2 DEF Accepts, RequestsAreHistory
    <2> QED BY <1>1, <1>2, <2>1 DEF NewTree, Applied, Atomic, Immutable
<1>3. CASE Kind[r.job] # Atomic
    <2>1. \A p \in Targets[r.job] : tree[p] = r.base[p]
        BY <1>3 DEF Accepts
    <2>2. NewTree(r) = Applied(r.job, tree)
        BY <1>3, <2>1 DEF NewTree, Applied
    <2>3. Kind[r.job] = Immutable => Free(r.job, tree)
        BY <2>1 DEF RequestsAreHistory, Free
    <2> QED BY <1>1, <2>2, <2>3
<1> QED BY <1>2, <1>3

(***************************************************************************)
(* Types.                                                                  *)
(***************************************************************************)

\* The initial state is well typed.
LEMMA InitTypeOK == Init => TypeOK
BY DEF Init, TypeOK, Tree, Phases, Outcomes

\* Every step keeps the variables in their sets, one case per action.
LEMMA NextTypeOK == TypeOK /\ [Next]_vars => TypeOK'
<1> SUFFICES ASSUME TypeOK, [Next]_vars PROVE TypeOK'
    OBVIOUS
<1>1. ASSUME NEW w \in Callers, NEW r \in wire, Accept(r)
      PROVE  TypeOK'
    <2>1. r \in Request /\ r.base \in Tree /\ r.job \in Jobs
        BY DEF TypeOK, Request
    <2>2. NewTree(r) \in Tree
        BY <2>1 DEF NewTree, Tree, Values, TypeOK
    <2>3. pc' \in [Callers -> Phases]
          /\ \A v \in Callers : pc'[v] # "idle" => pc[v] # "idle"
        BY <1>1 DEF Accept, Answer, TypeOK, Phases
    <2> QED BY <1>1, <2>2, <2>3 DEF Accept, TypeOK, branch, local, look
<1>2. ASSUME NEW w \in Callers, NEW r \in wire, Refuse(r)
      PROVE  TypeOK'
    <2>1. pc' \in [Callers -> Phases]
          /\ \A v \in Callers : pc'[v] # "idle" => pc[v] # "idle"
        BY <1>2 DEF Refuse, Answer, TypeOK, Phases
    <2> QED BY <1>2, <2>1 DEF Refuse, TypeOK, branch, local, look
<1>3. ASSUME NEW w \in Callers, NEW j \in Jobs, Call(w, j)
      PROVE  TypeOK'
    BY <1>3 DEF Call, TypeOK, Phases, Outcomes, branch, look
<1>4. ASSUME NEW w \in Callers, Read(w)
      PROVE  TypeOK'
    BY <1>4 DEF Read, TypeOK, Phases, branch, local
<1>5. ASSUME NEW w \in Callers, AlreadyThere(w) \/ Finish(w)
      PROVE  TypeOK'
    <2>1. job[w] \in Jobs
        BY <1>5 DEF AlreadyThere, Finish, TypeOK
    <2> QED BY <1>5, <2>1 DEF AlreadyThere, Finish, Return, TypeOK, Phases,
                              Outcomes, branch, local, look
<1>6. ASSUME NEW w \in Callers, Conflict(w) \/ GiveUp(w) \/ Abandon(w)
      PROVE  TypeOK'
    BY <1>6 DEF Conflict, GiveUp, Abandon, Return, TypeOK, Phases, Outcomes,
                branch, local, look
<1>7. ASSUME NEW w \in Callers, Send(w)
      PROVE  TypeOK'
    <2> DEFINE r == [from |-> w, call |-> callId[w], job |-> job[w],
                     parent |-> baseHead[w], base |-> base[w]]
    <2>1. r \in Request
        BY <1>7 DEF Send, TypeOK, Request
    <2>2. wire' \subseteq Request
        BY <1>7, <2>1 DEF Send, TypeOK
    <2> QED BY <1>7, <2>2 DEF Send, TypeOK, Phases, branch, local, look
<1>8. ASSUME NEW w \in Callers, Retry(w)
      PROVE  TypeOK'
    BY <1>8 DEF Retry, TypeOK, Phases, branch, local, look
<1>9. CASE Rest \/ UNCHANGED vars
    BY <1>9 DEF Rest, TypeOK, vars
<1> QED BY <1>1, <1>2, <1>3, <1>4, <1>5, <1>6, <1>7, <1>8, <1>9
        DEF Next, Step, Serve

\* Every variable of the store stays in its set.
THEOREM TypeCorrect == Spec => []TypeOK
<1>1. QED BY InitTypeOK, NextTypeOK, PTL DEF Spec

(***************************************************************************)
(* The inductive invariant, one lemma per kind of step.                    *)
(***************************************************************************)

\* Before any call there is nothing for the invariant to be wrong about.
LEMMA InitIInv == Init => IInv
<1> SUFFICES ASSUME Init PROVE IInv
    OBVIOUS
<1>1. TypeOK
    BY InitTypeOK
<1>2. tree \in Tree /\ \A w \in Callers : base[w] = tree
    BY <1>1 DEF Init, TypeOK
<1>3. SnapshotsAreHistory
    BY <1>2, GrownReflexive DEF Init, SnapshotsAreHistory
<1>4. RequestsAreHistory /\ RequestsBelong /\ AcceptedLanded /\ AttemptsAdvance
    BY DEF Init, RequestsAreHistory, RequestsBelong, AcceptedLanded,
           AttemptsAdvance
<1>5. NoLostUpdate /\ AllOrNothing /\ ExhaustionMeansContention
    BY DEF Init, NoLostUpdate, AllOrNothing, ExhaustionMeansContention
<1> QED BY <1>1, <1>3, <1>4, <1>5 DEF IInv

\* GitHub accepts a request: the one step that changes the files.
LEMMA AcceptIInv ==
    ASSUME IInv, TypeOK', NEW r \in wire, Accept(r)
    PROVE  IInv'
<1>1. /\ r \in Request
      /\ r.job \in Jobs
      /\ tree' = Applied(r.job, tree)
      /\ Kind[r.job] = Immutable => Free(r.job, tree)
    BY AcceptApplies DEF IInv, Accept, TypeOK
<1>2. tree \in Tree /\ tree' \in Tree /\ head \in Nat /\ head' = head + 1
    BY DEF IInv, TypeOK, Accept
<1>3. Grown(tree, tree')
    BY <1>1, <1>2, AppliedGrows
<1>4. pc' = [pc EXCEPT ![r.from] =
               IF @ = "waiting" /\ callId[r.from] = r.call
               THEN "accepted" ELSE @]
    BY DEF Accept, Answer
<1>5. /\ wire' = wire \ {r}
      /\ job' = job /\ callId' = callId /\ callHead' = callHead
      /\ baseHead' = baseHead /\ base' = base /\ attempt' = attempt
      /\ outcome' = outcome /\ calls' = calls /\ acked' = acked
    BY DEF Accept, local, look
<1>6. SnapshotsAreHistory'
    <2> SUFFICES ASSUME NEW w \in Callers
                 PROVE  baseHead[w] <= head + 1 /\ baseHead[w] # head + 1
                        /\ Grown(base[w], tree')
        BY <1>2, <1>5 DEF SnapshotsAreHistory
    <2>1. base[w] \in Tree /\ baseHead[w] \in Nat
        BY DEF IInv, TypeOK
    <2>2. baseHead[w] <= head /\ Grown(base[w], tree)
        BY DEF IInv, SnapshotsAreHistory
    <2> QED BY <2>1, <2>2, <1>2, <1>3, GrownTransitive
<1>7. RequestsAreHistory'
    <2> SUFFICES ASSUME NEW s \in wire
                 PROVE  /\ s.parent <= head + 1 /\ s.parent # head + 1
                        /\ Kind[s.job] = Immutable => Free(s.job, s.base)
        BY <1>2, <1>5 DEF RequestsAreHistory
    <2>1. s.parent \in Nat
        BY DEF IInv, TypeOK, Request
    <2> QED BY <2>1, <1>2 DEF IInv, RequestsAreHistory
<1>8. RequestsBelong'
    <2>1. \A s \in wire' : s.from = r.from => s.call # r.call
        BY <1>5 DEF IInv, RequestsBelong
    <2>2. \A s \in wire' : s.call = callId[s.from] => pc'[s.from] = pc[s.from]
        BY <2>1, <1>4, <1>5 DEF IInv, TypeOK, Request
    <2> QED BY <2>2, <1>5 DEF IInv, RequestsBelong
<1>9. AcceptedLanded'
    <2> SUFFICES ASSUME NEW w \in Callers, pc'[w] = "accepted"
                 PROVE  Landed(job[w], tree')
        BY <1>5 DEF AcceptedLanded
    <2>1. CASE pc[w] = "accepted"
        <3>1. job[w] \in Jobs /\ Landed(job[w], tree)
            BY <2>1 DEF IInv, TypeOK, AcceptedLanded
        <3> QED BY <3>1, <1>2, <1>3, LandedGrows
    <2>2. CASE pc[w] # "accepted"
        <3>1. w = r.from /\ callId[w] = r.call
            BY <2>2, <1>4 DEF IInv, TypeOK
        <3>2. r.job = job[w]
            BY <3>1 DEF IInv, RequestsBelong
        <3> QED BY <3>2, <1>1, <1>2, AppliedType
    <2> QED BY <2>1, <2>2
<1>10. AttemptsAdvance'
    <2> SUFFICES ASSUME NEW w \in Callers
                 PROVE  /\ pc'[w] = "reading" => head + 2 >= callHead[w] + attempt[w]
                        /\ pc'[w] \in {"merging", "waiting", "accepted", "refused"} =>
                             baseHead[w] + 1 >= callHead[w] + attempt[w]
                        /\ pc'[w] = "refused" => head + 1 > baseHead[w]
                        /\ outcome[w] = "exhausted" =>
                             pc'[w] = "idle" /\ job[w] \in Jobs
        BY <1>2, <1>5 DEF AttemptsAdvance
    <2>1. pc'[w] = pc[w] \/ (pc[w] = "waiting" /\ pc'[w] = "accepted")
        BY <1>4 DEF IInv, TypeOK
    <2>2. /\ callHead[w] \in Nat /\ attempt[w] \in Nat /\ baseHead[w] \in Nat
        BY DEF IInv, TypeOK
    <2> QED BY <2>1, <2>2, <1>2 DEF IInv, AttemptsAdvance
<1>11. NoLostUpdate'
    <2>1. \A j \in acked : j \in Jobs /\ Landed(j, tree)
        BY DEF IInv, TypeOK, NoLostUpdate
    <2> QED BY <2>1, <1>2, <1>3, <1>5, LandedGrows DEF NoLostUpdate
<1>12. AllOrNothing'
    BY <1>1, AppliedTogether DEF IInv
<1>13. ExhaustionMeansContention'
    <2> SUFFICES ASSUME NEW w \in Callers, outcome[w] = "exhausted"
                 PROVE  head + 1 >= callHead[w] + Attempts(job[w])
        BY <1>2, <1>5 DEF ExhaustionMeansContention, Attempts
    <2>1. job[w] \in Jobs /\ callHead[w] \in Nat
        BY DEF IInv, AttemptsAdvance, TypeOK
    <2>2. Attempts(job[w]) \in Nat
        BY <2>1 DEF Attempts
    <2> QED BY <2>1, <2>2, <1>2 DEF IInv, ExhaustionMeansContention
<1> QED BY <1>6, <1>7, <1>8, <1>9, <1>10, <1>11, <1>12, <1>13 DEF IInv

\* GitHub refuses a request: the branch is ahead of what its caller read.
LEMMA RefuseIInv ==
    ASSUME IInv, TypeOK', NEW r \in wire, Refuse(r)
    PROVE  IInv'
<1>1. r \in Request /\ r.job \in Jobs /\ r.from \in Callers
    BY DEF IInv, TypeOK, Request
<1>2. /\ head' = head /\ tree' = tree /\ wire' = wire \ {r}
      /\ job' = job /\ callId' = callId /\ callHead' = callHead
      /\ baseHead' = baseHead /\ base' = base /\ attempt' = attempt
      /\ outcome' = outcome /\ calls' = calls /\ acked' = acked
    BY DEF Refuse, branch, local, look
<1>3. pc' = [pc EXCEPT ![r.from] =
               IF @ = "waiting" /\ callId[r.from] = r.call
               THEN "refused" ELSE @]
    BY DEF Refuse, Answer
<1>4. r.parent < head
    <2>1. r.parent = head => Accepts(r)
        BY DEF Accepts, IInv, RequestsAreHistory
    <2>2. r.parent # head
        BY <2>1 DEF Refuse
    <2> QED BY <1>1, <2>2 DEF IInv, TypeOK, Request, RequestsAreHistory
<1>5. RequestsBelong'
    <2>1. \A s \in wire' : s.from = r.from => s.call # r.call
        BY <1>2 DEF IInv, RequestsBelong
    <2>2. \A s \in wire' : s.call = callId[s.from] => pc'[s.from] = pc[s.from]
        BY <2>1, <1>2, <1>3 DEF IInv, TypeOK, Request
    <2> QED BY <2>2, <1>2 DEF IInv, RequestsBelong
<1>6. AcceptedLanded'
    BY <1>2, <1>3 DEF IInv, TypeOK, AcceptedLanded
<1>7. AttemptsAdvance'
    <2> SUFFICES ASSUME NEW w \in Callers
                 PROVE  /\ pc'[w] = "reading" => head + 1 >= callHead[w] + attempt[w]
                        /\ pc'[w] \in {"merging", "waiting", "accepted", "refused"} =>
                             baseHead[w] + 1 >= callHead[w] + attempt[w]
                        /\ pc'[w] = "refused" => head > baseHead[w]
                        /\ outcome[w] = "exhausted" =>
                             pc'[w] = "idle" /\ job[w] \in Jobs
        BY <1>2 DEF AttemptsAdvance
    <2>1. CASE pc'[w] = pc[w]
        BY <2>1 DEF IInv, AttemptsAdvance
    <2>2. CASE pc'[w] # pc[w]
        <3>1. /\ w = r.from /\ pc[w] = "waiting" /\ pc'[w] = "refused"
              /\ callId[w] = r.call
            BY <2>2, <1>3 DEF IInv, TypeOK
        <3>2. r.parent = baseHead[w]
            BY <3>1 DEF IInv, RequestsBelong
        <3> QED BY <3>1, <3>2, <1>4 DEF IInv, AttemptsAdvance, TypeOK
    <2> QED BY <2>1, <2>2
<1>8. /\ SnapshotsAreHistory' /\ RequestsAreHistory' /\ NoLostUpdate'
      /\ AllOrNothing' /\ ExhaustionMeansContention'
    BY <1>2 DEF IInv, SnapshotsAreHistory, RequestsAreHistory, NoLostUpdate,
                AllOrNothing, ExhaustionMeansContention
<1> QED BY <1>5, <1>6, <1>7, <1>8 DEF IInv

\* A new call: its number is larger than that of any request on the wire.
LEMMA CallIInv ==
    ASSUME IInv, TypeOK', NEW w \in Callers, NEW j \in Jobs, Call(w, j)
    PROVE  IInv'
<1>1. RequestsBelong'
    <2>1. \A r \in wire : r.call \in Nat /\ r.call <= calls /\ r.from \in Callers
        BY DEF IInv, TypeOK, Request, RequestsBelong
    <2>2. calls \in Nat /\ \A v \in Callers : callId[v] \in Nat
        BY DEF IInv, TypeOK
    <2>3. \A r \in wire : r.call = callId'[r.from] => r.from # w
        BY <2>1, <2>2 DEF Call, IInv, TypeOK
    <2>4. \A r \in wire : r.call = callId'[r.from] =>
            /\ r.call = callId[r.from]
            /\ pc'[r.from] = pc[r.from]
            /\ job'[r.from] = job[r.from]
        BY <2>1, <2>3 DEF Call, IInv, TypeOK
    <2>5. \A v \in Callers : callId'[v] <= calls'
        BY <2>2 DEF Call, IInv, TypeOK, RequestsBelong
    <2> QED BY <2>1, <2>2, <2>4, <2>5 DEF Call, look, IInv, RequestsBelong
<1>2. AttemptsAdvance'
    BY DEF Call, branch, look, IInv, TypeOK, AttemptsAdvance
<1>3. AcceptedLanded'
    BY DEF Call, branch, IInv, TypeOK, AcceptedLanded
<1>4. ExhaustionMeansContention'
    BY DEF Call, branch, IInv, TypeOK, ExhaustionMeansContention
<1>5. SnapshotsAreHistory' /\ RequestsAreHistory'
    BY DEF Call, branch, look, IInv, SnapshotsAreHistory, RequestsAreHistory
<1>6. NoLostUpdate' /\ AllOrNothing'
    BY DEF Call, branch, IInv, NoLostUpdate, AllOrNothing
<1> QED BY <1>1, <1>2, <1>3, <1>4, <1>5, <1>6 DEF IInv

\* A read takes the files of this moment, the latest tree of the history.
LEMMA ReadIInv ==
    ASSUME IInv, TypeOK', NEW w \in Callers, Read(w)
    PROVE  IInv'
<1>1. SnapshotsAreHistory'
    BY GrownReflexive DEF Read, branch, IInv, TypeOK, SnapshotsAreHistory
<1>2. RequestsBelong'
    <2>1. \A r \in wire : r.call = callId[r.from] => r.from # w
        BY DEF Read, IInv, RequestsBelong
    <2> QED BY <2>1 DEF Read, local, IInv, TypeOK, Request, RequestsBelong
<1>3. AttemptsAdvance'
    BY DEF Read, branch, local, IInv, TypeOK, AttemptsAdvance
<1>4. AcceptedLanded'
    BY DEF Read, branch, local, IInv, TypeOK, AcceptedLanded
<1>5. /\ RequestsAreHistory' /\ NoLostUpdate' /\ AllOrNothing'
      /\ ExhaustionMeansContention'
    BY DEF Read, branch, local, IInv, RequestsAreHistory, NoLostUpdate,
           AllOrNothing, ExhaustionMeansContention
<1> QED BY <1>1, <1>2, <1>3, <1>4, <1>5 DEF IInv

\* A request carries the tree its caller has just read.
LEMMA SendIInv ==
    ASSUME IInv, TypeOK', NEW w \in Callers, Send(w)
    PROVE  IInv'
<1> DEFINE q == [from |-> w, call |-> callId[w], job |-> job[w],
                 parent |-> baseHead[w], base |-> base[w]]
<1>1. wire' = wire \cup {q} /\ job[w] \in Jobs
    BY DEF Send, IInv, TypeOK
<1>2. RequestsAreHistory'
    <2>1. Kind[q.job] = Immutable => Free(q.job, q.base)
        BY DEF Send, Occupied
    <2>2. q.parent <= head /\ (q.parent = head => q.base = tree)
        BY DEF IInv, SnapshotsAreHistory
    <2> QED BY <1>1, <2>1, <2>2 DEF Send, branch, IInv, RequestsAreHistory
<1>3. RequestsBelong'
    <2>1. \A r \in wire : r.call = callId[r.from] => r.from # w
        BY DEF Send, IInv, RequestsBelong
    <2>2. \A r \in wire : r.call = callId[r.from] => pc'[r.from] = pc[r.from]
        BY <2>1 DEF Send, IInv, TypeOK, Request
    <2>3. pc'[w] = "waiting" /\ callId[w] <= calls
        BY DEF Send, IInv, TypeOK, RequestsBelong
    <2>4. \A r, s \in wire' : r.from = s.from /\ r.call = s.call => r = s
        BY <1>1, <2>1 DEF IInv, RequestsBelong
    <2> QED BY <1>1, <2>2, <2>3, <2>4 DEF Send, local, look, IInv, RequestsBelong
<1>4. AttemptsAdvance'
    BY DEF Send, branch, local, look, IInv, TypeOK, AttemptsAdvance
<1>5. AcceptedLanded'
    BY DEF Send, branch, local, IInv, TypeOK, AcceptedLanded
<1>6. /\ SnapshotsAreHistory' /\ NoLostUpdate' /\ AllOrNothing'
      /\ ExhaustionMeansContention'
    BY DEF Send, branch, local, look, IInv, SnapshotsAreHistory, NoLostUpdate,
           AllOrNothing, ExhaustionMeansContention
<1> QED BY <1>2, <1>3, <1>4, <1>5, <1>6 DEF IInv

\* After a refusal the branch is ahead of what the caller had read.
LEMMA RetryIInv ==
    ASSUME IInv, TypeOK', NEW w \in Callers, Retry(w)
    PROVE  IInv'
<1>1. RequestsBelong'
    <2>1. \A r \in wire : r.call = callId[r.from] => r.from # w
        BY DEF Retry, IInv, RequestsBelong
    <2> QED BY <2>1 DEF Retry, local, look, IInv, TypeOK, Request, RequestsBelong
<1>2. AttemptsAdvance'
    <2>1. head + 1 >= callHead[w] + attempt[w] + 1
        BY DEF Retry, IInv, TypeOK, AttemptsAdvance
    <2> QED BY <2>1 DEF Retry, branch, local, look, IInv, TypeOK, AttemptsAdvance
<1>3. AcceptedLanded'
    BY DEF Retry, branch, local, IInv, TypeOK, AcceptedLanded
<1>4. /\ SnapshotsAreHistory' /\ RequestsAreHistory' /\ NoLostUpdate'
      /\ AllOrNothing' /\ ExhaustionMeansContention'
    BY DEF Retry, branch, local, look, IInv, SnapshotsAreHistory,
           RequestsAreHistory, NoLostUpdate, AllOrNothing,
           ExhaustionMeansContention
<1> QED BY <1>1, <1>2, <1>3, <1>4 DEF IInv

\* A call ends.  Only an ok adds to what is acknowledged, and only when the
\* job has landed; only GiveUp reports exhaustion.
LEMMA ReturnIInv ==
    ASSUME IInv, TypeOK', NEW w \in Callers,
           AlreadyThere(w) \/ Finish(w) \/ Conflict(w) \/ GiveUp(w) \/ Abandon(w)
    PROVE  IInv'
<1>1. /\ head' = head /\ tree' = tree /\ wire' = wire
      /\ job' = job /\ callId' = callId /\ callHead' = callHead
      /\ baseHead' = baseHead /\ base' = base /\ attempt' = attempt
      /\ calls' = calls
      /\ pc' = [pc EXCEPT ![w] = "idle"]
    BY DEF AlreadyThere, Finish, Conflict, GiveUp, Abandon, Return, branch,
           local, look
<1>2. job[w] \in Jobs
    BY DEF AlreadyThere, Finish, Conflict, GiveUp, Abandon, IInv, TypeOK
<1>3. RequestsBelong'
    BY <1>1 DEF IInv, TypeOK, Request, RequestsBelong
<1>4. /\ \A v \in Callers \ {w} : outcome'[v] = outcome[v]
      /\ outcome'[w] = "exhausted" => GiveUp(w)
    BY DEF AlreadyThere, Finish, Conflict, GiveUp, Abandon, Return, IInv, TypeOK
<1>5. AttemptsAdvance'
    BY <1>1, <1>2, <1>4 DEF IInv, TypeOK, AttemptsAdvance
<1>6. AcceptedLanded'
    BY <1>1 DEF IInv, TypeOK, AcceptedLanded
<1>7. NoLostUpdate'
    <2>1. AlreadyThere(w) => Landed(job[w], tree)
        BY <1>2, LandedGrows
        DEF AlreadyThere, IInv, TypeOK, SnapshotsAreHistory
    <2>2. Finish(w) => Landed(job[w], tree)
        BY DEF Finish, IInv, AcceptedLanded
    <2>3. \/ acked' = acked
          \/ acked' = acked \cup {job[w]} /\ Landed(job[w], tree)
        BY <2>1, <2>2 DEF AlreadyThere, Finish, Conflict, GiveUp, Abandon
    <2> QED BY <2>3, <1>1 DEF IInv, NoLostUpdate, Landed
<1>8. ExhaustionMeansContention'
    <2> SUFFICES ASSUME NEW v \in Callers, outcome'[v] = "exhausted"
                 PROVE  head >= callHead[v] + Attempts(job[v])
        BY <1>1 DEF ExhaustionMeansContention, Attempts
    <2>1. CASE v # w
        BY <2>1, <1>4 DEF IInv, ExhaustionMeansContention
    <2>2. CASE v = w
        <3>1. pc[w] = "refused" /\ attempt[w] >= Attempts(job[w])
            BY <2>2, <1>4 DEF GiveUp
        <3>2. head >= callHead[w] + attempt[w]
            BY <3>1 DEF IInv, TypeOK, AttemptsAdvance
        <3>3. Attempts(job[w]) \in Nat
            BY <1>2 DEF Attempts
        <3> QED BY <2>2, <3>1, <3>2, <3>3 DEF IInv, TypeOK
    <2> QED BY <2>1, <2>2
<1>9. SnapshotsAreHistory' /\ RequestsAreHistory' /\ AllOrNothing'
    BY <1>1 DEF IInv, SnapshotsAreHistory, RequestsAreHistory, AllOrNothing
<1> QED BY <1>3, <1>5, <1>6, <1>7, <1>8, <1>9 DEF IInv

\* The invariant is inductive: one case per action of the store.
LEMMA NextIInv == IInv /\ [Next]_vars => IInv'
<1> SUFFICES ASSUME IInv, [Next]_vars PROVE IInv'
    OBVIOUS
<1>1. TypeOK'
    BY NextTypeOK DEF IInv
<1>2. CASE \E w \in Callers : Serve(w)
    BY <1>1, <1>2, AcceptIInv, RefuseIInv DEF Serve
<1>3. CASE \E w \in Callers : Step(w) \/ Abandon(w)
    BY <1>1, <1>3, ReadIInv, SendIInv, RetryIInv, ReturnIInv DEF Step
<1>4. CASE \E w \in Callers, j \in Jobs : Call(w, j)
    BY <1>1, <1>4, CallIInv
<1>5. CASE Rest \/ UNCHANGED vars
    BY <1>5 DEF Rest, vars, IInv, TypeOK, SnapshotsAreHistory,
                RequestsAreHistory, RequestsBelong, AcceptedLanded,
                AttemptsAdvance, NoLostUpdate, AllOrNothing,
                ExhaustionMeansContention
<1> QED BY <1>2, <1>3, <1>4, <1>5 DEF Next

\* The strengthening IInv holds in every reachable state.
THEOREM Invariance == Spec => []IInv
<1>1. QED BY InitIInv, NextIInv, PTL DEF Spec

(***************************************************************************)
(* What the store promises.                                                *)
(***************************************************************************)

\* What a call of the store was told is written stays written, however many
\* invocations retry, crash or have requests served late.
THEOREM UpdatesAreNotLost == Spec => []NoLostUpdate
<1>1. IInv => NoLostUpdate
    BY DEF IInv
<1> QED BY <1>1, Invariance, PTL

\* A commit of several files is seen whole or not at all.
THEOREM CommitsAreWhole == Spec => []AllOrNothing
<1>1. IInv => AllOrNothing
    BY DEF IInv
<1> QED BY <1>1, Invariance, PTL

\* A call that gave up after its retries met that many commits of others.
THEOREM ExhaustionIsContention == Spec => []ExhaustionMeansContention
<1>1. IInv => ExhaustionMeansContention
    BY DEF IInv
<1> QED BY <1>1, Invariance, PTL

\* The only step that changes the files is the acceptance of a request.
LEMMA OnlyAcceptWrites ==
    ASSUME [Next]_vars
    PROVE  tree' = tree \/ \E r \in wire : Accept(r)
BY DEF Next, Step, Serve, Call, Read, AlreadyThere, Conflict, Send, Finish,
       Retry, GiveUp, Abandon, Refuse, Rest, branch, vars

\* An immutable record never changes once it exists.
THEOREM RecordsNeverChange == Spec => RecordsImmutable
<1>1. ASSUME IInv, [Next]_vars
      PROVE  \A p \in RecordPaths : tree[p] # {} => tree'[p] = tree[p]
    <2>1. CASE tree' = tree
        BY <2>1
    <2>2. ASSUME NEW r \in wire, Accept(r)
          PROVE  \A p \in RecordPaths : tree[p] # {} => tree'[p] = tree[p]
        <3>1. /\ r.job \in Jobs
              /\ tree' = Applied(r.job, tree)
              /\ Kind[r.job] = Immutable => Free(r.job, tree)
            BY <1>1, <2>2, AcceptApplies DEF IInv, Accept
        <3>2. Grown(tree, tree')
            BY <1>1, <3>1, AppliedGrows DEF IInv, TypeOK
        <3>3. RecordPaths \subseteq Paths
            BY DEF RecordPaths
        <3> QED BY <3>2, <3>3 DEF Grown
    <2> QED BY <1>1, <2>1, <2>2, OnlyAcceptWrites
<1>2. IInv /\ [Next]_vars
        => [\A p \in RecordPaths : tree[p] # {} => tree'[p] = tree[p]]_vars
    BY <1>1
<1> QED BY <1>2, Invariance, PTL DEF Spec, RecordsImmutable

(***************************************************************************)
(* GitHubStore implements MergeStore.                                      *)
(***************************************************************************)

\* Accepting a request is a merge of the abstract store; every other step is a stutter.
LEMMA StepImplements ==
    ASSUME IInv, [Next]_vars
    PROVE  [Promise!Next]_(Promise!vars)
<1> USE DEF Promise!vars
<1>1. ASSUME NEW r \in wire, Accept(r)
      PROVE  Promise!Next
    <2>1. /\ r.job \in Jobs
          /\ tree' = Applied(r.job, tree)
          /\ Kind[r.job] = Immutable => Free(r.job, tree)
        BY <1>1, AcceptApplies DEF IInv, Accept
    <2>2. Promise!Commit(r.job)
        BY <1>1, <2>1 DEF Accept, Promise!Commit, Promise!Applied, Applied,
                          Promise!Free, Free, Promise!Immutable, Immutable
    <2> QED BY <2>1, <2>2 DEF Promise!Next
<1>2. ASSUME NEW w \in Callers, AlreadyThere(w) \/ Finish(w)
      PROVE  Promise!Next
    <2>1. job[w] \in Jobs
        BY <1>2 DEF AlreadyThere, Finish, IInv, TypeOK
    <2>2. CASE AlreadyThere(w)
        <3>1. Landed(job[w], tree)
            BY <2>1, <2>2, LandedGrows
            DEF AlreadyThere, IInv, TypeOK, SnapshotsAreHistory
        <3> QED BY <2>1, <2>2, <3>1 DEF AlreadyThere, branch, Promise!Next,
                   Promise!Acknowledge, Promise!Landed, Landed
    <2>3. CASE Finish(w)
        <3>1. Landed(job[w], tree)
            BY <2>3 DEF Finish, IInv, AcceptedLanded
        <3> QED BY <2>1, <2>3, <3>1 DEF Finish, branch, Promise!Next,
                   Promise!Acknowledge, Promise!Landed, Landed
    <2> QED BY <1>2, <2>2, <2>3
<1>3. \/ tree' = tree /\ acked' = acked
      \/ \E r \in wire : Accept(r)
      \/ \E w \in Callers : AlreadyThere(w) \/ Finish(w)
    BY DEF Next, Step, Serve, Call, Read, Conflict, Send, Retry, GiveUp,
           Abandon, Refuse, Rest, branch, vars
<1> QED BY <1>1, <1>2, <1>3

\* The protocol of reads, shas, conflicts and retries implements the store of
\* indivisible merges.
THEOREM Implementation == Spec => Implements
<1>1. Init => Promise!Init
    BY DEF Init, Promise!Init
<1>2. IInv /\ [Next]_vars => [Promise!Next]_(Promise!vars)
    BY StepImplements
<1> QED BY <1>1, <1>2, Invariance, PTL DEF Spec, Implements, Promise!Spec

=============================================================================
