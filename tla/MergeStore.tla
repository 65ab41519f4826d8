---------------------------- MODULE MergeStore -----------------------------
(***************************************************************************)
(* What a caller of the store may rely on: a repository in which every job *)
(* is merged into the current content of all its files in one indivisible  *)
(* step, an immutable record is only ever created, and a job is            *)
(* acknowledged only while its contribution is in the files.  Nothing is   *)
(* said of reads, shas, conflicts, retries or requests still in flight:    *)
(* GitHubStore implements this specification with those.                   *)
(***************************************************************************)
EXTENDS StoreJobs

VARIABLES
    content,    \* the files
    acked       \* jobs some call has returned ok for

vars == <<content, acked>>

Init ==
    /\ content = [p \in Paths |-> {}]
    /\ acked = {}

\* Job j takes effect.
Commit(j) ==
    /\ Kind[j] = Immutable => Free(j, content)
    /\ content' = Applied(j, content)
    /\ UNCHANGED acked

\* A call of job j returns ok.
Acknowledge(j) ==
    /\ Landed(j, content)
    /\ acked' = acked \cup {j}
    /\ UNCHANGED content

Next == \E j \in Jobs : Commit(j) \/ Acknowledge(j)

Spec == Init /\ [][Next]_vars
=============================================================================
