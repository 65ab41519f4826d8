----------------------------- MODULE StoreJobs -----------------------------
(***************************************************************************)
(* What the callers of the GitHub store ask of it, and what one such       *)
(* request does to the repository's files.  The modules MergeStore (what   *)
(* the store promises) and GitHubStore (how it keeps the promise) share    *)
(* these definitions.                                                      *)
(*                                                                         *)
(* A file's content is the set of contributions merged into it; a file     *)
(* that does not exist yet has none, and its first writer starts from the  *)
(* caller's defaultValue.  Git names a blob by its content, so the content *)
(* stands for its blob sha too.                                            *)
(***************************************************************************)
CONSTANTS
    Paths,      \* files on the data branch
    Jobs,       \* the store calls the program makes
    Kind,       \* Kind[j]: which of the three store operations j uses
    Targets,    \* Targets[j]: the files j writes
    Value       \* Value[j]: what j contributes to each of them

Update    == "updateGitHubJson"
Atomic    == "atomicUpdateGitHubJsonFiles"
Immutable == "putImmutableGitHubJson"

ASSUME JobsAssumption ==
    /\ Kind \in [Jobs -> {Update, Atomic, Immutable}]
    /\ Targets \in [Jobs -> (SUBSET Paths) \ {{}}]
    /\ \A j \in Jobs :
         Kind[j] # Atomic => \E p \in Paths : Targets[j] = {p}

Values == {Value[j] : j \in Jobs}
Tree   == [Paths -> SUBSET Values]

\* Files that only putImmutableGitHubJson writes: raw captures, snapshots and
\* ledger records live under paths no updating call names.
RecordPaths == UNION {Targets[j] : j \in {i \in Jobs : Kind[i] = Immutable}}

ASSUME RecordsApart ==
    \A j \in Jobs : Kind[j] # Immutable => Targets[j] \cap RecordPaths = {}

\* The tree after the merge callbacks of job j have run on all its files.  A
\* record is written only where there is no file, so the same operator yields
\* its one value.
Applied(j, t) ==
    [p \in Paths |-> IF p \in Targets[j] THEN t[p] \cup {Value[j]} ELSE t[p]]

\* Merging j would change none of its files: stableJson(current) = text.
Landed(j, t) == \A p \in Targets[j] : Value[j] \in t[p]

\* None of j's files exists.
Free(j, t) == \A p \in Targets[j] : t[p] = {}
=============================================================================
