--------------------------- MODULE MCGitHubStore ---------------------------
(***************************************************************************)
(* Small instances of GitHubStore.  The jobs are those of the market data  *)
(* pipeline in miniature: a writer of one index file, multi-file commits   *)
(* that include it, and immutable records that agree or differ.           *)
(***************************************************************************)
EXTENDS GitHubStore

CONSTANTS c1, c2, index, state, record

MCPaths == {index, state, record}

MCKind ==
    [u1 |-> Update, a1 |-> Atomic, a2 |-> Atomic,
     i1 |-> Immutable, i2 |-> Immutable]

MCTargets ==
    [u1 |-> {index}, a1 |-> {index, state},
     a2 |-> {index, state}, i1 |-> {record}, i2 |-> {record}]

MCValue ==
    [u1 |-> "u1", a1 |-> "a1", a2 |-> "a2",
     i1 |-> "i1", i2 |-> "i2"]

MCRetries ==
    [u1 |-> 2, a1 |-> 2, a2 |-> 0, i1 |-> 2, i2 |-> 2]

MCJobs == DOMAIN MCKind
=============================================================================
