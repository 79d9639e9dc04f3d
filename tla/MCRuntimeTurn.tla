--------------------------- MODULE MCRuntimeTurn ---------------------------
(* Small instances of RuntimeTurn for TLC. *)
EXTENDS RuntimeTurn, TLC

CONSTANTS r1, r2, r3, k1, k2

\* Every call draws a requestId of its own.
OwnIds == [r \in Requests |-> r]

\* Three attempts at one logical turn, each of them a stream.
RetryKeyOf == [r \in {r1, r2, r3} |-> k1]
RetrySurfaceOf == [r \in {r1, r2, r3} |-> "stream"]
RetrySymmetry == Permutations({r1, r2, r3})

\* Two runs of one media job: both carry the key of the job as their requestId.
JobKeyOf == [r \in {r1, r2} |-> k1]
JobIds == [r \in {r1, r2} |-> k1]
JobSurfaceOf == [r \in {r1, r2} |-> "job"]

\* A synchronous turn, and an async continuation that is asked for twice.
TurnAndContinuation == r1 :> k1 @@ r2 :> k2 @@ r3 :> k2
SyncAndContinuations == r1 :> "sync" @@ r2 :> "continuation" @@ r3 :> "continuation"
ContinuationSymmetry == Permutations({r2, r3})

\* Two different turns, from two entry points.
TwoKeyOf == r1 :> k1 @@ r2 :> k2
SyncAndContinuation == r1 :> "sync" @@ r2 :> "continuation"
=============================================================================
