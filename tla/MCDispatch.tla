----------------------------- MODULE MCDispatch -----------------------------
(* Instances of Dispatch: few requests and devices, few lost connections. *)
EXTENDS Dispatch, TLC

CONSTANTS r1, r2, n1, n2, n3

\* Two heavy requests, one of them answered in one piece, share a device whose
\* connection holds.
Shared == INSTANCE Dispatch WITH
    Requests <- {r1, r2}, Nodes <- {n3}, Heavy <- {r1, r2}, Buffered <- {r2},
    MaxRetries <- 0, MaxQueueDepth <- 2, MaxAttempts <- 2, MaxFlaps <- 0

\* A behaviour is of the instance the configuration describes or of Shared.
VARIABLE shared

DispatchInit ==
    \/ shared = FALSE /\ Init
    \/ shared = TRUE /\ Shared!Init

AloneInit == shared = FALSE /\ Init

DispatchNext ==
    \/ ~shared /\ Next /\ UNCHANGED shared
    \/ shared /\ Shared!Next /\ UNCHANGED shared

DispatchSpec == DispatchInit /\ [][DispatchNext]_<<shared, vars>>
AloneSpec == AloneInit /\ [][DispatchNext]_<<shared, vars>> /\ Fairness

Symmetric == Permutations({n1, n2})
=============================================================================
