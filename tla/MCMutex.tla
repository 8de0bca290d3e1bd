------------------------------ MODULE MCMutex ------------------------------
(* Instances of Mutex for TLC: three threads of three priorities, a mutex   *)
(* taken inside another one, and one that is taken alone.                   *)
EXTENDS Mutex

CONSTANTS high, mid, low, outer, inner, alone

MCPriority == (high :> 1) @@ (mid :> 2) @@ (low :> 3)
MCNests == {<<outer, inner>>}

=============================================================================
