----------------------------- MODULE MCObjects -----------------------------
(* Instances of Objects for TLC: three threads, one of them more urgent.    *)
EXTENDS Objects

CONSTANTS a, b, c

MCPriority == (a :> 1) @@ (b :> 2) @@ (c :> 2)

\* All of both events, any of them, or one of them alone.
MCWant(events, flags) == [event_set |-> events, event_info |-> flags]
MCInterest ==
    {MCWant({1, 2}, [all |-> x, clear |-> y]) : x, y \in BOOLEAN}
    \cup {MCWant({1}, [all |-> TRUE, clear |-> TRUE])}

=============================================================================
