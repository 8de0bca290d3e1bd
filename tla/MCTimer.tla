------------------------------ MODULE MCTimer ------------------------------
(* Instances of Timer for TLC: two threads with a timer each, and a third   *)
(* timer that a timeout function starts.                                    *)
EXTENDS Timer

CONSTANTS x, y, chained, c1, c2

MCTimers == {x, y, chained}
MCOwner == (x :> c1) @@ (y :> c2) @@ (chained :> Nobody)
MCCalls == (x :> {<<"start", chained>>, <<"stop", y>>})
           @@ (y :> {<<"stop", y>>})
           @@ (chained :> {})
MCInitTime == (x :> 1) @@ (y :> 2) @@ (chained :> 2)
RestartCalls == (x :> {<<"start", x>>}) @@ (y :> {}) @@ (chained :> {})

=============================================================================
