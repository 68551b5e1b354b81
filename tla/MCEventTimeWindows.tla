------------------------- MODULE MCEventTimeWindows -------------------------
(***************************************************************************)
(* Three events of one user that dedup spreads over two subtasks, and one  *)
(* of another user, far ahead.  A window is 2 units long, the watermark    *)
(* bound 1 unit and the allowance 3, so that, as with 10 s, 50 ms and      *)
(* 45 s, an event can be too late for its window, too late for the router, *)
(* both or neither.                                                        *)
(***************************************************************************)
EXTENDS EventTimeWindows, TLC

CONSTANTS p1, p2, s1, s2, a, b, c, d, u, v

\* a and c share a window; c is sent last and travels with d, which is far ahead.
MCTopic     == (p1 :> <<a, b, c>>) @@ (p2 :> <<d>>)
MCSubtaskOf == (a :> s1) @@ (b :> s1) @@ (c :> s2) @@ (d :> s2)
MCUserOf    == (a :> u) @@ (b :> u) @@ (c :> u) @@ (d :> v)
MCEventTime == (a :> 3) @@ (b :> 5) @@ (c :> 2) @@ (d :> 8)
=============================================================================
