--------------------------- MODULE TraceReadingMC ---------------------------
(***************************************************************************)
(* A run r with two steps, a and then c, called when a has returned; c     *)
(* makes a step b it awaits, which is left running when c throws.          *)
(***************************************************************************)
EXTENDS TraceReading, TLC

CONSTANTS r, a, b, c

TreeOuter == (r :> None) @@ (a :> r) @@ (b :> c) @@ (c :> r)
ThenC == (r :> {}) @@ (a :> {}) @@ (b :> {}) @@ (c :> {a})
\* Ids in the order of the calls and against it.
TwoOrders ==
    {(r :> 0) @@ (a :> 1) @@ (b :> 2) @@ (c :> 3) @@ (None :> 4),
     (r :> 4) @@ (a :> 3) @@ (b :> 2) @@ (c :> 1) @@ (None :> 0)}
=============================================================================
