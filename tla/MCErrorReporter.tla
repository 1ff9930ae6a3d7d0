--------------------------- MODULE MCErrorReporter ---------------------------
(* A small instance of the error reporter: a stack of depth 2 so that     *)
(* eviction happens after two pushes, a limiter that lets the first 2     *)
(* notifications through and then one per 2 ticks.                        *)
EXTENDS ErrorReporter

CONSTANTS e1, e2

MCErrors == {e1, e2}
=============================================================================
