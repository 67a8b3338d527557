--------------------------- MODULE MCWedInspector ---------------------------
(* An instance of WedInspector for TLC: one process that sets the worker's *)
(* latch, a second of ten milliseconds, an int of eight bits, and naptimes *)
(* of which the second does not fit it in milliseconds.                    *)
EXTENDS WedInspector

OneSetter == {"s"}
MCNaptimes == {1, 13}
=============================================================================
