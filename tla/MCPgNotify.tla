----------------------------- MODULE MCPgNotify -----------------------------
(* A kernel and a worker on a queue of few and small pages, for PgNotify. *)
EXTENDS PgNotify

MCLen == [c \in {"a", "b"} |-> IF c = "a" THEN 1 ELSE 2]
N(c) == <<"notify", c>>
L(c) == <<"listen", c>>
U(c) == <<"unlisten", c>>

Sub(stmts, end) == <<<<"begin">>>> \o stmts \o <<<<end>>>>

(* A kernel (k), which notifies from subtransactions, and a worker (w). *)
PairScript == [k |-> {<<N("a"), N("a")>> \o Sub(<<N("b")>>, "release")
                                         \o Sub(<<N("b")>>, "rollback")},
               w |-> {<<L("a")>>, <<N("a"), L("a")>>, <<U("a")>>, <<<<"unlistenall">>>>}]
=============================================================================
