---------------------------- MODULE MCPgBgWorker ----------------------------
(* PgBgWorker for TLC: the engine's inspector, never restarted, and one    *)
(* backend that registers two workers after it, the first of them never    *)
(* restarted, in a server with room for one worker at a time.              *)
EXTENDS PgBgWorker

CONSTANTS wed, c1
MCStatic == {wed}
MCNever == {wed, 1}
MCClient == {c1}
MCFailures == {"nofork", "nomem"}
MCShutdowns == {"smart", "fast"}
=============================================================================
