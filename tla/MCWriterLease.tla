---------------------------- MODULE MCWriterLease ----------------------------
(* Two threads of one process and one thread of another; or one of each. *)
EXTENDS WriterLease, TLC

CONSTANTS desktop, watcher, mcp, d, m

TwoAndOne == desktop :> d @@ watcher :> d @@ mcp :> m
OneAndOne == desktop :> d @@ mcp :> m
=============================================================================
