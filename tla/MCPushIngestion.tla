-------------------------- MODULE MCPushIngestion --------------------------
(* PushIngestion on small instances; the bounds are in the cfg.            *)
EXTENDS PushIngestion
=============================================================================
