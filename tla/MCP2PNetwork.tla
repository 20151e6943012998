---------------------------- MODULE MCP2PNetwork ----------------------------
(***************************************************************************)
(* Instance of P2PNetwork for TLC: two threads broadcast to up to two      *)
(* peers.                                                                  *)
(***************************************************************************)
EXTENDS P2PNetwork
=============================================================================
