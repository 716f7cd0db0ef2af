------------------------------- MODULE MCPop3 -------------------------------
(* Up to five messages, a login after every two of them, and one message that *)
(* another program deletes.                                                   *)
EXTENDS Pop3
=============================================================================
