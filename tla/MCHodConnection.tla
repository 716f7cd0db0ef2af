-------------------------- MODULE MCHodConnection --------------------------
(* Bytes are 0..4: sizes below 2 are their own byte, 3 and 4 are the markers  *)
(* for one and two digits.  One end has protocol versions up to 2 and sends   *)
(* an announcement and two packets, the other knows version 1 and sends its   *)
(* announcement.  The bodies hold bytes that look like markers, and need a    *)
(* size of one digit and of two different digits.                             *)
EXTENDS HodConnection, TLC

CONSTANTS client, server

MCPeers == {client, server}
MCMaxVersion == client :> 2 @@ server :> 1
MCBodies == {<<4, 2>>, [i \in 1..7 |-> 3]}
MCMaxPackets == client :> 3 @@ server :> 1
=============================================================================
