SPECIFICATION Spec
CONSTANTS
  client = client
  server = server
  Peers <- MCPeers
  MaxVersion <- MCMaxVersion
  Announce = 4
  Data = 0
  Bodies <- MCBodies
  MaxPackets <- MCMaxPackets
  Radix = 5
  Small = 2
  Marker = 2
INVARIANTS
  TypeOK
  PacketsIntact
  HandlerKnowsPacket
PROPERTIES
  ClosePropagates
  DeliversWhileOpen
CHECK_DEADLOCK FALSE
