----------------------------- MODULE HttpProofs -----------------------------
(***************************************************************************)
(* That the safety properties of module Http hold for any connections,     *)
(* requests, responses and error page that its assumptions allow.          *)
(*                                                                         *)
(* The argument is about the two streams of one connection.  What the      *)
(* server has taken of its stream, what has arrived, what is on its way    *)
(* and what the client has left to send are the request, so each read      *)
(* returns its next part.  What the agent has taken, what has arrived and  *)
(* what is on its way begin with the first response, which the blocks that *)
(* are left to write complete while nothing has failed; what may follow it *)
(* is another response, that no read of a framed body reaches.  A step of  *)
(* one connection leaves the others alone.                                 *)
(***************************************************************************)
EXTENDS Http, SequenceTheorems, WellFoundedInduction, TLAPS

\* A step of another connection leaves this one as it is.
Same(d) ==
  /\ \A e \in Ends : /\ wire'[e][d] = wire[e][d]
                     /\ buf'[e][d] = buf[e][d]
                     /\ isOpen'[e][d] = isOpen[e][d]
  /\ d \in lost' <=> d \in lost
  /\ worker'[d] = worker[d] /\ answer'[d] = answer[d] /\ given'[d] = given[d]
  /\ d \in silent' <=> d \in silent
  /\ request'[d] = request[d] /\ agent'[d] = agent[d]

\* The same of what is on the wire and in the buffers only.
SameWire(d) ==
  /\ \A e \in Ends : /\ wire'[e][d] = wire[e][d]
                     /\ buf'[e][d] = buf[e][d]
                     /\ isOpen'[e][d] = isOpen[e][d]
  /\ d \in lost' <=> d \in lost

LEMMA OtherEnds == Other("server") = "client" /\ Other("client") = "server"
BY DEF Other, Ends

LEMMA PutEffect ==
  ASSUME WireTypeOK, NEW e \in Ends, NEW c \in Conns, NEW items \in Seq(Items),
         Put(e, c, items)
  PROVE  /\ wire' \in [Ends -> [Conns -> Seq(Items)]]
         /\ \A f \in Ends, d \in Conns :
              wire'[f][d] = IF f = Other(e) /\ d = c /\ isOpen[f][c] /\ c \notin lost
                              THEN wire[f][d] \o items
                              ELSE wire[f][d]
<1>1. Other(e) \in Ends
  BY OtherEnds DEF Ends
<1>2. wire[Other(e)][c] \o items \in Seq(Items)
  BY <1>1 DEF WireTypeOK
<1>3. CASE isOpen[Other(e)][c] /\ c \notin lost
  BY <1>1, <1>2, <1>3 DEF Put, WireTypeOK
<1>4. CASE ~(isOpen[Other(e)][c] /\ c \notin lost)
  BY <1>1, <1>4 DEF Put, WireTypeOK
<1> QED BY <1>3, <1>4

LEMMA ReceiveEffect ==
  ASSUME WireTypeOK, NEW e \in Ends, NEW c \in Conns, Receive(e, c)
  PROVE  /\ WireTypeOK'
         /\ \A d \in Conns \ {c} : SameWire(d)
         /\ \A f \in Ends \ {e} : wire'[f][c] = wire[f][c] /\ buf'[f][c] = buf[f][c]
         /\ \E k \in 1..Len(wire[e][c]) :
              /\ buf'[e][c] = buf[e][c] \o SubSeq(wire[e][c], 1, k)
              /\ wire'[e][c] = SubSeq(wire[e][c], k + 1, Len(wire[e][c]))
         /\ isOpen' = isOpen /\ lost' = lost
<1>1. PICK k \in 1..Len(wire[e][c]) :
        /\ buf' = [buf EXCEPT ![e][c] = @ \o SubSeq(wire[e][c], 1, k)]
        /\ wire' = [wire EXCEPT ![e][c] = SubSeq(@, k + 1, Len(@))]
  BY DEF Receive
<1>2. /\ wire[e][c] \in Seq(Items) /\ buf[e][c] \in Seq(Items)
      /\ SubSeq(wire[e][c], 1, k) \in Seq(Items)
      /\ SubSeq(wire[e][c], k + 1, Len(wire[e][c])) \in Seq(Items)
      /\ buf[e][c] \o SubSeq(wire[e][c], 1, k) \in Seq(Items)
  BY DEF WireTypeOK
<1>3. isOpen' = isOpen /\ lost' = lost
  BY DEF Receive
<1>4. WireTypeOK'
  BY <1>1, <1>2, <1>3 DEF WireTypeOK
<1>5. \A d \in Conns \ {c} : SameWire(d)
  BY <1>1, <1>3 DEF WireTypeOK, SameWire
<1>6. \A f \in Ends \ {e} : wire'[f][c] = wire[f][c] /\ buf'[f][c] = buf[f][c]
  BY <1>1 DEF WireTypeOK
<1>7. /\ buf'[e][c] = buf[e][c] \o SubSeq(wire[e][c], 1, k)
      /\ wire'[e][c] = SubSeq(wire[e][c], k + 1, Len(wire[e][c]))
  BY <1>1 DEF WireTypeOK
<1> QED BY <1>3, <1>4, <1>5, <1>6, <1>7

LEMMA TakeLineEffect ==
  ASSUME WireTypeOK, NEW e \in Ends, NEW c \in Conns, HasLine(e, c), TakeLine(e, c)
  PROVE  /\ WireTypeOK'
         /\ \A d \in Conns \ {c} : SameWire(d)
         /\ \A f \in Ends \ {e} : buf'[f][c] = buf[f][c]
         /\ buf'[e][c] = Tail(buf[e][c])
         /\ wire' = wire /\ isOpen' = isOpen /\ lost' = lost
<1>1. buf[e][c] \in Seq(Items) /\ Tail(buf[e][c]) \in Seq(Items)
  BY DEF WireTypeOK, HasLine
<1> QED BY <1>1 DEF WireTypeOK, TakeLine, SameWire

LEMMA TakeBytesEffect ==
  ASSUME WireTypeOK, NEW e \in Ends, NEW c \in Conns, TakeBytes(e, c)
  PROVE  /\ WireTypeOK'
         /\ \A d \in Conns \ {c} : SameWire(d)
         /\ \A f \in Ends \ {e} : buf'[f][c] = buf[f][c]
         /\ buf'[e][c] = <<>>
         /\ wire' = wire /\ isOpen' = isOpen /\ lost' = lost
BY DEF WireTypeOK, TakeBytes, SameWire

LEMMA BreakEffect ==
  ASSUME WireTypeOK, NEW c \in Conns, Break(c)
  PROVE  /\ WireTypeOK'
         /\ \A d \in Conns \ {c} : SameWire(d)
         /\ \A e \in Ends : \E i \in 0..Len(wire[e][c]) :
              wire'[e][c] = SubSeq(wire[e][c], 1, i)
         /\ buf' = buf /\ isOpen' = isOpen /\ lost' = lost \cup {c}
<1>1. PICK i \in 0..Len(wire["server"][c]), j \in 0..Len(wire["client"][c]) :
        wire' = [wire EXCEPT !["server"][c] = SubSeq(@, 1, i),
                             !["client"][c] = SubSeq(@, 1, j)]
  BY DEF Break
<1>2. /\ wire["server"][c] \in Seq(Items) /\ wire["client"][c] \in Seq(Items)
      /\ SubSeq(wire["server"][c], 1, i) \in Seq(Items)
      /\ SubSeq(wire["client"][c], 1, j) \in Seq(Items)
  BY DEF WireTypeOK, Ends
<1>3. buf' = buf /\ isOpen' = isOpen /\ lost' = lost \cup {c}
  BY DEF Break
<1>4. WireTypeOK'
  BY <1>1, <1>2, <1>3 DEF WireTypeOK, Ends
<1>5. \A d \in Conns \ {c} : SameWire(d)
  BY <1>1, <1>3 DEF WireTypeOK, SameWire, Ends
<1>6. /\ wire'["server"][c] = SubSeq(wire["server"][c], 1, i)
      /\ wire'["client"][c] = SubSeq(wire["client"][c], 1, j)
  BY <1>1 DEF WireTypeOK, Ends
<1> QED BY <1>3, <1>4, <1>5, <1>6 DEF Ends

-----------------------------------------------------------------------------
Others(c) == \A d \in Conns \ {c} : Same(d)

Workers == [at : Stages, n : Nat, out : Seq(Seq(Items))]

LEMMA ErrorPages ==
  ASSUME NEW code \in {400, 500}
  PROVE  ErrorPage(code) \in ResponseType
<1>1. Len(ErrorBody) \in Nat /\ "length" \in Parts
  BY ResponsesAssumption DEF Parts
<1>2. Item("length", Len(ErrorBody)) \in Items
  BY <1>1 DEF Item, Items
<1> QED BY <1>2, ResponsesAssumption DEF ErrorPage, ResponseType

LEMMA BlocksType ==
  ASSUME NEW r \in ResponseType
  PROVE  Blocks(r) \in Seq(Seq(Items)) /\ Blocks(r) # <<>>
<1>1. r.status \in Nat /\ r.framing \in Items /\ r.body \in Seq(Items) /\ "status" \in Parts
  BY DEF ResponseType, Parts
<1>2. Item("status", r.status) \in Items
  BY <1>1 DEF Item, Items
<1>3. <<Item("status", r.status), r.framing>> \in Seq(Items)
  BY <1>1, <1>2
<1> DEFINE first == <<Item("status", r.status), r.framing>>
           rest == IF r.body = <<>> THEN <<>> ELSE <<r.body>>
<1>4. <<first>> \in Seq(Seq(Items)) /\ rest \in Seq(Seq(Items))
  BY <1>1, <1>3
<1>5. Blocks(r) = <<first>> \o rest
  BY DEF Blocks
<1> HIDE DEF first, rest
<1> QED BY <1>4, <1>5

\* A step that only moves a worker, along with the connection it reads.
LEMMA BeginEffect ==
  ASSUME TypeOK, NEW c \in Conns, NEW r \in ResponseType, NEW next \in Stages,
         Begin(c, r, next), UNCHANGED agentVars
  PROVE  /\ TypeOK' /\ Others(c)
         /\ worker'[c].at = next /\ worker'[c].out = Blocks(r)
         /\ answer'[c] = IF answer[c] = <<>> THEN <<r>> ELSE answer[c]
<1>1. worker[c] \in Workers /\ Blocks(r) \in Seq(Seq(Items))
  BY BlocksType DEF TypeOK, ServerTypeOK, Workers
<1>2. worker' = [worker EXCEPT ![c] = [worker[c] EXCEPT !.at = next, !.out = Blocks(r)]]
  BY DEF Begin, TypeOK, ServerTypeOK
<1>3. [worker[c] EXCEPT !.at = next, !.out = Blocks(r)] \in Workers
  BY <1>1 DEF Workers
<1>4. worker' \in [Conns -> Workers]
  BY <1>2, <1>3 DEF TypeOK, ServerTypeOK, Workers
<1>5. answer' \in [Conns -> Seq(ResponseType)] /\ \A d \in Conns : Len(answer'[d]) <= 1
  BY DEF Begin, TypeOK, ServerTypeOK
<1>6. TypeOK'
  BY <1>4, <1>5 DEF Begin, TypeOK, WireTypeOK, ServerTypeOK, AgentTypeOK, Workers,
       wireVars, agentVars
<1>7. Others(c)
  BY <1>2 DEF Begin, TypeOK, WireTypeOK, ServerTypeOK, Others, Same, wireVars, agentVars
<1>8. worker'[c].at = next /\ worker'[c].out = Blocks(r)
  BY <1>1, <1>2 DEF TypeOK, ServerTypeOK, Workers
<1>9. answer'[c] = IF answer[c] = <<>> THEN <<r>> ELSE answer[c]
  BY DEF Begin, TypeOK, ServerTypeOK
<1> QED BY <1>6, <1>7, <1>8, <1>9

LEMMA GotoEffect ==
  ASSUME ServerTypeOK, NEW c \in Conns, NEW stage \in Stages, Goto(c, stage)
  PROVE  /\ worker' \in [Conns -> Workers]
         /\ worker'[c].at = stage /\ worker'[c].n = worker[c].n
         /\ worker'[c].out = worker[c].out
         /\ \A d \in Conns \ {c} : worker'[d] = worker[d]
<1>1. worker[c] \in Workers
  BY DEF ServerTypeOK, Workers
<1>2. worker' = [worker EXCEPT ![c] = [worker[c] EXCEPT !.at = stage]]
  BY DEF Goto, ServerTypeOK
<1>3. [worker[c] EXCEPT !.at = stage] \in Workers
  BY <1>1 DEF Workers
<1> QED BY <1>1, <1>2, <1>3 DEF ServerTypeOK, Workers

LEMMA ExpectEffect ==
  ASSUME ServerTypeOK, NEW c \in Conns, NEW n \in Nat, Expect(c, n)
  PROVE  /\ worker' \in [Conns -> Workers]
         /\ worker'[c].at = "body" /\ worker'[c].n = n /\ worker'[c].out = worker[c].out
         /\ \A d \in Conns \ {c} : worker'[d] = worker[d]
<1>1. worker[c] \in Workers
  BY DEF ServerTypeOK, Workers
<1>2. worker' = [worker EXCEPT ![c] = [worker[c] EXCEPT !.at = "body", !.n = n]]
  BY DEF Expect, ServerTypeOK
<1>3. [worker[c] EXCEPT !.at = "body", !.n = n] \in Workers
  BY <1>1 DEF Workers, Stages
<1> QED BY <1>1, <1>2, <1>3 DEF ServerTypeOK, Workers

LEMMA FinishEffect ==
  ASSUME WireTypeOK, ServerTypeOK, NEW c \in Conns, Finish(c)
  PROVE  /\ WireTypeOK' /\ \A d \in Conns \ {c} : SameWire(d)
         /\ wire' = wire /\ buf' = buf /\ lost' = lost
         /\ isOpen'["server"][c] = FALSE /\ isOpen'["client"][c] = isOpen["client"][c]
         /\ worker' \in [Conns -> Workers]
         /\ worker'[c].at = "closed" /\ worker'[c].n = worker[c].n
         /\ worker'[c].out = worker[c].out
         /\ \A d \in Conns \ {c} : worker'[d] = worker[d]
<1>1. Goto(c, "closed") /\ "closed" \in Stages
  BY DEF Finish, Stages
<1>2. WireTypeOK' /\ \A d \in Conns \ {c} : SameWire(d)
  BY DEF Finish, Closed, WireTypeOK, SameWire, Ends
<1>3. /\ wire' = wire /\ buf' = buf /\ lost' = lost
      /\ isOpen'["server"][c] = FALSE /\ isOpen'["client"][c] = isOpen["client"][c]
  BY DEF Finish, Closed, WireTypeOK, Ends
<1> QED BY <1>1, <1>2, <1>3, GotoEffect

\* What is left to show of a step of the server that answers nothing.
LEMMA Moved ==
  ASSUME TypeOK, NEW c \in Conns,
         WireTypeOK', \A d \in Conns \ {c} : SameWire(d),
         worker' \in [Conns -> Workers], \A d \in Conns \ {c} : worker'[d] = worker[d],
         accepting' \in BOOLEAN, answer' = answer,
         \/ given' = given
         \/ \E body \in Seq(Items) : given' = [given EXCEPT ![c] = <<body>>],
         silent' \in {silent, silent \cup {c}},
         UNCHANGED agentVars
  PROVE  TypeOK' /\ Others(c)
<1>1. /\ given' \in [Conns -> Seq(Seq(Items))]
      /\ \A d \in Conns \ {c} : given'[d] = given[d]
  <2>1. CASE given' = given
    BY <2>1 DEF TypeOK, ServerTypeOK
  <2>2. ASSUME NEW body \in Seq(Items), given' = [given EXCEPT ![c] = <<body>>]
        PROVE  /\ given' \in [Conns -> Seq(Seq(Items))]
               /\ \A d \in Conns \ {c} : given'[d] = given[d]
    <3>1. <<body>> \in Seq(Seq(Items))
      OBVIOUS
    <3>2. given \in [Conns -> Seq(Seq(Items))]
      BY DEF TypeOK, ServerTypeOK
    <3> QED BY <3>1, <3>2, <2>2
  <2> QED BY <2>1, <2>2
<1>2. silent' \subseteq Conns /\ \A d \in Conns \ {c} : d \in silent' <=> d \in silent
  BY DEF TypeOK, ServerTypeOK
<1>3. ServerTypeOK'
  BY <1>1, <1>2 DEF TypeOK, ServerTypeOK, Workers
<1>4. AgentTypeOK'
  BY DEF TypeOK, AgentTypeOK, agentVars
<1>5. Others(c)
  BY <1>1, <1>2 DEF Others, Same, SameWire, agentVars
<1> QED BY <1>3, <1>4, <1>5 DEF TypeOK

\* The server's steps keep the types and leave the other connections alone.
LEMMA ServerFrame ==
  ASSUME TypeOK, NEW c \in Conns, ServerDoes(c)
  PROVE  TypeOK' /\ Others(c)
<1>0. /\ WireTypeOK /\ ServerTypeOK /\ UNCHANGED agentVars
      /\ "server" \in Ends /\ {"first", "headers", "handling", "refuse", "closed", "respond",
                                "error"} \subseteq Stages
      /\ UNCHANGED wireVars => WireTypeOK' /\ \A d \in Conns \ {c} : SameWire(d)
  BY DEF TypeOK, ServerDoes, Ends, Stages, wireVars, WireTypeOK, SameWire
<1>1. CASE Accept(c)
  <2>1. CASE Goto(c, "first") /\ UNCHANGED <<accepting, wireVars, silent>>
    BY <1>0, <1>1, <2>1, GotoEffect, Moved DEF Accept, ServerTypeOK
  <2>2. CASE accepting' = FALSE /\ silent' = silent \cup {c} /\ Finish(c)
    BY <1>0, <1>1, <2>2, FinishEffect, Moved DEF Accept, ServerTypeOK
  <2> QED BY <1>1, <2>1, <2>2 DEF Accept
<1>2. CASE ServerReceive(c)
  <2>1. Receive("server", c) /\ UNCHANGED serverVars
    BY <1>2 DEF ServerReceive
  <2>2. worker' \in [Conns -> Workers]
    BY <2>1, <1>0 DEF serverVars, ServerTypeOK, Workers
  <2> QED BY <1>0, <2>1, <2>2, ReceiveEffect, Moved DEF serverVars, ServerTypeOK
<1>3. CASE ReadFirstLine(c)
  <2>1. accepting' \in BOOLEAN /\ answer' = answer /\ given' = given /\ HasLine("server", c)
    BY <1>0, <1>3 DEF ReadFirstLine, ServerTypeOK
  <2>2. CASE Goto(c, "headers") /\ TakeLine("server", c) /\ UNCHANGED silent
    BY <1>0, <2>1, <2>2, GotoEffect, TakeLineEffect, Moved
  <2>3. CASE Goto(c, "refuse") /\ TakeLine("server", c) /\ UNCHANGED silent
    BY <1>0, <2>1, <2>3, GotoEffect, TakeLineEffect, Moved
  <2>4. CASE Finish(c) /\ silent' = silent \cup {c}
    BY <1>0, <2>1, <2>4, FinishEffect, Moved
  <2> QED BY <1>3, <2>2, <2>3, <2>4 DEF ReadFirstLine
<1>4. CASE ReadHeaders(c)
  <2>1. accepting' \in BOOLEAN /\ answer' = answer /\ HasLine("server", c)
    BY <1>0, <1>4 DEF ReadHeaders, ServerTypeOK
  <2>2. Line("server", c) \in Items
    BY <1>0, <2>1 DEF WireTypeOK, HasLine, Line
  <2>3. CASE /\ Expect(c, Line("server", c).n) /\ TakeLine("server", c)
             /\ UNCHANGED <<given, silent>>
    <3>1. Line("server", c).n \in Nat
      BY <2>2 DEF Items
    <3> QED BY <1>0, <2>1, <2>3, <3>1, ExpectEffect, TakeLineEffect, Moved
  <2>4. CASE /\ Goto(c, "handling") /\ TakeLine("server", c)
             /\ given' = [given EXCEPT ![c] = <<(<<>>)>>] /\ UNCHANGED silent
    <3>1. <<>> \in Seq(Items)
      OBVIOUS
    <3> QED BY <1>0, <2>1, <2>4, <3>1, GotoEffect, TakeLineEffect, Moved
  <2>5. CASE Goto(c, "refuse") /\ TakeLine("server", c) /\ UNCHANGED <<given, silent>>
    BY <1>0, <2>1, <2>5, GotoEffect, TakeLineEffect, Moved
  <2>6. CASE Finish(c) /\ silent' = silent \cup {c} /\ UNCHANGED given
    BY <1>0, <2>1, <2>6, FinishEffect, Moved
  <2> QED BY <1>4, <2>3, <2>4, <2>5, <2>6 DEF ReadHeaders
<1>5. CASE ReadBody(c)
  <2>1. buf["server"][c] \in Seq(Items)
    BY <1>0 DEF WireTypeOK
  <2>2. /\ accepting' \in BOOLEAN /\ answer' = answer /\ silent' = silent
        /\ Goto(c, "handling") /\ TakeBytes("server", c)
        /\ given' = [given EXCEPT ![c] = <<buf["server"][c]>>]
    BY <1>0, <1>5 DEF ReadBody, ServerTypeOK
  <2> QED BY <1>0, <2>1, <2>2, GotoEffect, TakeBytesEffect, Moved
<1>6. CASE ServerEof(c) \/ ServerTimeOut(c)
  <2>1. /\ accepting' \in BOOLEAN /\ answer' = answer /\ silent' \in {silent, silent \cup {c}}
        /\ ReadFails(c) /\ lost' = lost
    BY <1>0, <1>6 DEF ServerEof, ServerTimeOut, ServerTypeOK
  <2>2. WireTypeOK' /\ \A d \in Conns \ {c} : SameWire(d)
    <3>1. wire' = wire /\ buf' = buf
      BY <2>1 DEF ReadFails
    <3>2. isOpen' = isOpen \/ Closed(c)
      BY <2>1 DEF ReadFails
    <3>3. /\ isOpen' \in [Ends -> [Conns -> BOOLEAN]]
          /\ \A e \in Ends, d \in Conns \ {c} : isOpen'[e][d] = isOpen[e][d]
      <4>1. CASE isOpen' = isOpen
        BY <1>0, <4>1 DEF WireTypeOK
      <4>2. CASE Closed(c)
        BY <1>0, <4>2 DEF Closed, WireTypeOK
      <4> QED BY <3>2, <4>1, <4>2
    <3> QED BY <1>0, <2>1, <3>1, <3>3 DEF WireTypeOK, SameWire
  <2>3. given' = given
    BY <2>1 DEF ReadFails
  <2>4. Goto(c, "closed") \/ Goto(c, "refuse")
    BY <2>1 DEF ReadFails
  <2> QED BY <1>0, <2>1, <2>2, <2>3, <2>4, GotoEffect, Moved
<1>7. CASE \E r \in Responses : Respond(c, r)
  BY <1>0, <1>7, BeginEffect, ResponsesAssumption DEF Respond
<1>8. CASE Refuse(c)
  BY <1>0, <1>8, BeginEffect, ErrorPages, ZenonT(60) DEF Refuse
<1>9. CASE WriteBlock(c)
  <2>1. worker[c] \in Workers /\ worker[c].out # <<>> /\ worker[c].out \in Seq(Seq(Items))
    BY <1>0, <1>9 DEF WriteBlock, Unsent, ServerTypeOK, Workers
  <2>2. Head(worker[c].out) \in Seq(Items) /\ Tail(worker[c].out) \in Seq(Seq(Items))
    BY <2>1
  <2>3. Put("server", c, Head(worker[c].out)) /\ UNCHANGED <<buf, isOpen, lost>>
    BY <1>9 DEF WriteBlock
  <2>4. WireTypeOK' /\ \A d \in Conns \ {c} : SameWire(d)
    <3>1. /\ wire' \in [Ends -> [Conns -> Seq(Items)]]
          /\ \A e \in Ends, d \in Conns \ {c} : wire'[e][d] = wire[e][d]
      BY <1>0, <2>2, <2>3, PutEffect
    <3> QED BY <1>0, <2>3, <3>1 DEF WireTypeOK, SameWire
  <2>5. worker' = [worker EXCEPT ![c] = [worker[c] EXCEPT !.out = Tail(worker[c].out)]]
    BY <1>0, <1>9 DEF WriteBlock, ServerTypeOK
  <2>6. [worker[c] EXCEPT !.out = Tail(worker[c].out)] \in Workers
    BY <2>1, <2>2 DEF Workers
  <2>7. worker' \in [Conns -> Workers] /\ \A d \in Conns \ {c} : worker'[d] = worker[d]
    BY <1>0, <2>5, <2>6 DEF ServerTypeOK, Workers
  <2>8. /\ accepting' \in BOOLEAN /\ answer' = answer /\ silent' = silent /\ given' = given
    BY <1>0, <1>9 DEF WriteBlock, ServerTypeOK
  <2> QED BY <1>0, <2>4, <2>7, <2>8, Moved
<1>10. CASE WriteFails(c)
  <2>1. CASE At(c, "respond")
    <3>1. Begin(c, ErrorPage(500), "error") /\ ErrorPage(500) \in ResponseType
      BY <1>10, <2>1, ErrorPages DEF WriteFails, Throws
    <3> QED BY <1>0, <3>1, BeginEffect, ZenonT(60)
  <2>2. CASE ~At(c, "respond")
    <3>1. /\ worker' = [worker EXCEPT ![c] = [worker[c] EXCEPT !.at = "closed", !.out = <<>>]]
          /\ Closed(c) /\ UNCHANGED <<wire, buf, lost>>
      BY <1>0, <1>10, <2>2 DEF WriteFails, ServerTypeOK
    <3>2. [worker[c] EXCEPT !.at = "closed", !.out = <<>>] \in Workers
      <4>1. worker[c] \in Workers /\ <<>> \in Seq(Seq(Items))
        BY <1>0 DEF Workers, ServerTypeOK
      <4> QED BY <1>0, <4>1 DEF Workers
    <3>3. worker' \in [Conns -> Workers] /\ \A d \in Conns \ {c} : worker'[d] = worker[d]
      BY <1>0, <3>1, <3>2 DEF ServerTypeOK, Workers
    <3>4. WireTypeOK' /\ \A d \in Conns \ {c} : SameWire(d)
      BY <1>0, <3>1 DEF Closed, WireTypeOK, SameWire
    <3>5. accepting' \in BOOLEAN /\ answer' = answer /\ silent' = silent /\ given' = given
      BY <1>0, <1>10, <2>2 DEF WriteFails, ServerTypeOK
    <3> QED BY <1>0, <3>3, <3>4, <3>5, Moved
  <2> QED BY <2>1, <2>2
<1>11. CASE HandlerThrows(c)
  <2>1. Begin(c, ErrorPage(500), "error") /\ ErrorPage(500) \in ResponseType
    BY <1>11, ErrorPages DEF HandlerThrows, Throws
  <2> QED BY <1>0, <2>1, BeginEffect, ZenonT(60)
<1>12. CASE ServiceEnds(c)
  <2>1. /\ accepting' \in BOOLEAN /\ answer' = answer /\ given' = given
        /\ silent' \in {silent, silent \cup {c}} /\ Finish(c)
    BY <1>0, <1>12 DEF ServiceEnds, ServerTypeOK
  <2> QED BY <1>0, <2>1, FinishEffect, Moved
<1> QED
  BY <1>1, <1>2, <1>3, <1>4, <1>5, <1>6, <1>7, <1>8, <1>9, <1>10, <1>11, <1>12
  DEF ServerDoes, ServerNext, ReadStep, RespondStep, ServerWrites

-----------------------------------------------------------------------------
Readers == [at : AgentStages, out : Seq(Items), status : Nat, framing : Framings,
            n : Nat, body : Seq(Items)]

LEMMA EndEffect ==
  ASSUME WireTypeOK, AgentTypeOK, NEW c \in Conns, NEW stage \in AgentStages,
         NEW body \in Seq(Items), End(c, stage, body)
  PROVE  /\ agent' \in [Conns -> Readers]
         /\ agent'[c] = [agent[c] EXCEPT !.at = stage, !.body = body]
         /\ agent'[c].at = stage /\ agent'[c].body = body
         /\ agent'[c].out = agent[c].out /\ agent'[c].status = agent[c].status
         /\ agent'[c].framing = agent[c].framing
         /\ \A d \in Conns \ {c} : agent'[d] = agent[d]
         /\ isOpen' \in [Ends -> [Conns -> BOOLEAN]]
         /\ isOpen'["client"][c] = FALSE /\ isOpen'["server"][c] = isOpen["server"][c]
         /\ \A e \in Ends, d \in Conns \ {c} : isOpen'[e][d] = isOpen[e][d]
<1>1. agent[c] \in Readers
  BY DEF AgentTypeOK, Readers
<1>2. agent' = [agent EXCEPT ![c] = [agent[c] EXCEPT !.at = stage, !.body = body]]
  BY DEF End, AgentTypeOK
<1>3. [agent[c] EXCEPT !.at = stage, !.body = body] \in Readers
  BY <1>1 DEF Readers
<1>4. /\ isOpen' \in [Ends -> [Conns -> BOOLEAN]]
      /\ isOpen'["client"][c] = FALSE /\ isOpen'["server"][c] = isOpen["server"][c]
      /\ \A e \in Ends, d \in Conns \ {c} : isOpen'[e][d] = isOpen[e][d]
  BY DEF End, WireTypeOK, Ends
<1>5. agent'[c] = [agent[c] EXCEPT !.at = stage, !.body = body]
  BY <1>2 DEF AgentTypeOK
<1>6. /\ agent' \in [Conns -> Readers]
      /\ \A d \in Conns \ {c} : agent'[d] = agent[d]
  BY <1>2, <1>3 DEF AgentTypeOK, Readers
<1>7. /\ agent'[c].at = stage /\ agent'[c].body = body
      /\ agent'[c].out = agent[c].out /\ agent'[c].status = agent[c].status
      /\ agent'[c].framing = agent[c].framing
  BY <1>1, <1>5 DEF Readers
<1> QED BY <1>4, <1>5, <1>6, <1>7

\* A step that moves the reader of one connection to another record.
LEMMA ReaderEffect ==
  ASSUME AgentTypeOK, NEW c \in Conns, NEW reader \in Readers,
         agent' = [agent EXCEPT ![c] = reader]
  PROVE  /\ agent' \in [Conns -> Readers] /\ agent'[c] = reader
         /\ \A d \in Conns \ {c} : agent'[d] = agent[d]
BY DEF AgentTypeOK, Readers

LEMMA AgentMoved ==
  ASSUME TypeOK, NEW c \in Conns,
         WireTypeOK', \A d \in Conns \ {c} : SameWire(d),
         agent' \in [Conns -> Readers], \A d \in Conns \ {c} : agent'[d] = agent[d],
         request' = request, UNCHANGED serverVars
  PROVE  TypeOK' /\ Others(c)
<1>1. AgentTypeOK'
  BY DEF TypeOK, AgentTypeOK, Readers
<1>2. ServerTypeOK'
  BY DEF TypeOK, ServerTypeOK, serverVars
<1>3. Others(c)
  BY DEF Others, Same, SameWire, serverVars
<1> QED BY <1>1, <1>2, <1>3 DEF TypeOK

\* An exchange that ends, whatever the last read took.
LEMMA AgentEnds ==
  ASSUME TypeOK, NEW c \in Conns, NEW stage \in AgentStages, NEW body \in Seq(Items),
         End(c, stage, body), wire' = wire, lost' \in {lost, lost \cup {c}},
         \/ buf' = buf
         \/ HasLine("client", c) /\ buf' = [buf EXCEPT !["client"][c] = Tail(@)],
         request' = request, UNCHANGED serverVars
  PROVE  TypeOK' /\ Others(c)
<1>1. /\ WireTypeOK /\ AgentTypeOK /\ "client" \in Ends
  BY DEF TypeOK, Ends
<1>2. /\ buf' \in [Ends -> [Conns -> Seq(Items)]]
      /\ \A e \in Ends, d \in Conns \ {c} : buf'[e][d] = buf[e][d]
  <2>1. CASE buf' = buf
    BY <1>1, <2>1 DEF WireTypeOK
  <2>2. CASE HasLine("client", c) /\ buf' = [buf EXCEPT !["client"][c] = Tail(@)]
    <3>1. Tail(buf["client"][c]) \in Seq(Items)
      BY <1>1, <2>2 DEF WireTypeOK, HasLine
    <3> QED BY <1>1, <2>2, <3>1 DEF WireTypeOK
  <2> QED BY <2>1, <2>2
<1>3. WireTypeOK' /\ \A d \in Conns \ {c} : SameWire(d)
  <2>1. /\ isOpen' \in [Ends -> [Conns -> BOOLEAN]]
        /\ \A e \in Ends, d \in Conns \ {c} : isOpen'[e][d] = isOpen[e][d]
    BY <1>1, EndEffect
  <2>2. lost' \subseteq Conns /\ \A d \in Conns \ {c} : d \in lost' <=> d \in lost
    BY <1>1 DEF WireTypeOK
  <2> QED BY <1>1, <1>2, <2>1, <2>2 DEF WireTypeOK, SameWire
<1> QED BY <1>1, <1>3, EndEffect, AgentMoved

\* The steps of the other end, and of the network, do the same.
LEMMA AgentFrame ==
  ASSUME TypeOK, NEW c \in Conns, AgentDoes(c)
  PROVE  TypeOK' /\ Others(c)
<1>0. /\ WireTypeOK /\ AgentTypeOK /\ UNCHANGED serverVars /\ "client" \in Ends
      /\ {"sending", "status", "headers", "vector", "size", "chunk", "crlf", "all", "done",
          "failed"} \subseteq AgentStages
      /\ UNCHANGED wireVars => WireTypeOK' /\ \A d \in Conns \ {c} : SameWire(d)
  BY DEF TypeOK, AgentDoes, Ends, AgentStages, wireVars, WireTypeOK, SameWire
<1>a. /\ agent[c] \in Readers /\ agent[c].body \in Seq(Items) /\ <<>> \in Seq(Items)
      /\ buf["client"][c] \in Seq(Items) /\ agent[c].body \o buf["client"][c] \in Seq(Items)
  BY <1>0 DEF AgentTypeOK, Readers, WireTypeOK
<1>b. HasLine("client", c) => Line("client", c) \in Items /\ Line("client", c).n \in Nat
  <2>1. HasLine("client", c) => Line("client", c) \in Items
    BY <1>a DEF HasLine, Line
  <2> QED BY <2>1 DEF Items
<1>1. CASE Send(c)
  <2>1. CASE CanFailToWrite("client", c) /\ End(c, "failed", <<>>) /\ UNCHANGED <<wire, buf, lost>>
    BY <1>0, <1>a, <1>1, <2>1, AgentEnds DEF Send
  <2>2. CASE /\ Put("client", c, <<Head(agent[c].out)>>)
             /\ agent' = [agent EXCEPT ![c].out = Tail(@)]
             /\ UNCHANGED <<buf, isOpen, lost>>
    <3>1. agent[c].out # <<>> /\ request' = request
      BY <1>1 DEF Send
    <3>2. /\ <<Head(agent[c].out)>> \in Seq(Items) /\ Tail(agent[c].out) \in Seq(Items)
      BY <1>a, <3>1 DEF Readers
    <3>3. /\ wire' \in [Ends -> [Conns -> Seq(Items)]]
          /\ \A e \in Ends, d \in Conns \ {c} : wire'[e][d] = wire[e][d]
      <4> DEFINE items == <<Head(agent[c].out)>>
      <4>1. items \in Seq(Items) /\ Put("client", c, items)
        BY <2>2, <3>2
      <4> HIDE DEF items
      <4> QED BY <1>0, <4>1, PutEffect
    <3>4. WireTypeOK' /\ \A d \in Conns \ {c} : SameWire(d)
      BY <1>0, <2>2, <3>3 DEF WireTypeOK, SameWire
    <3>5. agent' = [agent EXCEPT ![c] = [agent[c] EXCEPT !.out = Tail(agent[c].out)]]
      BY <1>0, <2>2 DEF AgentTypeOK
    <3>6. [agent[c] EXCEPT !.out = Tail(agent[c].out)] \in Readers
      BY <1>a, <3>2 DEF Readers
    <3> QED BY <1>0, <3>1, <3>4, <3>5, <3>6, ReaderEffect, AgentMoved
  <2> QED BY <1>1, <2>1, <2>2 DEF Send
<1>2. CASE Sent(c)
  <2>1. agent' = [agent EXCEPT ![c] = [agent[c] EXCEPT !.at = "status"]]
    BY <1>0, <1>2 DEF Sent, AgentTypeOK
  <2>2. [agent[c] EXCEPT !.at = "status"] \in Readers
    BY <1>0, <1>a DEF Readers
  <2> QED BY <1>0, <1>2, <2>1, <2>2, ReaderEffect, AgentMoved DEF Sent
<1>3. CASE Hangup(c)
  BY <1>0, <1>a, <1>3, AgentEnds DEF Hangup
<1>4. CASE AgentReceive(c)
  <2>1. Receive("client", c) /\ UNCHANGED agentVars
    BY <1>4 DEF AgentReceive
  <2>2. agent' \in [Conns -> Readers]
    BY <1>0, <2>1 DEF agentVars, AgentTypeOK, Readers
  <2> QED BY <1>0, <2>1, <2>2, ReceiveEffect, AgentMoved DEF agentVars
<1>5. CASE AgentEof(c) \/ AgentTimeOut(c)
  <2>1. /\ CutShort(c) /\ request' = request /\ lost' \in {lost, lost \cup {c}}
    BY <1>5 DEF AgentEof, AgentTimeOut
  <2> QED BY <1>0, <1>a, <2>1, AgentEnds DEF CutShort, Fail
<1>6. CASE ReadStatus(c)
  <2>1. CASE Fail(c) /\ UNCHANGED lost
    BY <1>0, <1>a, <1>6, <2>1, AgentEnds DEF ReadStatus, Fail
  <2>2. CASE /\ agent' = [agent EXCEPT ![c].at = "headers", ![c].status = Line("client", c).n]
             /\ TakeLine("client", c)
    <3>1. agent' = [agent EXCEPT ![c] =
                      [agent[c] EXCEPT !.at = "headers", !.status = Line("client", c).n]]
      BY <1>0, <2>2 DEF AgentTypeOK
    <3>2. [agent[c] EXCEPT !.at = "headers", !.status = Line("client", c).n] \in Readers
      BY <1>0, <1>a, <1>b, <1>6 DEF Readers, ReadStatus
    <3> QED BY <1>0, <1>6, <2>2, <3>1, <3>2, ReaderEffect, TakeLineEffect, AgentMoved
        DEF ReadStatus
  <2> QED BY <1>6, <2>1, <2>2 DEF ReadStatus
<1>7. CASE ReadFraming(c)
  <2> DEFINE headers == Line("client", c)
             reader == [agent[c] EXCEPT !.at = Mode[headers.part], !.framing = headers.part,
                                        !.n = headers.n]
  <2>1. CASE NoBody(c, headers)
    BY <1>0, <1>a, <1>7, <2>1, AgentEnds DEF ReadFraming
  <2>2. CASE ~NoBody(c, headers)
    <3>1. /\ HasLine("client", c) /\ headers.part \in {"length", "chunked", "close"}
          /\ TakeLine("client", c) /\ request' = request
          /\ agent' = [agent EXCEPT ![c].at = Mode[headers.part], ![c].framing = headers.part,
                                    ![c].n = headers.n]
      BY <1>7, <2>2 DEF ReadFraming, Mode
    <3>2. Mode[headers.part] \in AgentStages /\ headers.part \in Framings
      BY <3>1 DEF Mode, AgentStages, Framings
    <3>3. agent' = [agent EXCEPT ![c] = reader]
      BY <1>0, <3>1 DEF AgentTypeOK
    <3>4. reader \in Readers
      BY <1>a, <1>b, <3>1, <3>2 DEF Readers
    <3> QED BY <1>0, <3>1, <3>3, <3>4, ReaderEffect, TakeLineEffect, AgentMoved
  <2> QED BY <2>1, <2>2
<1>8. CASE ReadVector(c)
  BY <1>0, <1>a, <1>8, AgentEnds DEF ReadVector
<1>9. CASE ReadSize(c)
  <2>1. CASE Fail(c) /\ UNCHANGED lost
    BY <1>0, <1>a, <1>9, <2>1, AgentEnds DEF ReadSize, Fail
  <2>2. CASE /\ End(c, "done", agent[c].body)
             /\ buf' = [buf EXCEPT !["client"][c] = Tail(@)]
             /\ UNCHANGED <<wire, lost>>
    BY <1>0, <1>a, <1>9, <2>2, AgentEnds DEF ReadSize
  <2>3. CASE /\ agent' = [agent EXCEPT ![c].at = "chunk", ![c].n = Line("client", c).n]
             /\ TakeLine("client", c)
    <3>1. agent' = [agent EXCEPT ![c] =
                      [agent[c] EXCEPT !.at = "chunk", !.n = Line("client", c).n]]
      BY <1>0, <2>3 DEF AgentTypeOK
    <3>2. [agent[c] EXCEPT !.at = "chunk", !.n = Line("client", c).n] \in Readers
      BY <1>0, <1>a, <1>b, <1>9 DEF Readers, ReadSize
    <3> QED BY <1>0, <1>9, <2>3, <3>1, <3>2, ReaderEffect, TakeLineEffect, AgentMoved
        DEF ReadSize
  <2> QED BY <1>9, <2>1, <2>2, <2>3 DEF ReadSize
<1>10. CASE ReadChunk(c)
  <2>1. agent' = [agent EXCEPT ![c] = [agent[c] EXCEPT !.at = "crlf",
                                         !.body = agent[c].body \o buf["client"][c]]]
    BY <1>0, <1>10 DEF ReadChunk, AgentTypeOK
  <2>2. [agent[c] EXCEPT !.at = "crlf", !.body = agent[c].body \o buf["client"][c]] \in Readers
    BY <1>0, <1>a DEF Readers
  <2> QED BY <1>0, <1>10, <2>1, <2>2, ReaderEffect, TakeBytesEffect, AgentMoved DEF ReadChunk
<1>11. CASE ReadChunkEnd(c)
  <2>1. CASE Fail(c) /\ UNCHANGED lost
    BY <1>0, <1>a, <1>11, <2>1, AgentEnds DEF ReadChunkEnd, Fail
  <2>2. CASE agent' = [agent EXCEPT ![c].at = "size"] /\ TakeLine("client", c)
    <3>1. agent' = [agent EXCEPT ![c] = [agent[c] EXCEPT !.at = "size"]]
      BY <1>0, <2>2 DEF AgentTypeOK
    <3>2. [agent[c] EXCEPT !.at = "size"] \in Readers
      BY <1>0, <1>a DEF Readers
    <3> QED BY <1>0, <1>11, <2>2, <3>1, <3>2, ReaderEffect, TakeLineEffect, AgentMoved
        DEF ReadChunkEnd
  <2> QED BY <1>11, <2>1, <2>2 DEF ReadChunkEnd
<1> QED
  BY <1>1, <1>2, <1>3, <1>4, <1>5, <1>6, <1>7, <1>8, <1>9, <1>10, <1>11
  DEF AgentDoes, AgentNext, AgentStep

LEMMA NetworkFrame ==
  ASSUME TypeOK, NEW c \in Conns, NetworkDoes(c)
  PROVE  TypeOK' /\ Others(c)
<1>1. /\ WireTypeOK' /\ \A d \in Conns \ {c} : SameWire(d)
  BY BreakEffect DEF NetworkDoes, TypeOK
<1>2. UNCHANGED serverVars /\ request' = request /\ agent' = agent
  BY DEF NetworkDoes, agentVars
<1>3. agent' \in [Conns -> Readers]
  BY <1>2 DEF TypeOK, AgentTypeOK, Readers
<1> QED BY <1>1, <1>2, <1>3, AgentMoved

LEMMA StepFrame ==
  ASSUME TypeOK, NEW c \in Conns, ServerDoes(c) \/ AgentDoes(c) \/ NetworkDoes(c)
  PROVE  TypeOK' /\ Others(c)
BY ServerFrame, AgentFrame, NetworkFrame

LEMMA InitTypeOK == Init => TypeOK
<1> SUFFICES ASSUME Init PROVE TypeOK
  OBVIOUS
<1>1. WireTypeOK
  BY DEF Init, WireInit, WireTypeOK
<1>2. ServerTypeOK
  BY DEF Init, ServerInit, ServerTypeOK, Stages
<1>3. AgentTypeOK
  <2>1. \A c \in Conns : request[c] \in RequestType
    BY RequestsAssumption DEF Init, AgentInit
  <2>2. \A c \in Conns : request[c].items \in Seq(Items)
    BY <2>1 DEF RequestType
  <2> QED BY <2>2 DEF Init, AgentInit, AgentTypeOK, AgentStages, Framings
<1> QED BY <1>1, <1>2, <1>3 DEF TypeOK

LEMMA StepTypeOK == TypeOK /\ [Next]_vars => TypeOK'
<1> SUFFICES ASSUME TypeOK, [Next]_vars PROVE TypeOK'
  OBVIOUS
<1>1. CASE Next
  BY <1>1, StepFrame DEF Next
<1>2. CASE UNCHANGED vars
  BY <1>2 DEF vars, wireVars, serverVars, agentVars, TypeOK, WireTypeOK, ServerTypeOK,
     AgentTypeOK
<1> QED BY <1>1, <1>2

\* What is on its way, what the two ends hold, and where they are, stays of its
\* type, whatever the requests and the responses: no stage is reached that the
\* code does not have, and no count goes below zero.
THEOREM TypeCorrect == Spec => []TypeOK
BY InitTypeOK, StepTypeOK, PTL DEF Spec

-----------------------------------------------------------------------------
(***************************************************************************)
(* The inductive invariant.                                                *)
(***************************************************************************)

\* The items are those of s after p of them, and what comes after its end is open.
GoesOn(s, p, items) == \A i \in 1..Len(items) : p + i <= Len(s) => items[i] = s[p + i]

\* What has arrived and what is on its way go on with s after p items of it.
Continues(s, p, arrived, coming) ==
  GoesOn(s, p, arrived) /\ GoesOn(s, p + Len(arrived), coming)

Wanted(c) == request[c].items
Inbox(c) == buf["server"][c]
Outbox(c) == buf["client"][c]
ToServer(c) == wire["server"][c]
ToClient(c) == wire["client"][c]

\* The worker has not read the request yet, and how much of it has been taken.
Reads(c) == worker[c].at \in {"waiting", "first", "headers", "body"}
Taken == [waiting |-> 0, first |-> 0, headers |-> 1, body |-> 2]

\* What is left to send, what is on its way, what has arrived, and what has been
\* taken is the request; once the network breaks, a part of it.
Inbound(c) ==
  /\ Len(agent[c].out) <= Len(Wanted(c))
  /\ \A i \in 1..Len(agent[c].out) :
       agent[c].out[i] = Wanted(c)[Len(Wanted(c)) - Len(agent[c].out) + i]
  /\ Reads(c) =>
       LET taken == Taken[worker[c].at] IN
       /\ taken + Len(Inbox(c)) + Len(ToServer(c)) + Len(agent[c].out) <= Len(Wanted(c))
       /\ c \notin lost =>
            taken + Len(Inbox(c)) + Len(ToServer(c)) + Len(agent[c].out) = Len(Wanted(c))
       /\ Continues(Wanted(c), taken, Inbox(c), ToServer(c))

\* What the constructor of the request knows at each stage.
Parsed(c) ==
  /\ worker[c].at \in {"headers", "body"} => Wanted(c)[1].part = "request"
  /\ At(c, "body") => Wanted(c)[2] = Item("length", worker[c].n)

\* The handler has been given nothing yet, or the request.
Given(c) ==
  /\ Reads(c) => given[c] = <<>>
  /\ given[c] # <<>> =>
       LET items == Wanted(c) IN
         /\ items[1].part = "request"
         /\ given[c] = <<SubSeq(items, 3, 2 + items[2].n)>>
         /\ Len(given[c][1]) = items[2].n

Delivering(c) == isOpen["client"][c] /\ c \notin lost

\* When the ends of the connection are open, and which answers there are.
Stage(c) ==
  /\ isOpen["server"][c] = (worker[c].at # "closed")
  /\ isOpen["client"][c] = ~Ended(c)
  /\ Reads(c) \/ At(c, "handling") => answer[c] = <<>>
  /\ worker[c].at \in {"respond", "error"} => answer[c] # <<>>
  /\ answer[c] = <<>> =>
       /\ worker[c].out = <<>>
       /\ Outbox(c) = <<>> /\ ToClient(c) = <<>>
       /\ agent[c].at \in {"sending", "status", "done", "failed"}
  /\ At(c, "closed") /\ Delivering(c) =>
       c \in silent \/ (answer[c] # <<>> /\ worker[c].out = <<>>)

\* A user agent's request is read to its end before it is answered.
Asked(c) == ByAgent(c) /\ Wanted(c)[2].part = "length"
Prompt(c) ==
  /\ Asked(c) /\ Delivering(c) /\ c \notin silent /\ ~Reads(c) => agent[c].out = <<>>
  /\ Asked(c) /\ Is(c, "failed") /\ agent[c].status = 0 => c \in lost \cup silent
  /\ ByAgent(c) /\ Is(c, "done") => agent[c].status # 0

First(c) == answer[c][1]
Whole(c) == <<Item("status", First(c).status), First(c).framing>> \o First(c).body

\* After the p items that the agent has taken, what has arrived and what is on
\* its way goes on with the first response, to its end while nothing fails.
Follows(c, p) ==
  /\ p <= Len(Whole(c))
  /\ Continues(Whole(c), p, Outbox(c), ToClient(c))
  /\ Delivering(c) =>
       LET total == p + Len(Outbox(c)) + Len(ToClient(c)) IN
         \/ total >= Len(Whole(c))
         \/ total = 0 /\ worker[c].out = Blocks(First(c))
         \/ total = 2 /\ worker[c].out = <<First(c).body>>

InChunks(c, p) ==
  LET items == First(c).body IN
    /\ First(c).framing.part = "chunked" /\ agent[c].framing = "chunked"
    /\ Follows(c, 2 + p)
    /\ p < Len(items)
    /\ agent[c].body = BytesUpTo(items)[p]
    /\ Is(c, "chunk") =>
         /\ p + agent[c].n < Len(items)
         /\ \A j \in 1..agent[c].n : items[p + j].part = "byte"

Outbound(c) ==
  /\ answer[c] # <<>> =>
       /\ agent[c].at \in {"sending", "status"} => Follows(c, 0)
       /\ Is(c, "headers") => Follows(c, 1) /\ agent[c].status = First(c).status
       /\ Is(c, "vector") =>
            /\ Follows(c, 2) /\ agent[c].framing = "length"
            /\ First(c).framing = Item("length", agent[c].n)
       /\ agent[c].at \in {"size", "chunk", "crlf"} =>
            \E p \in 0..Len(First(c).body) : InChunks(c, p)
  /\ agent[c].at \in {"sending", "status"} => agent[c].status = 0
  /\ agent[c].at \in {"sending", "status", "headers"} =>
       agent[c].framing = "none" /\ agent[c].body = <<>>
  /\ Is(c, "all") => agent[c].framing = "close"
  /\ ~(agent[c].at \in {"sending", "status", "done", "failed"}) => agent[c].status # 0
  /\ Is(c, "done") /\ agent[c].framing \in {"length", "chunked"} =>
       answer[c] # <<>> /\ agent[c].body = Data(First(c).body)

\* The responses there are.
Answers(c) == \A i \in DOMAIN answer[c] :
  answer[c][i] \in Responses \cup {ErrorPage(400), ErrorPage(500)}

ConnInv(c) ==
  /\ Inbound(c) /\ Parsed(c) /\ Given(c) /\ Stage(c) /\ Prompt(c) /\ Answers(c)
  /\ Outbound(c)

IInv == TypeOK /\ \A c \in Conns : ConnInv(c)

-----------------------------------------------------------------------------
\* How a stream goes on when some of it arrives, or is taken, written or lost.
LEMMA StreamArrives ==
  \A s, b, w \in Seq(Items) : \A p \in Nat : \A k \in 1..Len(w) :
    Continues(s, p, b, w) =>
      /\ Continues(s, p, b \o SubSeq(w, 1, k), SubSeq(w, k + 1, Len(w)))
      /\ Len(b \o SubSeq(w, 1, k)) + Len(SubSeq(w, k + 1, Len(w))) = Len(b) + Len(w)
<1> TAKE s, b, w \in Seq(Items)
<1> TAKE p \in Nat
<1> TAKE k \in 1..Len(w)
<1> HAVE Continues(s, p, b, w)
<1> DEFINE b2 == b \o SubSeq(w, 1, k)
           w2 == SubSeq(w, k + 1, Len(w))
<1>1. /\ SubSeq(w, 1, k) \in Seq(Items) /\ Len(SubSeq(w, 1, k)) = k
      /\ \A i \in 1..k : SubSeq(w, 1, k)[i] = w[i]
  OBVIOUS
<1>2. Len(w2) = Len(w) - k /\ \A i \in 1..(Len(w) - k) : w2[i] = w[k + i]
  BY SMTT(40)
<1>3. /\ Len(b2) = Len(b) + k
      /\ \A i \in 1..Len(b) : b2[i] = b[i]
      /\ \A i \in (Len(b) + 1)..(Len(b) + k) : b2[i] = w[i - Len(b)]
  BY <1>1
<1> HIDE DEF b2, w2
<1>4. \A i \in 1..Len(b2) : p + i <= Len(s) => b2[i] = s[p + i]
  <2> SUFFICES ASSUME NEW i \in 1..Len(b2), p + i <= Len(s) PROVE b2[i] = s[p + i]
    OBVIOUS
  <2>1. CASE i \in 1..Len(b)
    BY <1>3, <2>1 DEF Continues, GoesOn
  <2>2. CASE i \in (Len(b) + 1)..(Len(b) + k)
    <3>1. i - Len(b) \in 1..Len(w) /\ p + Len(b) + (i - Len(b)) = p + i
      BY <2>2
    <3>2. w[i - Len(b)] = s[p + Len(b) + (i - Len(b))]
      BY <3>1 DEF Continues, GoesOn
    <3> QED BY <1>3, <2>2, <3>1, <3>2
  <2> QED BY <1>3, <2>1, <2>2
<1>5. \A i \in 1..Len(w2) : p + Len(b2) + i <= Len(s) => w2[i] = s[p + Len(b2) + i]
  <2> SUFFICES ASSUME NEW i \in 1..Len(w2), p + Len(b2) + i <= Len(s)
               PROVE  w2[i] = s[p + Len(b2) + i]
    OBVIOUS
  <2>1. k + i \in 1..Len(w) /\ p + Len(b) + (k + i) = p + Len(b2) + i
    <3>1. Len(w) \in Nat /\ Len(b) \in Nat /\ i \in 1..(Len(w) - k)
      BY <1>2
    <3>2. Len(b2) = Len(b) + k
      BY <1>3
    <3> QED BY <3>1, <3>2
  <2>2. w[k + i] = s[p + Len(b) + (k + i)]
    BY <2>1 DEF Continues, GoesOn
  <2> QED BY <1>2, <2>1, <2>2
<1>6. Len(b2) + Len(w2) = Len(b) + Len(w)
  <2>1. Len(b2) = Len(b) + k /\ Len(w2) = Len(w) - k /\ Len(w) \in Nat /\ Len(b) \in Nat
    BY <1>2, <1>3
  <2> QED BY <2>1
<1>7. Continues(s, p, b2, w2)
  BY <1>4, <1>5 DEF Continues, GoesOn
<1> QED BY <1>6, <1>7 DEF b2, w2

LEMMA StreamTaken ==
  ASSUME NEW s \in Seq(Items), NEW p \in Nat, NEW b \in Seq(Items), NEW w \in Seq(Items),
         Continues(s, p, b, w), b # <<>>, NEW b2, b2 = Tail(b)
  PROVE  /\ Continues(s, p + 1, b2, w) /\ Len(b2) = Len(b) - 1
         /\ p < Len(s) => Head(b) = s[p + 1]
<1>1. Len(b2) = Len(b) - 1 /\ \A i \in 1..(Len(b) - 1) : b2[i] = b[i + 1]
  OBVIOUS
<1>2. \A i \in 1..Len(b2) : p + 1 + i <= Len(s) => b2[i] = s[p + 1 + i]
  <2> SUFFICES ASSUME NEW i \in 1..Len(b2), p + 1 + i <= Len(s) PROVE b2[i] = s[p + 1 + i]
    OBVIOUS
  <2>1. i + 1 \in 1..Len(b) /\ p + (i + 1) = p + 1 + i
    BY <1>1
  <2>2. b[i + 1] = s[p + (i + 1)]
    BY <2>1 DEF Continues, GoesOn
  <2> QED BY <1>1, <2>1, <2>2
<1>3. p + 1 + Len(b2) = p + Len(b)
  BY <1>1
<1>4. p < Len(s) => Head(b) = s[p + 1]
  BY SMTT(40) DEF Continues, GoesOn
<1> QED BY <1>1, <1>2, <1>3, <1>4 DEF Continues, GoesOn

LEMMA StreamAllTaken ==
  ASSUME NEW s \in Seq(Items), NEW p \in Nat, NEW b \in Seq(Items), NEW w \in Seq(Items),
         Continues(s, p, b, w), NEW b2, b2 = <<>>
  PROVE  Continues(s, p + Len(b), b2, w) /\ Len(b2) = 0
BY DEF Continues, GoesOn

LEMMA StreamWritten ==
  \A s, b, w, items \in Seq(Items) : \A p \in Nat :
    /\ Continues(s, p, b, w)
    /\ GoesOn(s, p + Len(b) + Len(w), items)
    => Continues(s, p, b, w \o items) /\ Len(w \o items) = Len(w) + Len(items)
<1> TAKE s, b, w, items \in Seq(Items)
<1> TAKE p \in Nat
<1> HAVE Continues(s, p, b, w) /\ GoesOn(s, p + Len(b) + Len(w), items)
<1> DEFINE w2 == w \o items
<1>1. /\ Len(w2) = Len(w) + Len(items)
      /\ \A i \in 1..Len(w) : w2[i] = w[i]
      /\ \A i \in (Len(w) + 1)..Len(w2) : w2[i] = items[i - Len(w)]
  OBVIOUS
<1> HIDE DEF w2
<1>2. \A i \in 1..Len(w2) : p + Len(b) + i <= Len(s) => w2[i] = s[p + Len(b) + i]
  <2> SUFFICES ASSUME NEW i \in 1..Len(w2), p + Len(b) + i <= Len(s)
               PROVE  w2[i] = s[p + Len(b) + i]
    OBVIOUS
  <2>1. CASE i \in 1..Len(w)
    BY <1>1, <2>1 DEF Continues, GoesOn
  <2>2. CASE i \in (Len(w) + 1)..Len(w2)
    <3>1. i - Len(w) \in 1..Len(items) /\ p + Len(b) + Len(w) + (i - Len(w)) = p + Len(b) + i
      BY <1>1, <2>2
    <3>2. items[i - Len(w)] = s[p + Len(b) + Len(w) + (i - Len(w))]
      BY <3>1 DEF GoesOn
    <3> QED BY <1>1, <2>2, <3>1, <3>2
  <2> QED BY <1>1, <2>1, <2>2
<1>3. Continues(s, p, b, w2)
  BY <1>2 DEF Continues, GoesOn
<1> QED BY <1>1, <1>3 DEF w2

LEMMA StreamCut ==
  ASSUME NEW s \in Seq(Items), NEW p \in Nat, NEW b \in Seq(Items), NEW w \in Seq(Items),
         Continues(s, p, b, w), NEW i \in 0..Len(w), NEW w2, w2 = SubSeq(w, 1, i)
  PROVE  Continues(s, p, b, w2) /\ Len(w2) <= Len(w)
<1>1. Len(w2) = i /\ \A j \in 1..i : w2[j] = w[j]
  OBVIOUS
<1> QED BY <1>1 DEF Continues, GoesOn

-----------------------------------------------------------------------------
\* A connection that a step leaves alone keeps its part of the invariant.
LEMMA SameInv ==
  ASSUME NEW d \in Conns, Same(d), ConnInv(d)
  PROVE  ConnInv(d)'
<1>1. /\ "server" \in Ends /\ "client" \in Ends
      /\ Inbox(d)' = Inbox(d) /\ Outbox(d)' = Outbox(d)
      /\ ToServer(d)' = ToServer(d) /\ ToClient(d)' = ToClient(d)
      /\ Wanted(d)' = Wanted(d) /\ First(d)' = First(d) /\ Whole(d)' = Whole(d)
      /\ Delivering(d)' <=> Delivering(d)
  BY DEF Same, Ends, Inbox, Outbox, ToServer, ToClient, Wanted, First, Whole, Delivering
<1>2. /\ worker'[d] = worker[d] /\ answer'[d] = answer[d] /\ given'[d] = given[d]
      /\ request'[d] = request[d] /\ agent'[d] = agent[d]
      /\ d \in silent' <=> d \in silent
      /\ d \in lost' <=> d \in lost
      /\ isOpen'["server"][d] = isOpen["server"][d] /\ isOpen'["client"][d] = isOpen["client"][d]
  BY <1>1 DEF Same
<1>3. /\ Reads(d)' <=> Reads(d)
      /\ Asked(d)' <=> Asked(d)
      /\ \A stage \in Stages : At(d, stage)' <=> At(d, stage)
      /\ \A stage \in AgentStages : Is(d, stage)' <=> Is(d, stage)
  BY <1>1, <1>2 DEF Reads, Asked, At, Is, ByAgent
<1>4. Inbound(d)'
  BY <1>1, <1>2, <1>3 DEF ConnInv, Inbound
<1>5. Parsed(d)' /\ Given(d)'
  BY <1>1, <1>2, <1>3 DEF ConnInv, Parsed, Given, At
<1>6. Stage(d)'
  BY <1>1, <1>2, <1>3 DEF ConnInv, Stage, At, Ended
<1>7. Prompt(d)'
  BY <1>1, <1>2, <1>3 DEF ConnInv, Prompt, Is, ByAgent
<1>8. Answers(d)'
  BY <1>2 DEF ConnInv, Answers
<1>9. Outbound(d)'
  <2>1. \A q : Follows(d, q)' <=> Follows(d, q)
    BY <1>1, <1>2 DEF Follows
  <2>2. \A q : InChunks(d, q)' <=> InChunks(d, q)
    BY <1>1, <1>2, <2>1 DEF InChunks, Is
  <2> QED BY <1>1, <1>2, <2>1, <2>2 DEF ConnInv, Outbound, Is
<1> QED BY <1>4, <1>5, <1>6, <1>7, <1>8, <1>9 DEF ConnInv

-----------------------------------------------------------------------------
(***************************************************************************)
(* The request on its way to the server.                                   *)
(***************************************************************************)

\* The types of what the invariant relates.
LEMMA Typed ==
  ASSUME TypeOK, NEW c \in Conns
  PROVE  /\ "server" \in Ends /\ "client" \in Ends
         /\ Wanted(c) \in Seq(Items) /\ request[c] \in Requests /\ request[c] \in RequestType
         /\ Inbox(c) \in Seq(Items) /\ ToServer(c) \in Seq(Items)
         /\ Outbox(c) \in Seq(Items) /\ ToClient(c) \in Seq(Items)
         /\ worker[c] \in Workers /\ agent[c] \in Readers
         /\ agent[c].out \in Seq(Items) /\ agent[c].body \in Seq(Items)
         /\ worker[c].n \in Nat /\ agent[c].n \in Nat /\ agent[c].status \in Nat
         /\ worker[c].out \in Seq(Seq(Items)) /\ worker[c].at \in Stages
         /\ answer[c] \in Seq(ResponseType) /\ Len(answer[c]) <= 1
<1>1. "server" \in Ends /\ "client" \in Ends
  BY DEF Ends
<1>2. request[c] \in Requests /\ request[c] \in RequestType
  BY RequestsAssumption DEF TypeOK, AgentTypeOK
<1>3. Wanted(c) \in Seq(Items)
  BY <1>2 DEF Wanted, RequestType
<1>4. /\ Inbox(c) \in Seq(Items) /\ ToServer(c) \in Seq(Items)
      /\ Outbox(c) \in Seq(Items) /\ ToClient(c) \in Seq(Items)
  BY <1>1 DEF TypeOK, WireTypeOK, Inbox, Outbox, ToServer, ToClient
<1>5. worker[c] \in Workers /\ agent[c] \in Readers
  BY DEF TypeOK, ServerTypeOK, AgentTypeOK, Workers, Readers
<1>6. answer[c] \in Seq(ResponseType) /\ Len(answer[c]) <= 1
  BY DEF TypeOK, ServerTypeOK
<1> QED BY <1>1, <1>2, <1>3, <1>4, <1>5, <1>6 DEF Workers, Readers

\* A step that neither reads at the server nor sends, nor moves the worker.
LEMMA InboundQuiet ==
  ASSUME NEW c \in Conns, Inbound(c), Parsed(c), Given(c),
         Wanted(c)' = Wanted(c), agent'[c].out = agent[c].out,
         Inbox(c)' = Inbox(c), ToServer(c)' = ToServer(c), c \in lost => c \in lost',
         given'[c] = given[c], worker'[c].at = worker[c].at, worker'[c].n = worker[c].n
  PROVE  Inbound(c)' /\ Parsed(c)' /\ Given(c)'
<1>1. Reads(c)' <=> Reads(c)
  BY DEF Reads
<1>2. Inbound(c)'
  BY <1>1 DEF Inbound
<1>3. Parsed(c)' /\ Given(c)'
  BY <1>1 DEF Parsed, Given, At
<1> QED BY <1>2, <1>3

\* A step after which the worker does not read the request.
LEMMA InboundOver ==
  ASSUME NEW c \in Conns, Inbound(c), Given(c),
         Wanted(c)' = Wanted(c), agent'[c].out = agent[c].out,
         given'[c] = given[c], ~Reads(c)'
  PROVE  Inbound(c)' /\ Parsed(c)' /\ Given(c)'
<1>1. Inbound(c)'
  BY DEF Inbound
<1>2. Parsed(c)'
  BY DEF Parsed, Reads, At
<1>3. Given(c)'
  BY DEF Given
<1> QED BY <1>1, <1>2, <1>3

LEMMA ServerReceiveInbound ==
  ASSUME TypeOK, NEW c \in Conns, ConnInv(c), ServerReceive(c), UNCHANGED agentVars
  PROVE  Inbound(c)' /\ Parsed(c)' /\ Given(c)'
<1>1. /\ Receive("server", c) /\ UNCHANGED serverVars /\ WireTypeOK /\ "server" \in Ends
  BY DEF ServerReceive, TypeOK, Ends
<1>2. PICK k \in 1..Len(ToServer(c)) :
        /\ Inbox(c)' = Inbox(c) \o SubSeq(ToServer(c), 1, k)
        /\ ToServer(c)' = SubSeq(ToServer(c), k + 1, Len(ToServer(c)))
  BY <1>1, ReceiveEffect DEF Inbox, ToServer
<1>3. /\ lost' = lost /\ worker' = worker /\ given' = given /\ request' = request /\ agent' = agent
  BY <1>1, ReceiveEffect DEF serverVars, agentVars
<1>4. Parsed(c)' /\ Given(c)'
  BY <1>3 DEF ConnInv, Parsed, Given, At, Wanted, Reads
<1>5. CASE ~Reads(c)
  <2>1. ~Reads(c)' /\ Wanted(c)' = Wanted(c)
    BY <1>3, <1>5 DEF Reads, Wanted
  <2> QED BY <1>3, <2>1, InboundOver DEF ConnInv
<1>6. CASE Reads(c)
  <2> DEFINE taken == Taken[worker[c].at]
  <2>1. taken \in Nat /\ Continues(Wanted(c), taken, Inbox(c), ToServer(c))
    BY <1>6 DEF ConnInv, Inbound, Reads, Taken
  <2>2. /\ Continues(Wanted(c), taken, Inbox(c)', ToServer(c)')
        /\ Len(Inbox(c)') + Len(ToServer(c)') = Len(Inbox(c)) + Len(ToServer(c))
    <3> HIDE DEF taken
    <3>1. /\ Continues(Wanted(c), taken, Inbox(c) \o SubSeq(ToServer(c), 1, k),
                        SubSeq(ToServer(c), k + 1, Len(ToServer(c))))
          /\ Len(Inbox(c) \o SubSeq(ToServer(c), 1, k))
               + Len(SubSeq(ToServer(c), k + 1, Len(ToServer(c))))
               = Len(Inbox(c)) + Len(ToServer(c))
      <4>1. /\ Wanted(c) \in Seq(Items) /\ Inbox(c) \in Seq(Items) /\ ToServer(c) \in Seq(Items)
            /\ k \in 1..Len(ToServer(c))
        BY Typed
      <4> HIDE DEF taken
      <4>3. taken \in Nat /\ Continues(Wanted(c), taken, Inbox(c), ToServer(c))
        BY <2>1
      <4> QED BY <4>1, <4>3, StreamArrives, ZenonT(180)
    <3> QED BY <1>2, <3>1
  <2> DEFINE i == Len(Inbox(c))
             j == Len(ToServer(c))
             o == Len(agent[c].out)
             l == Len(Wanted(c))
             i2 == Len(Inbox(c)')
             j2 == Len(ToServer(c)')
  <2>3. i \in Nat /\ j \in Nat /\ o \in Nat /\ l \in Nat /\ i2 \in Nat /\ j2 \in Nat
    BY <1>2, Typed
  <2>4. taken + i + j + o <= l /\ (c \notin lost => taken + i + j + o = l) /\ i2 + j2 = i + j
    BY <1>6, <2>2 DEF ConnInv, Inbound
  <2> HIDE DEF taken, i, j, o, l, i2, j2
  <2>5. taken + i2 + j2 + o <= l /\ (c \notin lost => taken + i2 + j2 + o = l)
    BY <2>1, <2>3, <2>4
  <2>6. /\ taken + Len(Inbox(c)') + Len(ToServer(c)') + Len(agent[c].out) <= Len(Wanted(c))
        /\ c \notin lost =>
             taken + Len(Inbox(c)') + Len(ToServer(c)') + Len(agent[c].out) = Len(Wanted(c))
    BY <2>5 DEF i2, j2, o, l
  <2>7. Inbound(c)'
    <3>1. /\ Wanted(c)' = Wanted(c) /\ agent'[c].out = agent[c].out /\ (c \in lost' <=> c \in lost)
          /\ Taken[worker[c].at]' = taken /\ (Reads(c)' <=> Reads(c))
      BY <1>3 DEF Wanted, Reads, taken
    <3>2. /\ Len(agent[c].out) <= Len(Wanted(c))
          /\ \A n \in 1..Len(agent[c].out) :
               agent[c].out[n] = Wanted(c)[Len(Wanted(c)) - Len(agent[c].out) + n]
      BY DEF ConnInv, Inbound
    <3> QED BY <2>2, <2>6, <3>1, <3>2 DEF Inbound
  <2> QED BY <1>4, <2>7
<1> QED BY <1>4, <1>5, <1>6

\* A line taken from what has arrived is the next item of the request.
LEMMA ServerTakesLine ==
  ASSUME TypeOK, NEW c \in Conns, Inbound(c), Reads(c), HasLine("server", c)
  PROVE  LET taken == Taken[worker[c].at] IN
         /\ taken < Len(Wanted(c)) /\ Line("server", c) = Wanted(c)[taken + 1]
         /\ Continues(Wanted(c), taken + 1, Tail(Inbox(c)), ToServer(c))
         /\ taken + 1 + Len(Tail(Inbox(c))) + Len(ToServer(c)) + Len(agent[c].out) <= Len(Wanted(c))
         /\ c \notin lost =>
              taken + 1 + Len(Tail(Inbox(c))) + Len(ToServer(c)) + Len(agent[c].out) = Len(Wanted(c))
<1> DEFINE taken == Taken[worker[c].at]
<1>1. taken \in Nat /\ Continues(Wanted(c), taken, Inbox(c), ToServer(c))
  BY DEF Inbound, Reads, Taken
<1>2. Inbox(c) # <<>> /\ Line("server", c) = Head(Inbox(c))
  BY DEF HasLine, Line, Inbox
<1> DEFINE i == Len(Inbox(c))
           j == Len(ToServer(c))
           o == Len(agent[c].out)
           l == Len(Wanted(c))
           i2 == Len(Tail(Inbox(c)))
<1>3. taken + i + j + o <= l /\ (c \notin lost => taken + i + j + o = l)
  BY DEF Inbound
<1>4. i \in Nat /\ i >= 1 /\ j \in Nat /\ o \in Nat /\ l \in Nat
  BY <1>2, Typed
<1> HIDE DEF taken, i, j, o, l, i2
<1>5. taken < l
  BY <1>1, <1>3, <1>4
<1>6. /\ Continues(Wanted(c), taken + 1, Tail(Inbox(c)), ToServer(c))
      /\ i2 = i - 1 /\ Head(Inbox(c)) = Wanted(c)[taken + 1]
  BY <1>1, <1>2, <1>5, Typed, StreamTaken DEF l, i, i2
<1>7. taken + 1 + i2 + j + o <= l /\ (c \notin lost => taken + 1 + i2 + j + o = l)
  BY <1>1, <1>3, <1>4, <1>6
<1> QED BY <1>2, <1>5, <1>6, <1>7 DEF taken, i, j, o, l, i2

\* After a line has been taken, and the worker has gone on to the next stage.
LEMMA ServerTookLine ==
  ASSUME TypeOK, NEW c \in Conns, Inbound(c), Reads(c), HasLine("server", c),
         Inbox(c)' = Tail(Inbox(c)), ToServer(c)' = ToServer(c), lost' = lost,
         Wanted(c)' = Wanted(c), agent'[c].out = agent[c].out,
         Taken[worker'[c].at] = Taken[worker[c].at] + 1
  PROVE  Inbound(c)'
<1>1. /\ Len(agent[c].out) <= Len(Wanted(c))
      /\ \A n \in 1..Len(agent[c].out) :
           agent[c].out[n] = Wanted(c)[Len(Wanted(c)) - Len(agent[c].out) + n]
  BY DEF Inbound
<1> QED BY <1>1, ServerTakesLine DEF Inbound

LEMMA ReadFirstLineInbound ==
  ASSUME TypeOK, NEW c \in Conns, ConnInv(c), ReadFirstLine(c), UNCHANGED agentVars
  PROVE  Inbound(c)' /\ Parsed(c)' /\ Given(c)'
<1>1. /\ given' = given /\ agent' = agent /\ Wanted(c)' = Wanted(c)
      /\ At(c, "first") /\ HasLine("server", c) /\ Reads(c) /\ Taken[worker[c].at] = 0
      /\ WireTypeOK /\ ServerTypeOK /\ "server" \in Ends
      /\ {"headers", "refuse"} \subseteq Stages
  BY DEF ReadFirstLine, agentVars, Wanted, At, Reads, Taken, TypeOK, Ends, Stages
<1>2. CASE /\ Line("server", c).part = "request"
           /\ Goto(c, "headers") /\ TakeLine("server", c)
  <2>1. worker'[c].at = "headers" /\ Reads(c)'
    BY <1>1, <1>2, GotoEffect DEF Reads
  <2>2. Inbox(c)' = Tail(Inbox(c)) /\ ToServer(c)' = ToServer(c) /\ lost' = lost
    BY <1>1, <1>2, TakeLineEffect DEF Inbox, ToServer
  <2>3. Inbound(c)'
    BY <1>1, <2>1, <2>2, ServerTookLine DEF ConnInv, Taken
  <2>4. Wanted(c)[1].part = "request"
    BY <1>1, <1>2, ServerTakesLine DEF ConnInv
  <2> QED BY <1>1, <2>1, <2>3, <2>4 DEF ConnInv, Parsed, Given, At
<1>3. CASE ~Reads(c)'
  BY <1>1, <1>3, InboundOver DEF ConnInv
<1>4. CASE Goto(c, "refuse") \/ Finish(c)
  BY <1>1, <1>3, <1>4, GotoEffect, FinishEffect DEF Reads
<1> QED BY <1>2, <1>4 DEF ReadFirstLine

LEMMA ReadHeadersInbound ==
  ASSUME TypeOK, NEW c \in Conns, ConnInv(c), ReadHeaders(c), UNCHANGED agentVars
  PROVE  Inbound(c)' /\ Parsed(c)' /\ Given(c)'
<1> DEFINE headers == Line("server", c)
<1>1. /\ agent' = agent /\ Wanted(c)' = Wanted(c)
      /\ At(c, "headers") /\ HasLine("server", c) /\ Reads(c) /\ Taken[worker[c].at] = 1
      /\ WireTypeOK /\ ServerTypeOK /\ "server" \in Ends
      /\ {"handling", "refuse"} \subseteq Stages
  BY DEF ReadHeaders, agentVars, Wanted, At, Reads, Taken, TypeOK, Ends, Stages
<1>2. /\ Wanted(c)[1].part = "request" /\ given[c] = <<>>
      /\ Wanted(c)[2] = headers /\ 2 \in 1..Len(Wanted(c)) /\ headers \in Items
  <2>1. Wanted(c)[1].part = "request" /\ given[c] = <<>>
    BY <1>1 DEF ConnInv, Parsed, Given, At
  <2>2. Wanted(c)[2] = headers /\ 1 < Len(Wanted(c))
    BY <1>1, ServerTakesLine DEF ConnInv
  <2>3. 2 \in 1..Len(Wanted(c))
    BY <2>2, Typed
  <2> QED BY <2>1, <2>2, <2>3, Typed
<1>3. CASE /\ headers.part = "length" /\ headers.n > 0
           /\ Expect(c, headers.n) /\ TakeLine("server", c) /\ UNCHANGED given
  <2>1. headers.n \in Nat
    BY <1>2 DEF Items
  <2>2. worker'[c].at = "body" /\ worker'[c].n = headers.n /\ Reads(c)'
    BY <1>1, <1>3, <2>1, ExpectEffect DEF Reads
  <2>3. Inbox(c)' = Tail(Inbox(c)) /\ ToServer(c)' = ToServer(c) /\ lost' = lost
    BY <1>1, <1>3, TakeLineEffect DEF Inbox, ToServer
  <2>4. Inbound(c)'
    BY <1>1, <2>2, <2>3, ServerTookLine DEF ConnInv, Taken
  <2>5. headers = Item("length", headers.n)
    BY <1>2, <1>3 DEF Item, Items
  <2>6. Parsed(c)'
    BY <1>1, <1>2, <2>2, <2>5 DEF Parsed, At
  <2>7. Given(c)'
    BY <1>2, <1>3 DEF Given
  <2> QED BY <2>4, <2>6, <2>7
<1>4. CASE /\ \/ headers.part \in {"close", "chunked"}
              \/ headers.part = "length" /\ headers.n = 0
           /\ Goto(c, "handling")
           /\ given' = [given EXCEPT ![c] = <<(<<>>)>>]
  <2>1. headers.n = 0
    <3>1. request[c] \in Requests /\ 2 \in DOMAIN request[c].items
      BY <1>2, Typed DEF Wanted
    <3> QED BY <1>2, <1>4, <3>1, RequestsAssumption DEF Wanted
  <2>2. ~Reads(c)' /\ given'[c] = <<(<<>>)>>
    BY <1>1, <1>4, GotoEffect DEF Reads, ServerTypeOK
  <2>3. Inbound(c)' /\ Parsed(c)'
    BY <1>1, <2>2 DEF ConnInv, Inbound, Parsed, Reads, At
  <2>4. SubSeq(Wanted(c), 3, 2) = <<>>
    BY Typed
  <2>5. Given(c)'
    BY <1>1, <1>2, <2>1, <2>2, <2>4 DEF Given
  <2> QED BY <2>3, <2>5
<1>5. CASE (Goto(c, "refuse") \/ Finish(c)) /\ UNCHANGED given
  <2>1. ~Reads(c)'
    BY <1>1, <1>5, GotoEffect, FinishEffect DEF Reads
  <2> QED BY <1>1, <1>5, <2>1, InboundOver DEF ConnInv
<1> QED BY <1>3, <1>4, <1>5 DEF ReadHeaders

LEMMA ReadBodyInbound ==
  ASSUME TypeOK, NEW c \in Conns, ConnInv(c), ReadBody(c), UNCHANGED agentVars
  PROVE  Inbound(c)' /\ Parsed(c)' /\ Given(c)'
<1>1. /\ agent' = agent /\ Wanted(c)' = Wanted(c)
      /\ At(c, "body") /\ HasBytes("server", c, worker[c].n) /\ Reads(c)
      /\ Taken[worker[c].at] = 2
      /\ ServerTypeOK /\ "handling" \in Stages /\ Goto(c, "handling")
      /\ given'[c] = <<Inbox(c)>>
  BY DEF ReadBody, agentVars, Wanted, At, Reads, Taken, TypeOK, Stages, Inbox, ServerTypeOK
<1>2. ~Reads(c)'
  BY <1>1, GotoEffect DEF Reads
<1>3. Inbound(c)' /\ Parsed(c)'
  BY <1>1, <1>2 DEF ConnInv, Inbound, Parsed, Reads, At
<1>4. Wanted(c)[1].part = "request" /\ Wanted(c)[2].n = worker[c].n
  BY <1>1 DEF ConnInv, Parsed, At, Item
<1> DEFINE n == worker[c].n
           l == Len(Wanted(c))
           j == Len(ToServer(c))
           o == Len(agent[c].out)
<1>5. /\ n \in Nat /\ l \in Nat /\ j \in Nat /\ o \in Nat /\ Len(Inbox(c)) = n
      /\ Continues(Wanted(c), 2, Inbox(c), ToServer(c))
      /\ 2 + Len(Inbox(c)) + j + o <= l
  BY <1>1, Typed DEF HasBytes, Inbox, ConnInv, Inbound
<1>6. 2 + n <= l
  <2> HIDE DEF n, l, j, o
  <2> QED BY <1>5
<1>7. \A i \in 1..n : Inbox(c)[i] = Wanted(c)[2 + i]
  <2> HIDE DEF n, j, o
  <2> QED BY <1>5, <1>6 DEF Continues, GoesOn, l
<1>8. Inbox(c) = SubSeq(Wanted(c), 3, 2 + n)
  <2> DEFINE body == SubSeq(Wanted(c), 3, 2 + n)
  <2> HIDE DEF n
  <2>1. Len(body) = n /\ \A i \in 1..n : body[i] = Wanted(c)[2 + i]
    BY <1>5, <1>6, Typed DEF l
  <2>2. body \in Seq(Items)
    BY <1>5, <1>6, Typed DEF l
  <2> HIDE DEF body
  <2>3. Inbox(c) = body
    BY <1>5, <1>7, <2>1, <2>2, Typed, SeqEqual
  <2> QED BY <2>3 DEF body
<1>9. Given(c)'
  BY <1>1, <1>2, <1>4, <1>5, <1>8 DEF Given
<1> QED BY <1>3, <1>9

\* The worker never reads what it was not sent, and the handler is given what it
\* read when that is the whole request.
LEMMA ServerInbound ==
  ASSUME TypeOK, NEW c \in Conns, ConnInv(c), ServerDoes(c)
  PROVE  Inbound(c)' /\ Parsed(c)' /\ Given(c)'
<1>0. /\ UNCHANGED agentVars /\ WireTypeOK /\ ServerTypeOK
      /\ agent'[c].out = agent[c].out /\ Wanted(c)' = Wanted(c)
      /\ {"first", "refuse", "closed", "respond", "error"} \subseteq Stages
  BY DEF ServerDoes, TypeOK, agentVars, Wanted, Stages
<1>1. CASE Accept(c)
  <2>1. CASE Goto(c, "first") /\ UNCHANGED wireVars
    <3>1. /\ worker[c].at = "waiting" /\ worker'[c].at = "first" /\ given' = given
          /\ Inbox(c)' = Inbox(c) /\ ToServer(c)' = ToServer(c) /\ lost' = lost
      BY <1>0, <1>1, <2>1, GotoEffect DEF Accept, At, wireVars, Inbox, ToServer
    <3>2. Reads(c) /\ Reads(c)' /\ Taken[worker[c].at] = 0 /\ Taken[worker'[c].at] = 0
      BY <3>1 DEF Reads, Taken
    <3>3. Inbound(c)'
      BY <1>0, <3>1, <3>2 DEF ConnInv, Inbound
    <3>4. Parsed(c)' /\ Given(c)'
      BY <1>0, <3>1, <3>2 DEF ConnInv, Parsed, Given, At
    <3> QED BY <3>3, <3>4
  <2>2. CASE Finish(c)
    BY <1>0, <1>1, <2>2, FinishEffect, InboundOver DEF ConnInv, Reads, Accept
  <2> QED BY <1>1, <2>1, <2>2 DEF Accept
<1>2. CASE ServerReceive(c)
  BY <1>0, <1>2, ServerReceiveInbound
<1>3. CASE ReadFirstLine(c)
  BY <1>0, <1>3, ReadFirstLineInbound
<1>4. CASE ReadHeaders(c)
  BY <1>0, <1>4, ReadHeadersInbound
<1>5. CASE ReadBody(c)
  BY <1>0, <1>5, ReadBodyInbound
<1>6. CASE ServerEof(c) \/ ServerTimeOut(c)
  <2>1. given' = given /\ (Goto(c, "closed") \/ Goto(c, "refuse"))
    BY <1>6 DEF ServerEof, ServerTimeOut, ReadFails
  <2> QED BY <1>0, <2>1, GotoEffect, InboundOver DEF ConnInv, Reads
<1>7. ASSUME NEW r \in ResponseType, NEW next \in {"respond", "error", "refuse"}, Begin(c, r, next)
      PROVE  Inbound(c)' /\ Parsed(c)' /\ Given(c)'
  <2>1. worker'[c].at = next /\ given' = given
    BY <1>0, <1>7, BeginEffect, ZenonT(60) DEF Begin
  <2> QED BY <1>0, <2>1, InboundOver DEF ConnInv, Reads
<1>8. CASE WriteBlock(c)
  <2>1. /\ worker[c].out # <<>> /\ given' = given /\ buf' = buf /\ lost' = lost
        /\ Put("server", c, Head(worker[c].out))
        /\ worker' = [worker EXCEPT ![c].out = Tail(worker[c].out)]
    BY <1>8 DEF WriteBlock, Unsent
  <2>2. worker'[c].at = worker[c].at /\ worker'[c].n = worker[c].n
    BY <1>0, <2>1 DEF ServerTypeOK
  <2>3. Head(worker[c].out) \in Seq(Items)
    BY <2>1, Typed
  <2>4. Inbox(c)' = Inbox(c) /\ ToServer(c)' = ToServer(c)
    BY <1>0, <2>1, <2>3, PutEffect, OtherEnds DEF Inbox, ToServer, Ends
  <2> QED BY <1>0, <2>1, <2>2, <2>4, InboundQuiet DEF ConnInv
<1>9. CASE WriteFails(c)
  <2>1. CASE At(c, "respond")
    BY <1>7, <1>9, <2>1, ErrorPages DEF WriteFails, Throws
  <2>2. CASE ~At(c, "respond")
    <3>1. worker'[c].at = "closed" /\ given' = given
      BY <1>0, <1>9, <2>2 DEF WriteFails, ServerTypeOK
    <3> QED BY <1>0, <3>1, InboundOver DEF ConnInv, Reads
  <2> QED BY <2>1, <2>2
<1>10. CASE ServiceEnds(c)
  BY <1>0, <1>10, FinishEffect, InboundOver DEF ConnInv, Reads, ServiceEnds
<1>11. CASE Refuse(c) \/ HandlerThrows(c) \/ \E r \in Responses : Respond(c, r)
  BY <1>7, <1>11, ErrorPages, ResponsesAssumption DEF Refuse, HandlerThrows, Throws, Respond
<1> QED
  BY <1>1, <1>2, <1>3, <1>4, <1>5, <1>6, <1>8, <1>9, <1>10, <1>11
  DEF ServerDoes, ServerNext, ReadStep, RespondStep, ServerWrites

\* What the agent sends next is the next item of the request.
LEMMA SendInbound ==
  ASSUME TypeOK, NEW c \in Conns, ConnInv(c), agent[c].out # <<>>,
         Put("client", c, <<Head(agent[c].out)>>),
         agent'[c].out = Tail(agent[c].out), request' = request,
         UNCHANGED <<buf, isOpen, lost>>, UNCHANGED serverVars
  PROVE  Inbound(c)' /\ Parsed(c)' /\ Given(c)'
<1> DEFINE out == agent[c].out
           l == Len(Wanted(c))
           o == Len(out)
           i == Len(Inbox(c))
           j == Len(ToServer(c))
           j2 == Len(ToServer(c)')
           taken == Taken[worker[c].at]
<1>1. /\ Wanted(c)' = Wanted(c) /\ worker' = worker /\ given' = given /\ lost' = lost
      /\ Inbox(c)' = Inbox(c) /\ (Reads(c)' <=> Reads(c)) /\ WireTypeOK
      /\ "server" \in Ends /\ "client" \in Ends
  BY DEF Wanted, serverVars, Inbox, Reads, TypeOK, Ends
<1>2. /\ out \in Seq(Items) /\ out # <<>> /\ o \in Nat /\ o >= 1
      /\ Head(out) \in Items /\ Head(out) = out[1] /\ Len(Tail(out)) = o - 1
      /\ \A n \in 1..(o - 1) : Tail(out)[n] = out[n + 1]
  BY Typed
<1>3. o <= l /\ l \in Nat /\ \A n \in 1..o : out[n] = Wanted(c)[l - o + n]
  <2>1. l \in Nat
    BY Typed
  <2>2. o <= l /\ \A n \in 1..o : out[n] = Wanted(c)[l - o + n]
    BY DEF ConnInv, Inbound
  <2> QED BY <2>1, <2>2
<1>4. Parsed(c)' /\ Given(c)'
  BY <1>1 DEF ConnInv, Parsed, Given, At
<1>5. /\ Len(Tail(out)) <= l
      /\ \A n \in 1..Len(Tail(out)) : Tail(out)[n] = Wanted(c)[l - Len(Tail(out)) + n]
  <2> HIDE DEF out, l, o
  <2>1. o - 1 <= l
    BY <1>2, <1>3
  <2>2. ASSUME NEW n \in 1..(o - 1) PROVE Tail(out)[n] = Wanted(c)[l - (o - 1) + n]
    <3>1. n + 1 \in 1..o /\ l - o + (n + 1) = l - (o - 1) + n
      BY <1>2, <1>3
    <3> QED BY <1>2, <1>3, <3>1
  <2> QED BY <1>2, <2>1, <2>2
<1>6. CASE ~Reads(c)
  BY <1>1, <1>4, <1>5, <1>6 DEF Inbound
<1>7. CASE Reads(c)
  <2>1. /\ taken \in Nat /\ i \in Nat /\ j \in Nat
        /\ taken + i + j + o <= l
        /\ c \notin lost => taken + i + j + o = l
        /\ Continues(Wanted(c), taken, Inbox(c), ToServer(c))
        /\ isOpen["server"][c]
    <3>1. taken \in Nat /\ i \in Nat /\ j \in Nat
      BY <1>7, Typed DEF Reads, Taken
    <3>2. isOpen["server"][c]
      BY <1>7 DEF ConnInv, Stage, Reads
    <3> QED BY <1>7, <3>1, <3>2 DEF ConnInv, Inbound
  <2>2. CASE c \in lost
    <3>1. ToServer(c)' = ToServer(c)
      BY <2>2, OtherEnds DEF Put, ToServer
    <3>2. taken + i + j + (o - 1) <= l
      <4> HIDE DEF taken, i, j, o, l
      <4> QED BY <1>2, <1>3, <2>1
    <3>3. taken + i + j + Len(Tail(out)) <= l
      BY <1>2, <3>2
    <3> QED BY <1>1, <1>4, <1>5, <2>1, <2>2, <3>1, <3>3 DEF Inbound
  <2>3. CASE c \notin lost
    <3>1. ToServer(c)' = ToServer(c) \o <<Head(out)>>
      <4>1. <<Head(out)>> \in Seq(Items)
        BY <1>2
      <4> QED BY <1>1, <2>1, <2>3, <4>1, PutEffect, OtherEnds DEF ToServer
    <3>2. taken + i + j = l - o /\ taken + i + j + 1 = l - o + 1
      <4> HIDE DEF taken, i, j, o, l
      <4> QED BY <1>2, <1>3, <2>1, <2>3
    <3>3. Head(out) = Wanted(c)[taken + i + j + 1]
      <4>1. out[1] = Wanted(c)[l - o + 1]
        <5> HIDE DEF out, l, o
        <5> QED BY <1>2, <1>3
      <4> QED BY <1>2, <3>2, <4>1
    <3>4. /\ Continues(Wanted(c), taken, Inbox(c), ToServer(c) \o <<Head(out)>>)
          /\ Len(ToServer(c) \o <<Head(out)>>) = j + 1
      <4>1. /\ <<Head(out)>> \in Seq(Items) /\ Len(<<Head(out)>>) = 1
            /\ \A n \in 1..Len(<<Head(out)>>) :
                 taken + i + j + n <= l => <<Head(out)>>[n] = Wanted(c)[taken + i + j + n]
        BY <1>2, <3>3
      <4>2. /\ Wanted(c) \in Seq(Items) /\ Inbox(c) \in Seq(Items) /\ ToServer(c) \in Seq(Items)
        BY Typed
      <4> DEFINE items == <<Head(out)>>
      <4>3. /\ items \in Seq(Items) /\ Len(items) = 1
            /\ GoesOn(Wanted(c), taken + Len(Inbox(c)) + Len(ToServer(c)), items)
        BY <4>1 DEF GoesOn
      <4>4. Continues(Wanted(c), taken, Inbox(c), ToServer(c)) /\ taken \in Nat
        BY <2>1
      <4> HIDE DEF items, taken
      <4>5. /\ Continues(Wanted(c), taken, Inbox(c), ToServer(c) \o items)
            /\ Len(ToServer(c) \o items) = Len(ToServer(c)) + Len(items)
        <5>1. items \in Seq(Items)
          BY <4>3
        <5>2. /\ Continues(Wanted(c), taken, Inbox(c), ToServer(c))
              /\ GoesOn(Wanted(c), taken + Len(Inbox(c)) + Len(ToServer(c)), items)
              => /\ Continues(Wanted(c), taken, Inbox(c), ToServer(c) \o items)
                 /\ Len(ToServer(c) \o items) = Len(ToServer(c)) + Len(items)
          BY <4>2, <4>4, <5>1, StreamWritten
        <5> QED BY <4>3, <4>4, <5>2
      <4> QED BY <4>3, <4>5 DEF items
    <3>5. taken + i + j2 + Len(Tail(out)) = l
      <4>1. j2 = j + 1 /\ Len(Tail(out)) = o - 1
        BY <1>2, <3>1, <3>4
      <4> DEFINE o2 == Len(Tail(out))
      <4>2. j2 = j + 1 /\ o2 = o - 1
        BY <4>1
      <4> HIDE DEF taken, i, j, o, l, j2, o2
      <4>3. taken + i + j2 + o2 = l
        BY <1>2, <1>3, <2>1, <2>3, <4>2
      <4> QED BY <4>3 DEF o2
    <3>6. taken + i + j2 + Len(Tail(out)) <= l
      BY <1>3, <3>5
    <3>7. Continues(Wanted(c), taken, Inbox(c), ToServer(c)')
      BY <3>1, <3>4
    <3> QED BY <1>1, <1>4, <1>5, <3>5, <3>6, <3>7 DEF Inbound
  <2> QED BY <2>2, <2>3
<1> QED BY <1>6, <1>7

LEMMA AgentInbound ==
  ASSUME TypeOK, NEW c \in Conns, ConnInv(c), AgentDoes(c)
  PROVE  Inbound(c)' /\ Parsed(c)' /\ Given(c)'
<1>0. /\ UNCHANGED serverVars /\ worker' = worker /\ given' = given
      /\ WireTypeOK /\ AgentTypeOK /\ "client" \in Ends /\ "server" \in Ends
      /\ {"failed", "done"} \subseteq AgentStages
      /\ agent[c] \in Readers /\ agent[c].body \in Seq(Items) /\ <<>> \in Seq(Items)
      /\ buf["client"][c] \in Seq(Items)
  BY Typed DEF AgentDoes, serverVars, TypeOK, Ends, AgentStages, Outbox
<1>1. request' = request /\ Wanted(c)' = Wanted(c)
  BY DEF AgentDoes, AgentNext, AgentStep, Send, Sent, AgentReceive, AgentEof, ReadStatus,
     ReadFraming, ReadVector, ReadSize, ReadChunk, ReadChunkEnd, AgentTimeOut, Hangup,
     agentVars, Wanted
<1>2. CASE Send(c) /\ Put("client", c, <<Head(agent[c].out)>>)
           /\ agent' = [agent EXCEPT ![c].out = Tail(@)] /\ UNCHANGED <<buf, isOpen, lost>>
  <2>1. agent[c].out # <<>> /\ agent'[c].out = Tail(agent[c].out)
    BY <1>0, <1>2 DEF Send, AgentTypeOK
  <2> QED BY <1>0, <1>1, <1>2, <2>1, SendInbound
<1>3. ASSUME ToServer(c)' = ToServer(c), Inbox(c)' = Inbox(c), c \in lost => c \in lost',
             agent'[c].out = agent[c].out
      PROVE  Inbound(c)' /\ Parsed(c)' /\ Given(c)'
  BY <1>0, <1>1, <1>3, InboundQuiet DEF ConnInv
<1>4. ASSUME NEW stage \in {"failed", "done"}, NEW body \in Seq(Items), End(c, stage, body),
             wire' = wire, lost' \in {lost, lost \cup {c}},
             buf' = buf \/ buf' = [buf EXCEPT !["client"][c] = Tail(@)]
      PROVE  Inbound(c)' /\ Parsed(c)' /\ Given(c)'
  <2>1. agent'[c].out = agent[c].out
    BY <1>0, <1>4, EndEffect
  <2>2. Inbox(c)' = Inbox(c) /\ ToServer(c)' = ToServer(c)
    BY <1>0, <1>4 DEF Inbox, ToServer, WireTypeOK
  <2> QED BY <1>3, <1>4, <2>1, <2>2
<1>5. CASE /\ Send(c) /\ End(c, "failed", <<>>) /\ UNCHANGED <<wire, buf, lost>>
  BY <1>0, <1>4, <1>5
<1>6. CASE Sent(c)
  BY <1>0, <1>3, <1>6 DEF Sent, wireVars, Inbox, ToServer, AgentTypeOK
<1>7. CASE Hangup(c)
  BY <1>0, <1>4, <1>7 DEF Hangup
<1>8. CASE AgentReceive(c)
  <2>1. Receive("client", c) /\ agent' = agent
    BY <1>8 DEF AgentReceive, agentVars
  <2> QED BY <1>0, <1>3, <2>1, ReceiveEffect DEF Inbox, ToServer
<1>9. CASE AgentEof(c) \/ AgentTimeOut(c)
  <2>1. /\ CutShort(c) /\ lost' \in {lost, lost \cup {c}}
    BY <1>9 DEF AgentEof, AgentTimeOut
  <2> QED BY <1>0, <1>4, <2>1 DEF CutShort, Fail
<1>10. ASSUME TakeLine("client", c) \/ TakeBytes("client", c), agent'[c].out = agent[c].out
       PROVE  Inbound(c)' /\ Parsed(c)' /\ Given(c)'
  <2>1. Inbox(c)' = Inbox(c) /\ ToServer(c)' = ToServer(c) /\ lost' = lost
    BY <1>0, <1>10 DEF TakeLine, TakeBytes, Inbox, ToServer, WireTypeOK
  <2> QED BY <1>3, <1>10, <2>1
<1>11. CASE ReadStatus(c)
  <2>1. CASE Fail(c) /\ UNCHANGED lost
    BY <1>0, <1>4, <2>1 DEF Fail
  <2>2. CASE /\ agent' = [agent EXCEPT ![c].at = "headers", ![c].status = Line("client", c).n]
             /\ TakeLine("client", c)
    BY <1>0, <1>10, <2>2 DEF AgentTypeOK
  <2> QED BY <1>11, <2>1, <2>2 DEF ReadStatus
<1>12. CASE ReadFraming(c)
  <2>1. CASE NoBody(c, Line("client", c))
    BY <1>0, <1>4, <1>12, <2>1 DEF ReadFraming
  <2>2. CASE ~NoBody(c, Line("client", c))
    BY <1>0, <1>10, <1>12, <2>2 DEF ReadFraming, AgentTypeOK
  <2> QED BY <2>1, <2>2
<1>13. CASE ReadVector(c)
  BY <1>0, <1>4, <1>13 DEF ReadVector
<1>14. CASE ReadSize(c)
  <2>1. CASE Fail(c) /\ UNCHANGED lost
    BY <1>0, <1>4, <2>1 DEF Fail
  <2>2. CASE /\ End(c, "done", agent[c].body)
             /\ buf' = [buf EXCEPT !["client"][c] = Tail(@)]
             /\ UNCHANGED <<wire, lost>>
    BY <1>0, <1>4, <2>2
  <2>3. CASE /\ agent' = [agent EXCEPT ![c].at = "chunk", ![c].n = Line("client", c).n]
             /\ TakeLine("client", c)
    BY <1>0, <1>10, <2>3 DEF AgentTypeOK
  <2> QED BY <1>14, <2>1, <2>2, <2>3 DEF ReadSize
<1>15. CASE ReadChunk(c)
  BY <1>0, <1>10, <1>15 DEF ReadChunk, AgentTypeOK
<1>16. CASE ReadChunkEnd(c)
  <2>1. CASE Fail(c) /\ UNCHANGED lost
    BY <1>0, <1>4, <2>1 DEF Fail
  <2>2. CASE agent' = [agent EXCEPT ![c].at = "size"] /\ TakeLine("client", c)
    BY <1>0, <1>10, <2>2 DEF AgentTypeOK
  <2> QED BY <1>16, <2>1, <2>2 DEF ReadChunkEnd
<1>17. CASE Send(c)
  BY <1>2, <1>5, <1>17 DEF Send
<1> QED
  BY <1>6, <1>7, <1>8, <1>9, <1>11, <1>12, <1>13, <1>14, <1>15, <1>16, <1>17
  DEF AgentDoes, AgentNext, AgentStep

LEMMA NetworkInbound ==
  ASSUME TypeOK, NEW c \in Conns, ConnInv(c), NetworkDoes(c)
  PROVE  Inbound(c)' /\ Parsed(c)' /\ Given(c)'
<1>1. /\ worker' = worker /\ given' = given /\ agent' = agent /\ Wanted(c)' = Wanted(c)
      /\ Inbox(c)' = Inbox(c) /\ c \in lost' /\ (Reads(c)' <=> Reads(c))
  BY BreakEffect DEF NetworkDoes, serverVars, agentVars, Wanted, Inbox, Reads, TypeOK
<1>2. PICK i \in 0..Len(ToServer(c)) : ToServer(c)' = SubSeq(ToServer(c), 1, i)
  BY BreakEffect DEF NetworkDoes, TypeOK, ToServer, Ends
<1>3. Parsed(c)' /\ Given(c)'
  BY <1>1 DEF ConnInv, Parsed, Given, At
<1>4. CASE ~Reads(c)
  BY <1>1, <1>4, InboundOver DEF ConnInv
<1>5. CASE Reads(c)
  <2> DEFINE taken == Taken[worker[c].at]
             arrived == Len(Inbox(c))
             coming == Len(ToServer(c))
             coming2 == Len(ToServer(c)')
             o == Len(agent[c].out)
             l == Len(Wanted(c))
  <2>1. /\ taken \in Nat /\ arrived \in Nat /\ coming \in Nat /\ o \in Nat /\ l \in Nat
    BY <1>5, Typed DEF Reads, Taken
  <2>2. /\ taken + arrived + coming + o <= l
        /\ Continues(Wanted(c), taken, Inbox(c), ToServer(c))
    BY <1>5 DEF ConnInv, Inbound
  <2>3. /\ Continues(Wanted(c), taken, Inbox(c), ToServer(c)')
        /\ coming2 <= coming /\ coming2 \in Nat
    <3>1. coming2 \in Nat
      BY <1>2, Typed
    <3> HIDE DEF taken
    <3>2. /\ Continues(Wanted(c), taken, Inbox(c), ToServer(c)')
          /\ coming2 <= coming
      BY <1>2, <2>1, <2>2, Typed, StreamCut
    <3> QED BY <3>1, <3>2
  <2>4. taken + arrived + coming2 + o <= l
    <3> HIDE DEF taken, arrived, coming, coming2, o, l
    <3> QED BY <2>1, <2>2, <2>3
  <2>5. /\ o <= l /\ \A n \in 1..o : agent[c].out[n] = Wanted(c)[l - o + n]
    BY DEF ConnInv, Inbound
  <2>6. Inbound(c)'
    BY <1>1, <2>3, <2>4, <2>5 DEF Inbound
  <2> QED BY <1>3, <2>6
<1> QED BY <1>4, <1>5

-----------------------------------------------------------------------------
(***************************************************************************)
(* The stages of the two ends, and when an exchange fails.                 *)
(***************************************************************************)

\* A step of the server that writes nothing and begins no response leaves what
\* goes to the agent, and the agent's end, as they are.
Unanswered(c) ==
  /\ answer' = answer /\ worker'[c].out = worker[c].out
  /\ Outbox(c)' = Outbox(c) /\ ToClient(c)' = ToClient(c)
  /\ isOpen'["client"][c] = isOpen["client"][c] /\ lost' = lost

Moves(c) ==
  \/ Accept(c) \/ ServerReceive(c) \/ ReadFirstLine(c) \/ ReadHeaders(c) \/ ReadBody(c)
  \/ ServerEof(c) \/ ServerTimeOut(c) \/ ServiceEnds(c)

LEMMA MovesUnanswered ==
  ASSUME TypeOK, NEW c \in Conns, Moves(c)
  PROVE  Unanswered(c)
<1>0. /\ WireTypeOK /\ ServerTypeOK /\ "server" \in Ends /\ "client" \in Ends
      /\ {"first", "headers", "handling", "refuse", "closed"} \subseteq Stages
  BY DEF TypeOK, Ends, Stages
<1>1. ASSUME Finish(c)
      PROVE  /\ worker'[c].out = worker[c].out
             /\ Outbox(c)' = Outbox(c) /\ ToClient(c)' = ToClient(c)
             /\ isOpen'["client"][c] = isOpen["client"][c] /\ lost' = lost
  BY <1>0, <1>1, FinishEffect DEF Outbox, ToClient
<1>2. ASSUME TakeLine("server", c) \/ TakeBytes("server", c)
      PROVE  /\ Outbox(c)' = Outbox(c) /\ ToClient(c)' = ToClient(c)
             /\ isOpen'["client"][c] = isOpen["client"][c] /\ lost' = lost
  BY <1>0, <1>2 DEF TakeLine, TakeBytes, Outbox, ToClient, WireTypeOK
<1>3. ASSUME UNCHANGED wireVars
      PROVE  /\ Outbox(c)' = Outbox(c) /\ ToClient(c)' = ToClient(c)
             /\ isOpen'["client"][c] = isOpen["client"][c] /\ lost' = lost
  BY <1>3 DEF wireVars, Outbox, ToClient
<1>4. ASSUME NEW stage \in Stages, Goto(c, stage)
      PROVE  worker'[c].out = worker[c].out
  BY <1>0, <1>4, GotoEffect
<1>5. CASE Accept(c)
  BY <1>0, <1>1, <1>3, <1>4, <1>5 DEF Accept, Unanswered
<1>6. CASE ServerReceive(c)
  <2>1. Receive("server", c) /\ UNCHANGED serverVars
    BY <1>6 DEF ServerReceive
  <2>2. /\ Outbox(c)' = Outbox(c) /\ ToClient(c)' = ToClient(c) /\ isOpen' = isOpen /\ lost' = lost
    BY <1>0, <2>1, ReceiveEffect DEF Outbox, ToClient, Ends
  <2> QED BY <2>1, <2>2 DEF serverVars, Unanswered
<1>7. CASE ReadFirstLine(c)
  BY <1>0, <1>1, <1>2, <1>4, <1>7 DEF ReadFirstLine, Unanswered
<1>8. CASE ReadHeaders(c)
  <2>1. answer' = answer /\ HasLine("server", c)
    BY <1>8 DEF ReadHeaders
  <2>2. CASE Expect(c, Line("server", c).n) /\ TakeLine("server", c)
    <3>1. Line("server", c).n \in Nat
      <4>1. Line("server", c) \in Items
        BY <1>0, <2>1 DEF WireTypeOK, HasLine, Line
      <4> QED BY <4>1 DEF Items
    <3>2. worker'[c].out = worker[c].out
      BY <1>0, <2>2, <3>1, ExpectEffect
    <3> QED BY <1>2, <2>1, <2>2, <3>2 DEF Unanswered
  <2>3. CASE (Goto(c, "handling") \/ Goto(c, "refuse")) /\ TakeLine("server", c)
    BY <1>0, <1>2, <1>4, <2>1, <2>3 DEF Unanswered
  <2>4. CASE Finish(c)
    BY <1>1, <2>1, <2>4 DEF Unanswered
  <2> QED BY <1>8, <2>2, <2>3, <2>4 DEF ReadHeaders
<1>9. CASE ReadBody(c)
  BY <1>0, <1>2, <1>4, <1>9 DEF ReadBody, Unanswered
<1>10. CASE ServerEof(c) \/ ServerTimeOut(c)
  <2>1. ReadFails(c) /\ lost' = lost /\ answer' = answer
    BY <1>10 DEF ServerEof, ServerTimeOut
  <2>2. wire' = wire /\ buf' = buf /\ (Goto(c, "closed") \/ Goto(c, "refuse"))
    BY <2>1 DEF ReadFails
  <2>3. isOpen'["client"][c] = isOpen["client"][c]
    <3>1. isOpen' = isOpen \/ Closed(c)
      BY <2>1 DEF ReadFails
    <3> QED BY <1>0, <3>1 DEF Closed, WireTypeOK
  <2> QED BY <1>0, <1>4, <2>1, <2>2, <2>3 DEF Unanswered, Outbox, ToClient
<1>11. CASE ServiceEnds(c)
  BY <1>1, <1>11 DEF ServiceEnds, Unanswered
<1> QED BY <1>5, <1>6, <1>7, <1>8, <1>9, <1>10, <1>11 DEF Moves

\* What such a step has to keep for the rest to follow.
Placed(c) ==
  /\ isOpen'["server"][c] = (worker'[c].at # "closed")
  /\ Reads(c)' \/ worker'[c].at = "handling" => answer[c] = <<>>
  /\ worker'[c].at \in {"respond", "error"} => answer[c] # <<>>
  /\ worker'[c].at = "closed" /\ Delivering(c) =>
       c \in silent' \/ (answer[c] # <<>> /\ worker[c].out = <<>>)
  /\ c \in silent => c \in silent'
  /\ Asked(c) /\ Delivering(c) /\ c \notin silent' /\ ~Reads(c)' => agent[c].out = <<>>

\* Outbound is about the agent's end, and the responses.
LEMMA OutboundQuiet ==
  ASSUME NEW c \in Conns, Outbound(c), answer' = answer, agent'[c] = agent[c],
         Outbox(c)' = Outbox(c), ToClient(c)' = ToClient(c),
         Delivering(c)' => Delivering(c) /\ worker'[c].out = worker[c].out
  PROVE  Outbound(c)'
<1>1. First(c)' = First(c) /\ Whole(c)' = Whole(c)
  BY DEF First, Whole
<1>2. \A q : Follows(c, q) => Follows(c, q)'
  BY <1>1 DEF Follows
<1>3. \A q : InChunks(c, q) => InChunks(c, q)'
  BY <1>1, <1>2 DEF InChunks, Is
<1> QED BY <1>1, <1>2, <1>3 DEF Outbound, Is

LEMMA MovesKeep ==
  ASSUME NEW c \in Conns, ConnInv(c), Unanswered(c), Placed(c), UNCHANGED agentVars
  PROVE  Stage(c)' /\ Prompt(c)' /\ Answers(c)' /\ Outbound(c)'
<1>1. /\ request' = request /\ agent' = agent /\ answer' = answer
      /\ (Delivering(c)' <=> Delivering(c)) /\ (Asked(c)' <=> Asked(c))
  BY DEF agentVars, Unanswered, Delivering, Asked, Wanted, ByAgent
<1>2. Stage(c)'
  BY <1>1 DEF ConnInv, Stage, Unanswered, Placed, At, Ended
<1>3. Prompt(c)'
  BY <1>1 DEF ConnInv, Prompt, Unanswered, Placed, Is, ByAgent
<1>4. Answers(c)'
  BY <1>1 DEF ConnInv, Answers
<1>5. Outbound(c)'
  BY <1>1, OutboundQuiet DEF ConnInv, Unanswered
<1> QED BY <1>2, <1>3, <1>4, <1>5

\* The request of a user agent: its first items, and its length.
LEMMA AskedWhole ==
  ASSUME TypeOK, NEW c \in Conns, Asked(c)
  PROVE  /\ Wanted(c)[1].part = "request" /\ Wanted(c)[2].part = "length"
         /\ Len(Wanted(c)) = 2 + Wanted(c)[2].n /\ Wanted(c)[2].n \in Nat
<1>1. request[c] \in Requests /\ request[c].by = "agent" /\ Wanted(c)[2].part = "length"
  BY Typed DEF Asked, ByAgent
<1>2. /\ Len(Wanted(c)) >= 2 /\ Wanted(c)[1].part = "request"
      /\ Len(Wanted(c)) = 2 + Wanted(c)[2].n
  BY <1>1, RequestsAssumption DEF Wanted
<1>3. Wanted(c)[2] \in Items
  BY <1>2, Typed
<1> QED BY <1>1, <1>2, <1>3 DEF Items

LEMMA MovesPlaced ==
  ASSUME TypeOK, NEW c \in Conns, ConnInv(c), Moves(c)
  PROVE  Placed(c)
<1>0. /\ WireTypeOK /\ ServerTypeOK /\ "server" \in Ends /\ Stage(c) /\ Prompt(c)
      /\ {"first", "headers", "handling", "refuse", "closed"} \subseteq Stages
      /\ Reads(c) => isOpen["server"][c] /\ answer[c] = <<>>
  BY DEF TypeOK, Ends, Stages, ConnInv, Stage, Reads
<1>1. ASSUME Finish(c)
      PROVE  worker'[c].at = "closed" /\ isOpen'["server"][c] = FALSE /\ ~Reads(c)'
  BY <1>0, <1>1, FinishEffect DEF Reads
<1>2. ASSUME NEW stage \in Stages, Goto(c, stage)
      PROVE  worker'[c].at = stage
  BY <1>0, <1>2, GotoEffect
<1>3. CASE Accept(c)
  <2>1. CASE Goto(c, "first") /\ UNCHANGED <<wireVars, silent>>
    BY <1>0, <1>2, <1>3, <2>1 DEF Accept, wireVars, Placed, Reads, At
  <2>2. CASE silent' = silent \cup {c} /\ Finish(c)
    BY <1>1, <2>2 DEF Placed
  <2> QED BY <1>3, <2>1, <2>2 DEF Accept
<1>4. CASE ServerReceive(c)
  <2>1. Receive("server", c) /\ UNCHANGED serverVars
    BY <1>4 DEF ServerReceive
  <2>2. /\ isOpen' = isOpen /\ worker' = worker /\ silent' = silent /\ (Reads(c)' <=> Reads(c))
    BY <1>0, <2>1, ReceiveEffect DEF serverVars, Reads
  <2> QED BY <1>0, <2>2 DEF Placed, Stage, Prompt, At
<1>5. CASE ReadFirstLine(c)
  <2>1. HasLine("server", c) /\ Reads(c) /\ Taken[worker[c].at] = 0
    BY <1>5 DEF ReadFirstLine, At, Reads, Taken
  <2>2. Line("server", c) = Wanted(c)[1]
    BY <2>1, ServerTakesLine DEF ConnInv
  <2>3. CASE /\ Line("server", c).part = "request"
             /\ Goto(c, "headers") /\ TakeLine("server", c) /\ UNCHANGED silent
    <3>1. worker'[c].at = "headers" /\ isOpen' = isOpen
      BY <1>0, <1>2, <2>3 DEF TakeLine
    <3> QED BY <1>0, <2>1, <2>3, <3>1 DEF Placed, Reads
  <2>4. CASE /\ Line("server", c).part \notin {"request", "notUtf8"}
             /\ Goto(c, "refuse") /\ TakeLine("server", c) /\ UNCHANGED silent
    <3>1. worker'[c].at = "refuse" /\ isOpen' = isOpen
      BY <1>0, <1>2, <2>4 DEF TakeLine
    <3>2. ~Asked(c)
      BY <2>2, <2>4, AskedWhole
    <3> QED BY <1>0, <2>1, <2>4, <3>1, <3>2 DEF Placed, Reads
  <2>5. CASE Finish(c) /\ silent' = silent \cup {c}
    BY <1>1, <2>5 DEF Placed
  <2> QED BY <1>5, <2>3, <2>4, <2>5 DEF ReadFirstLine
<1>6. CASE ReadHeaders(c)
  <2> DEFINE headers == Line("server", c)
             i == Len(Tail(Inbox(c)))
             j == Len(ToServer(c))
             o == Len(agent[c].out)
  <2>1. HasLine("server", c) /\ Reads(c) /\ Taken[worker[c].at] = 1
    BY <1>6 DEF ReadHeaders, At, Reads, Taken
  <2>2. /\ headers = Wanted(c)[2] /\ 1 < Len(Wanted(c))
        /\ c \notin lost => 1 + 1 + i + j + o = Len(Wanted(c))
    <3> DEFINE taken == Taken[worker[c].at]
    <3>1. /\ taken < Len(Wanted(c)) /\ headers = Wanted(c)[taken + 1]
          /\ c \notin lost => taken + 1 + i + j + o = Len(Wanted(c))
      BY <2>1, ServerTakesLine DEF ConnInv
    <3>2. taken = 1
      BY <2>1
    <3> HIDE DEF taken, i, j, o
    <3> QED BY <3>1, <3>2
  <2>3. CASE Expect(c, headers.n) /\ TakeLine("server", c) /\ UNCHANGED silent
    <3>1. headers.n \in Nat
      <4>1. headers \in Items
        BY <2>2, Typed
      <4> QED BY <4>1 DEF Items
    <3>2. worker'[c].at = "body" /\ isOpen' = isOpen
      BY <1>0, <2>3, <3>1, ExpectEffect DEF TakeLine
    <3> QED BY <1>0, <2>1, <2>3, <3>2 DEF Placed, Reads
  <2>4. CASE /\ \/ headers.part \in {"close", "chunked"}
                \/ headers.part = "length" /\ headers.n = 0
             /\ Goto(c, "handling") /\ TakeLine("server", c) /\ UNCHANGED silent
    <3>1. worker'[c].at = "handling" /\ isOpen' = isOpen
      BY <1>0, <1>2, <2>4 DEF TakeLine
    <3>2. Asked(c) /\ Delivering(c) => agent[c].out = <<>>
      <4> SUFFICES ASSUME Asked(c), c \notin lost PROVE agent[c].out = <<>>
        BY DEF Delivering
      <4>1. Len(Wanted(c)) = 2
        <5>1. Wanted(c)[2].part = "length" /\ Len(Wanted(c)) = 2 + Wanted(c)[2].n
          BY AskedWhole
        <5>2. Wanted(c)[2].n = 0
          BY <2>2, <2>4, <5>1
        <5> QED BY <5>1, <5>2
      <4>2. i \in Nat /\ j \in Nat /\ o \in Nat /\ 1 + 1 + i + j + o = 2
        <5>1. Inbox(c) # <<>>
          BY <2>1 DEF HasLine, Inbox
        <5>2. 1 + 1 + i + j + o = 2
          BY <2>2, <4>1
        <5>3. Tail(Inbox(c)) \in Seq(Items)
          BY <5>1, Typed
        <5>4. i \in Nat /\ j \in Nat /\ o \in Nat
          BY <5>3, Typed
        <5> QED BY <5>2, <5>4
      <4>3. o = 0
        <5> HIDE DEF i, j, o
        <5> QED BY <4>2
      <4> QED BY <4>3, Typed
    <3> QED BY <1>0, <2>1, <2>4, <3>1, <3>2 DEF Placed, Reads
  <2>5. CASE /\ headers.part \notin {"length", "close", "chunked", "hugeLength"}
             /\ Goto(c, "refuse") /\ TakeLine("server", c) /\ UNCHANGED silent
    <3>1. worker'[c].at = "refuse" /\ isOpen' = isOpen
      BY <1>0, <1>2, <2>5 DEF TakeLine
    <3>2. ~Asked(c)
      BY <2>2, <2>5, AskedWhole
    <3> QED BY <1>0, <2>1, <2>5, <3>1, <3>2 DEF Placed, Reads
  <2>6. CASE Finish(c) /\ silent' = silent \cup {c}
    BY <1>1, <2>6 DEF Placed
  <2> QED BY <1>6, <2>3, <2>4, <2>5, <2>6 DEF ReadHeaders
<1>7. CASE ReadBody(c)
  <2> DEFINE n == worker[c].n
             j == Len(ToServer(c))
             o == Len(agent[c].out)
  <2>1. /\ At(c, "body") /\ Reads(c) /\ Taken[worker[c].at] = 2 /\ Len(Inbox(c)) = n
        /\ Goto(c, "handling") /\ TakeBytes("server", c) /\ silent' = silent
    BY <1>7 DEF ReadBody, At, Reads, Taken, HasBytes, Inbox
  <2>2. worker'[c].at = "handling" /\ isOpen' = isOpen
    BY <1>0, <1>2, <2>1 DEF TakeBytes
  <2>3. Asked(c) /\ Delivering(c) => agent[c].out = <<>>
    <3> SUFFICES ASSUME Asked(c), c \notin lost PROVE agent[c].out = <<>>
      BY DEF Delivering
    <3>1. Len(Wanted(c)) = 2 + n
      BY <2>1, AskedWhole DEF ConnInv, Parsed, Item
    <3>2. 2 + n + j + o = 2 + n
      BY <2>1, <3>1 DEF ConnInv, Inbound
    <3>3. n \in Nat /\ j \in Nat /\ o \in Nat
      BY Typed
    <3>4. o = 0
      <4> HIDE DEF n, j, o
      <4> QED BY <3>2, <3>3
    <3> QED BY <3>4, Typed
  <2> QED BY <1>0, <2>1, <2>2, <2>3 DEF Placed, Reads
<1>8. CASE ServerEof(c) \/ ServerTimeOut(c)
  <2>1. /\ Reading(c) /\ ReadFails(c) /\ Reads(c)
        /\ c \in silent => c \in silent'
        /\ At(c, "first") => c \in silent'
        /\ ~At(c, "first") => c \in silent' \/ AtEof("server", c)
    BY <1>8 DEF ServerEof, ServerTimeOut, Reading, Reads, At
  <2>2. AtEof("server", c) => ~Delivering(c)
    BY OtherEnds DEF AtEof, Delivering
  <2>3. CASE At(c, "first")
    <3>1. Goto(c, "closed") /\ Closed(c)
      BY <2>1, <2>3 DEF ReadFails
    <3>2. worker'[c].at = "closed" /\ isOpen'["server"][c] = FALSE
      BY <1>0, <1>2, <3>1 DEF Closed, WireTypeOK
    <3> QED BY <2>1, <2>3, <3>2 DEF Placed, Reads
  <2>4. CASE ~At(c, "first")
    <3>1. Goto(c, "refuse") /\ isOpen' = isOpen
      BY <2>1, <2>4 DEF ReadFails
    <3>2. worker'[c].at = "refuse"
      BY <1>0, <1>2, <3>1
    <3> QED BY <1>0, <2>1, <2>2, <2>4, <3>1, <3>2 DEF Placed, Reads
  <2> QED BY <2>3, <2>4
<1>9. CASE ServiceEnds(c)
  <2>1. /\ Finish(c) /\ worker[c].out = <<>> /\ ~Reads(c)
        /\ silent' = IF At(c, "handling") THEN silent \cup {c} ELSE silent
        /\ worker[c].at \in {"handling", "respond", "error"} \/ answer[c] # <<>>
    BY <1>9 DEF ServiceEnds, Unsent, Reads, At
  <2>2. c \in silent' \/ answer[c] # <<>>
    BY <1>0, <2>1 DEF At, Stage
  <2> QED BY <1>0, <1>1, <2>1, <2>2 DEF Placed, Prompt
<1> QED BY <1>3, <1>4, <1>5, <1>6, <1>7, <1>8, <1>9 DEF Moves

-----------------------------------------------------------------------------
(***************************************************************************)
(* The bytes of a body.  A statement about each place in the body is       *)
(* shown of the least place where it could be false.                       *)
(***************************************************************************)

LEMMA Least ==
  ASSUME NEW T, T \subseteq Nat, T # {}
  PROVE  \E x \in T : \A y \in T : x <= y
<1> DEFINE R == OpToRel(<, Nat)
<1>0. R = {ss \in Nat \X Nat : ss[1] < ss[2]}
  BY Zenon DEF OpToRel
<1>1. IsWellFoundedOn(R, Nat)
  BY NatLessThanWellFounded, Zenon
<1> HIDE DEF R
<1>2. PICK x \in T : \A y \in T : ~(<<y, x>> \in R)
  BY <1>1, WFMin, Zenon
<1>3. ASSUME NEW y \in T PROVE x <= y
  <2>1. x \in Nat /\ y \in Nat /\ <<y, x>> \notin R
    BY <1>2
  <2>2. <<y, x>> \in Nat \X Nat /\ <<y, x>>[1] = y /\ <<y, x>>[2] = x
    BY <2>1
  <2>3. ~(y < x)
    BY <1>0, <2>1, <2>2
  <2> QED BY <2>1, <2>3
<1> QED BY <1>3

\* One step of the recursion.
Bytes(items, before, i) ==
   IF i = 0 THEN <<>>
   ELSE IF items[i].part = "byte" THEN Append(before[i - 1], items[i])
   ELSE before[i - 1]

\* There is a function that the recursive definition describes.
LEMMA BytesExist ==
  ASSUME NEW items \in Seq(Items)
  PROVE  \A n \in 0..Len(items) : \E f : f = [i \in 0..n |-> Bytes(items, f, i)]
<1> DEFINE has(n) == \E f : f = [i \in 0..n |-> Bytes(items, f, i)]
           bad == {n \in 0..Len(items) : ~has(n)}
<1> SUFFICES ASSUME bad # {} PROVE FALSE
  OBVIOUS
<1>1. PICK n \in bad : \A m \in bad : n <= m
  <2>1. bad \subseteq Nat
    OBVIOUS
  <2> HIDE DEF bad
  <2> QED BY <2>1, Least
<1>2. CASE n = 0
  <2> DEFINE f == [i \in 0..0 |-> <<>>]
  <2>1. f = [i \in 0..0 |-> Bytes(items, f, i)]
    BY DEF Bytes
  <2> QED BY <1>1, <1>2, <2>1
<1>3. CASE n > 0
  <2>1. n - 1 \in 0..Len(items) /\ n - 1 \notin bad
    BY <1>1, <1>3
  <2>2. PICK f : f = [i \in 0..(n - 1) |-> Bytes(items, f, i)]
    BY <2>1
  <2> DEFINE g == [i \in 0..n |-> IF i < n THEN f[i] ELSE Bytes(items, f, i)]
  <2>3. \A i \in 0..n : g[i] = Bytes(items, g, i)
    <3> SUFFICES ASSUME NEW i \in 0..n PROVE g[i] = Bytes(items, g, i)
      OBVIOUS
    <3>0. n \in Nat
      BY <1>1
    <3>1. CASE i = 0
      <4>1. g[i] = f[i] /\ f[i] = Bytes(items, f, i)
        BY <1>3, <2>2, <3>0, <3>1
      <4> QED BY <3>1, <4>1 DEF Bytes
    <3>2. CASE i > 0
      <4>1. i - 1 \in 0..n /\ i - 1 < n
        BY <3>0, <3>2
      <4>2. g[i - 1] = f[i - 1]
        BY <4>1
      <4>3. Bytes(items, g, i) = Bytes(items, f, i)
        BY <3>2, <4>2 DEF Bytes
      <4>4. g[i] = Bytes(items, f, i)
        <5>1. CASE i < n
          <6>1. i \in 0..(n - 1)
            BY <3>0, <5>1
          <6> QED BY <2>2, <5>1, <6>1
        <5>2. CASE i = n
          BY <5>2
        <5> QED BY <3>0, <5>1, <5>2
      <4> QED BY <4>3, <4>4
    <3> QED BY <3>0, <3>1, <3>2
  <2>4. g = [i \in 0..n |-> Bytes(items, g, i)]
    BY <2>3
  <2> QED BY <1>1, <2>4
<1> QED BY <1>1, <1>2, <1>3

\* So it is what the definition chooses.
LEMMA BytesUpToIs ==
  ASSUME NEW items \in Seq(Items)
  PROVE  /\ BytesUpTo(items)[0] = <<>>
         /\ \A i \in 1..Len(items) :
              BytesUpTo(items)[i] =
                IF items[i].part = "byte" THEN Append(BytesUpTo(items)[i - 1], items[i])
                ELSE BytesUpTo(items)[i - 1]
<1> DEFINE f == BytesUpTo(items)
<1>1. f = CHOOSE g : g = [i \in 0..Len(items) |-> Bytes(items, g, i)]
  BY DEF BytesUpTo, Bytes
<1>2. Len(items) \in 0..Len(items)
  OBVIOUS
<1> HIDE DEF f
<1>3. f = [i \in 0..Len(items) |-> Bytes(items, f, i)]
  BY <1>1, <1>2, BytesExist
<1>4. 0 \in 0..Len(items) /\ \A i \in 1..Len(items) : i \in 0..Len(items) /\ i # 0
  BY <1>2
<1>5. f[0] = <<>>
  BY <1>3, <1>4 DEF Bytes
<1>6. \A i \in 1..Len(items) : f[i] = Bytes(items, f, i)
  BY <1>3, <1>4
<1> QED BY <1>4, <1>5, <1>6 DEF Bytes, f

\* A sequence goes on with one item more.
LEMMA PrefixGrows ==
  \A s \in Seq(Items) : \A n \in 1..Len(s) :
    SubSeq(s, 1, n) = Append(SubSeq(s, 1, n - 1), s[n])
OBVIOUS

LEMMA AppendConcat ==
  \A x, y \in Seq(Items) : \A z \in Items : x \o Append(y, z) = Append(x \o y, z)
<1> TAKE x, y \in Seq(Items)
<1> TAKE z \in Items
<1> DEFINE l == x \o Append(y, z)
           r == Append(x \o y, z)
<1>1. l \in Seq(Items) /\ r \in Seq(Items) /\ Len(l) = Len(r)
  OBVIOUS
<1>2. \A i \in 1..Len(l) : l[i] = r[i]
  OBVIOUS
<1> HIDE DEF l, r
<1> QED BY <1>1, <1>2, SeqEqual

\* Its values are bodies.
LEMMA BytesTyped ==
  ASSUME NEW items \in Seq(Items)
  PROVE  \A i \in 0..Len(items) : BytesUpTo(items)[i] \in Seq(Items)
<1> DEFINE f == BytesUpTo(items)
           bad == {i \in 0..Len(items) : f[i] \notin Seq(Items)}
<1>1. /\ f[0] = <<>>
      /\ \A i \in 1..Len(items) : f[i] \in {Append(f[i - 1], items[i]), f[i - 1]}
  BY BytesUpToIs
<1> HIDE DEF f
<1> SUFFICES ASSUME bad # {} PROVE FALSE
  BY DEF f
<1>2. PICK n \in bad : \A m \in bad : n <= m
  <2>1. bad \subseteq Nat
    OBVIOUS
  <2> HIDE DEF bad
  <2> QED BY <2>1, Least
<1>3. CASE n = 0
  <2>1. <<>> \in Seq(Items)
    OBVIOUS
  <2> QED BY <1>1, <1>2, <1>3, <2>1
<1>4. CASE n > 0
  <2>1. n \in 1..Len(items) /\ n - 1 \in 0..Len(items) /\ n - 1 \notin bad
    BY <1>2, <1>4
  <2>2. f[n - 1] \in Seq(Items) /\ items[n] \in Items
    BY <2>1
  <2>3. Append(f[n - 1], items[n]) \in Seq(Items)
    BY <2>2
  <2>4. f[n] \in Seq(Items)
    BY <1>1, <2>1, <2>2, <2>3
  <2> QED BY <1>2, <2>4
<1> QED BY <1>2, <1>3, <1>4

\* What is taken of the items after p of them, when all of it is bytes.
LEMMA BytesTaken ==
  \A items, taken \in Seq(Items) : \A p \in 0..Len(items) :
    /\ p + Len(taken) <= Len(items)
    /\ \A j \in 1..Len(taken) : items[p + j].part = "byte" /\ taken[j] = items[p + j]
    => BytesUpTo(items)[p + Len(taken)] = BytesUpTo(items)[p] \o taken
<1> SUFFICES
      ASSUME NEW items \in Seq(Items), NEW taken \in Seq(Items), NEW p \in 0..Len(items),
             p + Len(taken) <= Len(items),
             \A j \in 1..Len(taken) : items[p + j].part = "byte" /\ taken[j] = items[p + j]
      PROVE  BytesUpTo(items)[p + Len(taken)] = BytesUpTo(items)[p] \o taken
  OBVIOUS
<1> DEFINE f == BytesUpTo(items)
           l == Len(taken)
           good(n) == f[p + n] = f[p] \o SubSeq(taken, 1, n)
           bad == {n \in 0..l : ~good(n)}
<1>0. /\ l \in Nat /\ p \in Nat /\ Len(items) \in Nat /\ p + l <= Len(items)
  OBVIOUS
<1>1. f[0] = <<>> /\ \A i \in 1..Len(items) : items[i].part = "byte" => f[i] = Append(f[i - 1], items[i])
  BY BytesUpToIs
<1>t. \A i \in 0..Len(items) : f[i] \in Seq(Items)
  BY BytesTyped
<1> HIDE DEF f
<1>2. bad = {}
  <2> SUFFICES ASSUME bad # {} PROVE FALSE
    OBVIOUS
  <2>1. PICK n \in bad : \A m \in bad : n <= m
    <3>1. bad \subseteq Nat
      BY <1>0
    <3> HIDE DEF bad
    <3> QED BY <3>1, Least
  <2>2. n \in Nat /\ n <= l
    BY <1>0, <2>1
  <2>3. CASE n = 0
    <3>1. SubSeq(taken, 1, 0) = <<>> /\ f[p] \in Seq(Items) /\ p + 0 = p
      BY <1>0, <1>t
    <3>2. f[p] \o <<>> = f[p]
      BY <3>1
    <3> QED BY <2>1, <2>3, <3>1, <3>2
  <2>4. CASE n > 0
    <3>1. n - 1 \in 0..l /\ n - 1 \notin bad
      <4> HIDE DEF l, bad
      <4>1. n - 1 \in 0..l /\ ~(n <= n - 1)
        BY <1>0, <2>2, <2>4
      <4> QED BY <2>1, <4>1
    <3>2. f[p + (n - 1)] = f[p] \o SubSeq(taken, 1, n - 1)
      BY <3>1
    <3>3. p + n \in 1..Len(items) /\ (p + n) - 1 = p + (n - 1) /\ n \in 1..l
      BY <1>0, <2>2, <2>4
    <3>4. f[p + n] = Append(f[p + (n - 1)], taken[n])
      BY <1>1, <3>3
    <3>5. SubSeq(taken, 1, n) = Append(SubSeq(taken, 1, n - 1), taken[n])
      BY <3>3, PrefixGrows
    <3>6. f[p] \in Seq(Items) /\ SubSeq(taken, 1, n - 1) \in Seq(Items) /\ taken[n] \in Items
      <4>1. f[p] \in Seq(Items)
        BY <1>0, <1>t
      <4>2. taken[n] \in Items
        BY <3>3, ElementOfSeq
      <4>3. SubSeq(taken, 1, n - 1) \in Seq(Items)
        OBVIOUS
      <4> QED BY <4>1, <4>2, <4>3
    <3>7. f[p] \o Append(SubSeq(taken, 1, n - 1), taken[n]) =
            Append(f[p] \o SubSeq(taken, 1, n - 1), taken[n])
      BY <3>6, AppendConcat
    <3> QED BY <2>1, <3>2, <3>4, <3>5, <3>7
  <2> QED BY <2>2, <2>3, <2>4
<1>3. good(l)
  <2>1. l \in 0..l
    BY <1>0
  <2>2. l \notin bad
    BY <1>2
  <2> HIDE DEF l
  <2> QED BY <2>1, <2>2
<1>4. SubSeq(taken, 1, l) = taken
  OBVIOUS
<1> QED BY <1>3, <1>4 DEF f

\* A line of a body in chunks adds nothing, and a body of bytes is all bytes.
LEMMA BytesSkip ==
  ASSUME NEW items \in Seq(Items), NEW p \in 0..Len(items), p < Len(items),
         items[p + 1].part # "byte"
  PROVE  BytesUpTo(items)[p + 1] = BytesUpTo(items)[p]
<1>1. p + 1 \in 1..Len(items) /\ (p + 1) - 1 = p
  OBVIOUS
<1> QED BY <1>1, BytesUpToIs

LEMMA BytesAll ==
  ASSUME NEW items \in Seq(Items), AreBytes(items)
  PROVE  Data(items) = items
<1> DEFINE p == 0
<1>1. p \in 0..Len(items) /\ p + Len(items) = Len(items)
  OBVIOUS
<1>2. \A j \in 1..Len(items) : items[p + j].part = "byte" /\ items[j] = items[p + j]
  BY DEF AreBytes
<1>3. BytesUpTo(items)[p + Len(items)] = BytesUpTo(items)[p] \o items
  <2> HIDE DEF p
  <2>1. p + Len(items) <= Len(items)
    BY <1>1
  <2> QED BY <1>1, <1>2, <2>1, BytesTaken
<1>4. BytesUpTo(items)[0] = <<>> /\ <<>> \o items = items
  BY BytesUpToIs
<1> QED BY <1>1, <1>3, <1>4 DEF Data

-----------------------------------------------------------------------------
(***************************************************************************)
(* The responses on their way to the agent.                                *)
(***************************************************************************)

\* The responses of the handler, and of the server itself.
PossibleAnswers == Responses \cup {ErrorPage(400), ErrorPage(500)}

LEMMA AnswersTyped == PossibleAnswers \subseteq ResponseType
BY ErrorPages, ResponsesAssumption DEF PossibleAnswers

\* A response as it goes over the wire, item by item and block by block.
WholeOf(r) == <<Item("status", r.status), r.framing>> \o r.body

LEMMA WholeItems ==
  ASSUME NEW r \in ResponseType
  PROVE  /\ WholeOf(r) \in Seq(Items) /\ Len(WholeOf(r)) = 2 + Len(r.body)
         /\ r.body \in Seq(Items) /\ Len(r.body) \in Nat
         /\ WholeOf(r)[1] = Item("status", r.status) /\ WholeOf(r)[2] = r.framing
         /\ \A i \in 1..Len(r.body) : WholeOf(r)[2 + i] = r.body[i]
<1> DEFINE first == <<Item("status", r.status), r.framing>>
<1>1. /\ Item("status", r.status) \in Items /\ r.framing \in Items /\ r.body \in Seq(Items)
  <2>1. r.status \in Nat /\ "status" \in Parts
    BY DEF ResponseType, Parts
  <2> QED BY <2>1 DEF ResponseType, Item, Items
<1>2. first \in Seq(Items) /\ Len(first) = 2 /\ first[1] = Item("status", r.status) /\ first[2] = r.framing
  BY <1>1
<1> HIDE DEF first
<1>3. /\ first \o r.body \in Seq(Items) /\ Len(first \o r.body) = 2 + Len(r.body)
      /\ (first \o r.body)[1] = first[1] /\ (first \o r.body)[2] = first[2]
      /\ \A i \in 1..Len(r.body) : (first \o r.body)[2 + i] = r.body[i]
  <2> DEFINE body == r.body
             whole == first \o body
  <2>1. body \in Seq(Items) /\ Len(body) \in Nat
    BY <1>1
  <2> HIDE DEF body
  <2>2. /\ whole \in Seq(Items) /\ Len(whole) = Len(first) + Len(body)
        /\ \A i \in 1..(Len(first) + Len(body)) :
             whole[i] = IF i <= Len(first) THEN first[i] ELSE body[i - Len(first)]
    BY <1>2, <2>1, ConcatProperties
  <2> HIDE DEF whole
  <2>3. Len(whole) = 2 + Len(body) /\ whole[1] = first[1] /\ whole[2] = first[2]
    BY <1>2, <2>1, <2>2
  <2>4. ASSUME NEW i \in 1..Len(body)
        PROVE  whole[2 + i] = body[i]
    <3>1. 2 + i \in 1..(2 + Len(body)) /\ ~(2 + i <= 2) /\ (2 + i) - 2 = i
      BY <2>1
    <3> QED BY <1>2, <2>2, <3>1
  <2> QED BY <2>2, <2>3, <2>4 DEF body, whole
<1>4. WholeOf(r) = first \o r.body
  BY DEF WholeOf, first
<1>5. Len(r.body) \in Nat
  BY <1>1
<1> QED BY <1>1, <1>2, <1>3, <1>4, <1>5

LEMMA BlocksItems ==
  ASSUME NEW r \in ResponseType
  PROVE  /\ Blocks(r) # <<>> /\ Head(Blocks(r)) = <<Item("status", r.status), r.framing>>
         /\ Tail(Blocks(r)) = IF r.body = <<>> THEN <<>> ELSE <<r.body>>
<1> DEFINE first == <<Item("status", r.status), r.framing>>
           rest == IF r.body = <<>> THEN <<>> ELSE <<r.body>>
<1>1. first \in Seq(Items) /\ rest \in Seq(Seq(Items))
  <2>1. r.status \in Nat /\ r.framing \in Items /\ r.body \in Seq(Items) /\ "status" \in Parts
    BY DEF ResponseType, Parts
  <2>2. Item("status", r.status) \in Items
    BY <2>1 DEF Item, Items
  <2> QED BY <2>1, <2>2
<1>2. Blocks(r) = <<first>> \o rest
  BY DEF Blocks
<1> HIDE DEF first, rest
<1>3. <<first>> \o rest # <<>> /\ Head(<<first>> \o rest) = first
  BY <1>1
<1>4. Tail(<<first>> \o rest) = rest
  <2> DEFINE whole == <<first>> \o rest
  <2>1. /\ whole \in Seq(Seq(Items)) /\ Len(whole) = 1 + Len(rest) /\ whole # <<>>
        /\ \A i \in 1..Len(rest) : whole[i + 1] = rest[i]
    BY <1>1
  <2> HIDE DEF whole
  <2>2. /\ Tail(whole) \in Seq(Seq(Items)) /\ Len(Tail(whole)) = Len(rest)
        /\ \A i \in 1..Len(rest) : Tail(whole)[i] = rest[i]
    BY <1>1, <2>1
  <2>3. Tail(whole) = rest
    BY <1>1, <2>2, SeqEqual
  <2> QED BY <2>3 DEF whole
<1> QED BY <1>2, <1>3, <1>4 DEF first, rest

\* The first answer of a connection is one of them.
LEMMA FirstTyped ==
  ASSUME TypeOK, NEW c \in Conns, Answers(c), answer[c] # <<>>
  PROVE  First(c) \in PossibleAnswers /\ First(c) \in ResponseType /\ Whole(c) = WholeOf(First(c))
<1>1. 1 \in DOMAIN answer[c]
  BY Typed
<1> QED BY <1>1, AnswersTyped DEF Answers, First, PossibleAnswers, Whole, WholeOf

\* A response that is begun when nothing is left to write of another one.
LEMMA BeginKeeps ==
  ASSUME TypeOK, NEW c \in Conns, ConnInv(c), NEW r \in PossibleAnswers,
         NEW next \in {"respond", "refuse", "error"}, Begin(c, r, next), UNCHANGED agentVars,
         ~Reads(c), worker[c].at # "closed", worker[c].out = <<>> \/ ~Delivering(c)
  PROVE  Stage(c)' /\ Prompt(c)' /\ Answers(c)' /\ Outbound(c)'
<1>1. r \in ResponseType /\ next \in Stages
  BY AnswersTyped DEF Stages
<1>2. /\ worker'[c].at = next /\ worker'[c].out = Blocks(r)
      /\ answer'[c] = IF answer[c] = <<>> THEN <<r>> ELSE answer[c]
  BY <1>1, BeginEffect
<1>3. /\ wire' = wire /\ buf' = buf /\ isOpen' = isOpen /\ lost' = lost
      /\ silent' = silent /\ agent' = agent /\ request' = request
      /\ Outbox(c)' = Outbox(c) /\ ToClient(c)' = ToClient(c)
      /\ (Delivering(c)' <=> Delivering(c)) /\ (Asked(c)' <=> Asked(c)) /\ ~Reads(c)'
  BY <1>2 DEF Begin, wireVars, agentVars, Outbox, ToClient, Delivering, Asked, Wanted, ByAgent,
     Reads
<1>4. answer'[c] # <<>>
  BY <1>2
<1>5. Stage(c)'
  BY <1>2, <1>3, <1>4 DEF ConnInv, Stage, At, Ended
<1>6. Prompt(c)'
  BY <1>3 DEF ConnInv, Prompt, Is, ByAgent
<1>7. Answers(c)'
  BY <1>2 DEF ConnInv, Answers, PossibleAnswers
<1>8. CASE answer[c] = <<>>
  <2>1. /\ Outbox(c) = <<>> /\ ToClient(c) = <<>>
        /\ agent[c].at \in {"sending", "status", "done", "failed"}
    BY <1>8 DEF ConnInv, Stage
  <2>2. First(c)' = r /\ Whole(c)' = WholeOf(r)
    BY <1>2, <1>8 DEF First, Whole, WholeOf
  <2>3. Follows(c, 0)'
    <3>1. Continues(WholeOf(r), 0, <<>>, <<>>)
      BY DEF Continues, GoesOn
    <3>2. 0 <= Len(WholeOf(r))
      BY <1>1, WholeItems
    <3>3. Outbox(c)' = <<>> /\ ToClient(c)' = <<>> /\ 0 + Len(<<>>) + Len(<<>>) = 0
      BY <1>3, <2>1
    <3> QED BY <1>2, <2>2, <3>1, <3>2, <3>3 DEF Follows
  <2>4. ~(Is(c, "done") /\ agent[c].framing \in {"length", "chunked"})
    BY <1>8 DEF ConnInv, Outbound
  <2> QED BY <1>3, <1>5, <1>6, <1>7, <2>1, <2>3, <2>4 DEF ConnInv, Outbound, Is
<1>9. CASE answer[c] # <<>>
  <2>1. First(c)' = First(c) /\ Whole(c)' = Whole(c) /\ answer'[c] = answer[c]
    BY <1>2, <1>9 DEF First, Whole
  <2>2. Blocks(First(c)) # <<>> /\ <<First(c).body>> # <<>>
    BY <1>9, FirstTyped, BlocksType DEF ConnInv
  <2>3. \A q : Follows(c, q) => Follows(c, q)'
    BY <1>3, <2>1, <2>2 DEF Follows
  <2>4. \A q : InChunks(c, q) => InChunks(c, q)'
    BY <1>3, <2>1, <2>3 DEF InChunks, Is
  <2>5. Outbound(c)'
    BY <1>3, <2>1, <2>3, <2>4 DEF ConnInv, Outbound, Is
  <2> QED BY <1>5, <1>6, <1>7, <2>5
<1> QED BY <1>8, <1>9

\* The next block of the first response goes on with what is on the wire; a
\* block of an error page comes after all of it.
LEMMA WriteFollows ==
  ASSUME TypeOK, NEW c \in Conns, Answers(c), answer[c] # <<>>, NEW q \in Nat, Follows(c, q),
         WriteBlock(c), UNCHANGED agentVars
  PROVE  Follows(c, q)'
<1> DEFINE block == Head(worker[c].out)
           r == First(c)
           b == Outbox(c)
           w == ToClient(c)
           w2 == ToClient(c)'
           whole == Whole(c)
           total == q + Len(b) + Len(w)
<1>1. /\ worker[c].out # <<>> /\ Put("server", c, block) /\ buf' = buf /\ isOpen' = isOpen
      /\ lost' = lost /\ answer' = answer /\ WireTypeOK /\ "server" \in Ends
      /\ worker' = [worker EXCEPT ![c].out = Tail(worker[c].out)]
  BY DEF WriteBlock, Unsent, TypeOK, Ends
<1>2. /\ Outbox(c)' = b /\ First(c)' = r /\ Whole(c)' = whole /\ (Delivering(c)' <=> Delivering(c))
      /\ worker'[c].out = Tail(worker[c].out)
  BY <1>1 DEF Outbox, First, Whole, Delivering, TypeOK, ServerTypeOK
<1>3. block \in Seq(Items) /\ b \in Seq(Items) /\ w \in Seq(Items)
  BY <1>1, Typed
<1>4. w2 = IF Delivering(c) THEN w \o block ELSE w
  BY <1>1, <1>3, PutEffect, OtherEnds DEF ToClient, Delivering, Ends
<1>5. r \in ResponseType /\ whole = WholeOf(r)
  BY FirstTyped
<1>6. /\ whole \in Seq(Items) /\ Len(whole) = 2 + Len(r.body)
      /\ r.body \in Seq(Items) /\ Len(r.body) \in Nat
      /\ whole[1] = Item("status", r.status) /\ whole[2] = r.framing
      /\ \A i \in 1..Len(r.body) : whole[2 + i] = r.body[i]
  BY <1>5, WholeItems
<1>7. Continues(whole, q, b, w) /\ q <= Len(whole)
  BY DEF Follows
<1>8. CASE ~Delivering(c)
  BY <1>2, <1>4, <1>7, <1>8 DEF Follows
<1>9. CASE Delivering(c)
  <2>1. Len(b) \in Nat /\ Len(w) \in Nat /\ total \in Nat /\ Len(block) \in Nat
    BY <1>3
  <2>2. GoesOn(whole, total, block) =>
          Continues(whole, q, b, w \o block) /\ Len(w \o block) = Len(w) + Len(block)
    <3> HIDE DEF block, b, w, whole
    <3> QED BY <1>3, <1>6, <1>7, StreamWritten
  <2>3. ASSUME GoesOn(whole, total, block),
               \/ total + Len(block) >= Len(whole)
               \/ total + Len(block) = 2 /\ worker'[c].out = <<r.body>>
        PROVE  Follows(c, q)'
    <3>1. Continues(whole, q, b, w2) /\ Len(w2) = Len(w) + Len(block)
      BY <1>4, <1>9, <2>2, <2>3
    <3>2. q + Len(b) + Len(w2) = total + Len(block)
      <4> DEFINE x == Len(b)
                 y == Len(w)
                 z == Len(block)
                 y2 == Len(w2)
      <4>1. y2 = y + z /\ x \in Nat /\ y \in Nat /\ z \in Nat
        BY <2>1, <3>1
      <4>2. total = q + x + y
        OBVIOUS
      <4> HIDE DEF x, y, z, y2, total
      <4>3. q + x + y2 = total + z
        BY <4>1, <4>2
      <4> QED BY <4>3 DEF x, y2, z
    <3> QED BY <1>2, <1>7, <2>3, <3>1, <3>2 DEF Follows
  <2>4. CASE total >= Len(whole)
    <3> HIDE DEF total, whole, block
    <3>1. GoesOn(whole, total, block)
      BY <1>6, <2>1, <2>4 DEF GoesOn
    <3>2. total + Len(block) >= Len(whole)
      BY <1>6, <2>1, <2>4
    <3> QED BY <2>3, <3>1, <3>2
  <2>5. CASE total = 0 /\ worker[c].out = Blocks(r)
    <3>1. /\ block = <<Item("status", r.status), r.framing>>
          /\ worker'[c].out = IF r.body = <<>> THEN <<>> ELSE <<r.body>>
      BY <1>2, <1>5, <2>5, BlocksItems
    <3> HIDE DEF total, whole, block, r
    <3>2. Len(block) = 2 /\ block[1] = whole[1] /\ block[2] = whole[2]
      BY <1>6, <3>1
    <3>3. GoesOn(whole, total, block)
      BY <2>5, <3>2 DEF GoesOn
    <3>4. total + Len(block) = 2
      BY <2>5, <3>2
    <3>5. CASE r.body = <<>>
      <4>1. Len(whole) = 2
        BY <1>6, <3>5
      <4> QED BY <2>3, <3>3, <3>4, <4>1
    <3>6. CASE r.body # <<>>
      BY <2>3, <3>1, <3>3, <3>4, <3>6
    <3> QED BY <3>5, <3>6
  <2>6. CASE total = 2 /\ worker[c].out = <<r.body>>
    <3>1. block = r.body
      BY <2>6
    <3> HIDE DEF total, whole, block, r
    <3>2. GoesOn(whole, total, block)
      BY <1>6, <2>6, <3>1 DEF GoesOn
    <3>3. total + Len(block) >= Len(whole)
      BY <1>6, <2>1, <2>6, <3>1
    <3> QED BY <2>3, <3>2, <3>3
  <2>7. \/ total >= Len(whole)
        \/ total = 0 /\ worker[c].out = Blocks(r)
        \/ total = 2 /\ worker[c].out = <<r.body>>
    BY <1>9 DEF Follows
  <2> QED BY <2>4, <2>5, <2>6, <2>7
<1> QED BY <1>8, <1>9

LEMMA WriteBlockKeeps ==
  ASSUME TypeOK, NEW c \in Conns, ConnInv(c), WriteBlock(c), UNCHANGED agentVars
  PROVE  Stage(c)' /\ Prompt(c)' /\ Answers(c)' /\ Outbound(c)'
<1>1. /\ worker[c].out # <<>> /\ answer[c] # <<>> /\ buf' = buf /\ isOpen' = isOpen /\ lost' = lost
      /\ answer' = answer /\ silent' = silent /\ agent' = agent /\ request' = request
      /\ worker'[c].at = worker[c].at
  BY DEF WriteBlock, Unsent, ConnInv, Stage, agentVars, TypeOK, ServerTypeOK
<1>2. /\ First(c)' = First(c) /\ (Delivering(c)' <=> Delivering(c)) /\ (Asked(c)' <=> Asked(c))
      /\ (Reads(c)' <=> Reads(c))
  BY <1>1 DEF First, Delivering, Asked, Wanted, ByAgent, Reads
<1>3. Stage(c)'
  BY <1>1, <1>2 DEF ConnInv, Stage, At, Ended
<1>4. Prompt(c)' /\ Answers(c)'
  BY <1>1, <1>2 DEF ConnInv, Prompt, Answers, Is, ByAgent
<1>5. \A q \in Nat : Follows(c, q) => Follows(c, q)'
  BY <1>1, WriteFollows DEF ConnInv
<1>6. \A p \in 0..Len(First(c).body) : InChunks(c, p) => InChunks(c, p)'
  <2>1. \A p \in 0..Len(First(c).body) : 2 + p \in Nat
    OBVIOUS
  <2> QED BY <1>1, <1>2, <1>5, <2>1 DEF InChunks, Is
<1>7. Outbound(c)'
  BY <1>1, <1>2, <1>5, <1>6 DEF ConnInv, Outbound, Is
<1> QED BY <1>3, <1>4, <1>7

\* The server's part in all this.
LEMMA ServerKeeps ==
  ASSUME TypeOK, NEW c \in Conns, ConnInv(c), ServerDoes(c)
  PROVE  Stage(c)' /\ Prompt(c)' /\ Answers(c)' /\ Outbound(c)'
<1>0. UNCHANGED agentVars /\ WireTypeOK /\ ServerTypeOK /\ Stage(c) /\ Prompt(c)
  BY DEF ServerDoes, TypeOK, ConnInv
<1>1. CASE Moves(c)
  BY <1>0, <1>1, MovesUnanswered, MovesPlaced, MovesKeep
<1>2. CASE WriteBlock(c)
  BY <1>0, <1>2, WriteBlockKeeps
<1>3. CASE WriteFails(c) /\ At(c, "respond")
  BY <1>0, <1>3, BeginKeeps, OtherEnds
  DEF WriteFails, Throws, PossibleAnswers, At, Reads, CanFailToWrite, Delivering
<1>4. CASE WriteFails(c) /\ ~At(c, "respond")
  <2>1. /\ ~Delivering(c) /\ worker[c].out # <<>>
        /\ worker' = [worker EXCEPT ![c].at = "closed", ![c].out = <<>>]
        /\ Closed(c) /\ UNCHANGED <<wire, buf, lost, accepting, answer, given, silent>>
    BY <1>4, OtherEnds DEF WriteFails, Unsent, CanFailToWrite, Delivering
  <2>2. worker'[c].at = "closed" /\ worker'[c].out = <<>>
    BY <1>0, <2>1 DEF ServerTypeOK
  <2>3. isOpen'["server"][c] = FALSE /\ isOpen'["client"][c] = isOpen["client"][c]
    BY <1>0, <2>1 DEF Closed, WireTypeOK, Ends
  <2>4. /\ ~Delivering(c)' /\ (Asked(c)' <=> Asked(c)) /\ agent' = agent /\ request' = request
        /\ Outbox(c)' = Outbox(c) /\ ToClient(c)' = ToClient(c) /\ ~Reads(c)'
    BY <1>0, <2>1, <2>2, <2>3 DEF Delivering, Asked, Wanted, ByAgent, agentVars, Outbox, ToClient,
       Reads
  <2>5. Stage(c)'
    BY <1>0, <2>1, <2>2, <2>3, <2>4 DEF Stage, At, Ended, Reads
  <2>6. Prompt(c)' /\ Answers(c)'
    BY <1>0, <2>1, <2>4 DEF ConnInv, Prompt, Answers, Is, ByAgent
  <2>7. Outbound(c)'
    BY <2>1, <2>4, OutboundQuiet DEF ConnInv
  <2> QED BY <2>5, <2>6, <2>7
<1>5. CASE Refuse(c)
  <2>1. answer[c] = <<>> /\ worker[c].at = "refuse" /\ Begin(c, ErrorPage(400), "refuse")
    BY <1>5 DEF Refuse, At
  <2> QED BY <1>0, <2>1, BeginKeeps DEF PossibleAnswers, Stage, Reads
<1>6. CASE HandlerThrows(c)
  BY <1>0, <1>6, BeginKeeps DEF HandlerThrows, Throws, Unsent, PossibleAnswers, Reads
<1>7. ASSUME NEW r \in Responses, Respond(c, r)
      PROVE  Stage(c)' /\ Prompt(c)' /\ Answers(c)' /\ Outbound(c)'
  <2>1. worker[c].at = "handling" /\ Begin(c, r, "respond")
    BY <1>7 DEF Respond, At
  <2>2. worker[c].out = <<>>
    BY <1>0, <2>1 DEF Stage, At
  <2> QED BY <1>0, <2>1, <2>2, BeginKeeps DEF PossibleAnswers, Reads
<1> QED
  BY <1>1, <1>2, <1>3, <1>4, <1>5, <1>6, <1>7
  DEF ServerDoes, ServerNext, ReadStep, RespondStep, ServerWrites, Moves

-----------------------------------------------------------------------------
(***************************************************************************)
(* The agent's part in it.                                                 *)
(***************************************************************************)

\* What no step of an agent changes.
ServerRests(c) ==
  /\ worker' = worker /\ answer' = answer /\ silent' = silent /\ request' = request
  /\ isOpen'["server"][c] = isOpen["server"][c]
  /\ c \in lost => c \in lost'

LEMMA ServerRestsSame ==
  ASSUME NEW c \in Conns, ServerRests(c)
  PROVE  /\ First(c)' = First(c) /\ Whole(c)' = Whole(c)
         /\ (Reads(c)' <=> Reads(c)) /\ (Asked(c)' <=> Asked(c)) /\ (ByAgent(c)' <=> ByAgent(c))
         /\ \A stage \in Stages : At(c, stage)' <=> At(c, stage)
BY DEF ServerRests, First, Whole, Reads, Asked, ByAgent, Wanted, At

\* A step that ends the exchange, at the agent's end.
LEMMA EndKeeps ==
  ASSUME TypeOK, NEW c \in Conns, ConnInv(c), ServerRests(c),
         agent'[c].at \in {"done", "failed"}, isOpen'["client"][c] = FALSE,
         agent'[c].status = agent[c].status, agent'[c].framing = agent[c].framing,
         answer[c] = <<>> => Outbox(c)' = <<>> /\ ToClient(c)' = <<>>,
         agent'[c].at = "failed" /\ Asked(c) /\ agent[c].status = 0 =>
           c \in lost' \cup silent,
         agent'[c].at = "done" /\ ByAgent(c) => agent[c].status # 0,
         agent'[c].at = "done" /\ agent[c].framing \in {"length", "chunked"} =>
           answer[c] # <<>> /\ agent'[c].body = Data(First(c).body)
  PROVE  Stage(c)' /\ Prompt(c)' /\ Answers(c)' /\ Outbound(c)'
<1>1. /\ First(c)' = First(c) /\ (Reads(c)' <=> Reads(c)) /\ (Asked(c)' <=> Asked(c))
      /\ (ByAgent(c)' <=> ByAgent(c)) /\ ~Delivering(c)'
      /\ worker'[c] = worker[c] /\ answer'[c] = answer[c] /\ silent' = silent
      /\ isOpen'["server"][c] = isOpen["server"][c]
  BY ServerRestsSame DEF ServerRests, Delivering
<1>2. Stage(c)'
  BY <1>1 DEF ConnInv, Stage, At, Ended
<1>3. Prompt(c)'
  BY <1>1 DEF Prompt, Is
<1>4. Answers(c)'
  BY <1>1 DEF ConnInv, Answers
<1>5. Outbound(c)'
  BY <1>1 DEF Outbound, Is
<1> QED BY <1>2, <1>3, <1>4, <1>5

\* A step with which the agent goes on.
LEMMA GoesOnKeeps ==
  ASSUME TypeOK, NEW c \in Conns, ConnInv(c), ServerRests(c),
         agent'[c].at \notin {"done", "failed"}, ~Ended(c),
         isOpen'["client"][c] = isOpen["client"][c], lost' = lost,
         agent[c].out = <<>> => agent'[c].out = <<>>,
         answer[c] = <<>> => /\ Outbox(c)' = <<>> /\ ToClient(c)' = <<>>
                             /\ agent'[c].at \in {"sending", "status"}
  PROVE  Stage(c)' /\ Prompt(c)' /\ Answers(c)'
<1>1. /\ (Reads(c)' <=> Reads(c)) /\ (Asked(c)' <=> Asked(c))
      /\ (ByAgent(c)' <=> ByAgent(c)) /\ (Delivering(c)' <=> Delivering(c))
      /\ worker'[c] = worker[c] /\ answer'[c] = answer[c] /\ silent' = silent
      /\ isOpen'["server"][c] = isOpen["server"][c]
  BY ServerRestsSame DEF ServerRests, Delivering
<1>2. Stage(c)'
  BY <1>1 DEF ConnInv, Stage, At, Ended
<1>3. Prompt(c)'
  BY <1>1 DEF ConnInv, Prompt, Is
<1>4. Answers(c)'
  BY <1>1 DEF ConnInv, Answers
<1> QED BY <1>2, <1>3, <1>4

\* The first response goes on when some of it arrives.
LEMMA ArrivalFollows ==
  ASSUME TypeOK, NEW c \in Conns, Answers(c), answer[c] # <<>>, NEW q \in Nat, Follows(c, q),
         Receive("client", c), UNCHANGED serverVars
  PROVE  Follows(c, q)'
<1> DEFINE b == Outbox(c)
           w == ToClient(c)
           b2 == Outbox(c)'
           w2 == ToClient(c)'
           whole == Whole(c)
           arrived == Len(b)
           coming == Len(w)
           arrived2 == Len(b2)
           coming2 == Len(w2)
<1>1. PICK k \in 1..Len(w) : b2 = b \o SubSeq(w, 1, k) /\ w2 = SubSeq(w, k + 1, Len(w))
  BY Typed, ReceiveEffect DEF TypeOK, Outbox, ToClient
<1>2. b \in Seq(Items) /\ w \in Seq(Items) /\ whole \in Seq(Items)
  BY Typed, FirstTyped, WholeItems
<1>3. Continues(whole, q, b, w)
  BY DEF Follows
<1>4. Continues(whole, q, b2, w2) /\ arrived2 + coming2 = arrived + coming
  <2>1. /\ Continues(whole, q, b \o SubSeq(w, 1, k), SubSeq(w, k + 1, Len(w)))
        /\ Len(b \o SubSeq(w, 1, k)) + Len(SubSeq(w, k + 1, Len(w))) = Len(b) + Len(w)
    <3> HIDE DEF b, w, whole
    <3> QED BY <1>2, <1>3, StreamArrives, ZenonT(90)
  <2> QED BY <1>1, <2>1
<1>5. arrived \in Nat /\ coming \in Nat /\ arrived2 \in Nat /\ coming2 \in Nat
  <2>1. /\ b \o SubSeq(w, 1, k) \in Seq(Items)
        /\ SubSeq(w, k + 1, Len(w)) \in Seq(Items)
    <3> HIDE DEF b, w
    <3> QED BY <1>2
  <2> QED BY <1>1, <1>2, <2>1
<1>6. q + arrived2 + coming2 = q + arrived + coming
  <2> HIDE DEF arrived, coming, arrived2, coming2
  <2> QED BY <1>4, <1>5
<1>7. /\ worker' = worker /\ First(c)' = First(c) /\ Whole(c)' = whole
      /\ (Delivering(c)' <=> Delivering(c))
  BY DEF Receive, serverVars, First, Whole, Delivering
<1> QED BY <1>4, <1>6, <1>7 DEF Follows

\* What is taken of it is what comes next, and it goes on after that.
LEMMA LineFollows ==
  ASSUME TypeOK, NEW c \in Conns, Answers(c), answer[c] # <<>>, NEW q \in Nat, Follows(c, q),
         HasLine("client", c), q < Len(Whole(c)),
         Outbox(c)' = Tail(Outbox(c)), ToClient(c)' = ToClient(c), ServerRests(c),
         Delivering(c)' => Delivering(c)
  PROVE  Line("client", c) = Whole(c)[q + 1] /\ Follows(c, q + 1)'
<1> DEFINE b == Outbox(c)
           w == ToClient(c)
           b2 == Outbox(c)'
           whole == Whole(c)
           arrived == Len(b)
           coming == Len(w)
           arrived2 == Len(b2)
<1>1. b \in Seq(Items) /\ w \in Seq(Items) /\ whole \in Seq(Items) /\ Len(whole) \in Nat
  BY Typed, FirstTyped, WholeItems
<1>2. b # <<>> /\ Line("client", c) = Head(b) /\ Continues(whole, q, b, w)
  BY DEF HasLine, Line, Outbox, Follows
<1>3. Continues(whole, q + 1, b2, w) /\ arrived2 = arrived - 1 /\ Head(b) = whole[q + 1]
  <2> HIDE DEF b, b2, w, whole
  <2>1. Continues(whole, q + 1, b2, w) /\ Len(b2) = Len(b) - 1 /\ Head(b) = whole[q + 1]
    BY <1>1, <1>2, StreamTaken DEF b, b2, whole
  <2> QED BY <2>1
<1>4. q + 1 + arrived2 + coming = q + arrived + coming
  <2>1. arrived \in Nat /\ coming \in Nat
    BY <1>1
  <2> HIDE DEF arrived, arrived2, coming
  <2> QED BY <1>3, <2>1
<1>5. worker'[c] = worker[c] /\ First(c)' = First(c) /\ Whole(c)' = whole
  BY ServerRestsSame DEF ServerRests
<1>6. q + 1 <= Len(whole)
  BY <1>1
<1> QED BY <1>2, <1>3, <1>4, <1>5, <1>6 DEF Follows

LEMMA BytesFollow ==
  ASSUME TypeOK, NEW c \in Conns, Answers(c), answer[c] # <<>>, NEW q \in Nat, Follows(c, q),
         NEW n \in Nat, n = Len(Outbox(c)), q + n <= Len(Whole(c)),
         Outbox(c)' = <<>>, ToClient(c)' = ToClient(c), ServerRests(c),
         Delivering(c)' => Delivering(c)
  PROVE  Follows(c, q + n)'
<1> DEFINE b == Outbox(c)
           w == ToClient(c)
           b2 == Outbox(c)'
           whole == Whole(c)
<1>1. b \in Seq(Items) /\ w \in Seq(Items) /\ whole \in Seq(Items) /\ Len(whole) \in Nat
  BY Typed, FirstTyped, WholeItems
<1>2. Continues(whole, q, b, w)
  BY DEF Follows
<1>3. Continues(whole, q + n, b2, w) /\ Len(b2) = 0
  <2> HIDE DEF b, b2, w, whole
  <2> QED BY <1>1, <1>2, StreamAllTaken DEF b, b2
<1>4. (q + n) + Len(b2) + Len(w) = q + Len(b) + Len(w)
  BY <1>1, <1>3
<1>5. worker'[c] = worker[c] /\ First(c)' = First(c) /\ Whole(c)' = whole
  BY ServerRestsSame DEF ServerRests
<1> QED BY <1>3, <1>4, <1>5 DEF Follows

\* What a step of the agent is to keep, besides Inbound, Parsed and Given.
Kept(c) == Stage(c)' /\ Prompt(c)' /\ Answers(c)' /\ Outbound(c)'

LEMMA EndingKeeps ==
  ASSUME TypeOK, NEW c \in Conns, ConnInv(c), UNCHANGED serverVars, request' = request,
         NEW stage \in {"failed", "done"}, NEW body \in Seq(Items), End(c, stage, body),
         wire' = wire, lost' \in {lost, lost \cup {c}},
         \/ buf' = buf
         \/ HasLine("client", c) /\ buf' = [buf EXCEPT !["client"][c] = Tail(@)],
         stage = "failed" /\ Asked(c) /\ agent[c].status = 0 => c \in lost' \cup silent,
         stage = "done" /\ ByAgent(c) => agent[c].status # 0,
         stage = "done" /\ agent[c].framing \in {"length", "chunked"} =>
           answer[c] # <<>> /\ body = Data(First(c).body)
  PROVE  Kept(c)
<1>1. /\ agent'[c].at = stage /\ agent'[c].body = body /\ agent'[c].status = agent[c].status
      /\ agent'[c].framing = agent[c].framing
      /\ isOpen'["client"][c] = FALSE /\ isOpen'["server"][c] = isOpen["server"][c]
  <2>1. stage \in AgentStages /\ WireTypeOK /\ AgentTypeOK
    BY DEF AgentStages, TypeOK
  <2>2. /\ agent'[c].at = stage /\ agent'[c].body = body
        /\ agent'[c].status = agent[c].status /\ agent'[c].framing = agent[c].framing
    <3>1. agent' = [agent EXCEPT ![c] = [agent[c] EXCEPT !.at = stage, !.body = body]]
      BY <2>1 DEF End, AgentTypeOK
    <3>2. agent'[c] = [agent[c] EXCEPT !.at = stage, !.body = body]
      BY <2>1, <3>1 DEF AgentTypeOK
    <3> QED BY <3>2, Typed DEF Readers
  <2>3. isOpen'["client"][c] = FALSE /\ isOpen'["server"][c] = isOpen["server"][c]
    BY <2>1, EndEffect
  <2> QED BY <2>2, <2>3
<1>2. ServerRests(c)
  BY <1>1 DEF ServerRests, serverVars
<1>3. answer[c] = <<>> => Outbox(c)' = <<>> /\ ToClient(c)' = <<>>
  <2>1. answer[c] = <<>> => Outbox(c) = <<>> /\ ToClient(c) = <<>> /\ ~HasLine("client", c)
    BY DEF ConnInv, Stage, HasLine, Outbox
  <2> QED BY <2>1 DEF Outbox, ToClient
<1> QED BY <1>1, <1>2, <1>3, EndKeeps DEF Kept

\* What a read of a line, or of bytes, leaves as it is.
LEMMA TakenRests ==
  ASSUME TypeOK, NEW c \in Conns, UNCHANGED serverVars, request' = request,
         TakeLine("client", c) \/ TakeBytes("client", c)
  PROVE  /\ ServerRests(c) /\ ToClient(c)' = ToClient(c)
         /\ TakeLine("client", c) => Outbox(c)' = Tail(Outbox(c))
         /\ TakeBytes("client", c) => Outbox(c)' = <<>>
         /\ isOpen'["client"][c] = isOpen["client"][c] /\ lost' = lost
         /\ Delivering(c)' <=> Delivering(c)
BY DEF TakeLine, TakeBytes, TypeOK, WireTypeOK, Ends, ServerRests, serverVars, Outbox, ToClient,
   Delivering

\* Only an answer is read.
LEMMA ReadsAnswer ==
  ASSUME NEW c \in Conns, ConnInv(c),
         \/ agent[c].at \notin {"sending", "status", "done", "failed"}
         \/ HasLine("client", c)
  PROVE  answer[c] # <<>>
BY DEF ConnInv, Stage, HasLine, Outbox

\* A user agent that finds the end of the stream before the status line.
LEMMA EndOfNothing ==
  ASSUME TypeOK, NEW c \in Conns, ConnInv(c), Is(c, "status"), Outbox(c) = <<>>,
         AtEof("client", c)
  PROVE  c \in lost \cup silent
<1> SUFFICES ASSUME c \notin lost, c \notin silent PROVE FALSE
  OBVIOUS
<1>1. ToClient(c) = <<>> /\ ~isOpen["server"][c]
  BY OtherEnds DEF AtEof, ToClient
<1>2. Delivering(c) /\ At(c, "closed")
  BY <1>1 DEF ConnInv, Stage, Ended, Is, Delivering, At
<1>3. answer[c] # <<>> /\ worker[c].out = <<>>
  BY <1>2 DEF ConnInv, Stage
<1>4. Follows(c, 0)
  BY <1>3 DEF ConnInv, Outbound, Is
<1>5. 0 + Len(Outbox(c)) + Len(ToClient(c)) = 0
  BY <1>1
<1>6. First(c) \in ResponseType /\ Len(Whole(c)) >= 2
  <2>1. First(c) \in ResponseType /\ Whole(c) = WholeOf(First(c))
    BY <1>3, FirstTyped DEF ConnInv
  <2>2. Len(WholeOf(First(c))) = 2 + Len(First(c).body) /\ Len(First(c).body) \in Nat
    BY <2>1, WholeItems
  <2> QED BY <2>1, <2>2
<1>7. Blocks(First(c)) # <<>>
  BY <1>6, BlocksItems
<1> QED BY <1>2, <1>3, <1>4, <1>5, <1>6, <1>7 DEF Follows

LEMMA SendKeeps ==
  ASSUME TypeOK, NEW c \in Conns, ConnInv(c), Send(c), UNCHANGED serverVars
  PROVE  Kept(c)
<1>0. /\ Is(c, "sending") /\ agent[c].out # <<>> /\ request' = request
      /\ agent[c].status = 0 /\ agent[c].framing = "none" /\ <<>> \in Seq(Items)
  BY DEF Send, Is, ConnInv, Outbound
<1>1. CASE /\ Put("client", c, <<Head(agent[c].out)>>)
           /\ agent' = [agent EXCEPT ![c].out = Tail(@)]
           /\ UNCHANGED <<buf, isOpen, lost>>
  <2>1. /\ agent'[c].at = "sending" /\ agent'[c].status = agent[c].status
        /\ agent'[c].framing = agent[c].framing /\ agent'[c].body = agent[c].body
    BY <1>0, <1>1 DEF TypeOK, AgentTypeOK, Is
  <2>2. ToClient(c)' = ToClient(c)
    <3>1. <<Head(agent[c].out)>> \in Seq(Items) /\ "client" \in Ends
      BY <1>0, Typed
    <3> QED BY <1>1, <3>1, PutEffect, OtherEnds DEF TypeOK, ToClient, Ends
  <2>3. /\ ServerRests(c) /\ Outbox(c)' = Outbox(c)
        /\ isOpen'["client"][c] = isOpen["client"][c] /\ (Delivering(c)' <=> Delivering(c))
    BY <1>0, <1>1 DEF ServerRests, serverVars, Outbox, Delivering
  <2>4. Stage(c)' /\ Prompt(c)' /\ Answers(c)'
    BY <1>0, <1>1, <2>1, <2>2, <2>3, GoesOnKeeps DEF ConnInv, Stage, Ended, Is
  <2>5. answer[c] # <<>> => Follows(c, 0)'
    BY <1>0, <2>2, <2>3, ServerRestsSame DEF ConnInv, Outbound, Is, Follows, ServerRests
  <2>6. Outbound(c)'
    BY <1>0, <2>1, <2>3, <2>5 DEF ConnInv, Outbound, Is, ServerRests
  <2> QED BY <2>4, <2>6 DEF Kept
<1>2. CASE CanFailToWrite("client", c) /\ End(c, "failed", <<>>) /\ UNCHANGED <<wire, buf, lost>>
  <2>1. Asked(c) => c \in lost \cup silent
    <3> SUFFICES ASSUME Asked(c), c \notin lost, c \notin silent PROVE FALSE
      OBVIOUS
    <3>1. ~isOpen["server"][c]
      BY <1>2, OtherEnds DEF CanFailToWrite
    <3>2. Delivering(c) /\ ~Reads(c)
      BY <1>0, <3>1 DEF ConnInv, Stage, Ended, Is, Delivering, Reads
    <3> QED BY <1>0, <3>2 DEF ConnInv, Prompt
  <2> QED BY <1>0, <1>2, <2>1, EndingKeeps
<1> QED BY <1>1, <1>2 DEF Send

LEMMA SentKeeps ==
  ASSUME TypeOK, NEW c \in Conns, ConnInv(c), Sent(c), UNCHANGED serverVars
  PROVE  Kept(c)
<1>1. /\ Is(c, "sending") /\ agent[c].out = <<>> /\ UNCHANGED wireVars /\ request' = request
      /\ agent'[c].at = "status" /\ agent'[c].status = agent[c].status
      /\ agent'[c].framing = agent[c].framing /\ agent'[c].body = agent[c].body
      /\ agent'[c].out = agent[c].out
  BY DEF Sent, TypeOK, AgentTypeOK
<1>2. /\ ServerRests(c) /\ Outbox(c)' = Outbox(c) /\ ToClient(c)' = ToClient(c)
      /\ isOpen'["client"][c] = isOpen["client"][c] /\ lost' = lost
      /\ (Delivering(c)' <=> Delivering(c))
  BY <1>1 DEF ServerRests, serverVars, wireVars, Outbox, ToClient, Delivering
<1>3. Stage(c)' /\ Prompt(c)' /\ Answers(c)'
  BY <1>1, <1>2, GoesOnKeeps DEF ConnInv, Stage, Ended, Is
<1>4. answer[c] # <<>> => Follows(c, 0)'
  BY <1>1, <1>2, ServerRestsSame DEF ConnInv, Outbound, Is, Follows, ServerRests
<1>5. Outbound(c)'
  BY <1>1, <1>2, <1>4 DEF ConnInv, Outbound, Is, ServerRests
<1> QED BY <1>3, <1>5 DEF Kept

LEMMA HangupKeeps ==
  ASSUME TypeOK, NEW c \in Conns, ConnInv(c), Hangup(c), UNCHANGED serverVars
  PROVE  Kept(c)
<1>1. /\ ~ByAgent(c) /\ agent[c].framing = "none" /\ End(c, "done", <<>>)
      /\ UNCHANGED <<wire, buf, lost, request>> /\ <<>> \in Seq(Items)
  BY DEF Hangup, ConnInv, Outbound, Is
<1> QED BY <1>1, EndingKeeps

LEMMA AgentReceiveKeeps ==
  ASSUME TypeOK, NEW c \in Conns, ConnInv(c), AgentReceive(c), UNCHANGED serverVars
  PROVE  Kept(c)
<1>1. /\ Receive("client", c) /\ agent' = agent /\ request' = request /\ ~Ended(c)
      /\ agent[c].at \notin {"done", "failed"}
  BY DEF AgentReceive, agentVars, Awaits, LineStages, Ended, Is
<1>2. answer[c] # <<>>
  <2>1. ToClient(c) # <<>>
    BY <1>1, Typed DEF Receive, ToClient
  <2> QED BY <2>1 DEF ConnInv, Stage
<1>3. /\ isOpen' = isOpen /\ lost' = lost /\ ServerRests(c) /\ (Delivering(c)' <=> Delivering(c))
  BY <1>1 DEF Receive, ServerRests, serverVars, Delivering
<1>4. Stage(c)' /\ Prompt(c)' /\ Answers(c)'
  BY <1>1, <1>2, <1>3, GoesOnKeeps
<1>5. \A q \in Nat : Follows(c, q) => Follows(c, q)'
  BY <1>1, <1>2, ArrivalFollows DEF ConnInv
<1>6. First(c)' = First(c) /\ answer' = answer
  BY <1>3, ServerRestsSame DEF ServerRests
<1>7. \A p \in 0..Len(First(c).body) : InChunks(c, p) => InChunks(c, p)'
  <2>1. \A p \in 0..Len(First(c).body) : 2 + p \in Nat
    OBVIOUS
  <2> QED BY <1>1, <1>5, <1>6, <2>1 DEF InChunks, Is
<1>8. Outbound(c)'
  BY <1>1, <1>5, <1>6, <1>7 DEF ConnInv, Outbound, Is
<1> QED BY <1>4, <1>8 DEF Kept

LEMMA CutShortKeeps ==
  ASSUME TypeOK, NEW c \in Conns, ConnInv(c), AgentEof(c) \/ AgentTimeOut(c),
         UNCHANGED serverVars
  PROVE  Kept(c)
<1>1. /\ Awaits(c) /\ CutShort(c) /\ lost' \in {lost, lost \cup {c}} /\ request' = request
      /\ AtEof("client", c) \/ c \in lost'
  BY DEF AgentEof, AgentTimeOut
<1>2. buf["client"][c] \in Seq(Items) /\ agent[c].body \in Seq(Items)
  BY Typed DEF Outbox
<1>3. CASE Is(c, "all")
  <2>1. End(c, "done", buf["client"][c]) /\ UNCHANGED <<wire, buf>>
    BY <1>1, <1>3 DEF CutShort
  <2>2. agent[c].status # 0 /\ agent[c].framing = "close"
    BY <1>3 DEF ConnInv, Outbound, Is
  <2> QED BY <1>1, <1>2, <2>1, <2>2, EndingKeeps
<1>4. CASE ~Is(c, "all")
  <2>1. End(c, "failed", agent[c].body) /\ UNCHANGED <<wire, buf>>
    BY <1>1, <1>4 DEF CutShort, Fail, Is
  <2>2. Asked(c) /\ agent[c].status = 0 => c \in lost' \cup silent
    <3> SUFFICES ASSUME agent[c].status = 0, c \notin lost' PROVE c \in lost \cup silent
      BY <1>1
    <3>1. Is(c, "status") /\ Outbox(c) = <<>>
      BY <1>1, <1>4 DEF ConnInv, Outbound, Awaits, LineStages, Is, HasLine, Outbox
    <3> QED BY <1>1, <3>1, EndOfNothing
  <2> QED BY <1>1, <1>2, <2>1, <2>2, EndingKeeps
<1> QED BY <1>3, <1>4

\* The first response, as far as a reader tells it apart.
LEMMA FirstWhole ==
  ASSUME TypeOK, NEW c \in Conns, ConnInv(c), answer[c] # <<>>
  PROVE  /\ First(c) \in ResponseType /\ First(c).status # 0 /\ First(c).framing \in Items
         /\ First(c).body \in Seq(Items) /\ Len(First(c).body) \in Nat
         /\ Len(Whole(c)) = 2 + Len(First(c).body)
         /\ Whole(c)[1] = Item("status", First(c).status) /\ Whole(c)[2] = First(c).framing
         /\ \A i \in 1..Len(First(c).body) : Whole(c)[2 + i] = First(c).body[i]
         /\ First(c).framing.part = "length" =>
              Len(First(c).body) = First(c).framing.n /\ AreBytes(First(c).body)
         /\ First(c).framing.part = "chunked" => IsChunked(First(c).body)
<1>1. /\ First(c) \in PossibleAnswers /\ First(c) \in ResponseType
      /\ Whole(c) = WholeOf(First(c))
  BY FirstTyped DEF ConnInv
<1>2. First(c).status # 0 /\ First(c).framing \in Items
  BY <1>1 DEF ResponseType
<1>3. /\ First(c).framing.part = "length" =>
           Len(First(c).body) = First(c).framing.n /\ AreBytes(First(c).body)
      /\ First(c).framing.part = "chunked" => IsChunked(First(c).body)
  BY <1>1, ResponsesAssumption DEF PossibleAnswers, ErrorPage, Item
<1> QED BY <1>1, <1>2, <1>3, WholeItems

LEMMA ReadStatusKeeps ==
  ASSUME TypeOK, NEW c \in Conns, ConnInv(c), ReadStatus(c), UNCHANGED serverVars
  PROVE  Kept(c)
<1>1. /\ Is(c, "status") /\ HasLine("client", c) /\ request' = request /\ answer[c] # <<>>
      /\ agent[c].framing = "none" /\ agent[c].body = <<>> /\ Follows(c, 0)
  BY ReadsAnswer DEF ReadStatus, ConnInv, Outbound, Is
<1>2. Len(Whole(c)) > 0
  BY <1>1, FirstWhole
<1>3. Line("client", c) = Item("status", First(c).status)
  <2>1. Continues(Whole(c), 0, Outbox(c), ToClient(c))
    BY <1>1 DEF Follows
  <2>2. Outbox(c) \in Seq(Items) /\ Outbox(c) # <<>>
    BY <1>1, Typed DEF HasLine, Outbox
  <2>3. Outbox(c)[1] = Whole(c)[1]
    BY <1>2, <2>1, <2>2 DEF Continues, GoesOn
  <2> QED BY <1>1, <2>2, <2>3, FirstWhole DEF Line, Outbox
<1>4. /\ agent' = [agent EXCEPT ![c].at = "headers", ![c].status = Line("client", c).n]
      /\ TakeLine("client", c)
  BY <1>3 DEF ReadStatus, Item
<1>5. /\ agent'[c].at = "headers" /\ agent'[c].status = First(c).status
      /\ agent'[c].framing = "none" /\ agent'[c].body = <<>> /\ agent'[c].out = agent[c].out
  BY <1>1, <1>3, <1>4 DEF Item, TypeOK, AgentTypeOK
<1>6. /\ ServerRests(c) /\ ToClient(c)' = ToClient(c) /\ Outbox(c)' = Tail(Outbox(c))
      /\ isOpen'["client"][c] = isOpen["client"][c] /\ lost' = lost
      /\ Delivering(c)' <=> Delivering(c)
  BY <1>1, <1>4, TakenRests
<1>7. Stage(c)' /\ Prompt(c)' /\ Answers(c)'
  BY <1>1, <1>5, <1>6, GoesOnKeeps DEF Ended, Is
<1>8. Follows(c, 1)'
  <2> DEFINE q == 0
  <2>1. q \in Nat /\ q < Len(Whole(c)) /\ Follows(c, q)
    BY <1>1, <1>2
  <2>2. Follows(c, q + 1)'
    <3> HIDE DEF q
    <3> QED BY <1>1, <1>6, <2>1, LineFollows DEF ConnInv
  <2> QED BY <2>2
<1>9. First(c)' = First(c) /\ First(c).status # 0 /\ answer' = answer
  BY <1>1, <1>6, ServerRestsSame, FirstWhole DEF ServerRests
<1>10. Outbound(c)'
  BY <1>1, <1>5, <1>8, <1>9 DEF Outbound, Is
<1> QED BY <1>7, <1>10 DEF Kept

LEMMA ReadFramingKeeps ==
  ASSUME TypeOK, NEW c \in Conns, ConnInv(c), ReadFraming(c), UNCHANGED serverVars
  PROVE  Kept(c)
<1> DEFINE headers == Line("client", c)
<1>1. /\ Is(c, "headers") /\ HasLine("client", c) /\ request' = request /\ answer[c] # <<>>
      /\ agent[c].framing = "none" /\ agent[c].body = <<>> /\ agent[c].status # 0
      /\ Follows(c, 1) /\ <<>> \in Seq(Items)
  BY ReadsAnswer DEF ReadFraming, ConnInv, Outbound, Is
<1>2. CASE NoBody(c, headers)
  <2>1. /\ End(c, "done", <<>>) /\ UNCHANGED <<wire, lost>>
        /\ buf' = [buf EXCEPT !["client"][c] = Tail(@)]
    BY <1>2 DEF ReadFraming
  <2> QED BY <1>1, <2>1, EndingKeeps
<1>3. CASE ~NoBody(c, headers)
  <2>1. /\ headers.part \in {"length", "chunked", "close"} /\ TakeLine("client", c)
        /\ agent' = [agent EXCEPT ![c].at = Mode[headers.part], ![c].framing = headers.part,
                                  ![c].n = headers.n]
    BY <1>3 DEF ReadFraming, Mode
  <2>2. /\ ServerRests(c) /\ ToClient(c)' = ToClient(c) /\ Outbox(c)' = Tail(Outbox(c))
        /\ isOpen'["client"][c] = isOpen["client"][c] /\ lost' = lost
        /\ Delivering(c)' <=> Delivering(c)
    BY <1>1, <2>1, TakenRests
  <2>3. headers = Whole(c)[2] /\ Follows(c, 2)'
    <3> DEFINE q == 1
    <3>1. q \in Nat /\ q < Len(Whole(c)) /\ Follows(c, q)
      BY <1>1, FirstWhole
    <3>2. headers = Whole(c)[q + 1] /\ Follows(c, q + 1)'
      <4> HIDE DEF q
      <4> QED BY <1>1, <2>2, <3>1, LineFollows DEF ConnInv
    <3> QED BY <3>2
  <2>4. headers = First(c).framing /\ headers \in Items
    BY <1>1, <2>3, FirstWhole
  <2>5. /\ agent'[c].at = Mode[headers.part] /\ agent'[c].framing = headers.part
        /\ agent'[c].n = headers.n /\ agent'[c].status = agent[c].status
        /\ agent'[c].body = <<>> /\ agent'[c].out = agent[c].out
    <3>1. agent' = [agent EXCEPT ![c] =
                      [agent[c] EXCEPT !.at = Mode[headers.part], !.framing = headers.part,
                                       !.n = headers.n]]
      BY <2>1 DEF TypeOK, AgentTypeOK
    <3>2. agent'[c] = [agent[c] EXCEPT !.at = Mode[headers.part], !.framing = headers.part,
                                       !.n = headers.n]
      BY <3>1 DEF TypeOK, AgentTypeOK
    <3> HIDE DEF headers
    <3> QED BY <1>1, <3>2, Typed DEF Readers
  <2>6. First(c)' = First(c) /\ answer' = answer
    BY <2>2, ServerRestsSame DEF ServerRests
  <2>7. agent'[c].at \in {"vector", "size", "all"}
    BY <2>1, <2>5 DEF Mode
  <2>8. Stage(c)' /\ Prompt(c)' /\ Answers(c)'
    BY <1>1, <2>2, <2>5, <2>7, GoesOnKeeps DEF Ended, Is
  <2>9. CASE headers.part = "length"
    <3>1. agent'[c].at = "vector" /\ agent'[c].framing = "length"
      BY <2>5, <2>9 DEF Mode
    <3>2. First(c).framing = Item("length", agent'[c].n)
      BY <2>4, <2>5, <2>9 DEF Items, Item
    <3>3. Outbound(c)'
      BY <1>1, <2>3, <2>5, <2>6, <3>1, <3>2 DEF Outbound, Is
    <3> QED BY <2>8, <3>3 DEF Kept
  <2>10. CASE headers.part = "close"
    <3>1. agent'[c].at = "all" /\ agent'[c].framing = "close"
      BY <2>5, <2>10 DEF Mode
    <3>2. Outbound(c)'
      BY <1>1, <2>5, <2>6, <3>1 DEF Outbound, Is
    <3> QED BY <2>8, <3>2 DEF Kept
  <2>11. CASE headers.part = "chunked"
    <3>1. agent'[c].at = "size" /\ agent'[c].framing = "chunked"
      BY <2>5, <2>11 DEF Mode
    <3>2. First(c).body \in Seq(Items) /\ Len(First(c).body) > 0
      BY <1>1, <2>4, <2>11, FirstWhole DEF IsChunked
    <3>3. BytesUpTo(First(c).body)[0] = <<>>
      BY <3>2, BytesUpToIs
    <3>4. InChunks(c, 0)'
      BY <2>3, <2>4, <2>5, <2>6, <2>11, <3>1, <3>2, <3>3 DEF InChunks, Is
    <3>5. 0 \in 0..Len(First(c).body)
      BY <3>2
    <3>6. Outbound(c)'
      BY <1>1, <2>5, <2>6, <3>1, <3>4, <3>5 DEF Outbound, Is
    <3> QED BY <2>8, <3>6 DEF Kept
  <2> QED BY <2>1, <2>9, <2>10, <2>11
<1> QED BY <1>2, <1>3

LEMMA ReadVectorKeeps ==
  ASSUME TypeOK, NEW c \in Conns, ConnInv(c), ReadVector(c), UNCHANGED serverVars
  PROVE  Kept(c)
<1> DEFINE b == Outbox(c)
           body == First(c).body
<1>1. /\ Is(c, "vector") /\ Len(b) = agent[c].n /\ End(c, "done", b)
      /\ UNCHANGED <<wire, buf, lost, request>> /\ answer[c] # <<>> /\ agent[c].status # 0
      /\ Follows(c, 2) /\ First(c).framing = Item("length", agent[c].n)
  BY ReadsAnswer DEF ReadVector, HasBytes, Outbox, ConnInv, Outbound, Is
<1>2. /\ body \in Seq(Items) /\ Len(body) = agent[c].n /\ AreBytes(body)
      /\ Len(Whole(c)) = 2 + Len(body) /\ \A i \in 1..Len(body) : Whole(c)[2 + i] = body[i]
  <2>1. First(c).framing.part = "length" /\ First(c).framing.n = agent[c].n
    BY <1>1 DEF Item
  <2> QED BY <1>1, <2>1, FirstWhole
<1>3. b \in Seq(Items)
  BY Typed
<1>4. b = body
  <2>1. Continues(Whole(c), 2, b, ToClient(c))
    BY <1>1 DEF Follows
  <2>2. \A i \in 1..Len(b) : b[i] = body[i]
    <3> HIDE DEF b, body
    <3> QED BY <1>1, <1>2, <1>3, <2>1 DEF Continues, GoesOn, b
  <2> HIDE DEF b, body
  <2> QED BY <1>1, <1>2, <1>3, <2>2, SeqEqual
<1>5. b = Data(body)
  BY <1>2, <1>4, BytesAll
<1> QED BY <1>1, <1>3, <1>5, EndingKeeps

\* The agent is in the middle of a body in chunks.
LEMMA InTheChunks ==
  ASSUME TypeOK, NEW c \in Conns, ConnInv(c), agent[c].at \in {"size", "chunk", "crlf"}
  PROVE  /\ answer[c] # <<>> /\ agent[c].status # 0 /\ ~Ended(c)
         /\ First(c).body \in Seq(Items) /\ Len(First(c).body) \in Nat
         /\ IsChunked(First(c).body) /\ Len(Whole(c)) = 2 + Len(First(c).body)
         /\ \A i \in 1..Len(First(c).body) : Whole(c)[2 + i] = First(c).body[i]
         /\ \E p \in 0..Len(First(c).body) : InChunks(c, p)
<1>1. answer[c] # <<>> /\ agent[c].status # 0 /\ ~Ended(c)
  BY ReadsAnswer DEF ConnInv, Outbound, Is, Ended
<1>2. \E p \in 0..Len(First(c).body) : InChunks(c, p)
  BY <1>1 DEF ConnInv, Outbound
<1>3. First(c).framing.part = "chunked"
  BY <1>2 DEF InChunks
<1> QED BY <1>1, <1>2, <1>3, FirstWhole

\* A line of it that is read is the next of the body, and the agent goes on after it.
LEMMA ChunkLine ==
  ASSUME TypeOK, NEW c \in Conns, ConnInv(c), agent[c].at \in {"size", "crlf"},
         HasLine("client", c), UNCHANGED serverVars, request' = request,
         NEW p \in 0..Len(First(c).body), InChunks(c, p)
  PROVE  /\ p + 1 \in 1..Len(First(c).body) /\ Line("client", c) = First(c).body[p + 1]
         /\ TakeLine("client", c) => Follows(c, 2 + (p + 1))'
<1> DEFINE q == 2 + p
           l == Len(First(c).body)
<1>1. /\ answer[c] # <<>> /\ l \in Nat /\ Len(Whole(c)) = 2 + l
      /\ \A i \in 1..l : Whole(c)[2 + i] = First(c).body[i]
  BY InTheChunks
<1>2. Follows(c, q) /\ p < l /\ p \in Nat
  BY <1>1 DEF InChunks
<1>3. q \in Nat /\ q < Len(Whole(c)) /\ p + 1 \in 1..l /\ q + 1 = 2 + (p + 1)
  <2> HIDE DEF l
  <2> QED BY <1>1, <1>2
<1>4. Line("client", c) = Whole(c)[q + 1]
  <2>1. Outbox(c) \in Seq(Items) /\ Outbox(c) # <<>>
    BY Typed DEF HasLine, Outbox
  <2>2. Continues(Whole(c), q, Outbox(c), ToClient(c))
    BY <1>2 DEF Follows
  <2>3. Outbox(c)[1] = Whole(c)[q + 1]
    <3> HIDE DEF q
    <3> QED BY <1>3, <2>1, <2>2 DEF Continues, GoesOn
  <2> QED BY <2>1, <2>3 DEF Line, Outbox
<1>5. ASSUME TakeLine("client", c)
      PROVE  Follows(c, 2 + (p + 1))'
  <2>1. /\ ServerRests(c) /\ ToClient(c)' = ToClient(c) /\ Outbox(c)' = Tail(Outbox(c))
        /\ Delivering(c)' <=> Delivering(c)
    BY <1>5, TakenRests
  <2>2. Follows(c, q + 1)'
    <3>1. q \in Nat
      BY <1>3
    <3> QED BY <1>1, <1>2, <1>3, <2>1, <3>1, LineFollows DEF ConnInv
  <2> QED BY <1>3, <2>2
<1>6. Line("client", c) = First(c).body[p + 1]
  BY <1>1, <1>3, <1>4
<1> QED BY <1>3, <1>5, <1>6

LEMMA ReadSizeKeeps ==
  ASSUME TypeOK, NEW c \in Conns, ConnInv(c), ReadSize(c), UNCHANGED serverVars
  PROVE  Kept(c)
<1> DEFINE line == Line("client", c)
           items == First(c).body
<1>1. Is(c, "size") /\ HasLine("client", c) /\ request' = request /\ agent[c].at = "size"
  BY DEF ReadSize, Is
<1>2. /\ answer[c] # <<>> /\ agent[c].status # 0 /\ ~Ended(c)
      /\ items \in Seq(Items) /\ Len(items) \in Nat /\ IsChunked(items)
  BY <1>1, InTheChunks
<1>3. PICK p \in 0..Len(items) : InChunks(c, p)
  BY <1>1, InTheChunks
<1>4. /\ p + 1 \in 1..Len(items) /\ line = items[p + 1]
      /\ TakeLine("client", c) => Follows(c, 2 + (p + 1))'
  BY <1>1, <1>3, ChunkLine
<1>5. /\ First(c).framing.part = "chunked" /\ agent[c].framing = "chunked"
      /\ agent[c].body = BytesUpTo(items)[p]
  BY <1>3 DEF InChunks
<1>6. agent[c].body \in Seq(Items)
  BY Typed
<1>7. line.part = "size" => BytesUpTo(items)[p + 1] = BytesUpTo(items)[p]
  <2>1. p < Len(items)
    BY <1>2, <1>4
  <2> QED BY <1>2, <1>4, <2>1, BytesSkip
<1>8. CASE line.part = "size" /\ line.n = 0
  <2>1. /\ End(c, "done", agent[c].body) /\ UNCHANGED <<wire, lost>>
        /\ buf' = [buf EXCEPT !["client"][c] = Tail(@)]
    BY <1>8 DEF ReadSize
  <2>2. p + 1 = Len(items)
    BY <1>2, <1>4, <1>8 DEF IsChunked
  <2>3. agent[c].body = Data(items)
    BY <1>5, <1>7, <1>8, <2>2 DEF Data
  <2> QED BY <1>1, <1>2, <1>6, <2>1, <2>3, EndingKeeps
<1>9. CASE line.part # "size"
  <2>1. End(c, "failed", agent[c].body) /\ UNCHANGED <<wire, buf, lost>>
    BY <1>9 DEF ReadSize, Fail
  <2> QED BY <1>1, <1>2, <1>6, <2>1, EndingKeeps
<1>10. CASE line.part = "size" /\ line.n > 0
  <2>1. /\ TakeLine("client", c)
        /\ agent' = [agent EXCEPT ![c].at = "chunk", ![c].n = line.n]
    BY <1>10 DEF ReadSize
  <2>2. /\ ServerRests(c) /\ ToClient(c)' = ToClient(c) /\ Outbox(c)' = Tail(Outbox(c))
        /\ isOpen'["client"][c] = isOpen["client"][c] /\ lost' = lost
        /\ Delivering(c)' <=> Delivering(c)
    BY <1>1, <2>1, TakenRests
  <2>3. /\ agent'[c].at = "chunk" /\ agent'[c].n = line.n /\ agent'[c].out = agent[c].out
        /\ agent'[c].status = agent[c].status /\ agent'[c].framing = agent[c].framing
        /\ agent'[c].body = agent[c].body
    <3> HIDE DEF line
    <3> QED BY <2>1 DEF TypeOK, AgentTypeOK
  <2>4. First(c)' = First(c) /\ answer' = answer
    BY <2>2, ServerRestsSame DEF ServerRests
  <2>5. Stage(c)' /\ Prompt(c)' /\ Answers(c)'
    BY <1>2, <2>2, <2>3, GoesOnKeeps
  <2>6. /\ (p + 1) + line.n < Len(items)
        /\ \A j \in 1..line.n : items[(p + 1) + j].part = "byte"
    <3> DEFINE i == p + 1
    <3>1. i \in DOMAIN items /\ items[i].part = "size" /\ items[i].n > 0 /\ line.n = items[i].n
      BY <1>2, <1>4, <1>10
    <3>2. /\ i + items[i].n < Len(items)
          /\ \A j \in 1..items[i].n : items[i + j].part = "byte"
      <4> HIDE DEF i, items
      <4> QED BY <1>2, <3>1 DEF IsChunked
    <3> QED BY <3>1, <3>2
  <2>7. line.n \in Nat /\ p + 1 < Len(items) /\ p + 1 \in 0..Len(items)
    <3>1. line \in Items
      BY <1>2, <1>4
    <3>2. line.n \in Nat
      BY <3>1 DEF Items
    <3> HIDE DEF line
    <3> QED BY <1>2, <1>4, <2>6, <3>2
  <2>8. InChunks(c, p + 1)'
    <3>1. agent'[c].body = BytesUpTo(items)[p + 1]
      BY <1>5, <1>7, <1>10, <2>3
    <3> QED BY <1>4, <1>5, <2>1, <2>3, <2>4, <2>6, <2>7, <3>1 DEF InChunks
  <2>9. Outbound(c)'
    BY <1>2, <2>3, <2>4, <2>7, <2>8 DEF Outbound, Is
  <2> QED BY <2>5, <2>9 DEF Kept
<1>11. line.part = "size" => line.n = 0 \/ line.n > 0
  BY DEF ReadSize
<1> QED BY <1>8, <1>9, <1>10, <1>11

LEMMA ReadChunkEndKeeps ==
  ASSUME TypeOK, NEW c \in Conns, ConnInv(c), ReadChunkEnd(c), UNCHANGED serverVars
  PROVE  Kept(c)
<1> DEFINE line == Line("client", c)
           items == First(c).body
<1>1. Is(c, "crlf") /\ HasLine("client", c) /\ request' = request /\ agent[c].at = "crlf"
  BY DEF ReadChunkEnd, Is
<1>2. /\ answer[c] # <<>> /\ agent[c].status # 0 /\ ~Ended(c)
      /\ items \in Seq(Items) /\ Len(items) \in Nat /\ IsChunked(items)
  BY <1>1, InTheChunks
<1>3. PICK p \in 0..Len(items) : InChunks(c, p)
  BY <1>1, InTheChunks
<1>4. /\ p + 1 \in 1..Len(items) /\ line = items[p + 1]
      /\ TakeLine("client", c) => Follows(c, 2 + (p + 1))'
  BY <1>1, <1>3, ChunkLine
<1>5. /\ First(c).framing.part = "chunked" /\ agent[c].framing = "chunked"
      /\ agent[c].body = BytesUpTo(items)[p]
  BY <1>3 DEF InChunks
<1>6. CASE line.part # "crlf"
  <2>1. /\ End(c, "failed", agent[c].body) /\ UNCHANGED <<wire, buf, lost>>
        /\ agent[c].body \in Seq(Items)
    BY <1>6, Typed DEF ReadChunkEnd, Fail
  <2> QED BY <1>1, <1>2, <2>1, EndingKeeps
<1>7. CASE line.part = "crlf"
  <2>1. TakeLine("client", c) /\ agent' = [agent EXCEPT ![c].at = "size"]
    BY <1>7 DEF ReadChunkEnd
  <2>2. /\ ServerRests(c) /\ ToClient(c)' = ToClient(c) /\ Outbox(c)' = Tail(Outbox(c))
        /\ isOpen'["client"][c] = isOpen["client"][c] /\ lost' = lost
        /\ Delivering(c)' <=> Delivering(c)
    BY <1>1, <2>1, TakenRests
  <2>3. /\ agent'[c].at = "size" /\ agent'[c].out = agent[c].out
        /\ agent'[c].status = agent[c].status /\ agent'[c].framing = agent[c].framing
        /\ agent'[c].body = agent[c].body
    BY <2>1 DEF TypeOK, AgentTypeOK
  <2>4. First(c)' = First(c) /\ answer' = answer
    BY <2>2, ServerRestsSame DEF ServerRests
  <2>5. Stage(c)' /\ Prompt(c)' /\ Answers(c)'
    BY <1>2, <2>2, <2>3, GoesOnKeeps
  <2>6. p + 1 < Len(items) /\ p + 1 \in 0..Len(items) /\ p < Len(items)
    <3>1. p + 1 < Len(items)
      BY <1>2, <1>4, <1>7 DEF IsChunked
    <3> QED BY <1>2, <1>4, <3>1
  <2>7. BytesUpTo(items)[p + 1] = BytesUpTo(items)[p]
    BY <1>2, <1>4, <1>7, <2>6, BytesSkip
  <2>8. InChunks(c, p + 1)'
    BY <1>4, <1>5, <2>1, <2>3, <2>4, <2>6, <2>7 DEF InChunks, Is
  <2>9. Outbound(c)'
    BY <1>2, <2>3, <2>4, <2>6, <2>8 DEF Outbound, Is
  <2> QED BY <2>5, <2>9 DEF Kept
<1> QED BY <1>6, <1>7

LEMMA ReadChunkKeeps ==
  ASSUME TypeOK, NEW c \in Conns, ConnInv(c), ReadChunk(c), UNCHANGED serverVars
  PROVE  Kept(c)
<1> DEFINE items == First(c).body
           taken == Outbox(c)
           l == Len(items)
<1>1. /\ Is(c, "chunk") /\ agent[c].at = "chunk" /\ request' = request
      /\ Len(taken) = agent[c].n /\ TakeBytes("client", c)
      /\ agent' = [agent EXCEPT ![c].at = "crlf", ![c].body = @ \o taken]
  BY DEF ReadChunk, Is, HasBytes, Outbox
<1>2. /\ answer[c] # <<>> /\ agent[c].status # 0 /\ ~Ended(c)
      /\ items \in Seq(Items) /\ l \in Nat /\ Len(Whole(c)) = 2 + l
      /\ \A i \in 1..l : Whole(c)[2 + i] = items[i]
  BY <1>1, InTheChunks
<1>3. PICK p \in 0..l : InChunks(c, p)
  BY <1>1, InTheChunks
<1>4. PICK n \in Nat : n = agent[c].n
  BY Typed
<1>5. /\ First(c).framing.part = "chunked" /\ agent[c].framing = "chunked"
      /\ agent[c].body = BytesUpTo(items)[p] /\ Follows(c, 2 + p) /\ p + n < l
      /\ \A j \in 1..n : items[p + j].part = "byte"
  BY <1>1, <1>3, <1>4 DEF InChunks
<1>6. taken \in Seq(Items) /\ Len(taken) = n
  BY <1>1, <1>4, Typed
<1>7. \A j \in 1..n : taken[j] = items[p + j]
  <2> SUFFICES ASSUME NEW j \in 1..n PROVE taken[j] = items[p + j]
    OBVIOUS
  <2>1. Continues(Whole(c), 2 + p, taken, ToClient(c))
    BY <1>5 DEF Follows
  <2>2. p + j \in 1..l /\ (2 + p) + j = 2 + (p + j) /\ (2 + p) + j <= 2 + l
    <3> HIDE DEF l
    <3> QED BY <1>2, <1>5
  <2>3. taken[j] = Whole(c)[(2 + p) + j]
    <3> HIDE DEF taken, l
    <3> QED BY <1>2, <1>6, <2>1, <2>2 DEF Continues, GoesOn
  <2> QED BY <1>2, <2>2, <2>3
<1>8. BytesUpTo(items)[p + n] = BytesUpTo(items)[p] \o taken
  <2> HIDE DEF items, taken
  <2>1. p + Len(taken) <= Len(items)
    BY <1>2, <1>5, <1>6
  <2> QED BY <1>2, <1>5, <1>6, <1>7, <2>1, BytesTaken
<1>9. /\ ServerRests(c) /\ ToClient(c)' = ToClient(c) /\ Outbox(c)' = <<>>
      /\ isOpen'["client"][c] = isOpen["client"][c] /\ lost' = lost
      /\ Delivering(c)' <=> Delivering(c)
  BY <1>1, TakenRests
<1>10. /\ agent'[c].at = "crlf" /\ agent'[c].out = agent[c].out
       /\ agent'[c].status = agent[c].status /\ agent'[c].framing = agent[c].framing
       /\ agent'[c].body = agent[c].body \o taken
  <2> HIDE DEF taken
  <2> QED BY <1>1 DEF TypeOK, AgentTypeOK
<1>11. First(c)' = First(c) /\ answer' = answer
  BY <1>9, ServerRestsSame DEF ServerRests
<1>12. Stage(c)' /\ Prompt(c)' /\ Answers(c)'
  BY <1>2, <1>9, <1>10, GoesOnKeeps
<1>13. Follows(c, 2 + (p + n))'
  <2> DEFINE q == 2 + p
  <2>1. q \in Nat /\ q + n <= Len(Whole(c)) /\ q + n = 2 + (p + n)
    <3> HIDE DEF l
    <3> QED BY <1>2, <1>5
  <2>2. Follows(c, q + n)'
    <3> HIDE DEF taken
    <3> QED BY <1>2, <1>5, <1>6, <1>9, <2>1, BytesFollow DEF ConnInv, taken
  <2> QED BY <2>1, <2>2
<1>14. p + n \in 0..l
  <2> HIDE DEF l
  <2> QED BY <1>2, <1>5
<1>15. InChunks(c, p + n)'
  BY <1>5, <1>8, <1>10, <1>11, <1>13 DEF InChunks, Is
<1>16. Outbound(c)'
  BY <1>2, <1>10, <1>11, <1>14, <1>15 DEF Outbound, Is
<1> QED BY <1>12, <1>16 DEF Kept

LEMMA AgentKeeps ==
  ASSUME TypeOK, NEW c \in Conns, ConnInv(c), AgentDoes(c)
  PROVE  Kept(c)
<1>1. UNCHANGED serverVars
  BY DEF AgentDoes
<1> QED
  BY <1>1, SendKeeps, SentKeeps, HangupKeeps, AgentReceiveKeeps, CutShortKeeps,
     ReadStatusKeeps, ReadFramingKeeps, ReadVectorKeeps, ReadSizeKeeps, ReadChunkKeeps,
     ReadChunkEndKeeps
  DEF AgentDoes, AgentNext, AgentStep

\* The network breaks: what is on its way may be cut, and nothing is delivered.
LEMMA NetworkKeeps ==
  ASSUME TypeOK, NEW c \in Conns, ConnInv(c), NetworkDoes(c)
  PROVE  Kept(c)
<1>1. /\ buf' = buf /\ isOpen' = isOpen /\ c \in lost' /\ UNCHANGED <<serverVars, agentVars>>
      /\ ServerRests(c) /\ Outbox(c)' = Outbox(c) /\ ~Delivering(c)'
  BY BreakEffect DEF NetworkDoes, TypeOK, ServerRests, serverVars, agentVars, Outbox, Delivering
<1>2. PICK i \in 0..Len(ToClient(c)) : ToClient(c)' = SubSeq(ToClient(c), 1, i)
  BY BreakEffect DEF NetworkDoes, TypeOK, ToClient, Ends
<1>3. /\ agent' = agent /\ request' = request /\ worker' = worker /\ answer' = answer
      /\ silent' = silent
      /\ First(c)' = First(c) /\ Whole(c)' = Whole(c)
      /\ (Reads(c)' <=> Reads(c)) /\ (Asked(c)' <=> Asked(c)) /\ (ByAgent(c)' <=> ByAgent(c))
  BY <1>1, ServerRestsSame DEF serverVars, agentVars
<1>4. Stage(c)'
  <2>1. ToClient(c) = <<>> => ToClient(c)' = <<>>
    BY <1>2
  <2> QED BY <1>1, <1>3, <2>1 DEF ConnInv, Stage, At, Ended
<1>5. Prompt(c)'
  BY <1>1, <1>3 DEF ConnInv, Prompt, Is
<1>6. Answers(c)'
  BY <1>3 DEF ConnInv, Answers
<1>7. Outbound(c)'
  <2>1. ASSUME answer[c] # <<>>, NEW q \in Nat, Follows(c, q)
        PROVE  Follows(c, q)'
    <3> DEFINE whole == Whole(c)
               b == Outbox(c)
               w == ToClient(c)
               w2 == ToClient(c)'
    <3>1. whole \in Seq(Items) /\ b \in Seq(Items) /\ w \in Seq(Items)
      BY <2>1, Typed, FirstTyped, WholeItems DEF ConnInv
    <3>2. Continues(whole, q, b, w) /\ q <= Len(whole)
      BY <2>1 DEF Follows
    <3>3. Continues(whole, q, b, w2)
      <4> HIDE DEF whole, b, w, w2
      <4> QED BY <1>2, <3>1, <3>2, StreamCut DEF w, w2
    <3> QED BY <1>1, <1>3, <3>2, <3>3 DEF Follows
  <2>2. ASSUME answer[c] # <<>>, NEW p \in 0..Len(First(c).body), InChunks(c, p)
        PROVE  InChunks(c, p)'
    <3>1. 2 + p \in Nat
      OBVIOUS
    <3> QED BY <1>3, <2>1, <2>2, <3>1 DEF InChunks, Is
  <2> QED BY <1>3, <2>1, <2>2 DEF ConnInv, Outbound, Is
<1> QED BY <1>4, <1>5, <1>6, <1>7 DEF Kept

-----------------------------------------------------------------------------
(***************************************************************************)
(* The theorems.                                                           *)
(***************************************************************************)

LEMMA InitConnInv ==
  ASSUME Init, NEW c \in Conns
  PROVE  ConnInv(c)
<1>1. TypeOK
  BY InitTypeOK
<1>2. /\ worker[c] = [at |-> "waiting", n |-> 0, out |-> <<>>]
      /\ answer[c] = <<>> /\ given[c] = <<>> /\ silent = {} /\ lost = {}
      /\ Inbox(c) = <<>> /\ Outbox(c) = <<>> /\ ToServer(c) = <<>> /\ ToClient(c) = <<>>
      /\ isOpen["server"][c] = TRUE /\ isOpen["client"][c] = TRUE
  BY DEF Init, WireInit, ServerInit, Ends, Inbox, Outbox, ToServer, ToClient
<1>3. agent[c] = [at |-> "sending", out |-> request[c].items, status |-> 0,
                  framing |-> "none", n |-> 0, body |-> <<>>]
  BY DEF Init, AgentInit
<1>4. Wanted(c) \in Seq(Items) /\ agent[c].out = Wanted(c)
  BY <1>1, <1>3, Typed DEF Wanted
<1>5. Inbound(c)
  <2> DEFINE l == Len(Wanted(c))
  <2>1. l \in Nat /\ Len(agent[c].out) = l
    BY <1>4
  <2>2. \A i \in 1..l : agent[c].out[i] = Wanted(c)[l - l + i]
    <3>1. \A i \in 1..l : l - l + i = i
      BY <2>1
    <3> QED BY <1>4, <3>1
  <2>3. Taken[worker[c].at] = 0
    BY <1>2 DEF Taken
  <2>4. Continues(Wanted(c), 0, <<>>, <<>>)
    BY DEF Continues, GoesOn
  <2>5. 0 + Len(<<>>) + Len(<<>>) + l = l
    BY <2>1
  <2> QED BY <1>2, <2>1, <2>2, <2>3, <2>4, <2>5 DEF Inbound
<1>6. Parsed(c) /\ Given(c)
  BY <1>2 DEF Parsed, Given, At
<1>7. Stage(c)
  <2>1. worker[c].at = "waiting" /\ worker[c].out = <<>> /\ agent[c].at = "sending"
    BY <1>2, <1>3
  <2>2. isOpen["server"][c] = (worker[c].at # "closed") /\ isOpen["client"][c] = ~Ended(c)
    BY <1>2, <2>1 DEF Ended
  <2> QED BY <1>2, <2>1, <2>2 DEF Stage, At
<1>8. Prompt(c)
  BY <1>2, <1>3 DEF Prompt, Reads, Is
<1>9. Answers(c)
  BY <1>2 DEF Answers
<1>10. Outbound(c)
  BY <1>2, <1>3 DEF Outbound, Is
<1> QED BY <1>5, <1>6, <1>7, <1>8, <1>9, <1>10 DEF ConnInv

LEMMA InitIInv == Init => IInv
BY InitTypeOK, InitConnInv DEF IInv

LEMMA StepConnInv ==
  ASSUME IInv, NEW c \in Conns, ServerDoes(c) \/ AgentDoes(c) \/ NetworkDoes(c),
         NEW d \in Conns
  PROVE  ConnInv(d)'
<1>1. TypeOK /\ ConnInv(c) /\ ConnInv(d)
  BY DEF IInv
<1>2. CASE d # c
  BY <1>1, <1>2, StepFrame, SameInv DEF Others
<1>3. ConnInv(c)'
  <2>1. Inbound(c)' /\ Parsed(c)' /\ Given(c)'
    BY <1>1, ServerInbound, AgentInbound, NetworkInbound
  <2>2. Kept(c)
    BY <1>1, ServerKeeps, AgentKeeps, NetworkKeeps DEF Kept
  <2> QED BY <2>1, <2>2 DEF Kept, ConnInv
<1> QED BY <1>2, <1>3

LEMMA StepIInv == IInv /\ [Next]_vars => IInv'
<1> SUFFICES ASSUME IInv, [Next]_vars PROVE IInv'
  OBVIOUS
<1>1. TypeOK'
  BY StepTypeOK DEF IInv
<1>2. CASE Next
  BY <1>1, <1>2, StepConnInv DEF Next, IInv
<1>3. CASE UNCHANGED vars
  <2>1. \A d \in Conns : Same(d)
    BY <1>3 DEF vars, wireVars, serverVars, agentVars, Same
  <2> QED BY <1>1, <2>1, SameInv DEF IInv
<1> QED BY <1>2, <1>3

\* The handler is only ever called for a request that arrived whole, and gets
\* the bytes that its Content-Length counts, however the stream was cut up, and
\* wherever it broke (request's constructor, http.server.cpp).
THEOREM HandlerGetsWholeRequest == Spec => []HandlerSeesWholeRequest
<1>1. IInv => HandlerSeesWholeRequest
  BY DEF IInv, ConnInv, Given, HandlerSeesWholeRequest, Wanted
<1> QED BY InitIInv, StepIInv, <1>1, PTL DEF Spec

\* A user agent's request that fails without a status line met a network
\* failure, a time out, a server that was stopping, or a handler that did not
\* answer: service() turns every fostlib exception into a response.
THEOREM AgentGetsAnswer == Spec => []AgentIsAnswered
<1>1. IInv => AgentIsAnswered
  BY DEF IInv, ConnInv, Prompt, Asked, Wanted, AgentIsAnswered
<1> QED BY InitIInv, StepIInv, <1>1, PTL DEF Spec

\* The body that body() returns, when the response frames it, is the body of the
\* first response, for any bodies, and any sizes of their chunks; a second
\* response after it, or a stream cut short, does not show in it.
THEOREM BodyComesWhole == Spec => []BodyIsWhole
<1>1. IInv => BodyIsWhole
  BY DEF IInv, ConnInv, Outbound, First, BodyIsWhole
<1> QED BY InitIInv, StepIInv, <1>1, PTL DEF Spec
=============================================================================
