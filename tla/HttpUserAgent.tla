--------------------------- MODULE HttpUserAgent ---------------------------
(***************************************************************************)
(* http::user_agent (http.useragent.cpp): a request is written, the status *)
(* line and headers of the response are read, and body() reads the body as *)
(* the method, the status and the headers frame it.  Clients that are not  *)
(* this user agent send what they like and close when they like.           *)
(***************************************************************************)
EXTENDS HttpWire

CONSTANT
  Requests   \* the requests that a connection may carry

\* A request, by this user agent or another client: the method matters to HEAD.
RequestType == [by : {"agent", "other"}, method : {"HEAD", "GET"}, items : Seq(Items)]

\* The user agent writes a request line, headers, and as many bytes as a length
\* in them says.  Only a length counts the bytes that follow.
ASSUME RequestsAssumption ==
  /\ Requests \subseteq RequestType
  /\ \A r \in Requests :
       /\ \A i \in DOMAIN r.items :
            r.items[i].part \in {"chunked", "close"} => r.items[i].n = 0
       /\ r.by = "agent" =>
            /\ Len(r.items) >= 2 /\ r.items[1].part = "request"
            /\ r.items[2].part = "length" => Len(r.items) = 2 + r.items[2].n

VARIABLES
  request,  \* the request of each connection
  agent     \* what is left to send, where the reader is, what it has read

agentVars == <<request, agent>>

AgentStages == {"sending", "status", "headers", "vector", "size", "chunk",
                "crlf", "all", "done", "failed"}
Framings == {"none", "length", "chunked", "close"}

AgentTypeOK ==
  /\ request \in [Conns -> Requests]
  /\ agent \in [Conns -> [at : AgentStages, out : Seq(Items), status : Nat,
                          framing : Framings, n : Nat, body : Seq(Items)]]

AgentInit ==
  /\ request \in [Conns -> Requests]
  /\ agent = [c \in Conns |->
                [at |-> "sending", out |-> request[c].items, status |-> 0,
                 framing |-> "none", n |-> 0, body |-> <<>>]]

-----------------------------------------------------------------------------
Is(c, stage) == agent[c].at = stage
ByAgent(c) == request[c].by = "agent"
Ended(c) == agent[c].at \in {"done", "failed"}

\* The response, or the exception, goes to the caller and the connection is
\* destroyed.
End(c, stage, body) ==
  /\ agent' = [agent EXCEPT ![c].at = stage, ![c].body = body]
  /\ isOpen' = [isOpen EXCEPT !["client"][c] = FALSE]

Send(c) ==
  /\ Is(c, "sending") /\ agent[c].out # <<>>
  /\ \/ /\ Put("client", c, <<Head(agent[c].out)>>)
        /\ agent' = [agent EXCEPT ![c].out = Tail(@)]
        /\ UNCHANGED <<buf, isOpen, lost>>
     \/ /\ CanFailToWrite("client", c)
        /\ End(c, "failed", <<>>)
        /\ UNCHANGED <<wire, buf, lost>>
  /\ UNCHANGED request

Sent(c) ==
  /\ ByAgent(c)
  /\ Is(c, "sending") /\ agent[c].out = <<>>
  /\ agent' = [agent EXCEPT ![c].at = "status"]
  /\ UNCHANGED request
  /\ UNCHANGED wireVars

\* Another client gives up or has enough; it reads nothing.
Hangup(c) ==
  /\ ~ByAgent(c)
  /\ Is(c, "sending")
  /\ End(c, "done", <<>>)
  /\ UNCHANGED <<wire, buf, lost, request>>

-----------------------------------------------------------------------------
LineStages == {"status", "headers", "size", "crlf"}

Awaits(c) ==
  \/ agent[c].at \in LineStages /\ ~HasLine("client", c)
  \/ agent[c].at \in {"vector", "chunk"} /\ ~HasBytes("client", c, agent[c].n)
  \/ Is(c, "all")

AgentReceive(c) ==
  /\ Awaits(c)
  /\ Receive("client", c)
  /\ UNCHANGED agentVars

Fail(c) == End(c, "failed", agent[c].body) /\ UNCHANGED <<wire, buf>>

\* Mutant: the reads of bytes, too, return what there is when they end early.
CutShort_keeps(c) ==
  \/ /\ agent[c].at \in {"all", "vector", "chunk"}
     /\ End(c, "done", agent[c].body \o buf["client"][c])
     /\ UNCHANGED <<wire, buf>>
  \/ agent[c].at \in LineStages /\ Fail(c)

\* A read ends early: an exception, except that the read of everything returns
\* what there is.
CutShort(c) ==
  \/ /\ Is(c, "all")
     /\ End(c, "done", buf["client"][c])
     /\ UNCHANGED <<wire, buf>>
  \/ ~Is(c, "all") /\ Fail(c)

AgentEof(c) ==
  /\ Awaits(c) /\ AtEof("client", c)
  /\ CutShort(c)
  /\ UNCHANGED <<lost, request>>

AgentTimeOut(c) ==
  /\ Awaits(c)
  /\ lost' = lost \cup {c}
  /\ CutShort(c)
  /\ UNCHANGED request

\* A line that does not parse as what is expected throws.
ReadStatus(c) ==
  /\ Is(c, "status") /\ HasLine("client", c)
  /\ \/ /\ Line("client", c).part = "status"
        /\ agent' = [agent EXCEPT ![c].at = "headers", ![c].status = Line("client", c).n]
        /\ TakeLine("client", c)
     \/ /\ Line("client", c).part # "status"
        /\ Fail(c) /\ UNCHANGED lost
  /\ UNCHANGED request

\* Whether the body is known to be empty: to HEAD, by its status, or by length.
NoBody(c, headers) ==
  \/ request[c].method = "HEAD"
  \/ agent[c].status = 304
  \/ headers.part = "length" /\ headers.n = 0

\* How body() frames a body that is not empty.
Mode == [length |-> "vector", chunked |-> "size", close |-> "all"]

\* The constructor reads the headers, and body() chooses.
ReadFraming(c) ==
  /\ Is(c, "headers") /\ HasLine("client", c)
  /\ LET headers == Line("client", c) IN
       /\ headers.part \in DOMAIN Mode
       /\ IF NoBody(c, headers)
            THEN /\ End(c, "done", <<>>)
                 /\ buf' = [buf EXCEPT !["client"][c] = Tail(@)]
                 /\ UNCHANGED <<wire, lost>>
            ELSE /\ agent' = [agent EXCEPT ![c].at = Mode[headers.part],
                                           ![c].framing = headers.part,
                                           ![c].n = headers.n]
                 /\ TakeLine("client", c)
  /\ UNCHANGED request

ReadVector(c) ==
  /\ Is(c, "vector") /\ HasBytes("client", c, agent[c].n)
  /\ End(c, "done", buf["client"][c])
  /\ UNCHANGED <<wire, buf, lost, request>>

\* A chunk size of zero ends the body; trailing headers are not read.
ReadSize(c) ==
  /\ Is(c, "size") /\ HasLine("client", c)
  /\ LET line == Line("client", c) IN
       \/ /\ line.part = "size" /\ line.n > 0
          /\ agent' = [agent EXCEPT ![c].at = "chunk", ![c].n = line.n]
          /\ TakeLine("client", c)
       \/ /\ line.part = "size" /\ line.n = 0
          /\ End(c, "done", agent[c].body)
          /\ buf' = [buf EXCEPT !["client"][c] = Tail(@)]
          /\ UNCHANGED <<wire, lost>>
       \/ /\ line.part # "size"
          /\ Fail(c) /\ UNCHANGED lost
  /\ UNCHANGED request

ReadChunk(c) ==
  /\ Is(c, "chunk") /\ HasBytes("client", c, agent[c].n)
  /\ agent' = [agent EXCEPT ![c].at = "crlf", ![c].body = @ \o buf["client"][c]]
  /\ TakeBytes("client", c)
  /\ UNCHANGED request

\* The line after the chunk must be empty.
ReadChunkEnd(c) ==
  /\ Is(c, "crlf") /\ HasLine("client", c)
  /\ \/ /\ Line("client", c).part = "crlf"
        /\ agent' = [agent EXCEPT ![c].at = "size"]
        /\ TakeLine("client", c)
     \/ /\ Line("client", c).part # "crlf"
        /\ Fail(c) /\ UNCHANGED lost
  /\ UNCHANGED request

AgentStep(c) ==
  \/ Sent(c) \/ AgentReceive(c) \/ AgentEof(c)
  \/ ReadStatus(c) \/ ReadFraming(c) \/ ReadVector(c)
  \/ ReadSize(c) \/ ReadChunk(c) \/ ReadChunkEnd(c)

AgentNext(c) == Send(c) \/ AgentStep(c) \/ AgentTimeOut(c) \/ Hangup(c)
=============================================================================
