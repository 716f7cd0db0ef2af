-------------------------------- MODULE Http --------------------------------
(***************************************************************************)
(* The HTTP server and its clients together: a connection is made by the   *)
(* fostlib user agent or by another client of any kind.                    *)
(***************************************************************************)
EXTENDS HttpServer, HttpUserAgent

vars == <<wireVars, serverVars, agentVars>>

TypeOK == WireTypeOK /\ ServerTypeOK /\ AgentTypeOK

Init == WireInit /\ ServerInit /\ AgentInit

ServerDoes(c) == ServerNext(c) /\ UNCHANGED agentVars
AgentDoes(c) == AgentNext(c) /\ UNCHANGED serverVars
NetworkDoes(c) == Break(c) /\ UNCHANGED <<serverVars, agentVars>>

Next == \E c \in Conns : ServerDoes(c) \/ AgentDoes(c) \/ NetworkDoes(c)

\* A write is sure to go on when the other end reads, or has closed: else it
\* may wait for ever for room.
Listens(c) == Awaits(c) \/ ~isOpen["client"][c]
Heard(c) == Reading(c) \/ ~isOpen["server"][c]

\* Workers are threads and go on; the handler answers, throws or returns some
\* time; clients go on, and those that are not user agents hang up some time.
\* A read ends when what it waits for has come or the other end has closed:
\* that the network broke it may never learn.  No timer need run out, and the
\* network need not break.
WorkerFairness(c) ==
  /\ WF_vars(c \notin lost /\ ReadStep(c) /\ UNCHANGED agentVars)
  /\ WF_vars((RespondStep(c) \/ \E r \in Responses : Respond(c, r))
               /\ UNCHANGED agentVars)
  /\ WF_vars(Listens(c) /\ ServerWrites(c) /\ UNCHANGED agentVars)

ClientFairness(c) ==
  /\ WF_vars(c \notin lost /\ (AgentStep(c) \/ Hangup(c)) /\ UNCHANGED serverVars)
  /\ WF_vars(Heard(c) /\ Send(c) /\ UNCHANGED serverVars)

Spec ==
  /\ Init /\ [][Next]_vars
  /\ \A c \in Conns : WorkerFairness(c) /\ ClientFairness(c)

-----------------------------------------------------------------------------
(***************************************************************************)
(* Properties.                                                             *)
(***************************************************************************)

\* The handler is only ever called for a request that arrived whole, and gets
\* exactly the bytes that its Content-Length counts: one that is cut short, by
\* the client, the network or a timer, is refused.
HandlerSeesWholeRequest ==
  \A c \in Conns : given[c] # <<>> =>
    LET items == request[c].items IN
      /\ items[1].part = "request"
      /\ given[c] = <<SubSeq(items, 3, 2 + items[2].n)>>
      /\ Len(given[c][1]) = items[2].n

\* A body that the response frames, by its length or in chunks, is the body of
\* the first response or is not returned: not when the connection is cut, and
\* not when the handler threw after it had answered, so that a second response
\* follows the first.
BodyIsWhole ==
  \A c \in Conns :
    ByAgent(c) /\ Is(c, "done") /\ agent[c].framing \in {"length", "chunked"} =>
      agent[c].body = Data(answer[c][1].body)

\* A user agent whose request, with its length, ends without even a status line
\* met a network failure, a time out, a server that was stopping, or a handler
\* that did not answer: a fostlib exception always becomes a response.  (A body
\* sent without its length is not read, and the answer may overtake it.)
AgentIsAnswered ==
  \A c \in Conns :
    /\ ByAgent(c) /\ request[c].items[2].part = "length"
    /\ Is(c, "failed") /\ agent[c].status = 0
    => c \in lost \cup silent

\* The server writes its answer while the user agent still writes a body that
\* the server does not read.
BothWrite(c) == Unsent(c) /\ Is(c, "sending") /\ agent[c].out # <<>>

\* A connection that a worker has taken is over some time at both ends, for any
\* client and any end of the handler, without a time out, unless the network
\* breaks: neither end waits for the other for ever.  The one way in which they
\* may is that both write and neither reads.
ExchangeEnds ==
  \A c \in Conns :
    ~At(c, "waiting") ~>
      (At(c, "closed") /\ Ended(c)) \/ c \in lost \/ []BothWrite(c)
=============================================================================
