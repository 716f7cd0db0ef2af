----------------------------- MODULE HttpServer -----------------------------
(***************************************************************************)
(* http::server (http.server.cpp): the accept loop and the workers that it *)
(* gives the connections to.  A worker reads the request, has the          *)
(* application's handler answer it, and closes the connection.             *)
(*                                                                         *)
(* The handler is external.  It answers at most once, with a MIME whose    *)
(* headers frame its body as it is sent, and then returns, or throws a     *)
(* fostlib exception, or another one; it may throw or return without       *)
(* having answered.  An exception that is not fostlib's leaves service().  *)
(***************************************************************************)
EXTENDS HttpWire

CONSTANTS
  Responses,  \* what the handler may answer
  ErrorBody   \* the body of the server's own error pages

\* The bytes among the first i items of a body, for each i, and all of them.
BytesUpTo(items) ==
  LET bytes[i \in 0..Len(items)] ==
        IF i = 0 THEN <<>>
        ELSE IF items[i].part = "byte" THEN Append(bytes[i - 1], items[i])
        ELSE bytes[i - 1]
  IN bytes
Data(items) == BytesUpTo(items)[Len(items)]

\* A response: its status, the framing that its headers announce, its body.
ResponseType == [status : Nat \ {0}, framing : Items, body : Seq(Items)]

AreBytes(items) == \A i \in DOMAIN items : items[i].part = "byte"

\* A body in chunks: a size, that many bytes, a line end, and so on up to a
\* size of zero.
IsChunked(items) ==
  /\ items # <<>>
  /\ \A i \in DOMAIN items :
       /\ items[i].part = "size" /\ items[i].n > 0 =>
            /\ i + items[i].n < Len(items)
            /\ \A j \in 1..items[i].n : items[i + j].part = "byte"
       /\ items[i].part = "size" /\ items[i].n = 0 => i = Len(items)
       /\ items[i].part = "crlf" => i < Len(items)

ASSUME ResponsesAssumption ==
  /\ Responses \subseteq ResponseType
  /\ \A r \in Responses :
       /\ r.framing.part = "length" => Len(r.body) = r.framing.n /\ AreBytes(r.body)
       /\ r.framing.part = "chunked" => IsChunked(r.body)
  /\ ErrorBody \in Seq(Items) /\ AreBytes(ErrorBody)

VARIABLES
  accepting,  \* the accept loop runs
  worker,     \* where the worker of each connection is
  answer,     \* the first response of each connection, or a sequence of none
  given,      \* what the handler was given as the body of the request
  silent      \* connections whose worker gave no answer, or gave up reading

serverVars == <<accepting, worker, answer, given, silent>>

Stages == {"waiting", "first", "headers", "body", "handling", "respond",
           "refuse", "error", "closed"}

ServerTypeOK ==
  /\ accepting \in BOOLEAN
  /\ worker \in [Conns -> [at : Stages, n : Nat, out : Seq(Seq(Items))]]
  /\ answer \in [Conns -> Seq(ResponseType)]
  /\ \A c \in Conns : Len(answer[c]) <= 1
  /\ given \in [Conns -> Seq(Seq(Items))]
  /\ silent \subseteq Conns

ServerInit ==
  /\ accepting = TRUE
  /\ worker = [c \in Conns |-> [at |-> "waiting", n |-> 0, out |-> <<>>]]
  /\ answer = [c \in Conns |-> <<>>]
  /\ given = [c \in Conns |-> <<>>]
  /\ silent = {}

-----------------------------------------------------------------------------
At(c, stage) == worker[c].at = stage
Goto(c, stage) == worker' = [worker EXCEPT ![c].at = stage]

\* Mutant: what is in the buffer is taken off the length, headers included.
Expect_twice(c, n) ==
  worker' = [worker EXCEPT ![c].at = "body", ![c].n = n - Len(buf["server"][c])]

Expect(c, n) == worker' = [worker EXCEPT ![c].at = "body", ![c].n = n]

\* service() returns and destroys the request, and with it the connection.
Closed(c) == isOpen' = [isOpen EXCEPT !["server"][c] = FALSE]

\* Mutant: the request is leaked.
Finish_leak(c) ==
  /\ Goto(c, "closed")
  /\ UNCHANGED wireVars

Finish(c) ==
  /\ Goto(c, "closed")
  /\ Closed(c)
  /\ UNCHANGED <<wire, buf, lost>>

\* The accept loop: terminate_lambda is asked after each accept, and when it
\* says so the socket is deleted and the loop left, else a worker has it.
Accept(c) ==
  /\ accepting /\ At(c, "waiting")
  /\ \/ Goto(c, "first") /\ UNCHANGED <<accepting, wireVars, silent>>
     \/ /\ accepting' = FALSE
        /\ silent' = silent \cup {c}
        /\ Finish(c)
  /\ UNCHANGED <<answer, given>>

-----------------------------------------------------------------------------
(***************************************************************************)
(* The constructor of a request.                                           *)
(***************************************************************************)

\* The worker's read waits for the socket.
Reading(c) ==
  \/ worker[c].at \in {"first", "headers"} /\ ~HasLine("server", c)
  \/ At(c, "body") /\ ~HasBytes("server", c, worker[c].n)

ServerReceive(c) ==
  /\ Reading(c)
  /\ Receive("server", c)
  /\ UNCHANGED serverVars

\* The first line: one that is not UTF-8 makes the read itself throw, before
\* the try block that sends a 400.
ReadFirstLine(c) ==
  /\ At(c, "first") /\ HasLine("server", c)
  /\ \/ /\ Line("server", c).part = "request"
        /\ Goto(c, "headers") /\ TakeLine("server", c) /\ UNCHANGED silent
     \/ /\ Line("server", c).part \notin {"request", "notUtf8"}
        /\ Goto(c, "refuse") /\ TakeLine("server", c) /\ UNCHANGED silent
     \/ /\ Line("server", c).part = "notUtf8"
        /\ Finish(c) /\ silent' = silent \cup {c}
  /\ UNCHANGED <<accepting, answer, given>>

\* The headers up to the empty line.  Content-Length must be a number, and one
\* that is negative or beyond memory throws from std::vector.
ReadHeaders(c) ==
  /\ At(c, "headers") /\ HasLine("server", c)
  /\ LET headers == Line("server", c) IN
       \/ /\ headers.part = "length" /\ headers.n > 0
          /\ Expect(c, headers.n) /\ TakeLine("server", c)
          /\ UNCHANGED <<given, silent>>
       \/ /\ \/ headers.part \in {"close", "chunked"}
             \/ headers.part = "length" /\ headers.n = 0
          /\ Goto(c, "handling") /\ TakeLine("server", c)
          /\ given' = [given EXCEPT ![c] = <<(<<>>)>>]
          /\ UNCHANGED silent
       \/ /\ headers.part \notin {"length", "close", "chunked", "hugeLength"}
          /\ Goto(c, "refuse") /\ TakeLine("server", c)
          /\ UNCHANGED <<given, silent>>
       \/ /\ headers.part = "hugeLength"
          /\ Finish(c) /\ silent' = silent \cup {c}
          /\ UNCHANGED given
  /\ UNCHANGED <<accepting, answer>>

ReadBody(c) ==
  /\ At(c, "body") /\ HasBytes("server", c, worker[c].n)
  /\ Goto(c, "handling") /\ TakeBytes("server", c)
  /\ given' = [given EXCEPT ![c] = <<buf["server"][c]>>]
  /\ UNCHANGED <<accepting, answer, silent>>

\* Mutant: the constructor goes on with the bytes that did arrive.
ReadFails_handled(c) ==
  /\ UNCHANGED <<wire, buf, isOpen>>
  /\ Goto(c, "handling")
  /\ given' = [given EXCEPT ![c] = <<buf["server"][c]>>]

\* A read throws: outside the try block for the first line, inside it for the
\* rest.
ReadFails(c) ==
  /\ \/ At(c, "first") /\ Goto(c, "closed") /\ Closed(c)
     \/ ~At(c, "first") /\ Goto(c, "refuse") /\ UNCHANGED isOpen
  /\ UNCHANGED <<wire, buf, given>>

ServerEof(c) ==
  /\ Reading(c) /\ AtEof("server", c)
  /\ ReadFails(c)
  /\ silent' = IF At(c, "first") THEN silent \cup {c} ELSE silent
  /\ UNCHANGED <<lost, accepting, answer>>

ServerTimeOut(c) ==
  /\ Reading(c)
  /\ ReadFails(c)
  /\ silent' = silent \cup {c}
  /\ UNCHANGED <<lost, accepting, answer>>

-----------------------------------------------------------------------------
(***************************************************************************)
(* Responses.                                                              *)
(***************************************************************************)

\* respond_on_socket(): the first line and the headers in one write, then
\* each block of the MIME.
Blocks(r) ==
  <<(<<Item("status", r.status), r.framing>>)>>
    \o IF r.body = <<>> THEN <<>> ELSE <<r.body>>

ErrorPage(code) ==
  [status |-> code, framing |-> Item("length", Len(ErrorBody)), body |-> ErrorBody]

\* The request is asked to respond, and goes on in stage next.
Begin(c, r, next) ==
  /\ worker' = [worker EXCEPT ![c].at = next, ![c].out = Blocks(r)]
  /\ answer' = IF answer[c] = <<>> THEN [answer EXCEPT ![c] = <<r>>] ELSE answer
  /\ UNCHANGED <<accepting, given, silent>>
  /\ UNCHANGED wireVars

Unsent(c) == worker[c].out # <<>>

WriteBlock(c) ==
  /\ Unsent(c)
  /\ Put("server", c, Head(worker[c].out))
  /\ worker' = [worker EXCEPT ![c].out = Tail(@)]
  /\ UNCHANGED <<accepting, answer, given, silent, buf, isOpen, lost>>

\* Mutant: service() ends the request without the error page.
Throws_unanswered(c) ==
  /\ Finish(c)
  /\ UNCHANGED <<accepting, answer, given, silent>>

\* A fostlib exception out of the handler: service() sends a 500, whatever has
\* been sent before.
Throws(c) == Begin(c, ErrorPage(500), "error")

\* A write throws.  It is the handler that sees this when it answers; service()
\* absorbs it when it is an error page that cannot be sent.
WriteFails(c) ==
  /\ Unsent(c) /\ CanFailToWrite("server", c)
  /\ IF At(c, "respond")
       THEN Throws(c)
       ELSE /\ worker' = [worker EXCEPT ![c].at = "closed", ![c].out = <<>>]
            /\ Closed(c)
            /\ UNCHANGED <<wire, buf, lost, accepting, answer, given, silent>>

\* The constructor sends the 400, once.
Refuse(c) ==
  /\ At(c, "refuse") /\ answer[c] = <<>>
  /\ Begin(c, ErrorPage(400), "refuse")

Respond(c, r) ==
  /\ At(c, "handling")
  /\ Begin(c, r, "respond")

HandlerThrows(c) ==
  /\ worker[c].at \in {"handling", "respond"} /\ ~Unsent(c)
  /\ Throws(c)

\* The handler returns, or throws what service() does not catch, or service()
\* has sent its error page: the request is destroyed.
ServiceEnds(c) ==
  /\ \/ worker[c].at \in {"handling", "respond", "error"}
     \/ At(c, "refuse") /\ answer[c] # <<>>
  /\ ~Unsent(c)
  /\ Finish(c)
  /\ silent' = IF At(c, "handling") THEN silent \cup {c} ELSE silent
  /\ UNCHANGED <<accepting, answer, given>>

ReadStep(c) ==
  \/ ServerReceive(c) \/ ReadFirstLine(c) \/ ReadHeaders(c) \/ ReadBody(c)
  \/ ServerEof(c)

RespondStep(c) == Refuse(c) \/ HandlerThrows(c) \/ ServiceEnds(c)

ServerWrites(c) == WriteBlock(c) \/ WriteFails(c)

ServerNext(c) ==
  \/ Accept(c)
  \/ ReadStep(c)
  \/ ServerTimeOut(c)
  \/ (\E r \in Responses : Respond(c, r))
  \/ RespondStep(c)
  \/ ServerWrites(c)
=============================================================================
