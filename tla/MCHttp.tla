------------------------------- MODULE MCHttp -------------------------------
(* One connection, for workers share nothing but the accept loop: by the user *)
(* agent, or by another client whose request is bad in one of the ways that   *)
(* the server tells apart.  The handler's responses use each framing, with    *)
(* bodies of up to two bytes and of two chunks.                               *)
EXTENDS Http

CONSTANT conn

MCConns == {conn}

Byte == Item("byte", 1)
Byte2 == Item("byte", 2)
Request(headers, body) ==
  [by |-> "agent", method |-> "GET", items |-> <<Item("request", 0), headers>> \o body]
Bad(items) == [by |-> "other", method |-> "GET", items |-> items]
BadHeaders(headers, body) == Bad(<<Item("request", 0), headers>> \o body)

MCRequests ==
  {Request(Item("length", 2), <<Byte, Byte2>>),
   Request(Item("close", 0), <<Byte>>),
   [Request(Item("length", 0), <<>>) EXCEPT !.method = "HEAD"],
   BadHeaders(Item("length", 2), <<Byte>>),
   BadHeaders(Item("length", 1), <<Byte, Byte2>>),
   BadHeaders(Item("chunked", 0), <<Item("size", 1), Byte>>),
   BadHeaders(Item("badHeaders", 0), <<>>),
   BadHeaders(Item("hugeLength", 0), <<>>),
   Bad(<<Item("badRequest", 0)>>),
   Bad(<<Item("notUtf8", 0)>>)}

MCErrorBody == <<Item("byte", 9)>>
MCResponses ==
  {[status |-> 200, framing |-> Item("length", 2), body |-> <<Byte, Byte2>>],
   [status |-> 200, framing |-> Item("close", 0), body |-> <<Byte>>],
   [status |-> 200, framing |-> Item("chunked", 0),
    body |-> <<Item("size", 1), Byte, Item("crlf", 0),
               Item("size", 2), Byte2, Byte, Item("crlf", 0), Item("size", 0)>>],
   [status |-> 304, framing |-> Item("close", 0), body |-> <<>>]}
=============================================================================
