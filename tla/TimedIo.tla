------------------------------ MODULE TimedIo ------------------------------
(***************************************************************************)
(* The blocking operations of a network_connection: each one starts a      *)
(* deadline timer and an asynchronous operation on the socket's private    *)
(* io_context, then runs that io_context until both handlers have run      *)
(* (timeout_wrapper, connection.cpp).  The connect loop and the reads are  *)
(* the callers.                                                            *)
(*                                                                         *)
(* A read is a composite operation: its condition (a terminator found, a   *)
(* number of bytes transferred) may need several partial reads, and only   *)
(* its last one invokes read_done.  What is abstracted: the bytes (a read  *)
(* counts partial reads), the timer's duration, and TLS.                   *)
(*                                                                         *)
(* The names that Connection has too begin with Timed here: one module     *)
(* proves theorems about both.                                             *)
(***************************************************************************)
EXTENDS Naturals, Sequences

CONSTANTS
  MaxEndpoints,  \* bound on the endpoints the resolver returns
  Needs,         \* numbers of partial reads that a read may need
  MaxOps         \* bound on the operations of one behaviour

ASSUME TimedIoAssumption ==
  /\ MaxEndpoints \in Nat
  /\ Needs \subseteq Nat \ {0}
  /\ MaxOps \in Nat

VARIABLES
  phase,         \* "resolving", "connecting", "open" or "failed"
  left,          \* endpoints the connect loop has not tried yet
  connectError,  \* connect's local connect_error
  operation,     \* the operation the calling thread is blocked in
  got,           \* partial reads done by the composite operation
  timer,         \* the deadline timer of the current timeout_wrapper
  io,            \* the reactor's view of the socket operation
  queue,         \* handlers ready to run, in the order run() takes them
  timeoutResult, \* timeout_result of the current timeout_wrapper
  readResult,    \* read_result of the current timeout_wrapper
  outcome,       \* how the last read ended for its caller
  peer           \* "up", or "closed" once the other end closed

timedVars == <<phase, left, connectError, operation, got, timer, io, queue,
          timeoutResult, readResult, outcome, peer>>

wrapper == <<timer, io, queue, timeoutResult, readResult, got>>

Errors == {"none", "ok", "aborted", "eof", "refused"}
Handler == [what : {"timer", "io"}, err : Errors \ {"none"}, id : Nat]
NoOperation(id) == [kind |-> "none", need |-> 1, id |-> id]

TimedTypeOK ==
  /\ phase \in {"resolving", "connecting", "open", "failed"}
  /\ left \in 0..MaxEndpoints
  /\ connectError \in Errors \cup {"host_not_found"}
  /\ operation \in [kind : {"none", "connect", "read"}, need : Needs \cup {1}, id : 0..MaxOps]
  /\ got \in Nat
  /\ timer \in {"idle", "waiting", "expired", "cancelled"}
  /\ io \in {"idle", "waiting", "queued"}
  /\ queue \in Seq(Handler)
  /\ timeoutResult \in Errors
  /\ readResult \in Errors
  /\ outcome \in {"none", "ok", "unexpected_eof", "socket_error"}
  /\ peer \in {"up", "closed"}

TimedInit ==
  /\ phase = "resolving"
  /\ left = 0
  /\ connectError = "host_not_found"
  /\ operation = NoOperation(0)
  /\ got = 0
  /\ timer = "idle"
  /\ io = "idle"
  /\ queue = <<>>
  /\ timeoutResult = "none"
  /\ readResult = "none"
  /\ outcome = "none"
  /\ peer = "up"

-----------------------------------------------------------------------------
(***************************************************************************)
(* The calling thread.                                                     *)
(***************************************************************************)

\* Mutant: the wrapper's constructor forgets to start the timer.
Begin_noTimer(kind, need) ==
  /\ operation.kind = "none"
  /\ operation.id < MaxOps
  /\ operation' = [kind |-> kind, need |-> need, id |-> operation.id + 1]
  /\ timer' = "idle"
  /\ io' = "waiting"
  /\ got' = 0
  /\ timeoutResult' = "none"
  /\ readResult' = "none"
  /\ UNCHANGED queue

\* The constructor of a timeout_wrapper and the asynchronous operation that
\* is started under it: the timer and the socket are both registered.
Begin(kind, need) ==
  /\ operation.kind = "none"
  /\ operation.id < MaxOps
  /\ operation' = [kind |-> kind, need |-> need, id |-> operation.id + 1]
  /\ timer' = "waiting"
  /\ io' = "waiting"
  /\ got' = 0
  /\ timeoutResult' = "none"
  /\ readResult' = "none"
  /\ UNCHANGED queue

\* resolver.resolve(): host_not_found throws, any other failure leaves no
\* endpoint to try.
Resolve ==
  /\ phase = "resolving"
  /\ \/ /\ phase' = "connecting"
        /\ left' \in 0..MaxEndpoints
     \/ /\ phase' = "failed"
        /\ UNCHANGED left
  /\ UNCHANGED <<connectError, operation, wrapper, outcome, peer>>

\* Mutant: the loop does not stop at the resolver's last endpoint.
ConnectNext_pastEnd ==
  /\ phase = "connecting"
  /\ connectError # "ok"
  /\ left' = left - 1
  /\ Begin("connect", 1)
  /\ UNCHANGED <<phase, connectError, outcome, peer>>

\* One turn of connect's loop: close the socket, try the next endpoint.
ConnectNext ==
  /\ phase = "connecting"
  /\ connectError # "ok"
  /\ left > 0
  /\ left' = left - 1
  /\ Begin("connect", 1)
  /\ UNCHANGED <<phase, connectError, outcome, peer>>

\* The loop ends: connected, or connect_failure is thrown.
ConnectDone ==
  /\ phase = "connecting"
  /\ operation.kind = "none"
  /\ connectError = "ok" \/ left = 0
  /\ phase' = IF connectError = "ok" THEN "open" ELSE "failed"
  /\ UNCHANGED <<left, connectError, operation, wrapper, outcome, peer>>

\* The application reads from the connection.
StartRead(need) ==
  /\ phase = "open"
  /\ Begin("read", need)
  /\ outcome' = "none"
  /\ UNCHANGED <<phase, left, connectError, peer>>

\* handle_error(): the exception a read's caller sees for an error code.
HandleError(error) ==
  CASE error = "ok"  -> "ok"
    [] error = "eof" -> "unexpected_eof"
    [] OTHER         -> "socket_error"

\* Mutant: the thread leaves run() once the operation's own handler has run.
OutOfWork_leavesTimer ==
  /\ readResult # "none"
  /\ io # "waiting"

\* run() has nothing left to wait for: no registered operation, no handler.
OutOfWork ==
  /\ timer # "waiting"
  /\ io # "waiting"
  /\ queue = <<>>

\* complete(): run() returns and read_result is copied out.
Complete ==
  /\ operation.kind # "none"
  /\ OutOfWork
  /\ operation' = NoOperation(operation.id)
  /\ CASE operation.kind = "connect" -> /\ connectError' = readResult
                                 /\ UNCHANGED outcome
       [] operation.kind = "read"    -> /\ outcome' = HandleError(readResult)
                                 /\ UNCHANGED connectError
  /\ UNCHANGED <<phase, left, wrapper, peer>>

-----------------------------------------------------------------------------
(***************************************************************************)
(* The reactor: events that make a handler ready.                          *)
(***************************************************************************)

Ready(what, err) == [what |-> what, err |-> err, id |-> operation.id]

TimerExpires ==
  /\ timer = "waiting"
  /\ timer' = "expired"
  /\ queue' = Append(queue, Ready("timer", "ok"))
  /\ UNCHANGED <<phase, left, connectError, operation, got, io, timeoutResult,
                 readResult, outcome, peer>>

\* The socket operation that is registered ends, and its handler is queued:
\* from here on cancelling the socket no longer reaches it.
SocketEvent(err) ==
  /\ io = "waiting"
  /\ io' = "queued"
  /\ queue' = Append(queue, Ready("io", err))
  /\ UNCHANGED <<phase, left, connectError, operation, got, timer, timeoutResult,
                 readResult, outcome, peer>>

DataArrives == operation.kind = "read" /\ peer = "up" /\ SocketEvent("ok")
EofArrives  == operation.kind = "read" /\ peer = "closed" /\ SocketEvent("eof")
Connected   == operation.kind = "connect" /\ SocketEvent("ok")
Refused     == operation.kind = "connect" /\ SocketEvent("refused")

PeerCloses ==
  /\ phase = "open"
  /\ peer = "up"
  /\ peer' = "closed"
  /\ UNCHANGED <<phase, left, connectError, operation, wrapper, outcome>>

-----------------------------------------------------------------------------
(***************************************************************************)
(* The handlers, run one at a time by the thread that is inside run().     *)
(***************************************************************************)

\* Mutant: the expiry is noted and the socket is not cancelled.
TimedOut_noCancel(h) ==
  /\ h.what = "timer"
  /\ queue' = Tail(queue)
  /\ timeoutResult' = h.err
  /\ UNCHANGED <<io, timer, readResult, got>>

\* timedout(): unless the wait was cancelled, cancel the socket.  That ends
\* an operation the reactor still has registered and no other.
TimedOut(h) ==
  /\ h.what = "timer"
  /\ IF h.err # "aborted" /\ io = "waiting"
       THEN /\ io' = "queued"
            /\ queue' = Append(Tail(queue), Ready("io", "aborted"))
       ELSE /\ queue' = Tail(queue)
            /\ UNCHANGED io
  /\ timeoutResult' = h.err
  /\ UNCHANGED <<timer, readResult, got>>

\* The composite operation's own handler: more is needed, read again.
ReadSome(h) ==
  /\ h.what = "io"
  /\ h.err = "ok"
  /\ got + 1 < operation.need
  /\ got' = got + 1
  /\ io' = "waiting"
  /\ queue' = Tail(queue)
  /\ UNCHANGED <<timer, timeoutResult, readResult>>

\* read_done() and connect_done(): cancel the timer, keep the result.  A wait
\* that has already expired is not affected by the cancel.
ReadDone(h) ==
  /\ h.what = "io"
  /\ h.err # "ok" \/ got + 1 >= operation.need
  /\ got' = IF h.err = "ok" THEN got + 1 ELSE got
  /\ io' = "idle"
  /\ IF timer = "waiting"
       THEN /\ timer' = "cancelled"
            /\ queue' = Append(Tail(queue), Ready("timer", "aborted"))
       ELSE /\ queue' = Tail(queue)
            /\ UNCHANGED timer
  /\ readResult' = h.err
  /\ UNCHANGED timeoutResult

RunHandler ==
  /\ operation.kind # "none"
  /\ queue # <<>>
  /\ \/ TimedOut(Head(queue))
     \/ ReadSome(Head(queue))
     \/ ReadDone(Head(queue))
  /\ UNCHANGED <<phase, left, connectError, operation, outcome, peer>>

-----------------------------------------------------------------------------
Thread  == Resolve \/ ConnectNext \/ ConnectDone \/ Complete
Reactor == DataArrives \/ EofArrives \/ Connected \/ Refused

TimedNext ==
  \/ Thread
  \/ \E need \in Needs : StartRead(need)
  \/ TimerExpires
  \/ Reactor
  \/ PeerCloses
  \/ RunHandler

\* The calling thread keeps running, timers expire, and the end of a closed
\* stream is reported.  Nothing is assumed of the other end, which may never
\* answer and never send, and the application need not read.
Fairness ==
  /\ WF_timedVars(Thread)
  /\ WF_timedVars(TimerExpires)
  /\ WF_timedVars(RunHandler)
  /\ WF_timedVars(EofArrives)

TimedSpec == TimedInit /\ [][TimedNext]_timedVars /\ Fairness

-----------------------------------------------------------------------------
(***************************************************************************)
(* Properties.                                                             *)
(***************************************************************************)

\* A handler never outlives the operation it was created for: whatever is
\* queued belongs to the operation in progress, and when none is in progress
\* nothing is queued or registered.  The handlers hold references into the
\* timeout_wrapper, a local variable of the operation's function.
NoStaleHandler ==
  /\ \A i \in DOMAIN queue : queue[i].id = operation.id /\ operation.kind # "none"
  /\ operation.kind = "none" => timer # "waiting" /\ io = "idle"

\* An operation that fails with operation_aborted did so because its own
\* deadline passed: the timer of an earlier operation never cancels it.
NoSpuriousTimeout ==
  readResult = "aborted" => timer = "expired"

\* The socket is waiting, and the timer has already been used up.
Unguarded == io = "waiting" /\ timer = "expired" /\ timeoutResult = "ok"

\* The deadline is lost only by a composite read of several partial reads, and
\* only once one of them has completed: a connect, and a read that a single
\* partial read satisfies, stay under their timer until they end.
OnlyCompositeReadsUnguarded ==
  Unguarded => operation.kind = "read" /\ got > 0 /\ got < operation.need

\* Connecting ends, with an open connection or an exception, whatever the
\* endpoints do: every attempt is bounded by its timer.
ConnectEnds == phase = "connecting" ~> phase \in {"open", "failed"}

\* A read returns to its caller, with data or an error, unless it has lost its
\* deadline in the race OnlyCompositeReadsUnguarded describes.
ReadEndsUnlessUnguarded == operation.kind = "read" ~> (operation.kind = "none" \/ Unguarded)

\* The change log's claim that reads time out: every read returns to its caller,
\* even if the other end sends nothing.
ReadsTimeOut == operation.kind = "read" ~> operation.kind = "none"
=============================================================================
