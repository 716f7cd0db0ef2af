# fost-internet in TLA+

fost-internet is a C++ library of Internet clients and servers on top of Boost
Asio: TCP connections with time outs and TLS, an HTTP server and user agent, a
JSON user agent with test expectations, SMTP and POP3 clients, MIME messages,
URLs and headers, and *hod*, a packet protocol for peers. This directory holds
TLA+ specifications of its stateful parts, the TLC configurations that check
them, and theorems, in eight modules, that TLAPS proves.

Paths below are relative to `Cpp/fost-inet` unless they start with `Cpp`.

## The system

| Component | State | Operations | Hard behaviour |
|---|---|---|---|
| `network_connection`, time outs (`connection.cpp:169-365`) | deadline timer, socket operation, the handlers queued in a private `io_context`, two results | connect to the next endpoint, read, time out, complete | the timer's handler and the operation's handler race; both refer to a local variable |
| `network_connection`, stream (`connection.cpp:369-536`) | `m_input_buffer` | read a line, a vector, everything; SOCKS 4 handshake; write | each read may take more than it needs, fail part-way, and be followed by another |
| hod (`Cpp/fost-hod`, `Cpp/include/fost/hod`) | peer version, socket, the decoder of the packet being read | send a packet, receive loop, dispatch, negotiate a version, close | two coroutines at each of two ends; a stream that arrives in parts and may break |
| JSON user agent (`http.cache.cpp`) | the map of expectations, shared by all threads; two settings | `expect`, `clear_expectations`, `request_json`, the redirect loop | the map's lambda makes requests under its mutex; an entry is used, reused and replaced |
| SMTP client (`smtp.cpp`) | `can_send`, the connection | connect, `send`, destroy | a call of `send` after one that threw; late answers; destructors that throw |
| POP3 (`pop3.cpp`) | the loop's number, the session | log in, retrieve, delete, log in again, quit | message numbers that outlive their session; overlapping sessions; mail that arrives or goes |
| HTTP server (`http.server.cpp`) | the acceptor, one worker per connection | accept, read a request, respond, error pages | requests cut short; handlers that throw after they answered; nobody catches all exceptions |
| HTTP user agent (`http.useragent.cpp`) | the connection, the response being read | send a request, read a status, headers, and a body in one of four framings | responses cut short, followed by a second one, or ahead of the request |
| MIME (`mime.cpp`) | the iterators of a message and the buffers that their blocks point into | first block, next block, end | a block is a pair of pointers into memory that is used again |
| Headers (`headers.cpp`) | a multimap sorted by name | add, set, set a sub-value, parse, print, fold | names that differ by case, repeated headers, headers the server adds itself |
| URLs and query strings (`url.cpp`, `url-query_string.cpp`) | host, path, query, fragment; a query keeps its fields and a cached text of them | join a reference, set a path, normalise; append, remove, as text | dot segments; a cache that has to be discarded; text that is printed and not parsed |
| FOST authentication (`http.authentication.cpp`) | headers of the request; two clocks | sign, verify | what is signed is not what is sent: defaults, repeated calls, intermediaries, the clock |
| Addresses, hosts | none | parse, format | boundary cases of text |

The connection carries everything: SMTP, POP3 and HTTP call its operators `<<`
and `>>`, which block the calling thread while they run the connection's own
`io_context`. hod uses Asio itself, with coroutines. The JSON user agent calls the
HTTP user agent. HTTP and SMTP send MIME messages block by block. The POP3
client and the SMTP client share nothing but the connection.

What makes each part correct:

* **time outs**: an operation ends, with its result or because of its own
  deadline and no other; no handler runs after its operation is over.
* **stream**: bytes are handed over once and in order by whatever mix of reads,
  including after failures.
* **hod**: packets are dispatched whole, in order and by a handler that knows
  them; if one end goes the other notices.
* **JSON user agent**: answers come in the order in which they were set, none is
  lost, redirects end.
* **SMTP**: what `send` reports as sent was spooled, whole and once; nothing is spooled in part.
* **POP3**: only what the application approved is removed, everything is read
  once, newest first.
* **HTTP**: the handler gets whole requests, the caller whole bodies; each
  request gets an answer; the two ends do not wait for each other.
* **MIME**: the bytes sent are the message.
* **requests**: the handler sees the address and headers that the application
  asked for, and a valid signature exactly when there is one in time.

## The modules

| Module | Models | Checked by | Proofs |
|---|---|---|---|
| `FifoStream` | what any stream promises: items once, in order | refined by `Connection` | |
| `TimedIo` | `timeout_wrapper`, `connect`, the reads as composite operations | `MCTimedIo` | `ConnectionProofs` |
| `Connection` | `m_input_buffer` and the operators `>>`, SOCKS | `MCConnection` | `ConnectionProofs` |
| `HodPacket` | size sequences | `HodConnection` | `HodConnectionProofs` |
| `HodConnection` | two ends of a hod connection | `MCHodConnection` | `HodConnectionProofs` |
| `UaCache` | `request_json`, expectations, redirects | `MCUaCache` | `UaCacheProofs` |
| `Smtp` | client and server of an SMTP session | `MCSmtp`, in `Mail` | `SmtpProofs` |
| `Pop3` | `iterate_mailbox`, its sessions and the mailbox | `MCPop3` | `Pop3Proofs` |
| `HttpWire` | connections in units of lines, header blocks and bytes | in `Http` | |
| `HttpServer`, `HttpUserAgent` | the two ends of an HTTP exchange | in `Http` | |
| `Http` | their composition, with clients that are not this user agent | `MCHttp` | `HttpProofs` |
| `MimeEnvelope` | MIME iterators and the sender's loop | `MCMimeEnvelope`, in `Mail` | `MailProofs` |
| `Mail` | `smtp_client::send`: `Smtp` with the text that `MimeEnvelope` produces and headers that are folded | `MCMail` | `MailProofs` |
| `Sublists` | the elements of a list at some of its places | in `Request` | |
| `Url` | paths, joining, query strings | in `Request` | `RequestProofs` |
| `Headers` | `headers_base` and the contents of MIME headers | in `Request` | `RequestProofs` |
| `FostAuthentication` | signer and verifier | in `Request` | `RequestProofs` |
| `Request` | a request from the application to the handler, over these three | `MCRequest` | `RequestProofs` |

### TimedIo

`timer`, `io`, `queue`, `timeoutResult` and `readResult` are a `timeout_wrapper` and
Asio's view of it. `Begin` is its constructor with the asynchronous call that
follows, `TimedOut` is `timedout`, `ReadDone` is `read_done` and `connect_done`,
`Complete` is `complete`. Asio is external: `TimerExpires` and `SocketEvent` queue a
handler, `ReadSome` is the handler of a composite read that goes on to its next
partial read, `RunHandler` is `run()` taking the first of the queue. The two facts
about Asio that matter are that cancelling reaches only an operation or a wait
that is still registered, and that `run()` returns when nothing is registered or
queued. Bytes are not modelled; a read counts its partial reads.

### Connection and FifoStream

`wire` is what the socket holds, `buffer` is `m_input_buffer`, `consumed` is what has
been taken out. A read starts (`StartLine`, `StartVector`, `StartAll`), waits while its
condition fails (`Waiting`), receives any part of what is there (`Receive`) and ends
with what it asked for (`FinishLine`, `FinishVector`, `FinishSocks`) or early (`Eof`,
`TimeOut`). A line that is not UTF-8 is refused after its bytes were taken
(`connection.cpp:486`); `Utf8` says which lines are. `LoopWant` is the argument of `transfer_at_least` for a vector, with the
subtraction of two `size_t` as the code does it, modulo `SizeMod`. The module
implements `FifoStream` with `received <- consumed`.

### HodPacket and HodConnection

`SizeSequence` is `out_packet::size_sequence`; `Digits`, `IsSize` and `AddDigit` are
`decoder::read_size`, which `ReadSizeByte` and `ReadDigit` run one byte at a time.
`Send` and `WriteSome` are the two halves of `out_packet::operator()`: Asio writes a
packet in parts. `ReadControl`, `Dispatch` and `ReadFails` are the rest of a turn of
`receive_loop`. The application is external, and the repository has neither one nor tests of
hod; a discipline is assumed of it: it announces its highest version first, sends packets at
the version it has negotiated, from one coroutine, and none whose size `size_sequence`
refuses. When the network breaks, the ends in `deaf` have not been told, and some may never be
(`Report`); until then an end goes on reading nothing and writing to nobody (`WriteLost`).

### UaCache

A key is what `cache_key` computes. `items` and `used` are the entry of a key, and
expectations are numbered as they are set. The map (`f5::tsmap`) is external: its
mutex is held while a lambda runs, which is one step for an answer and lasts
through the network requests of an entry that has run out (`locked`). `Follow` is
a redirect, `Finish` any other end. `Hang` is a request that waits in a write, which has no
time out, or in a read that has lost its own (finding 1): it may end or not.

### Smtp

Client and server are connected by two queues. The client's steps are the
commands of the constructor, `send` and the destructor, each of which starts
when the check before it has passed; `WrongReply` and `NoReply` are a check that
throws. The server is external: it keeps a session, takes one line at a time and may
refuse any of them. A message's text is a sequence of pieces, written one by one
(`WritePiece`), which may break off between any two.

### Mail

The composition of `Smtp` and `MimeEnvelope`, and what `send` has between them: the
message's headers go to a stringstream and are folded (`Fold`, `FoldEnds`: one turn of
the loop in `fold()`), then each block of the iterator is written before the next is
asked for. `mails` says what the messages are, `email` of `Smtp` selects the tree of
`MimeEnvelope`. Every step of the session is `Smtp`'s own action; a step of the text
is one of `Smtp` and one of `MimeEnvelope` at once, or of the latter alone. The module
implements `Smtp` with `outbox` the pieces of each message as its structure requires
them, as far as its files can be read: that is where it is checked that the iterator's output is
the message. `Original` is the message with its files whole. `hung` says that no time out ends
what the client waits for (`Hang`); the server may still end it.

### Pop3

A session (`mailbox`) is the list of messages that the server showed when it
started. `Login`, `Retrieve`, `Delete`, `Relogin`, `ReloginShrunk` and `Done` follow the
loop; `Fail` is an exception of any command. The server removes messages when a
QUIT arrives (`Update`), which may be late or lost (`LoseQuit`). `MessageCount` is what the
constructor reads from STAT's reply, whose status it does not check: 0 from an error
(`misread` remembers that).

### HttpWire, HttpServer, HttpUserAgent and Http

The unit of the wire is what a parser tells apart: a first line, a header block,
a chunk size, a byte. A read of a line takes one unit, a read of n bytes is over
only when the buffer holds exactly n: the result of the subtraction that
`Connection` models in full. The worker goes through the stages of `service()` and
of the request's constructor, the user agent through those of `operator()`, the
response's constructor and `body()`. `silent` and `lost` remember why an answer may
be missing. The handler is external; it answers at most once and may throw a
fostlib exception, another one, or none, before or after that. A write (`ServerWrites`, `Send`)
puts all of a block on the wire whenever it happens; that it may have to wait for room, for ever
if the other end does not read, is in the fairness of `Http`.

### MimeEnvelope

A message is a tree of parts. An iterator has memory (a file's buffer, an
envelope's `internal_buffer`) and shows a block; a block names a node whose memory
it points into, and `Write` outputs what that memory holds by then. A part has `size` blocks, of which its
iterator comes to `n`: a file's iterator ends without an error wherever its stream fails. `ReadEnvelope`
is the `switch` of `mime_envelope_iterator::operator()`. In the code it calls the
iterator of an attachment, which may be an envelope too; here it is given what that
call leaves, and the three levels of a tree are three definitions (`Read`,
`ReadAttachment`, `ReadPart`), without recursion.

### Url, Headers, FostAuthentication and Request

`Url` has text split where the code splits it: a path into segments at its slashes,
a query into fields. `RemoveDots` is the loop of `normalise_path` with its restart
at `begin()`, a recursive function of the list and the position; `Slashslash` is the
lambda before and after it. `Formalised` and `Directory` are the two halves of
`url::pathspec`. `Join` is the constructor that takes a base and a reference, part by
part. A query is `m_query` with `m_string`, the cached text. What a grammar accepts
is modelled by the cases that differ: a pair, a bare name, and characters that
the encoder leaves alone and the parser rejects (`Mangled`) or takes for others
(`Misprinted`: an `=` in a name). A query's text is its fields as they are once decoded; that a
text which is parsed and printed again may be encoded otherwise is left out.

`Headers` has names by rank, so that two spellings of a name are two names of one
rank; `Before`, `Equal` and `After` are what `lower_bound` and `upper_bound` divide the
multimap into; like what is left of a path or a query, each is a list's elements at some
places (`Sublists`). The text of a content is a sequence of words, and `Value` is what
`mime_headers::value` makes of it again.

`FostAuthentication` has `SignedDocument` as `do_authn` computes it and `VerifiedDocument`
as the verifier does; they are different functions of the request, as in the code. A time stamp
that cannot be parsed makes the verifier throw (`IsTime`).
HMAC is external: a digest stands for the secret and the document.

`Request` is one request object, the user agent that completes, signs and prints
it (`Call`), an intermediary that may touch one header, and the server that parses it
line by line (`Receive`) and authenticates it (`Verify`). Between the calls the application
edits the object. `asked` and `joined` remember what it wanted. The transport is not part of
it: that is `Http`, where a request is a first line, a header block and a body.

## What the runs check

| Run | Configuration | Shows |
|---|---|---|
| timed_io | `MCTimedIo.cfg` | Handlers never outlive their operation, no operation is cancelled by an earlier timer, connecting always ends, and a read ends unless it lost its deadline, which only a read of several partial reads can, after the first. |
| silent_peer | `MCTimedIoSilentPeer.cfg` | That race is real: a read can block for ever (see *Findings*). |
| connection | `MCConnection.cfg` | Nothing is lost, a vector and the proxy's reply get their bytes from the buffer, and the module implements `FifoStream`. |
| over_read | `MCConnectionOverRead.cfg` | A vector whose bytes are all buffered may fail. |
| hod | `MCHodConnection.cfg` | Packets arrive whole and in order, at a version that knows them; a close propagates unless a broken network is never reported; while the connection lasts everything arrives. |
| ua_cache | `MCUaCache.cfg` | Expectations answer in order, none is lost, and redirects end unless one of their requests hangs. |
| mail | `MCMail.cfg` | A message reported as sent was spooled whole, headers and all parts; none is spooled twice or in part on one connection; the blocks that the iterator yields make `Mail` implement `Smtp`; a call of `send` ends, unless a header has a word longer than the limit or a write or read hangs. A message of which a file is cut short is the exception to *whole*. |
| smtp_destructor | `MCSmtpDestructor.cfg` | The destructor may end the program. |
| pop3 | `MCPop3.cfg` | Only approved messages go, all are read newest first unless STAT was answered with an error, approved ones are gone at the end. |
| http | `MCHttp.cfg` | Whole requests, whole framed bodies, an answer or a reason for none, and an end at both ends, unless the network breaks or both write and neither reads. |
| request | `MCRequest.cfg` | A reference resolves as RFC 3986 has it, but for dot segments at the root and some at the end (`Manageable` lists them); the handler sees the path, the query and the headers that the application asked for, whatever was cached, printed or set before; a call signed by the agent is authenticated in time and refused later; what is authenticated was signed. |
| mime_nested | `MCMimeEnvelopeNested.cfg` | A message whose attachment reuses its buffer is not sent as it is. |

Each property of a run that passes has a mutant in its module: a definition
`Name_what` with the fault a plausible bug would put there, under which the
property fails. They are not part of any specification.

Deadlock is not an error in any run: connections are closed, clients are
destroyed, messages end, and counters are bounded.

### Bounds

* **timed_io**: two endpoints, so that a connect fails and another follows; reads
  of one and two partial reads, since the third is no different from the second;
  four operations, so that handlers of one could meet another.
* **connection**: four bytes of five values, the two of a line end, the two of a SOCKS
  reply and one that is no UTF-8. The reply is scaled to three bytes, `size_t` to 0..7; vectors
  are of none, one and three bytes with a chunk of two, so that the loop goes round and over-reads
  happen. Longer streams repeat these situations, and the proofs cover them.
* **hod**: five byte values, with sizes of one, two and three bytes, bodies whose
  bytes look like sizes, versions 1 and 2, three packets one way.
* **ua_cache**: two threads, a GET and another request, three expectations for
  each (set, used, set again), four calls, the code's limit of five requests.
* **mail**: three calls of `send` for two messages, so that one may be sent again
  after a failure and followed by the other. One of them is, in turn, each text,
  file and envelope of one or two parts that the iterator gets right, a dotted
  message, one with a header that cannot be folded, and one with a file that is cut: one
  that cannot be opened, and one cut before its last block, by itself and before another
  part. Lines are up to nine
  characters with a limit of four: lines that fit, that are cut twice, and that
  have no blank to cut at. Replies have one line (`MaxLines`).
* **smtp_destructor**: one message of two pieces and one call.
* **request**: three applications, since what they edit is independent: one edits
  the address (three edits, seventeen references with dot segments in each
  position, four fields of three keys, one call), one the headers (two edits, two calls), one
  signs or lets its agent sign (two edits, two calls, a window of one in a time of
  two, clocks that differ by none or one). The second call is the one that finds
  headers left by the first.
* **pop3**: five messages and a login after every second: two logins, the second in
  a mailbox that has changed. One message is deleted by another program.
* **http**: one connection, because workers share nothing but the accept loop;
  bodies of two bytes and two chunks; one kind of each bad request.
* **mime_nested**: envelopes of three attachments (first, middle, last), files of up
  to three reads, two levels of nesting.

### Fairness

* `TimedIo`: the calling thread, expired timers, `run()` and the report of a closed
  stream go on (weak fairness each): they are the operating system's scheduler, its
  clock and `io_context`. Nothing is assumed of the other end.
* `HodConnection`: each end's outbound and inbound coroutine goes on, as long as
  it can; a working network delivers. Nobody must send, nothing must break, and a network that
  has broken need not report it to an end that is `deaf`: `receive_loop` has no time out
  (`tcp.hpp:159`), and `ClosePropagates` has that exception.
* `UaCache`: a request that was made is answered, fails or hangs, and one that hangs need
  not end. Writes have no time out (`connection.cpp:157-167`) and a read can lose its own
  (finding 1), so `RedirectsEnd` has that exception.
* `Http`: workers are threads of the pool and go on; handlers end; user agents
  go on, and other clients hang up some time. A write goes on as long as the other end reads
  or has closed (`Listens`, `Heard`), and otherwise need not. Reads end when something has come
  or the other end has closed; a broken network need not be noticed. No time out has to fire, so
  `ExchangeEnds` does not rely on them; its exceptions are a broken network, and a server
  that writes its answer while the user agent writes a body that it does not read
  (`BothWrite`).
* `Mail`: the client's thread goes on printing and writing, and a wait for a reply
  ends, if only by the connection's time out, as long as the client does not hang (`hung`),
  which it may in a write and in a read that has lost its time out. `SendEnds` has that
  exception. Nothing is assumed of the server.
* The others have safety properties only.

## What is proved

Proved for all values of the constants that satisfy the `ASSUME` of the module:

* `ConnectionProofs`, of `TimedIo`: `TimedTypeCorrect` (`TimedTypeOK`),
  `HandlersEnd` (`NoStaleHandler`), `AbortedByDeadline` (`NoSpuriousTimeout`),
  `DeadlineLostByCompositeRead` (`OnlyCompositeReadsUnguarded`). The invariant adds
  `Handlers`: what is in the queue belongs to the operation in progress,
  a timer's handler is there only when the timer is used up, a cancelled operation's only
  when it has expired, and an operation that the reactor has finished has a handler in
  the queue. Without the last, an operation could be over for `run()` and not for its
  caller, and the others would not be inductive.
* `ConnectionProofs`, of `Connection`: `TypeCorrect`, `StreamIsWhole` (`NothingLost`), `ReadsHaveTheirBytes`
  (`FinishedReadHasItsBytes`), `FailuresTakeALineAtMost` (`FailureTakesALineAtMost`), `RefinesFifoStream`
  (`ImplementsFifoStream`). The invariant is
  the conjunction of the type invariant, `NothingLost` and a relation between `want` and
  the buffer: what a vector or the proxy's reply still wants is such that a loop
  with nothing more to ask has its bytes. `NothingLost` alone is inductive only with the types;
  `FinishedReadHasItsBytes` is not, because a loop that still wants bytes must be
  known to get enough of them, also when the difference has wrapped. The
  refinement follows from `NothingLost`: what a step adds to `consumed` is the
  next part of `sent`. Sequence lemmas (splitting, associativity) stand at the
  head of the module.
* `HodConnectionProofs`: `TypeCorrect`, `PacketsArriveIntact` (`PacketsIntact`),
  `HandlersKnowPackets` (`HandlerKnowsPacket`), `SizesRecognised`. The invariant says of
  each direction (`Incoming`, by `Flow`) that what the decoder has read of the packet it
  is in, the bytes on the wire and what is still to be written of them are together the frames
  of the packets sent and not yet dispatched; once the connection breaks, some of the end is
  missing. It needs `SizeRoundTrip`, that the decoder reads each size that can be sent
  from the size sequence written for it (by `TwoDigits`, the arithmetic of division and
  remainder), because a decoder that misread a size would look for the next packet in
  the middle of this one. `Versions` adds that an end announces
  its version first, makes packets at version 0 or at the one that both know, and, once it has
  dispatched anything, has agreed on that one: so the dispatch table is right by the
  time a packet made for it arrives.
* `HttpProofs`: `TypeCorrect`, `HandlerGetsWholeRequest` (`HandlerSeesWholeRequest`),
  `AgentGetsAnswer` (`AgentIsAnswered`), `BodyComesWhole` (`BodyIsWhole`). The invariant is about one
  connection at a time, at each stage of its worker and its user agent. `Inbound`: what
  the worker has taken, what has arrived, what is on its way and what is left to send are the
  request, and without its end if the network broke. `Outbound` (by `Follows`): what the agent
  has taken, what has arrived and what is on its way go on with the first answer, up
  to its end unless something failed. `Stage` and `Prompt` say when the ends
  are open, and that the agent's request has been read to its end before it is
  answered. Inside a chunked body (`InChunks`) the agent has the bytes of some first part of
  the body, and the rest of the chunk it is in consists of bytes. That a response's
  framing is right is an assumption on `Responses`: they are printed by the server of this
  library or by one that keeps to the protocol.
* `Pop3Proofs`: `TypeCorrect`, `ApprovedOnly` (`OnlyApprovedRemoved`), `EachReadOnce`
  (`NewestFirstOnce`), `ApprovedAreGone` (`ApprovedGoes`). For the first, the invariant says that the
  deletions of each session, those that have quit included, are of approved messages, and
  that the number DELE will name is, in the session that hears it, the message that the
  callback has just approved. For the order (`OrderInv`), that while no other program deletes messages those up to the loop's
  number are in the mailbox and in the session where they were in the first, that no session
  has deleted one of them, and that the number counts what has been read, except after a STAT that was answered with an error.
  For the last (`GoneInv`), that each approved message is gone, or about to be deleted, or
  deleted in a session whose QUIT is on its way or still to be sent. All three rest on what
  deleting marked messages leaves of a list: lemmas about `Remaining`.
* `SmtpProofs`: `TypeCorrect`, `SentMeansSpooled` (`ReturnedMeansSpooled`), `NeverSpooledTwice`
  (`SpooledOnce`), `WholeOrNothing` (`NothingPartial`), under the hypothesis `Proper`: replies
  have one line, and a text is not empty and does not begin with a dot. The first is
  what the client expects of a server and what the code cannot do without: with
  `MaxLines = 2` TLC refutes the properties (the hazard at `smtp.cpp:120`). What has to be
  shown is that a client that is out of step, because a call timed out and the reply came
  later, does no harm. A server accepts a message only after three commands that it has
  accepted one after the other. The proof counts the replies that say 250 and
  are on their way, and those that the server can still give before it asks for a text
  (`Budget`, `Future`): a client that has left a text open cannot collect as many as it needs
  to come to the next. `Stream` says that what has arrived of a text and what is on its way are
  together a first part of it, with what follows it, and `Late` that the client is behind by
  a reply, and stays so, when a message is in the spool that `send` has not reported.
* `MailProofs`: `SendsTheMessage` (`ImplementsSmtp`), for all messages, headers and limits
  that the module allows, and `TypeCorrect`, `ReturnedWasSpooled` (`ReturnedMeansSpooled`),
  `SpooledAtMostOnce` (`SpooledOnce`), `SpooledWhole` (`NothingPartial`), under `Proper` again, which
  here asks for replies of one line, and for headers that are lines. These four are the theorems of
  `SmtpProofs`, carried through the refinement: `SmtpProofs` is instantiated with the messages as
  their structure requires them, as far as their files can be read; a message of which a file
  is cut short (`Cut`) is an exception to the second and the last: `send` does not notice.
  The refinement is the work: every step is one
  of `Smtp`, or leaves its variables alone, once it is known that the block written is the next
  piece of the message. The invariant is `Walks`: the iterator of the
  message is where the sender's loop is, before, inside or at the end of an attachment
  (`Reads`), and what has been written, with the block that is shown now, is the first part of
  the rendered message (`Moved` says the same of what a call of the iterator leaves). It is `KeepsItsBlocks` that makes it hold: an attachment's
  iterator that moves on does not use the memory of the block it returned. Messages
  that break this assumption are finding 4, and no theorem speaks of them.
* `UaCacheProofs`: `TypeCorrect`, `NothingDropped` (`NoneDropped`), `Ordered`
  (`AnswersInOrder`), `HeadersKept`. The
  invariant adds `Entries`: the expectations of a key are consecutive numbers that end
  with the last one set, and start after the last one that answered, or with it
  if the entry is used, which only an idempotent key's is. `NoneDropped` and
  `AnswersInOrder` say nothing of how the entry is laid out and are not inductive without it.
  The headers are inductive by themselves.
* `RequestProofs`: `TypeCorrect`, `AddressDelivered` (`AddressArrives`), `HeadersDeliveredWhole`
  (`HeadersArrive`), `SignedCallsVerified` (`SignedIsVerified`), `VerifiedCallsSigned`
  (`VerifiedWasSigned`), `JoinsResolve` (`JoinResolves`), for all applications, headers,
  queries, paths, secrets and windows. The invariant has a part for each party. `RequestInv`:
  the address has a path and a query whose cached text agrees with its items, and the headers
  are sorted and free of anything that only an intermediary writes. `WireInv`: what is on the
  wire is the request, line for line but for the one line appended and the name rewritten.
  `ReceivedInv`: the server has what a parse of that gives, and its verdict is on that.
  `AgentInv`: the signature made last is the one that the headers carry, and it stands for the
  request as it is; it is what the call relies on after the application has signed the same
  object before. `SignedInv`: whatever was ever signed has a path that begins at the root, a
  time before the call and no value of an intermediary's, so a header that was rewritten is in
  no document that verifies. `HistoryInv`: key by key, the text of the query has the fields
  that were asked for, through caching, printing, appending and removing; and the last join was
  of a reference to a good address. (Of a field with an `=` in its name, and of the key that it is
  read as, nothing is claimed: `MeansTheSame`.) `JoinsResolve` is about the functions alone once that is
  known: the loop of `normalise_path`, with its erasures and its restart, leaves what the fold
  over the segments leaves that RFC 3986 describes (`LoopIsFold`), wherever every dot segment is
  met below the root; `Manageable` says exactly which references are left out, all of
  which the code gets wrong somewhere (see *Findings*). `Turn` is one turn of it: the list is what is left of the segments passed,
  followed by those to come, and the restart finds no dot segment before the place where the
  loop was. Around it, `Placed` goes through the directories that `pathspec` puts a path under,
  and `Slashed` follows the slash that a path ending in dots is given. Under them lie the facts about the multimap (`Set`, `Add` and `SetSubvalue`
  keep it sorted and touch one name; what `Parse` makes of `Lines` is each header, in the order
  among its own name), about contents (`Value` of what was printed), and about queries (`Printed`
  and the parser's fold agree for each key). The assumptions on the constants are that
  applications use names, arguments and fields of the model's, write no digests themselves
  and do not write what the intermediary writes.

`FailuresTakeALineAtMost`, `HeadersKept` and `SizesRecognised` are properties with a theorem and no run of their own.

An operator that goes through a sequence is a recursive function here. The prover has no
induction rule for what such a function computes, but it can be told that a non-empty set of
numbers has a least element (`Least`, from `WellFoundedInduction`): a lemma assumes a
position at which its statement fails, takes the least one, and refutes it by the one
before. The existence of the recursive function itself is shown in this way
(`TurnsExist`, and `RemainingIs` which follows from it). `RenderedTree` of `MimeEnvelope` and the
library's `FlattenSeq` are unfolded like this in `MailProofs`.

That the loop of `normalise_path` comes to an end at all has to be shown before anything can
be said of what it leaves: `Loop` says that a function whose every step comes down a
measure exists.

Every safety property and every refinement that a passing run checks is a theorem. What stays with
TLC are the liveness properties (`ConnectEnds`, `ReadEndsUnlessUnguarded`, `ClosePropagates`,
`DeliversWhileOpen`, `RedirectsEnd`, `SendEnds`, `ExchangeEnds`), since fairness and `ENABLED` are
beyond the prover; and what the runs that expect a violation show.

## Findings

1. **A read may never time out.** `timedout` (`connection.cpp:185-198`) cancels the
   socket once. If a partial read has completed by then and its handler is still
   queued, nothing is cancelled, the composite read starts its next partial read,
   and the timer is gone. The change log says that reads time out. (It also names
   `read_timeout`, which nothing throws: the caller sees a `socket_error`.)
2. **A vector read fails although its bytes are there.** `connection.cpp:508`
   subtracts a larger `size_t` from a smaller one when more is buffered than asked
   for, and reads on. A chunked response of several chunks that arrive together
   is decoded only if each chunk arrives alone; otherwise the user
   agent waits for the end of the stream and then throws.
3. **`~smtp_client` does not absorb.** `~implementation` (`smtp.cpp:110`) is noexcept
   and throws if QUIT is not answered with 221: the program is terminated.
4. **Nested MIME is garbled.** `mime.cpp:265-267` advances the attachment before the
   block it returns has been used. Files of more than 2048 bytes in an envelope,
   and envelopes in an envelope, are sent with parts missing and others twice.

Met on the way, without a run of their own:

* With a cache folder set, requests leave although `c_force_no_http_requests` is true
  (`http.cache.cpp:150,160`), which `Cpp/include/fost/ua/cache.hpp:35-38` rules out (and
  there is no cache behind `check_cache`).
* A redirect of a request with a body loses the caller's headers, and a 303 becomes a
  GET that keeps its body (`http.cache.cpp:78,107`).
* The comment at `http.server.cpp:70` that a 400 has been sent does not hold for a
  failure in the first line.
* "read everything" returns on a time out as it does at the end (`connection.hpp:105`
  against `connection.cpp:525-536`).
* Trailing headers of a chunked body are not read (`http.useragent.cpp:153-158`).
* A second POP3 login while the first session lasts is refused by servers that lock the
  mailbox, so that mailboxes of twenty messages or more cannot be iterated there.
* SMTP lines that are a dot are not doubled, and replies of several lines put the client
  out of step (`MaxLines = 2` in `MCMail.cfg` shows it).
* `fold()` does not end for a header with a blank before a word longer than the limit
  (`headers.cpp:149-155`: what is left begins with the blank that it is cut at).
* The iterator of a file ends without an error when its stream is not good, not opened,
  shorter than it was, or failing in the middle (`mime.cpp:452-459`), so that `send`
  closes the text and returns although its part's `Content-Length` (`mime.cpp:429`)
  announces the rest.
* `normalise_path` may keep a dot segment at the root, since its loop goes back to
  `begin()` and skips it (`url.cpp:104-119`): `./x` joined to `/p` is `/./x`, where the
  test at `url-tests.cpp:334` has `./where` right for a base one segment deeper, and the
  test at 345-347 expects `/../where` of two steps up and says that it should throw;
  `url.cpp:268` normalises an absolute reference without the fixes of `pathspec` ("Add
  terminating slash", `url.cpp:396-401`), so that `/p/q/.` becomes `/p/q`, and `/p/..`
  no path; and `pathspec` looks for the first dot segment only, so that `x/./y/.` gets
  no slash.
* An error in answer to POP3's STAT is read as an empty mailbox (`pop3.cpp:166-174`).
* A query field with an `=` in its name arrives under another, as the comment at
  `url-query_string.cpp:39-45` foresees.
* A worker that writes its answer and a user agent that writes a body which it does not
  read may wait for each other for ever (`connection.cpp:163`).
* `append` on a query that was given as text discards the text
  (`url-query_string.cpp:68`).
* Characters that the query's encoder prints as they are, and a bare name after a pair,
  are refused by the server's grammar with a 400
  (`Cpp/include/fost/parse/url.hpp:122-128`).
* An empty path is printed as two blanks and parsed as the path `HTTP/1.0`
  (`Cpp/include/fost/parse/http.server.hpp:52`).
* A request that is used for another address keeps the `Host` and `Date` of its first
  call (`http.useragent.cpp:47-56`).
* A signed request with a body or a query, or with a listed header that has arguments,
  is never authenticated, because the verifier leaves the first two out and the signer
  the third (`http.authentication.cpp:42,48,158`).
* `set_subvalue` on a header that is not there does nothing if one sorts after it
  (`headers.cpp:126`).

The properties of `Request`, `Mail`, `Pop3` and
`Http` state those that concern them as their exceptions.

## What is not modelled

TLS (certificates and handshakes are OpenSSL's), parsing and formatting of
addresses and hosts (text without state), settings, counters and logging.
`tcp_connect` of hod is a loop over endpoints without time outs. Of headers: cookies,
contents from and to JSON, what is in the text of an argument (a `;` there is not escaped),
and continuation lines, which `parse` joins and nobody here
sends. Of URLs: escaping, user names, ports and schemes, and references of the form
`//host/path`, which the grammar takes for a path. Of an HTTP server's request: the
mock constructors and the accessor by a JSON cursor. Redirects (`UaCache`) and requests
(`Request`) are not composed with the wire (`Http`): each would multiply the states of
the other and they share nothing but the response's status.

## Plan

The order was the connection first, since everything runs on it, then the
protocols by how much can go wrong between two parties, then the text that they
carry and the compositions. What would come next:

1. **Composition**: `Http` over `TimedIo` for what a lost deadline does to a worker;
   `Pop3` over `Connection`.
2. **Abstractions**: `PacketsIntact` as a refinement of `FifoStream` with packets as items,
   a mailbox as a set that shrinks only by approval, an exchange as one request and
   at most one answer.
