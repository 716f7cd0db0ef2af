------------------------------- MODULE Request -------------------------------
(***************************************************************************)
(* What becomes of a request between the application that makes it and the *)
(* handler that is to answer it: the application edits its address, query  *)
(* and headers, the user agent completes, signs and prints it              *)
(* (http.useragent.cpp), an intermediary may touch its headers, and the    *)
(* server parses and verifies it (http.server.cpp).  One request object is *)
(* used for every call, as its caller may do.                              *)
(*                                                                         *)
(* The connection below is in module Http; here a request arrives whole,   *)
(* or not at all.                                                          *)
(***************************************************************************)
EXTENDS Url, FostAuthentication

CONSTANTS
  Applications,  \* what an application may do with its request: a function of
                 \* its name, whose values are records of
                 \*   references, fields: joined to the address, appended to it
                 \*   contents, subvalues: of headers
                 \*   signers: those the application signs with
                 \*   agents: what the user agent signs with, <<>> or <<signer>>
                 \*   data: the request's body
                 \*   skews: by how much the server's clock may be ahead
                 \*   edits, calls, time: bounds
  Host,          \* of its address
  Touchable      \* headers that an intermediary may rewrite or repeat

\* What an intermediary writes into a header.
Via == <<Plain("via")>>

IsReference(ref) ==
  /\ ref.host \in Seq(STRING \ {"via"}) /\ Len(ref.host) <= 1
  /\ ref.path \in Seq(Seq(STRING) \ {<<>>, NoPath}) /\ Len(ref.path) <= 1
  /\ ref.query \in Seq(Fields) /\ ref.fragment \in Seq(STRING)

\* Digests and other numbers are written by the library alone.
IsWritten(header) ==
  /\ header.name \in Names /\ IsContent(header.content)
  /\ header.content.value # Via
  /\ \A i \in DOMAIN header.content.value : header.content.value[i].n = 0

IsSigner(signer) == signer.key \in STRING /\ signer.names \in Seq(Names)

\* What a request gets without being asked.
Own == {"Content-Length", "Content-Transfer-Encoding", "Content-Type", "Date", "Host", "TE",
        "User-Agent"}

ASSUME RequestAssumption ==
  /\ Touchable \subseteq Names /\ Host \in STRING \ {"via"}
  /\ "__remote_addr" \in Underscored
  /\ Own \subseteq Names /\ \A name \in Own : Rank[name] # Rank["Authorization"]
  /\ "charset" \in ToSet(SubNames)
  /\ \A name \in DOMAIN Applications : LET app == Applications[name] IN
       /\ \A ref \in app.references : IsReference(ref)
       /\ app.fields \subseteq Fields
       /\ \A header \in app.contents : IsWritten(header)
       /\ \A sub \in app.subvalues :
            sub[1] \in Names /\ sub[2] \in ToSet(SubNames) /\ sub[3] \in STRING
       /\ \A signer \in app.signers : IsSigner(signer)
       /\ \A agent \in app.agents : agent = <<>> \/ (agent = <<agent[1]>> /\ IsSigner(agent[1]))
       /\ app.data \subseteq Seq(STRING)
       /\ app.skews \subseteq Int /\ {app.edits, app.calls, app.time} \subseteq Nat

VARIABLES
  application,         \* its name
  address, headers,    \* of the request
  data,                \* its body's blocks
  authentication,      \* of the user agent
  phase,               \* "idle", "sent", "received" or "verified"
  wire,                \* the request as it was printed and touched
  received,            \* the server's request
  verdict,             \* what fost_authentication() returned for it
  signed,              \* every signature made
  now, skew,           \* the agent's clock, and how far ahead the server's is
  edits,               \* the edits made
  calls,               \* the calls made
  sent,                \* history: when the last call was made
  asked,               \* history: the query that the application asked for
  joined               \* history: the last reference joined

request == <<application, address, headers, data, authentication>>
server == <<received, verdict>>
clocks == <<now, skew>>
histories == <<calls, sent, asked, joined>>
vars == <<request, phase, wire, server, signed, clocks, edits, histories>>

Nothing == [fields |-> <<>>, mixed |-> FALSE]

\* A request's MIME has a type and a length from the start; text has its
\* character set and encoding, too.
MimeHeaders(blocks) ==
  LET type == Set(Set(<<>>, "Content-Type", Simple(<<Plain("type")>>)),
                  "Content-Length", Simple(<<Number("length", Len(blocks))>>))
  IN IF blocks = <<>>
       THEN type
       ELSE Set(SetSubvalue(type, "Content-Type", "charset", "utf-8"),
                "Content-Transfer-Encoding", Simple(<<Plain("8bit")>>))

App == Applications[application]

Init ==
  /\ application \in DOMAIN Applications
  /\ address = Url(Host, Root, NoQuery, <<>>)
  /\ data \in App.data
  /\ headers = MimeHeaders(data)
  /\ authentication \in App.agents
  /\ phase = "idle"
  /\ wire = <<>> /\ received = <<>> /\ verdict = "none"
  /\ signed = <<>>
  /\ now = 0 /\ skew \in App.skews
  /\ edits = 0
  /\ calls = 0 /\ sent = 0 /\ asked = Nothing /\ joined = <<>>

-----------------------------------------------------------------------------
(***************************************************************************)
(* The application, between its calls.                                     *)
(***************************************************************************)

Edit ==
  /\ phase = "idle" /\ edits < App.edits
  /\ edits' = edits + 1
  /\ UNCHANGED <<application, data, authentication, phase, wire, server, clocks, calls, sent>>

EditAddress == Edit /\ UNCHANGED <<headers, signed>>
EditHeaders == Edit /\ UNCHANGED <<address, signed, asked, joined>>

\* A new address, made of the old one and a reference.
JoinAddress(ref) ==
  /\ EditAddress
  /\ address' = Join(address, ref)
  /\ asked' = IF ref.query # <<>> THEN [fields |-> ref.query, mixed |-> FALSE]
              ELSE IF ref.host \o ref.path # <<>> THEN Nothing ELSE asked
  /\ joined' = <<[base |-> address, ref |-> ref, url |-> Join(address, ref)]>>

\* What has been asked for, in words: an edit of a query that was given as text
\* is one that nothing is claimed about.
Asked(fields) ==
  [fields |-> fields,
   mixed |-> asked.mixed \/ (asked.fields # <<>> /\ address.query.items = NoItems)]

AppendQuery(field) ==
  /\ EditAddress
  /\ address' = [address EXCEPT !.query = AppendField(@, field.key, field.value)]
  /\ asked' = Asked(Append(asked.fields, field))
  /\ UNCHANGED joined

RemoveQuery(key) ==
  /\ EditAddress
  /\ address' = [address EXCEPT !.query = RemoveKey(@, key)]
  /\ asked' = Asked(Those(asked.fields,
                        {i \in DOMAIN asked.fields : asked.fields[i].key # key}))
  /\ UNCHANGED joined

\* as_string() of the URL, for a log or a comparison.
ShowAddress ==
  /\ EditAddress
  /\ address' = [address EXCEPT !.query = Cached(@)]
  /\ UNCHANGED <<asked, joined>>

SetHeader(header) ==
  EditHeaders /\ headers' = Set(headers, header.name, header.content)

AddHeader(header) ==
  EditHeaders /\ headers' = Add(headers, header.name, header.content)

SetHeaderSubvalue(name, sub, text) ==
  EditHeaders /\ headers' = SetSubvalue(headers, name, sub, text)

-----------------------------------------------------------------------------
(***************************************************************************)
(* Signing, by the application or by the user agent.                       *)
(***************************************************************************)

\* The body, or the text of the query.
Rest == IF data # <<>> THEN data ELSE AsString(address.query)

SignatureOf(signer, given) ==
  Signature(signer.secret,
            SignedDocument("GET", address.path, given, signer.names, now, Rest))

\* The application signs the request as it is so far.
SignDirectly(signer) ==
  /\ Edit
  /\ signed' = Append(signed, SignatureOf(signer, headers))
  /\ headers' = Signed(headers, signer.key, signer.names, now, Len(signed) + 1)
  /\ address' = IF data # <<>> THEN address ELSE [address EXCEPT !.query = Cached(@)]
  /\ UNCHANGED <<asked, joined>>

-----------------------------------------------------------------------------
(***************************************************************************)
(* user_agent::operator().                                                 *)
(***************************************************************************)

Default(given, name, content) ==
  IF Exists(given, name) THEN given ELSE Set(given, name, content)

Completed(given) ==
  Set(Default(Default(Default(given,
        "Date", Simple(<<Number("date", now)>>)),
        "Host", Simple(<<Plain(address.host)>>)),
        "User-Agent", Simple(<<Plain("agent")>>)),
      "TE", Simple(<<Plain("trailers")>>))

\* The headers are completed, then signed, then printed without folding.  The
\* query's text, printed, is cached.
Call ==
  /\ phase = "idle" /\ calls < App.calls
  /\ phase' = "sent"
  /\ IF authentication = <<>>
       THEN headers' = Completed(headers) /\ UNCHANGED signed
       ELSE LET signer == authentication[1] IN
              /\ signed' = Append(signed, SignatureOf(signer, Completed(headers)))
              /\ headers' = Signed(Completed(headers), signer.key, signer.names, now,
                                   Len(signed) + 1)
  /\ address' = [address EXCEPT !.query = Cached(@)]
  /\ wire' = <<[path |-> address.path, query |-> AsString(address.query),
                lines |-> Lines(headers'), rewritten |-> {}]>>
  /\ calls' = calls + 1 /\ sent' = now
  /\ UNCHANGED <<application, data, authentication, server, clocks, edits, asked, joined>>

-----------------------------------------------------------------------------
(***************************************************************************)
(* Between the agent and the server (external).                            *)
(***************************************************************************)

\* An intermediary appends a header of its own, of a name that may be there.
AppendLine(name) ==
  /\ phase = "sent"
  /\ Len(wire[1].lines) = Len(headers)
  /\ wire' = <<[wire[1] EXCEPT !.lines = Append(@, Line(name, Via))]>>
  /\ UNCHANGED <<request, phase, server, signed, clocks, edits, histories>>

\* It rewrites a header.
RewriteLine(name) ==
  /\ phase = "sent"
  /\ wire[1].rewritten = {}
  /\ \E i \in DOMAIN wire[1].lines :
       /\ Rank[wire[1].lines[i].name] = Rank[name]
       /\ wire' = <<[wire[1] EXCEPT !.lines[i].text = Via,
                                    !.rewritten = {n \in Names : Rank[n] = Rank[name]}]>>
  /\ UNCHANGED <<request, phase, server, signed, clocks, edits, histories>>

\* (After the verdict time has no part in the call.)
Tick ==
  /\ now < App.time /\ phase # "verified"
  /\ now' = now + 1
  /\ UNCHANGED <<request, phase, wire, server, signed, skew, edits, histories>>

-----------------------------------------------------------------------------
(***************************************************************************)
(* The server: the constructor of its request, and a handler that asks for *)
(* authentication.                                                         *)
(***************************************************************************)

\* server_first_line: where there is no path the grammar takes the version for
\* one, unless a query comes first.
ParsePath(path, query) ==
  IF path # NoPath THEN <<path>>
  ELSE IF query = <<>> THEN <<(<<"HTTP", "1.0">>)>> ELSE <<>>

Peer == Simple(<<Plain("peer")>>)

\* The request is parsed, line by line, or refused with a 400.
Receive ==
  /\ phase = "sent"
  /\ LET message == wire[1]
         path == ParsePath(message.path, message.query)
         query == ParseQuery(message.query)
     IN IF path = <<>> \/ query = <<>>
          THEN phase' = "idle" /\ wire' = <<>> /\ UNCHANGED received
          ELSE /\ phase' = "received" /\ UNCHANGED wire
               /\ received' = <<[path |-> path[1], query |-> query[1],
                                 headers |-> Add(Parse(message.lines),
                                                 "__remote_addr", Peer)]>>
  /\ UNCHANGED <<request, verdict, signed, clocks, edits, histories>>

Verify ==
  /\ phase = "received"
  /\ phase' = "verified"
  /\ verdict' = Verdict("GET", received[1].path, received[1].headers, now + skew, signed)
  /\ UNCHANGED <<request, wire, received, signed, clocks, edits, histories>>

\* The response, or its loss on the way, ends the call.
Answered ==
  /\ phase \in {"sent", "received", "verified"}
  /\ phase' = "idle"
  /\ wire' = <<>> /\ received' = <<>> /\ verdict' = "none"
  /\ UNCHANGED <<request, signed, clocks, edits, histories>>

-----------------------------------------------------------------------------
Application ==
  \/ \E ref \in App.references : JoinAddress(ref)
  \/ \E field \in App.fields : AppendQuery(field) \/ RemoveQuery(field.key)
  \/ ShowAddress
  \/ \E header \in App.contents : SetHeader(header) \/ AddHeader(header)
  \/ \E sub \in App.subvalues : SetHeaderSubvalue(sub[1], sub[2], sub[3])
  \/ \E signer \in App.signers : SignDirectly(signer)

Intermediary == \E name \in Touchable : AppendLine(name) \/ RewriteLine(name)

Next ==
  \/ Application \/ Call \/ Intermediary \/ Tick
  \/ Receive \/ Verify \/ Answered

Spec == Init /\ [][Next]_vars

-----------------------------------------------------------------------------
(***************************************************************************)
(* Properties.                                                             *)
(***************************************************************************)

QueryOK(query) ==
  /\ query.cached \in Seq(Fields)
  /\ query.items \in [ToSet(Keys) -> Seq(STRING)]

HeadersOK(hs) ==
  /\ \A i \in DOMAIN hs : hs[i].name \in Names
  /\ \A i \in 1..(Len(hs) - 1) : Rank[hs[i].name] <= Rank[hs[i + 1].name]

\* Headers are sorted wherever they are, and a query's text that is cached is
\* that of its items if it has any.
TypeOK ==
  /\ address.path \in Seq(STRING) /\ address.path # <<>>
  /\ QueryOK(address.query)
  /\ address.query.cached # <<>> /\ address.query.items # NoItems =>
       address.query.cached = Printed(address.query.items)
  /\ HeadersOK(headers)
  /\ authentication \in App.agents
  /\ phase \in {"idle", "sent", "received", "verified"}
  /\ (wire = <<>>) = (phase = "idle")
  /\ (received # <<>>) = (phase \in {"received", "verified"})
  /\ \A i \in DOMAIN received : QueryOK(received[i].query) /\ HeadersOK(received[i].headers)
  /\ verdict \in Outcomes
  /\ now \in 0..App.time /\ skew \in App.skews
  /\ edits \in 0..App.edits /\ calls \in 0..App.calls /\ sent \in 0..now

\* The path of a reference as RFC 3986 (5.2.4, 5.3) resolves it, and without
\* doubled slashes: dot segments are removed from the left, and one at the end
\* leaves a slash.
DirectoryOf(base) == IF Len(base) > 1 THEN Front(base) ELSE NoPath
Merged(base, path) == Slashslash(IF Rooted(path) THEN path ELSE DirectoryOf(base) \o path)
Remaining(segments) ==
  FoldLeft(LAMBDA stack, s : IF s = "." THEN stack
                             ELSE IF s # ".." THEN Append(stack, s)
                             ELSE IF stack = <<>> THEN stack ELSE Front(stack),
           <<>>, segments)
Resolved(base, path) ==
  LET segments == Tail(Merged(base, path)) IN
    NoPath \o Remaining(segments) \o IF Last(segments) \in Dots THEN NoPath ELSE <<>>

\* What is claimed of the normalisation.  Left out are
\*   - dot segments that are met at the root, where the loop of normalise_path,
\*     which never looks at the first segment again once it has erased one, may
\*     keep them: ./x joined to /p is /./x, x/../../y joined to / is /../y, and
\*     ././x joined to / is /./x  (it gets some of these right, as ../x at /);
\*   - a base that has kept such a segment, for a relative path;
\*   - a dot segment at the end of an absolute path, which loses its slash:
\*     /p/q/. is /p/q, and /p/.. is no path at all;
\*   - a dot segment at the end of a relative path that has others, of which
\*     the first alone is looked at: x/./y/. has no slash at its end.
\* Each of these does go wrong in the code.
Manageable(base, path) ==
  LET segments == Tail(Merged(base, path)) IN
    /\ ~Rooted(path) => Range(base) \cap Dots = {}
    /\ \A i \in DOMAIN segments : segments[i] \in Dots =>
         Remaining(SubSeq(segments, 1, i - 1)) # <<>>
    /\ Last(path) \in Dots => ~Rooted(path) /\ Range(Front(path)) \cap Dots = {}

\* Joining a reference to a URL gives the URL that RFC 3986 resolves it to (the
\* comment at url.hpp:78: "joining the new string (a potentially relative IRI)"),
\* however the base came about, unless its dot segments are at the root or at an
\* end that the normalisation gets wrong (Manageable).
JoinResolves ==
  phase = "idle" /\ joined # <<>> =>
    LET base == joined[1].base
        ref == joined[1].ref
        url == joined[1].url
        start == IF ref.host = <<>> THEN base.path ELSE Root
        kept == ref.host \o ref.path = <<>>
    IN /\ url.host = IF ref.host = <<>> THEN base.host ELSE ref.host[1]
       /\ ref.path = <<>> => url.path = start
       /\ ref.path # <<>> /\ Manageable(start, ref.path[1]) =>
            url.path = Resolved(start, ref.path[1])
       /\ AsString(url.query) =
            IF ref.query = <<>> /\ kept THEN AsString(base.query) ELSE ref.query
       /\ ~kept \/ ref.query \o ref.fragment # <<>> => url.fragment = ref.fragment

\* No field whose name has an '=' is of this key, or is taken for one of it.
Unmistaken(fields, key) ==
  \A field \in Range(fields) \cap DOMAIN Misprinted :
    key \notin {field.key, Misprinted[field].key}

\* The handler sees the path of the address, unless that has become empty, and
\* for each key the fields that the application appended and did not remove, in
\* that order: never a text that was cached before an edit.  A query that was
\* given as text has the fields that it was given, unless it was edited.  Only
\* a field with an '=' in its name goes wrong, and none but the keys it is
\* printed and read as (the comment at url-query_string.cpp:39-45).
AddressArrives ==
  phase = "received" =>
    LET Of(fields, key) == Those(fields, {i \in DOMAIN fields : fields[i].key = key})
    IN /\ address.path # NoPath => received[1].path = address.path
       /\ ~asked.mixed => \A key \in ToSet(Keys) : Unmistaken(asked.fields, key) =>
            Of(AsString(received[1].query), key) = Of(asked.fields, key)

\* Every header arrives, with its repetitions in their order before what an
\* intermediary appends, and with its arguments where those are told apart;
\* except those with an underscore in their names, of which the server alone
\* supplies one: the address at the other end of its connection.
HeadersArrive ==
  phase = "received" =>
    LET got == received[1].headers
        Texts(hs, name) == LET these == Equal(hs, name) IN
          [k \in DOMAIN these |-> Text(these[k].content)]
    IN /\ \A name \in Names \ (Underscored \cup wire[1].rewritten) :
            /\ IsPrefix(Texts(headers, name), Texts(got, name))
            /\ Exists(headers, name) /\ Equal(headers, name)[1].name \in Divided =>
                 Get(got, name) = Get(headers, name)
       /\ \A name \in Underscored : Rank[name] # Rank["__remote_addr"] => ~Exists(got, name)
       /\ Texts(got, "__remote_addr") = <<Text(Peer)>>

\* What a signature can stand for: it leaves out arguments of headers, does not
\* know those that the server drops, nor those that the signing itself sets, and
\* the verifier leaves out the body and the query.  A header that is listed and
\* not there is free to be appended.
Simply(names) ==
  /\ data = <<>> /\ wire[1].query = <<>> /\ address.path # NoPath
  /\ (Range(names) \cup Stamps) \cap wire[1].rewritten = {}
  /\ \A i \in DOMAIN names :
       /\ names[i] \notin Underscored
       /\ \A late \in {"X-FOST-Headers", "Authorization"} : Rank[names[i]] # Rank[late]
       /\ Exists(headers, names[i]) \/ \A name \in Touchable : Rank[names[i]] # Rank[name]
       /\ DOMAIN Get(headers, names[i]).subvalues = {}

\* A call that the agent signs with a key the server knows is authenticated when
\* it arrives in time by the server's clock, and refused for its time when it
\* does not: whatever the caller has done to the request before, its earlier
\* signatures included, and whatever is appended on the way.
SignedIsVerified ==
  phase = "verified" /\ authentication # <<>> =>
    LET signer == authentication[1] IN
      /\ Simply(signer.names)
      /\ signer.key \in DOMAIN Secret /\ Secret[signer.key] = signer.secret
      => verdict = IF now + skew - sent \in -Window..Window THEN "authenticated" ELSE "skew"

\* A request that is authenticated is for the path of the call, with every listed
\* header as its caller had it and none rewritten on the way (but for those that
\* the server drops, which are signed as absent), and it was signed with the
\* secret of its key, by the agent or by its caller, within the window of the
\* server's clock.
VerifiedWasSigned ==
  verdict = "authenticated" =>
    LET got == received[1].headers
        list == Get(got, "X-FOST-Headers").value
        listed == {list[i].text : i \in DOMAIN list}
    IN /\ received[1].path = address.path
       /\ \A name \in (Names \cap listed) \ Underscored :
            Text(Get(got, name)) = Text(Get(headers, name))
       /\ \E s \in Range(signed) :
            /\ s.secret \in Range(Secret)
            /\ s.document.path = address.path
            /\ s.document.time <= sent
            /\ now + skew - s.document.time \in -Window..Window
=============================================================================
