------------------------------ MODULE UaCache ------------------------------
(***************************************************************************)
(* The high level user agent, request_json and its test expectations       *)
(* (http.cache.cpp).  A test sets expectations for a request; each call    *)
(* looks its request up in the map g_expectations, shared by all threads,  *)
(* and goes to the network only when there is nothing to answer with.      *)
(*                                                                         *)
(* A key stands for the hash that cache_key makes of a method, a URL and   *)
(* an Authorization header.  The expectations of one key are numbered in   *)
(* the order in which they are set.  The map is external (f5::tsmap): its  *)
(* mutex is held while a lambda given to it runs, and one of those lambdas *)
(* makes network requests.                                                 *)
(***************************************************************************)
EXTENDS Integers, Sequences

CONSTANTS
  Threads,     \* the threads that call request_json
  Keys,        \* requests, as cache_key tells them apart
  Idempotent,  \* the keys whose method is GET
  MaxHops,     \* requests made for one call, 5 in the code
  MaxSet,      \* bound on the expectations set for one key
  MaxCalls     \* bound on the calls of request_json

ASSUME UaCacheAssumption ==
  /\ Idempotent \subseteq Keys
  /\ MaxHops \in Nat \ {0}
  /\ MaxSet \in Nat
  /\ MaxCalls \in Nat

VARIABLES
  settings,  \* c_cache_folder is set; c_force_no_http_requests
  found,     \* the keys that g_expectations has an entry for
  used,      \* the entries' used flags
  items,     \* the entries' expectations, by number
  call,      \* what each thread is doing
  count,     \* the expectations set for a key since the map was cleared
  last,      \* the number of the last one that answered a call
  served,    \* the number of answers
  calls      \* the calls made

map == <<found, used, items, count, last, served>>
vars == <<settings, map, call, calls>>

Idle == [at |-> "idle", hops |-> 0, locked |-> FALSE, body |-> FALSE, headers |-> TRUE]

TypeOK ==
  /\ settings \in [cacheFolder : BOOLEAN, force : BOOLEAN]
  /\ found \in SUBSET Keys
  /\ used \in [Keys -> BOOLEAN]
  /\ items \in [Keys -> Seq(Nat)]
  /\ call \in [Threads -> [at : {"idle", "network", "stuck"}, hops : 0..(MaxHops - 1),
                           locked : BOOLEAN, body : BOOLEAN, headers : BOOLEAN]]
  /\ count \in [Keys -> Nat]
  /\ last \in [Keys -> Nat]
  /\ served \in [Keys -> Nat]
  /\ calls \in Nat

Init ==
  /\ settings \in [cacheFolder : BOOLEAN, force : BOOLEAN]
  /\ found = {}
  /\ used = [k \in Keys |-> FALSE]
  /\ items = [k \in Keys |-> <<>>]
  /\ call = [t \in Threads |-> Idle]
  /\ count = [k \in Keys |-> 0]
  /\ last = [k \in Keys |-> 0]
  /\ served = [k \in Keys |-> 0]
  /\ calls = 0

\* No lambda holds the map's mutex.
Unlocked == \A t \in Threads : ~call[t].locked

\* The setting that a test fixture makes: no request may leave.
Offline == settings.force /\ ~settings.cacheFolder

-----------------------------------------------------------------------------
(***************************************************************************)
(* Setting expectations.                                                   *)
(***************************************************************************)

\* Mutant: an entry with expectations left is overwritten as a used one is.
Kept_overwrites(k, n) == <<n>>

\* A used expectation is replaced, any other one stays in front of the new one.
Kept(k, n) == IF k \in found /\ ~used[k] THEN Append(items[k], n) ELSE <<n>>

\* set_expectation.
Expect(k) ==
  /\ Unlocked
  /\ count[k] < MaxSet
  /\ count' = [count EXCEPT ![k] = @ + 1]
  /\ items' = [items EXCEPT ![k] = Kept(k, count[k] + 1)]
  /\ used' = [used EXCEPT ![k] = FALSE]
  /\ found' = found \cup {k}
  /\ UNCHANGED <<settings, call, last, served, calls>>

\* clear_expectations, which every ua_test starts with.
Clear ==
  /\ Unlocked
  /\ found' = {}
  /\ used' = [k \in Keys |-> FALSE]
  /\ items' = [k \in Keys |-> <<>>]
  /\ count' = [k \in Keys |-> 0]
  /\ last' = [k \in Keys |-> 0]
  /\ served' = [k \in Keys |-> 0]
  /\ UNCHANGED <<settings, call, calls>>

-----------------------------------------------------------------------------
(***************************************************************************)
(* request_json.                                                           *)
(***************************************************************************)

Calls(t) ==
  /\ call[t].at = "idle"
  /\ Unlocked
  /\ calls < MaxCalls
  /\ calls' = calls + 1
  /\ UNCHANGED settings

\* Mutant: the last expectation of every method stays.
Answer_keepsLast(t, k) ==
  /\ Calls(t)
  /\ items[k] # <<>>
  /\ IF Len(items[k]) > 1
       THEN items' = [items EXCEPT ![k] = Tail(@)] /\ UNCHANGED used
       ELSE used' = [used EXCEPT ![k] = TRUE] /\ UNCHANGED items
  /\ last' = [last EXCEPT ![k] = Head(items[k])]
  /\ served' = [served EXCEPT ![k] = @ + 1]
  /\ UNCHANGED <<found, count, call>>

\* The first expectation is the answer.  It is removed, unless it is the last
\* one and the method is idempotent.
Answer(t, k) ==
  /\ Calls(t)
  /\ items[k] # <<>>
  /\ IF Len(items[k]) > 1 \/ k \notin Idempotent
       THEN items' = [items EXCEPT ![k] = Tail(@)] /\ UNCHANGED used
       ELSE used' = [used EXCEPT ![k] = TRUE] /\ UNCHANGED items
  /\ last' = [last EXCEPT ![k] = Head(items[k])]
  /\ served' = [served EXCEPT ![k] = @ + 1]
  /\ UNCHANGED <<found, count, call>>

\* no_expectation is thrown.
NoExpectation(t, k) ==
  /\ Calls(t)
  /\ items[k] = <<>>
  /\ Offline
  /\ UNCHANGED <<map, call>>

\* check_cache: on to the network.  The map stays locked when it has an entry
\* for the request, because the lambda is still running.
GoOut(t, k, body) ==
  /\ Calls(t)
  /\ items[k] = <<>>
  /\ ~Offline
  /\ call' = [call EXCEPT ![t] =
       [at |-> "network", hops |-> 0, locked |-> k \in found, body |-> body, headers |-> TRUE]]
  /\ UNCHANGED map

-----------------------------------------------------------------------------
(***************************************************************************)
(* make_request, one request at a time.                                    *)
(***************************************************************************)

\* The caller's headers are given to the request's MIME body with std::move.
\* A text_body takes them by value; an empty_mime takes a const reference, so
\* that they stay where they were.
HeadersAfter(t) == call[t].headers /\ ~call[t].body

\* The request waits for the other end, which does nothing, and no time out ends
\* that: a write has none, and a read may have lost its own (TimedIo).
Hang(t) ==
  /\ call[t].at = "network"
  /\ call' = [call EXCEPT ![t].at = "stuck"]
  /\ UNCHANGED <<settings, map, calls>>

\* A body, a status of 400 or more, or an exception of the user agent.
Finish(t) ==
  /\ call[t].at # "idle"
  /\ call' = [call EXCEPT ![t] = Idle]
  /\ UNCHANGED <<settings, map, calls>>

\* Mutant: after its last turn the loop starts again.
Follow_forEver(t) ==
  /\ call[t].at # "idle"
  /\ call' = [call EXCEPT ![t].at = "network", ![t].hops = (@ + 1) % MaxHops,
                          ![t].headers = HeadersAfter(t)]
  /\ UNCHANGED <<settings, map, calls>>

\* Mutant: one request more than the loop's limit.
Follow_oneMore(t) ==
  /\ call[t].at # "idle"
  /\ call' = [call EXCEPT ![t] =
       IF call[t].hops + 1 <= MaxHops
         THEN [call[t] EXCEPT !.at = "network", !.hops = @ + 1, !.headers = HeadersAfter(t)]
         ELSE Idle]
  /\ UNCHANGED <<settings, map, calls>>

\* A 301, 302 or 303 goes round the loop with the Location; after the last
\* turn the call throws not_implemented.
Follow(t) ==
  /\ call[t].at # "idle"
  /\ call' = [call EXCEPT ![t] =
       IF call[t].hops + 1 < MaxHops
         THEN [call[t] EXCEPT !.at = "network", !.hops = @ + 1, !.headers = HeadersAfter(t)]
         ELSE Idle]
  /\ UNCHANGED <<settings, map, calls>>

-----------------------------------------------------------------------------
Request(t, k) ==
  \/ Answer(t, k)
  \/ NoExpectation(t, k)
  \/ \E body \in BOOLEAN : GoOut(t, k, body)

Next ==
  \/ \E k \in Keys : Expect(k)
  \/ Clear
  \/ \E t \in Threads, k \in Keys : Request(t, k)
  \/ \E t \in Threads : Hang(t) \/ Finish(t) \/ Follow(t)

Ends(t) == call[t].at = "network" /\ (Finish(t) \/ Follow(t))

\* A request is answered, fails or hangs; what the answer is, whether one that
\* hangs ever ends, and whether anybody calls, is open.
Fairness == \A t \in Threads : WF_vars(Ends(t))

Spec == Init /\ [][Next]_vars /\ Fairness

-----------------------------------------------------------------------------
(***************************************************************************)
(* Properties.                                                             *)
(***************************************************************************)

\* A test gets the answers it set, in the order in which it set them: each call
\* is answered by the expectation after the one that answered last.  Only for
\* a GET may an answer be given again, and only when no newer one is set.
AnswersInOrder ==
  [][\A k \in Keys : served'[k] > served[k] =>
       \/ last'[k] = last[k] + 1
       \/ last'[k] = last[k] /\ last[k] = count[k] /\ k \in Idempotent]_vars

\* No expectation is dropped before it has answered a call: what is set and has
\* not answered is waiting in its entry.
NoneDropped == \A k \in Keys :
  \A n \in (last[k] + 1)..count[k] : \E i \in DOMAIN items[k] : items[k][i] = n

\* A redirect loop ends, and with it the lock that the call may hold, unless one
\* of its requests hangs for ever.
RedirectsEnd == \A t \in Threads :
  call[t].at # "idle" ~> (call[t].at = "idle" \/ [](call[t].at = "stuck"))

\* A request without a body is sent again with the caller's headers after every
\* redirect.
RedirectsKeepHeaders == \A t \in Threads :
  call[t].at # "idle" /\ ~call[t].body => call[t].headers
=============================================================================
