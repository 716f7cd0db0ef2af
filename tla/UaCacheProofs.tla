--------------------------- MODULE UaCacheProofs ---------------------------
(***************************************************************************)
(* Proofs about UaCache: for any threads, requests and limits, a call is   *)
(* answered by the expectations in the order in which they were set, none  *)
(* is dropped, and a test fixture keeps every call off the network.        *)
(***************************************************************************)
EXTENDS UaCache, TLAPS

\* The entry of a request holds the numbers after the last one that answered;
\* a used entry holds the last one again, and nothing newer exists.
Entry(k) ==
  /\ last[k] <= count[k]
  /\ k \notin found => ~used[k] /\ count[k] = 0
  /\ used[k] => /\ k \in Idempotent
                /\ count[k] = last[k]
                /\ items[k] = <<last[k]>>
  /\ ~used[k] => /\ Len(items[k]) = count[k] - last[k]
                 /\ \A i \in 1..Len(items[k]) : items[k][i] = last[k] + i

Entries == \A k \in Keys : Entry(k)

IInv == TypeOK /\ Entries

-----------------------------------------------------------------------------
\* The empty map satisfies the invariant.
LEMMA InitIInv == Init => IInv
BY UaCacheAssumption DEF Init, IInv, TypeOK, Entries, Entry, Idle

\* An entry with one expectation holds the number after the last.
LEMMA Newest ==
  \A m \in Nat : /\ Len(<<m + 1>>) = (m + 1) - m
                 /\ \A i \in 1..Len(<<m + 1>>) : <<m + 1>>[i] = m + i
OBVIOUS

\* set_expectation keeps the entries in order: the new expectation goes to the
\* end, or replaces one that has answered and is the last.
LEMMA ExpectIInv ==
  ASSUME IInv, NEW k \in Keys, Expect(k)
  PROVE  IInv'
<1> USE UaCacheAssumption
<1> DEFINE n == count[k] + 1
           kept == Kept(k, n)
<1>1. /\ count[k] \in Nat /\ n \in Nat /\ last[k] \in Nat /\ items[k] \in Seq(Nat)
      /\ Entry(k)
  BY DEF IInv, TypeOK, Entries
<1>2. kept \in Seq(Nat)
  BY <1>1 DEF Kept
<1>3. TypeOK'
  <2>1. items' \in [Keys -> Seq(Nat)]
    BY <1>2 DEF IInv, TypeOK, Expect
  <2>2. count' \in [Keys -> Nat] /\ used' \in [Keys -> BOOLEAN] /\ found' \in SUBSET Keys
    BY <1>1 DEF IInv, TypeOK, Expect
  <2>3. QED
    BY <2>1, <2>2 DEF IInv, TypeOK, Expect
<1>4. /\ Len(kept) = n - last[k]
      /\ \A i \in 1..Len(kept) : kept[i] = last[k] + i
  <2>1. CASE k \in found /\ ~used[k]
    <3>1. kept = Append(items[k], n)
      BY <2>1 DEF Kept
    <3>2. Len(items[k]) = count[k] - last[k]
      BY <1>1, <2>1 DEF Entry
    <3>3. \A i \in 1..Len(items[k]) : items[k][i] = last[k] + i
      BY <1>1, <2>1 DEF Entry
    <3>4. Len(kept) = Len(items[k]) + 1
      BY <1>1, <3>1
    <3>5. \A i \in 1..Len(kept) : kept[i] = IF i <= Len(items[k]) THEN items[k][i] ELSE n
      BY <1>1, <3>1, SMTT(40)
    <3>6. ASSUME NEW i \in 1..Len(kept) PROVE kept[i] = last[k] + i
      <4>1. i \in Nat /\ Len(items[k]) \in Nat /\ i <= Len(items[k]) + 1 /\ 1 <= i
        BY <1>1, <3>4
      <4>2. CASE i <= Len(items[k])
        BY <3>3, <3>5, <4>1, <4>2
      <4>3. CASE ~(i <= Len(items[k]))
        BY <1>1, <3>2, <3>5, <4>1, <4>3
      <4>4. QED
        BY <4>2, <4>3
    <3>7. QED
      BY <1>1, <3>2, <3>4, <3>6
  <2>2. CASE ~(k \in found /\ ~used[k])
    <3>1. kept = <<n>>
      BY <2>2 DEF Kept
    <3>2. count[k] = last[k]
      BY <1>1, <2>2 DEF Entry
    <3>3. n = last[k] + 1 /\ kept = <<last[k] + 1>>
      BY <3>1, <3>2
    <3>4. /\ Len(<<last[k] + 1>>) = (last[k] + 1) - last[k]
          /\ \A i \in 1..Len(<<last[k] + 1>>) : <<last[k] + 1>>[i] = last[k] + i
      BY <1>1, Newest
    <3> HIDE DEF n, kept
    <3>5. QED
      BY <3>3, <3>4
  <2>3. QED
    BY <2>1, <2>2
<1>5. Entries'
  <2> SUFFICES ASSUME NEW j \in Keys PROVE Entry(j)'
    BY DEF Entries
  <2>1. CASE j = k
    <3>1. /\ count'[j] = n /\ ~used'[j] /\ items'[j] = kept /\ j \in found' /\ last' = last
      BY <2>1 DEF Expect, IInv, TypeOK
    <3>2. last[j] <= n
      BY <1>1, <2>1 DEF Entry
    <3>3. QED
      BY <3>1, <3>2, <1>4, <2>1 DEF Entry
  <2>2. CASE j # k
    <3>1. /\ count'[j] = count[j] /\ used'[j] = used[j] /\ items'[j] = items[j]
          /\ j \in found' <=> j \in found
          /\ last' = last
      BY <2>2 DEF Expect, IInv, TypeOK
    <3>2. Entry(j)
      BY DEF IInv, Entries
    <3>3. QED
      BY <3>1, <3>2 DEF Entry
  <2>3. QED
    BY <2>1, <2>2
<1>6. QED
  BY <1>3, <1>5 DEF IInv

\* Answering a call keeps the entries in order.  The answer is the expectation
\* after the one that answered last, or that one again.
LEMMA AnswerIInv ==
  ASSUME IInv, NEW t \in Threads, NEW k \in Keys, Answer(t, k)
  PROVE  /\ IInv'
         /\ \/ last'[k] = last[k] + 1
            \/ last'[k] = last[k] /\ last[k] = count[k] /\ k \in Idempotent
         /\ \A j \in Keys : j # k => served'[j] = served[j]
<1> USE UaCacheAssumption
<1>1. /\ count[k] \in Nat /\ last[k] \in Nat /\ served[k] \in Nat /\ items[k] \in Seq(Nat)
      /\ used[k] \in BOOLEAN
      /\ Entry(k)
      /\ items[k] # <<>> /\ Len(items[k]) >= 1
  BY DEF IInv, TypeOK, Entries, Answer
<1>2. Head(items[k]) \in Nat /\ Tail(items[k]) \in Seq(Nat) /\ Head(items[k]) = items[k][1]
  BY <1>1
<1>3. last'[k] = Head(items[k])
  BY DEF Answer, IInv, TypeOK
<1>4. k \in found
  BY <1>1 DEF Entry
<1>5. TypeOK'
  <2>1. items' \in [Keys -> Seq(Nat)]
    BY <1>2 DEF IInv, TypeOK, Answer
  <2>2. used' \in [Keys -> BOOLEAN]
    BY DEF IInv, TypeOK, Answer
  <2>3. last' \in [Keys -> Nat] /\ served' \in [Keys -> Nat] /\ calls' \in Nat
    BY <1>1, <1>2 DEF IInv, TypeOK, Answer, Calls
  <2>4. QED
    BY <2>1, <2>2, <2>3 DEF IInv, TypeOK, Answer, Calls
<1>6. \A j \in Keys : j # k => Entry(j)' /\ served'[j] = served[j]
  <2> SUFFICES ASSUME NEW j \in Keys, j # k PROVE Entry(j)' /\ served'[j] = served[j]
    OBVIOUS
  <2>1. /\ count' = count /\ found' = found
        /\ used'[j] = used[j] /\ items'[j] = items[j] /\ last'[j] = last[j]
        /\ served'[j] = served[j]
    BY DEF Answer, IInv, TypeOK
  <2>2. Entry(j)
    BY DEF IInv, Entries
  <2>3. QED
    BY <2>1, <2>2 DEF Entry
<1>7. SUFFICES /\ Entry(k)'
               /\ \/ last'[k] = last[k] + 1
                  \/ last'[k] = last[k] /\ last[k] = count[k] /\ k \in Idempotent
  BY <1>5, <1>6 DEF IInv, Entries
<1>8. CASE used[k]
  <2>1. items[k] = <<last[k]>> /\ count[k] = last[k] /\ k \in Idempotent
    BY <1>1, <1>8 DEF Entry
  <2>2. last'[k] = last[k]
    BY <1>1, <1>2, <1>3, <2>1
  <2>3. items'[k] = items[k] /\ used'[k] /\ count' = count
    BY <1>1, <2>1 DEF Answer, IInv, TypeOK
  <2>4. QED
    BY <1>1, <1>4, <2>1, <2>2, <2>3 DEF Entry, Answer
<1>9. CASE ~used[k]
  <2>1. /\ Len(items[k]) = count[k] - last[k]
        /\ \A i \in 1..Len(items[k]) : items[k][i] = last[k] + i
    BY <1>1, <1>9 DEF Entry
  <2>2. last'[k] = last[k] + 1
    BY <1>1, <1>2, <1>3, <2>1
  <2>3. CASE Len(items[k]) > 1 \/ k \notin Idempotent
    <3>1. items'[k] = Tail(items[k]) /\ ~used'[k] /\ count' = count /\ found' = found
      BY <1>9, <2>3 DEF Answer, IInv, TypeOK
    <3>2. Len(Tail(items[k])) = Len(items[k]) - 1
      BY <1>1
    <3>3. \A i \in 1..Len(Tail(items[k])) : Tail(items[k])[i] = items[k][i + 1]
      BY <1>1
    <3>4. \A i \in 1..Len(Tail(items[k])) : Tail(items[k])[i] = last[k] + 1 + i
      <4> SUFFICES ASSUME NEW i \in 1..Len(Tail(items[k]))
                   PROVE  Tail(items[k])[i] = last[k] + 1 + i
        OBVIOUS
      <4>1. Tail(items[k])[i] = items[k][i + 1]
        BY <3>3
      <4>2. i + 1 \in 1..Len(items[k]) /\ i \in Nat
        BY <1>1, <3>2
      <4>3. items[k][i + 1] = last[k] + (i + 1)
        BY <2>1, <4>2
      <4>4. last[k] + (i + 1) = last[k] + 1 + i
        <5>1. last[k] \in Nat
          BY <1>1
        <5>2. QED
          BY <4>2, <5>1
      <4>5. QED
        BY <4>1, <4>3, <4>4
    <3>5. QED
      BY <1>1, <1>4, <2>1, <2>2, <3>1, <3>2, <3>4, SMTT(40) DEF Entry
  <2>4. CASE ~(Len(items[k]) > 1 \/ k \notin Idempotent)
    <3>1. items'[k] = items[k] /\ used'[k] /\ count' = count /\ found' = found
      BY <2>4 DEF Answer, IInv, TypeOK
    <3>2. Len(items[k]) = 1 /\ count[k] = last[k] + 1 /\ k \in Idempotent
      BY <1>1, <2>1, <2>4
    <3>3. items[k] = <<last[k] + 1>>
      BY <1>1, <2>1, <3>2
    <3>4. QED
      BY <1>1, <1>4, <2>2, <3>1, <3>2, <3>3 DEF Entry
  <2>5. QED
    BY <2>3, <2>4, <2>2
<1>10. QED
  BY <1>8, <1>9

-----------------------------------------------------------------------------
\* What a call does on the network touches no entry.
LEMMA NetworkIInv ==
  ASSUME IInv, NEW t \in Threads,
         \/ \E k \in Keys : NoExpectation(t, k)
         \/ \E k \in Keys, body \in BOOLEAN : GoOut(t, k, body)
         \/ Hang(t)
         \/ Finish(t)
         \/ Follow(t)
  PROVE  IInv' /\ UNCHANGED map
<1> USE UaCacheAssumption
<1>1. UNCHANGED <<map, settings>>
  BY DEF NoExpectation, GoOut, Hang, Finish, Follow, Calls
<1>2. calls' \in Nat
  BY DEF NoExpectation, GoOut, Hang, Finish, Follow, Calls, IInv, TypeOK
<1>3. call' \in [Threads -> [at : {"idle", "network", "stuck"}, hops : 0..(MaxHops - 1),
                             locked : BOOLEAN, body : BOOLEAN, headers : BOOLEAN]]
  <2>1. CASE \E k \in Keys : NoExpectation(t, k)
    BY <2>1 DEF NoExpectation, IInv, TypeOK
  <2>2. CASE \E k \in Keys, body \in BOOLEAN : GoOut(t, k, body)
    BY <2>2 DEF GoOut, IInv, TypeOK
  <2>3. CASE Finish(t)
    BY <2>3 DEF Finish, Idle, IInv, TypeOK
  <2>4. CASE Follow(t)
    <3> DEFINE c == call[t]
               next == [c EXCEPT !.at = "network", !.hops = @ + 1, !.headers = HeadersAfter(t)]
               Call == [at : {"idle", "network", "stuck"}, hops : 0..(MaxHops - 1),
                        locked : BOOLEAN, body : BOOLEAN, headers : BOOLEAN]
    <3>1. call \in [Threads -> Call] /\ c \in Call
      BY DEF IInv, TypeOK
    <3>2. HeadersAfter(t) \in BOOLEAN
      BY <3>1 DEF HeadersAfter
    <3>3. ASSUME c.hops + 1 < MaxHops PROVE next \in Call
      <4>1. c.hops + 1 \in 0..(MaxHops - 1)
        BY <3>1, <3>3
      <4>2. QED
        BY <3>1, <3>2, <4>1
    <3>4. Idle \in Call
      BY DEF Idle
    <3>5. call' = [call EXCEPT ![t] = IF c.hops + 1 < MaxHops THEN next ELSE Idle]
      BY <2>4 DEF Follow
    <3>6. QED
      BY <3>1, <3>3, <3>4, <3>5
  <2>5. CASE Hang(t)
    BY <2>5 DEF Hang, IInv, TypeOK
  <2>6. QED
    BY <2>1, <2>2, <2>3, <2>4, <2>5
<1>4. TypeOK'
  BY <1>1, <1>2, <1>3 DEF IInv, TypeOK, map
<1>5. Entries'
  BY <1>1 DEF IInv, Entries, Entry, map
<1>6. QED
  BY <1>1, <1>4, <1>5 DEF IInv

\* Every step keeps the invariant.
LEMMA StepIInv == IInv /\ [Next]_vars => IInv'
<1> USE UaCacheAssumption
<1> SUFFICES ASSUME IInv, [Next]_vars PROVE IInv'
  OBVIOUS
<1>1. ASSUME NEW k \in Keys, Expect(k) PROVE IInv'
  BY <1>1, ExpectIInv
<1>2. CASE Clear
  BY <1>2 DEF Clear, IInv, TypeOK, Entries, Entry
<1>3. ASSUME NEW t \in Threads, NEW k \in Keys, Request(t, k) PROVE IInv'
  BY <1>3, AnswerIInv, NetworkIInv DEF Request
<1>4. ASSUME NEW t \in Threads, Hang(t) \/ Finish(t) \/ Follow(t) PROVE IInv'
  BY <1>4, NetworkIInv
<1>5. CASE UNCHANGED vars
  BY <1>5 DEF vars, map, IInv, TypeOK, Entries, Entry
<1>6. QED
  BY <1>1, <1>2, <1>3, <1>4, <1>5 DEF Next

-----------------------------------------------------------------------------
\* The invariant holds in every reachable state.
LEMMA Invariance == Spec => []IInv
<1>1. Init => IInv
  BY InitIInv
<1>2. IInv /\ [Next]_vars => IInv'
  BY StepIInv
<1>3. QED
  BY <1>1, <1>2, PTL DEF Spec

\* The variables keep their types, and no call makes more requests than the
\* loop's limit.
THEOREM TypeCorrect == Spec => []TypeOK
BY Invariance, PTL DEF IInv

\* No expectation is dropped before it has answered a call.
THEOREM NothingDropped == Spec => []NoneDropped
<1>1. IInv => NoneDropped
  <2> SUFFICES ASSUME IInv, NEW k \in Keys, NEW n \in (last[k] + 1)..count[k]
               PROVE  \E i \in DOMAIN items[k] : items[k][i] = n
    BY DEF NoneDropped
  <2>1. /\ last[k] \in Nat /\ count[k] \in Nat /\ items[k] \in Seq(Nat)
        /\ n \in Nat /\ last[k] < n /\ n <= count[k]
        /\ Entry(k)
    BY DEF IInv, TypeOK, Entries
  <2>2. ~used[k]
    BY <2>1 DEF Entry
  <2>3. n - last[k] \in 1..Len(items[k])
    BY <2>1, <2>2 DEF Entry
  <2>4. items[k][n - last[k]] = n
    BY <2>1, <2>2, <2>3 DEF Entry
  <2>5. QED
    BY <2>1, <2>3, <2>4
<1>2. QED
  BY <1>1, Invariance, PTL

\* Calls are answered in the order in which the expectations were set, and only
\* the newest expectation of a GET answers twice.
THEOREM Ordered == Spec => AnswersInOrder
<1> DEFINE InOrder(k) ==
      served'[k] > served[k] =>
        \/ last'[k] = last[k] + 1
        \/ last'[k] = last[k] /\ last[k] = count[k] /\ k \in Idempotent
<1>1. ASSUME IInv, [Next]_vars, NEW k \in Keys PROVE InOrder(k)
  <2>1. served[k] \in Nat
    BY <1>1 DEF IInv, TypeOK
  <2>2. CASE served'[k] = served[k]
    BY <2>1, <2>2
  <2>3. CASE Clear
    <3>1. served'[k] = 0
      BY <2>3 DEF Clear
    <3>2. QED
      BY <2>1, <3>1
  <2>4. ASSUME NEW j \in Keys, Expect(j) PROVE served'[k] = served[k]
    BY <2>4 DEF Expect
  <2>5. ASSUME NEW t \in Threads, NEW j \in Keys, Answer(t, j) PROVE InOrder(k)
    <3>1. CASE j = k
      BY <1>1, <2>5, <3>1, AnswerIInv
    <3>2. CASE j # k
      <4>1. served'[k] = served[k]
        BY <1>1, <2>5, <3>2, AnswerIInv
      <4>2. QED
        BY <2>2, <4>1
    <3>3. QED
      BY <3>1, <3>2
  <2>6. ASSUME NEW t \in Threads, NEW j \in Keys,
               NoExpectation(t, j) \/ \E body \in BOOLEAN : GoOut(t, j, body)
        PROVE  served'[k] = served[k]
    BY <2>6 DEF NoExpectation, GoOut, map
  <2>7. ASSUME NEW t \in Threads, Hang(t) \/ Finish(t) \/ Follow(t) PROVE served'[k] = served[k]
    BY <2>7 DEF Hang, Finish, Follow, map
  <2>8. CASE UNCHANGED vars
    <3>1. served'[k] = served[k]
      BY <2>8 DEF vars, map
    <3>2. QED
      BY <2>2, <3>1
  <2>9. QED
    BY <1>1, <2>2, <2>3, <2>4, <2>5, <2>6, <2>7, <2>8 DEF Next, Request
<1>2. IInv /\ [Next]_vars => [\A k \in Keys : InOrder(k)]_vars
  BY <1>1
<1>3. QED
  BY <1>2, Invariance, PTL DEF Spec, AnswersInOrder

\* A request without a body is sent with the caller's headers at every redirect.
THEOREM HeadersKept == Spec => []RedirectsKeepHeaders
<1>1. Init => RedirectsKeepHeaders
  BY DEF Init, RedirectsKeepHeaders, Idle
<1>2. TypeOK /\ RedirectsKeepHeaders /\ [Next]_vars => RedirectsKeepHeaders'
  <2> SUFFICES ASSUME TypeOK, RedirectsKeepHeaders, [Next]_vars, NEW s \in Threads,
                      call'[s].at # "idle", ~call'[s].body
               PROVE  call'[s].headers
    BY DEF RedirectsKeepHeaders
  <2>1. CASE call' = call
    BY <2>1 DEF RedirectsKeepHeaders
  <2>2. ASSUME NEW t \in Threads, NEW k \in Keys, NEW body \in BOOLEAN, GoOut(t, k, body)
        PROVE  call'[s].headers
    BY <2>2 DEF GoOut, RedirectsKeepHeaders, TypeOK
  <2>3. ASSUME NEW t \in Threads, Finish(t) PROVE call'[s].headers
    BY <2>3 DEF Finish, Idle, RedirectsKeepHeaders, TypeOK
  <2>4. ASSUME NEW t \in Threads, Follow(t) PROVE call'[s].headers
    BY <2>4 DEF Follow, HeadersAfter, Idle, RedirectsKeepHeaders, TypeOK
  <2>5. ASSUME NEW t \in Threads, Hang(t) PROVE call'[s].headers
    BY <2>5 DEF Hang, RedirectsKeepHeaders, TypeOK
  <2>6. QED
    BY <2>1, <2>2, <2>3, <2>4, <2>5
    DEF Next, Expect, Clear, Request, Answer, NoExpectation, vars
<1>3. QED
  BY <1>1, <1>2, TypeCorrect, PTL DEF Spec
=============================================================================
