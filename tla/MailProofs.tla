----------------------------- MODULE MailProofs -----------------------------
(***************************************************************************)
(* That the blocks which the iterator of a message yields are, one after   *)
(* the other, the message as its structure requires it, so that the client *)
(* of Mail implements the one of Smtp; and with the theorems of SmtpProofs *)
(* that what it reports as sent was spooled, once and whole.               *)
(***************************************************************************)
EXTENDS Mail, SequenceTheorems, WellFoundedInduction, TLAPS

SP == INSTANCE SmtpProofs
        WITH outbox <- Outbox(mails), Outboxes <- {Outbox(given) : given \in Mails},
             Dots <- {Dot}, NoPiece <- M!NoText

\* The server's replies have one line, and what is printed of a header is a line.
Proper ==
  /\ MaxLines = 1
  /\ \A given \in Mails, m \in Messages :
       given[m].lines \in Seq([length : Nat, blanks : SUBSET Nat])
         /\ \A i \in DOMAIN given[m].lines : IsLine(given[m].lines[i])

-----------------------------------------------------------------------------
(***************************************************************************)
(* Sequences.                                                              *)
(***************************************************************************)

LEMMA Least ==
  ASSUME NEW T, T \subseteq Nat, T # {}
  PROVE  \E x \in T : \A y \in T : x <= y
<1> DEFINE R == OpToRel(<, Nat)
<1>1. IsWellFoundedOn(R, Nat)
  BY NatLessThanWellFounded, Zenon
<1>2. R = {ss \in Nat \X Nat : ss[1] < ss[2]}
  BY Zenon DEF OpToRel
<1> HIDE DEF R
<1>3. PICK x \in T : \A y \in T : ~(<<y, x>> \in R)
  BY <1>1, WFMin, Zenon
<1>4. ASSUME NEW y \in T PROVE x <= y
  <2>1. x \in Nat /\ y \in Nat /\ <<y, x>> \notin R
    BY <1>3
  <2>2. <<y, x>> \in Nat \X Nat /\ <<y, x>>[1] = y /\ <<y, x>>[2] = x
    BY <2>1
  <2> QED BY <1>2, <2>1, <2>2
<1> QED BY <1>3, <1>4

LEMMA Associative ==
  ASSUME NEW X, NEW a \in Seq(X), NEW b \in Seq(X), NEW c \in Seq(X)
  PROVE  (a \o b) \o c = a \o (b \o c) /\ b \o c \in Seq(X)
OBVIOUS

\* The one sequence begins the other.
Starts(part, whole, X) == \E r \in Seq(X) : whole = part \o r

\* What was written of an envelope, to the end of what is written of an
\* attachment but its delimiter; and what all of that is with its delimiter, and
\* with what follows.
Written(o, u, h, d) == Append(<<o>> \o u, h) \o d
Through(o, u, h, d, e) == <<o>> \o (u \o (<<h>> \o d \o e))
Whole(o, u, h, d, e, r) == <<o>> \o ((u \o (<<h>> \o d \o e)) \o r)

LEMMA Regroup ==
  \A X : \A o, h, a \in X : \A u, d \in Seq(X) :
    Append(Written(o, u, h, d), a) = Through(o, u, h, d, <<a>>)
<1> SUFFICES ASSUME NEW X, NEW o \in X, NEW h \in X, NEW a \in X, NEW u \in Seq(X),
                    NEW d \in Seq(X)
             PROVE  Append(Append(<<o>> \o u, h) \o d, a) = <<o>> \o (u \o (<<h>> \o d \o <<a>>))
  BY DEF Written, Through
<1> DEFINE left == Append(Append(<<o>> \o u, h) \o d, a)
           right == <<o>> \o (u \o (<<h>> \o d \o <<a>>))
<1>1. left \in Seq(X) /\ right \in Seq(X)
  OBVIOUS
<1>2. Len(left) = Len(u) + Len(d) + 3 /\ Len(right) = Len(u) + Len(d) + 3
  OBVIOUS
<1>3. ASSUME NEW k \in 1..(Len(u) + Len(d) + 3) PROVE left[k] = right[k]
  OBVIOUS
<1> HIDE DEF left, right
<1>4. left = right
  BY <1>1, <1>2, <1>3
<1> QED BY <1>4 DEF left, right

LEMMA Regrouped ==
  \A X : \A o, h \in X : \A u, d, e, r \in Seq(X) :
    /\ Starts(Append(<<o>> \o u, h), Whole(o, u, h, d, e, r), X)
    /\ Starts(Written(o, u, h, d), Whole(o, u, h, d, e, r), X)
<1> SUFFICES
      ASSUME NEW X, NEW o \in X, NEW h \in X, NEW u \in Seq(X), NEW d \in Seq(X),
             NEW e \in Seq(X), NEW r \in Seq(X)
      PROVE  /\ Starts(Append(<<o>> \o u, h), Whole(o, u, h, d, e, r), X)
             /\ Starts(Written(o, u, h, d), Whole(o, u, h, d, e, r), X)
  BY Zenon
<1> DEFINE first == <<o>> \o ((u \o (<<h>> \o d \o e)) \o r)
           second == Append(<<o>> \o u, h) \o (d \o (e \o r))
           third == (Append(<<o>> \o u, h) \o d) \o (e \o r)
           l == Len(u) + Len(d) + Len(e) + Len(r) + 2
<1>1. /\ first \in Seq(X) /\ second \in Seq(X) /\ third \in Seq(X)
      /\ Len(first) = l /\ Len(second) = l /\ Len(third) = l
  OBVIOUS
<1>2. ASSUME NEW k \in 1..l PROVE first[k] = second[k] /\ second[k] = third[k]
  OBVIOUS
<1> HIDE DEF first, second, third, l
<1>3. first = second /\ second = third
  BY <1>1, <1>2
<1>4. e \o r \in Seq(X) /\ d \o (e \o r) \in Seq(X)
  OBVIOUS
<1>5. /\ first = Append(<<o>> \o u, h) \o (d \o (e \o r))
      /\ first = Written(o, u, h, d) \o (e \o r)
      /\ first = Whole(o, u, h, d, e, r)
  BY <1>3, Zenon DEF first, second, third, Written, Whole
<1> QED BY <1>4, <1>5, Zenon DEF Starts

\* f is what the first i of the sequences make, one after the other.
IsJoin(f, n, g, X) ==
  /\ f \in [0..n -> Seq(X)]
  /\ f[0] = <<>>
  /\ \A i \in 1..n : f[i] = f[i - 1] \o g[i]

LEMMA JoinExists ==
  ASSUME NEW X, NEW n \in Nat, NEW g \in [1..n -> Seq(X)]
  PROVE  \E f : IsJoin(f, n, g, X)
<1> DEFINE bad == {k \in 0..n : ~\E f : IsJoin(f, k, g, X)}
<1>1. ASSUME bad # {} PROVE FALSE
  <2>1. PICK k \in bad : \A j \in bad : k <= j
    <3>1. bad \subseteq Nat
      OBVIOUS
    <3> HIDE DEF bad
    <3> QED BY <1>1, <3>1, Least
  <2>2. k \in 0..n /\ ~\E f : IsJoin(f, k, g, X)
    BY <2>1
  <2>3. CASE k = 0
    <3>1. IsJoin([i \in 0..0 |-> <<>>], 0, g, X)
      BY DEF IsJoin
    <3> QED BY <2>2, <2>3, <3>1
  <2>4. CASE k # 0
    <3>1. k - 1 \in 0..n /\ k - 1 \notin bad
      <4>1. k - 1 \in 0..n /\ ~(k <= k - 1)
        BY <2>2, <2>4
      <4> HIDE DEF bad
      <4> QED BY <2>1, <4>1
    <3>2. PICK f : IsJoin(f, k - 1, g, X)
      BY <3>1
    <3>3. /\ f \in [0..(k - 1) -> Seq(X)] /\ f[0] = <<>>
          /\ \A i \in 1..(k - 1) : f[i] = f[i - 1] \o g[i]
      BY <3>2 DEF IsJoin
    <3> DEFINE h == [i \in 0..k |-> IF i = k THEN f[k - 1] \o g[k] ELSE f[i]]
    <3>4. g[k] \in Seq(X) /\ f[k - 1] \in Seq(X)
      BY <2>2, <2>4, <3>3
    <3>5. f[k - 1] \o g[k] \in Seq(X)
      BY <3>4
    <3>6. h \in [0..k -> Seq(X)]
      BY <2>2, <2>4, <3>3, <3>5
    <3>7. h[0] = <<>> /\ h[k] = f[k - 1] \o g[k] /\ \A i \in 0..(k - 1) : h[i] = f[i]
      <4>1. 0 \in 0..k /\ k \in 0..k /\ k # 0 /\ \A i \in 0..(k - 1) : i \in 0..k /\ i # k
        BY <2>2, <2>4
      <4> QED BY <3>3, <4>1, Zenon
    <3> HIDE DEF h
    <3>8. \A i \in 1..k : h[i] = h[i - 1] \o g[i]
      <4> SUFFICES ASSUME NEW i \in 1..k PROVE h[i] = h[i - 1] \o g[i]
        OBVIOUS
      <4>1. CASE i = k
        <5>1. i - 1 \in 0..(k - 1) /\ i - 1 = k - 1
          BY <2>2, <2>4, <4>1
        <5> QED BY <3>7, <4>1, <5>1
      <4>2. CASE i # k
        <5>1. i \in 1..(k - 1) /\ i \in 0..(k - 1) /\ i - 1 \in 0..(k - 1)
          BY <2>2, <4>2
        <5> QED BY <3>3, <3>7, <5>1
      <4> QED BY <4>1, <4>2
    <3>9. IsJoin(h, k, g, X)
      BY <3>6, <3>7, <3>8 DEF IsJoin
    <3> QED BY <2>2, <3>9
  <2> QED BY <2>3, <2>4
<1>2. n \in 0..n
  OBVIOUS
<1> QED BY <1>1, <1>2

LEMMA JoinIsFlat ==
  ASSUME NEW X, NEW n \in Nat \ {0}, NEW g \in [1..n -> Seq(X)], NEW f, IsJoin(f, n, g, X)
  PROVE  M!FlattenSeq(g) = f[n]
<1> DEFINE Step(h, i) == IF i = 1 THEN g[i] ELSE h[i - 1] \o g[i]
           flat == CHOOSE h : h = [i \in 1..n |-> Step(h, i)]
           s == [i \in 1..n |-> f[i]]
<1>0. g \in Seq(Seq(X)) /\ Len(g) = n
  OBVIOUS
<1>1. M!FlattenSeq(g) = flat[n]
  BY <1>0 DEF M!FlattenSeq
<1>2. \A i \in 1..n : s[i] = Step(s, i)
  <2> SUFFICES ASSUME NEW i \in 1..n PROVE s[i] = Step(s, i)
    OBVIOUS
  <2>1. f[i] = f[i - 1] \o g[i] /\ f[0] = <<>> /\ g[i] \in Seq(X)
    BY DEF IsJoin
  <2>2. CASE i = 1
    <3>1. <<>> \o g[i] = g[i]
      BY <2>1
    <3>2. f[i - 1] = f[0] /\ s[i] = f[i]
      BY <2>2
    <3> QED BY <2>1, <2>2, <3>1, <3>2
  <2>3. CASE i # 1
    <3>1. i - 1 \in 1..n
      BY <2>3
    <3>2. s[i] = f[i] /\ s[i - 1] = f[i - 1]
      BY <3>1
    <3> QED BY <2>1, <2>3, <3>2
  <2> QED BY <2>2, <2>3
<1>3. s = [i \in 1..n |-> Step(s, i)]
  BY <1>2
<1>4. flat = [i \in 1..n |-> Step(flat, i)]
  BY <1>3
<1> HIDE DEF flat
<1>5. \A i \in 1..n : flat[i] = Step(flat, i)
  BY <1>4
<1> DEFINE bad == {i \in 1..n : flat[i] # s[i]}
<1>6. ASSUME bad # {} PROVE FALSE
  <2>1. PICK i \in bad : \A j \in bad : i <= j
    <3>1. bad \subseteq Nat
      OBVIOUS
    <3> HIDE DEF bad
    <3> QED BY <1>6, <3>1, Least
  <2>2. i \in 1..n /\ flat[i] # s[i] /\ flat[i] = Step(flat, i) /\ s[i] = Step(s, i)
    BY <1>2, <1>5, <2>1
  <2>3. i # 1
    BY <2>2
  <2>4. i - 1 \in 1..n /\ i - 1 \notin bad
    BY <2>1, <2>2, <2>3, SMTT(20)
  <2>5. flat[i - 1] = s[i - 1]
    BY <2>4
  <2> QED BY <2>2, <2>3, <2>5
<1>7. n \in 1..n
  OBVIOUS
<1>8. flat[n] = s[n] /\ s[n] = f[n]
  BY <1>6, <1>7
<1> QED BY <1>1, <1>8

\* What the first of them make begins what all of them make.
LEMMA JoinPrefix ==
  ASSUME NEW X, NEW n \in Nat, NEW g \in [1..n -> Seq(X)], NEW f, IsJoin(f, n, g, X)
  PROVE  \A i \in 0..n : Starts(f[i], f[n], X)
<1>0. /\ f \in [0..n -> Seq(X)]
      /\ \A i \in 1..n : f[i] = f[i - 1] \o g[i]
  BY DEF IsJoin
<1> DEFINE bad == {d \in 0..n : ~\E r \in Seq(X) : f[n] = f[n - d] \o r}
<1>1. ASSUME bad # {} PROVE FALSE
  <2>1. PICK d \in bad : \A j \in bad : d <= j
    <3>1. bad \subseteq Nat
      OBVIOUS
    <3> HIDE DEF bad
    <3> QED BY <1>1, <3>1, Least
  <2>2. d \in 0..n /\ ~\E r \in Seq(X) : f[n] = f[n - d] \o r
    BY <2>1
  <2>3. CASE d = 0
    <3>1. f[n] \in Seq(X) /\ n - d = n
      BY <1>0, <2>3
    <3>2. f[n] = f[n - d] \o <<>> /\ <<>> \in Seq(X)
      BY <3>1
    <3> QED BY <2>2, <3>2
  <2>4. CASE d # 0
    <3>1. d - 1 \in 0..n /\ d - 1 \notin bad
      <4>1. d - 1 \in 0..n /\ ~(d <= d - 1)
        BY <2>2, <2>4
      <4> HIDE DEF bad
      <4> QED BY <2>1, <4>1
    <3>2. PICK r \in Seq(X) : f[n] = f[n - (d - 1)] \o r
      BY <3>1
    <3> DEFINE i == n - d
    <3>3. i \in 0..n /\ i + 1 \in 1..n /\ n - (d - 1) = i + 1 /\ (i + 1) - 1 = i
      BY <2>2, <2>4
    <3> HIDE DEF i
    <3>4. f[i + 1] = f[i] \o g[i + 1] /\ f[i] \in Seq(X) /\ g[i + 1] \in Seq(X)
      BY <1>0, <3>3
    <3>5. f[n] = f[i] \o (g[i + 1] \o r) /\ g[i + 1] \o r \in Seq(X)
      <4>1. f[n] = (f[i] \o g[i + 1]) \o r
        BY <3>2, <3>3, <3>4
      <4>2. \A a, b, c \in Seq(X) : (a \o b) \o c = a \o (b \o c) /\ b \o c \in Seq(X)
        BY Associative
      <4>3. (f[i] \o g[i + 1]) \o r = f[i] \o (g[i + 1] \o r) /\ g[i + 1] \o r \in Seq(X)
        BY <3>4, <4>2, Zenon
      <4> QED BY <4>1, <4>3, Zenon
    <3> QED BY <2>2, <3>5 DEF i
  <2> QED BY <2>3, <2>4
<1>2. ASSUME NEW i \in 0..n PROVE \E r \in Seq(X) : f[n] = f[i] \o r
  <2>1. n - i \in 0..n /\ n - (n - i) = i
    OBVIOUS
  <2>2. n - i \notin bad
    BY <1>1
  <2> QED BY <2>1, <2>2
<1> QED BY <1>2 DEF Starts

-----------------------------------------------------------------------------
(***************************************************************************)
(* A message as its structure requires it.                                 *)
(***************************************************************************)

Pieces == [what : M!Texts \ {"none"}, node : {M!Root} \cup {<<i>> : i \in Nat}, k : Nat]

Good(given) == M!IsTree(given) /\ M!KeepsItsBlocks(given)

\* The i-th attachment of the message, its data, and what is written of it.
Child(i) == Append(M!Root, i)
Data(given, node) == [k \in 1..given[node].n |-> M!Text("data", node, k)]
After(given, i) ==
  IF i = given[M!Root].n THEN M!Text("close", M!Root, 0) ELSE M!Text("between", M!Root, i)
Group(given, i) ==
  <<M!Text("headers", Child(i), 0)>> \o Data(given, Child(i)) \o <<After(given, i)>>
Groups(given) == [i \in 1..given[M!Root].n |-> Group(given, i)]
Open == M!Text("open", M!Root, 0)

LEMMA TreeProps ==
  ASSUME NEW given, Good(given)
  PROVE  /\ M!Root \in DOMAIN given
         /\ \A node \in DOMAIN given :
              /\ given[node].n \in Nat
              /\ node # M!Root => given[node].kind # "envelope" /\ given[node].n \in 0..1
         /\ given[M!Root].kind = "envelope" =>
              /\ given[M!Root].n > 0
              /\ \A i \in 1..given[M!Root].n : Child(i) \in DOMAIN given
         /\ \A i \in Nat : Child(i) = <<i>> /\ Child(i) # M!Root
<1>1. M!Root = <<>>
  BY DEF M!Root
<1>2. \A i \in Nat : Child(i) = <<i>> /\ Child(i) # M!Root
  BY <1>1 DEF Child
<1>3. M!Root \in DOMAIN given
  BY <1>1 DEF Good, M!IsTree
<1>4. \A node \in DOMAIN given : given[node].n \in Nat
  BY DEF Good, M!IsTree, M!Part
<1>5. ASSUME NEW node \in DOMAIN given, node # M!Root
      PROVE  given[node].kind # "envelope" /\ given[node].n \in 0..1
  <2>1. given[node].kind = "memory" \/ (given[node].kind = "file" /\ given[node].n <= 1)
    BY <1>1, <1>5 DEF Good, M!KeepsItsBlocks
  <2>2. given[node].kind = "memory" => given[node].n <= 1
    BY DEF Good, M!IsTree
  <2> QED BY <1>4, <2>1, <2>2
<1>6. ASSUME given[M!Root].kind = "envelope"
      PROVE  /\ given[M!Root].n > 0
             /\ \A i \in 1..given[M!Root].n : Child(i) \in DOMAIN given
  BY <1>3, <1>6 DEF Good, M!IsTree, M!Children, Child
<1> QED BY <1>2, <1>3, <1>4, <1>5, <1>6

LEMMA TextIs ==
  ASSUME NEW what \in M!Texts \ {"none"}, NEW node \in {M!Root} \cup {<<i>> : i \in Nat},
         NEW k \in Nat
  PROVE  M!Text(what, node, k) \in Pieces /\ M!Text(what, node, k).what = what
BY DEF M!Text, Pieces

LEMMA GroupIs ==
  ASSUME NEW given, Good(given), given[M!Root].kind = "envelope", NEW i \in 1..given[M!Root].n
  PROVE  /\ M!Text("headers", Child(i), 0) \in Pieces
         /\ Data(given, Child(i)) \in Seq(Pieces)
         /\ given[Child(i)].n = 0 => Data(given, Child(i)) = <<>>
         /\ given[Child(i)].n = 1 => Data(given, Child(i)) = <<M!Text("data", Child(i), 1)>>
         /\ M!Text("data", Child(i), 1) \in Pieces
         /\ After(given, i) \in Pieces
         /\ Group(given, i) \in Seq(Pieces)
         /\ given[Child(i)].n \in 0..1
<1>1. /\ Child(i) \in DOMAIN given /\ Child(i) # M!Root /\ Child(i) = <<i>>
      /\ given[M!Root].n \in Nat
  BY TreeProps
<1>2. given[Child(i)].n \in 0..1
  BY <1>1, TreeProps
<1>3. /\ M!Text("headers", Child(i), 0) \in Pieces
      /\ \A k \in Nat : M!Text("data", Child(i), k) \in Pieces
      /\ M!Text("close", M!Root, 0) \in Pieces
      /\ M!Text("between", M!Root, i) \in Pieces
  BY <1>1, TextIs DEF M!Texts
<1>4. After(given, i) \in Pieces
  BY <1>3 DEF After
<1>5. Data(given, Child(i)) \in Seq(Pieces)
  BY <1>2, <1>3 DEF Data
<1>6. given[Child(i)].n = 0 => Data(given, Child(i)) = <<>>
  BY DEF Data
<1>7. given[Child(i)].n = 1 => Data(given, Child(i)) = <<M!Text("data", Child(i), 1)>>
  BY DEF Data
<1>8. Group(given, i) \in Seq(Pieces)
  BY <1>3, <1>4, <1>5 DEF Group
<1> QED BY <1>2, <1>3, <1>4, <1>5, <1>6, <1>7, <1>8

\* The recursion in RenderedTree.
Rendering(given, render, node) ==
  IF given[node].kind = "envelope"
    THEN <<M!Text("open", node, 0)>> \o
           M!FlattenSeq([i \in 1..given[node].n |->
             <<M!Text("headers", Append(node, i), 0)>> \o render[Append(node, i)]
               \o <<IF i = given[node].n THEN M!Text("close", node, 0)
                                         ELSE M!Text("between", node, i)>>])
    ELSE [k \in 1..given[node].n |-> M!Text("data", node, k)]

LEMMA RenderedIs ==
  ASSUME NEW given, Good(given)
  PROVE  \E render :
           /\ M!RenderedTree(given) = render[M!Root]
           /\ \A node \in DOMAIN given : render[node] = Rendering(given, render, node)
<1> DEFINE render == CHOOSE f : f = [node \in DOMAIN given |-> Rendering(given, f, node)]
           leaves == [node \in DOMAIN given |-> Data(given, node)]
           all == [node \in DOMAIN given |-> Rendering(given, leaves, node)]
<1>1. M!RenderedTree(given) = render[M!Root]
  BY DEF M!RenderedTree, Rendering
<1>2. \A node \in DOMAIN given : node # M!Root => all[node] = leaves[node]
  BY TreeProps DEF Rendering, Data
<1>3. \A node \in DOMAIN given : Rendering(given, all, node) = Rendering(given, leaves, node)
  <2> SUFFICES ASSUME NEW node \in DOMAIN given
               PROVE  Rendering(given, all, node) = Rendering(given, leaves, node)
    OBVIOUS
  <2>1. CASE given[node].kind # "envelope"
    BY <2>1 DEF Rendering
  <2>2. CASE given[node].kind = "envelope"
    <3>1. node = M!Root
      BY <2>2, TreeProps
    <3>2. \A i \in 1..given[node].n : all[Append(node, i)] = leaves[Append(node, i)]
      <4> SUFFICES ASSUME NEW i \in 1..given[node].n
                   PROVE  all[Append(node, i)] = leaves[Append(node, i)]
        OBVIOUS
      <4>1. Child(i) \in DOMAIN given /\ Child(i) # M!Root /\ Child(i) = Append(node, i)
        BY <2>2, <3>1, TreeProps DEF Child
      <4> HIDE DEF all, leaves
      <4> QED BY <1>2, <4>1
    <3> HIDE DEF all, leaves
    <3> QED BY <2>2, <3>2 DEF Rendering
  <2> QED BY <2>1, <2>2
<1>4. all = [node \in DOMAIN given |-> Rendering(given, all, node)]
  BY <1>3
<1> HIDE DEF all
<1>5. render = [node \in DOMAIN given |-> Rendering(given, render, node)]
  BY <1>4
<1> HIDE DEF render
<1>6. \A node \in DOMAIN given : render[node] = Rendering(given, render, node)
  BY <1>5
<1> QED BY <1>1, <1>6

\* A message that is no envelope is its data; an envelope is a delimiter and
\* what is written of each attachment.
LEMMA LeafRendered ==
  ASSUME NEW given, Good(given), given[M!Root].kind # "envelope"
  PROVE  M!RenderedTree(given) = Data(given, M!Root)
BY RenderedIs, TreeProps DEF Rendering, Data

LEMMA EnvelopeRendered ==
  ASSUME NEW given, Good(given), given[M!Root].kind = "envelope"
  PROVE  \E upto :
           /\ IsJoin(upto, given[M!Root].n, Groups(given), Pieces)
           /\ M!RenderedTree(given) = <<Open>> \o upto[given[M!Root].n]
<1> DEFINE n == given[M!Root].n
<1>1. n \in Nat \ {0} /\ M!Root \in DOMAIN given
      /\ \A i \in 1..n : Child(i) \in DOMAIN given /\ Child(i) # M!Root
  BY TreeProps
<1>2. Groups(given) \in [1..n -> Seq(Pieces)]
  BY GroupIs DEF Groups
<1>3. PICK upto : IsJoin(upto, n, Groups(given), Pieces)
  BY <1>1, <1>2, JoinExists
<1>4. M!FlattenSeq(Groups(given)) = upto[n]
  BY <1>1, <1>2, <1>3, JoinIsFlat
<1>5. PICK render :
        /\ M!RenderedTree(given) = render[M!Root]
        /\ \A node \in DOMAIN given : render[node] = Rendering(given, render, node)
  BY RenderedIs
<1>6. \A i \in 1..n : render[Child(i)] = Data(given, Child(i))
  <2> SUFFICES ASSUME NEW i \in 1..n PROVE render[Child(i)] = Data(given, Child(i))
    OBVIOUS
  <2>1. given[Child(i)].kind # "envelope"
    BY <1>1, TreeProps
  <2> QED BY <1>1, <1>5, <2>1 DEF Rendering, Data
<1>7. Groups(given) =
        [i \in 1..n |->
           <<M!Text("headers", Append(M!Root, i), 0)>> \o render[Append(M!Root, i)]
             \o <<IF i = n THEN M!Text("close", M!Root, 0) ELSE M!Text("between", M!Root, i)>>]
  BY <1>6 DEF Groups, Group, Child, After
<1>8. M!RenderedTree(given) = <<Open>> \o M!FlattenSeq(Groups(given))
  BY <1>1, <1>5, <1>7 DEF Rendering, Open
<1> QED BY <1>3, <1>4, <1>8

-----------------------------------------------------------------------------
(***************************************************************************)
(* The iterator of a message.                                              *)
(***************************************************************************)

Iterators(given) ==
  [stage : {"start", "attachments", "final"}, at : Nat, held : BOOLEAN,
   memory : Pieces \cup {M!NoText}, shown : [null : BOOLEAN, node : DOMAIN given]]

\* Only the message's own iterator may hold that of an attachment.
Typed(given, its) ==
  /\ its \in [DOMAIN given -> Iterators(given)]
  /\ \A node \in DOMAIN given : its[node].at \in 1..(given[node].n + 1)
  /\ \A node \in DOMAIN given : its[node].held =>
       /\ node = M!Root /\ given[node].kind = "envelope"
       /\ its[node].at <= given[node].n

\* The iterator of a message in one part has read that many blocks.
ReadsLeaf(given, its, done) ==
  /\ given[M!Root].kind # "envelope"
  /\ its[M!Root].at > 1
  /\ done = [k \in 1..(its[M!Root].at - 1) |-> M!Text("data", M!Root, k)]

\* upto[i] is what is written of the first i attachments.
Joined(given, upto) ==
  /\ IsJoin(upto, given[M!Root].n, Groups(given), Pieces)
  /\ M!RenderedTree(given) = <<Open>> \o upto[given[M!Root].n]

\* The iterator of an envelope is at its i-th attachment: before its headers,
\* after them with its only block to come, or at its end.
Before(given, its, upto, done) ==
  /\ ~its[M!Root].held
  /\ its[M!Root].stage = IF its[M!Root].at > given[M!Root].n THEN "final" ELSE "attachments"
  /\ done = <<Open>> \o upto[its[M!Root].at - 1]

Headed(i, upto) == Append(<<Open>> \o upto[i - 1], M!Text("headers", Child(i), 0))

Within(given, its, upto, done) ==
  LET i == its[M!Root].at IN
  /\ its[M!Root].held /\ its[M!Root].stage = "attachments"
  /\ given[Child(i)].n = 1 /\ its[Child(i)].at = 2
  /\ its[Child(i)].memory = M!Text("data", Child(i), 1)
  /\ its[Child(i)].shown = M!Block(Child(i))
  /\ done = Headed(i, upto)

AtItsEnd(given, its, upto, done) ==
  LET i == its[M!Root].at IN
  /\ its[M!Root].held /\ its[M!Root].stage = "attachments"
  /\ its[Child(i)].shown.null
  /\ done = Headed(i, upto) \o Data(given, Child(i))

ReadsEnvelope(given, its, done) ==
  /\ given[M!Root].kind = "envelope"
  /\ \E upto :
       /\ Joined(given, upto)
       /\ \/ Before(given, its, upto, done)
          \/ Within(given, its, upto, done)
          \/ AtItsEnd(given, its, upto, done)

\* With the block that the iterator shows, that much of the message is written.
Reads(given, its, done) ==
  /\ Typed(given, its)
  /\ ReadsLeaf(given, its, done) \/ ReadsEnvelope(given, its, done)

Sees(its) == its[its[M!Root].shown.node].memory

\* The nodes whose iterators are called.
Called(given) == {node \in DOMAIN given : node = M!Root \/ \E i \in Nat : node = <<i>>}

\* What a call of the iterator leaves behind.
Moved(given, its, done) ==
  /\ Typed(given, its)
  /\ its[M!Root].shown.null => done = M!RenderedTree(given)
  /\ ~its[M!Root].shown.null => Reads(given, its, Append(done, Sees(its)))

LEMMA SetField ==
  ASSUME NEW given, NEW its \in [DOMAIN given -> Iterators(given)], NEW node \in DOMAIN given,
         M!Root \in DOMAIN given
  PROVE  /\ \A piece \in Pieces :
              /\ [its EXCEPT ![node].memory = piece, ![node].shown = M!Block(node)]
                   \in [DOMAIN given -> Iterators(given)]
              /\ [its EXCEPT ![node].at = @ + 1, ![node].memory = piece,
                             ![node].shown = M!Block(node)]
                   \in [DOMAIN given -> Iterators(given)]
         /\ [its EXCEPT ![node].shown = M!Null] \in [DOMAIN given -> Iterators(given)]
<1>1. its[node] \in Iterators(given)
  OBVIOUS
<1>2. M!Block(node) \in [null : BOOLEAN, node : DOMAIN given]
  BY DEF M!Block
<1>3. ASSUME NEW piece \in Pieces
      PROVE  [its EXCEPT ![node].memory = piece, ![node].shown = M!Block(node)]
                   \in [DOMAIN given -> Iterators(given)]
  BY <1>1, <1>2, <1>3 DEF Iterators
<1>4. ASSUME NEW piece \in Pieces
      PROVE  [its EXCEPT ![node].at = @ + 1, ![node].memory = piece,
                             ![node].shown = M!Block(node)]
                   \in [DOMAIN given -> Iterators(given)]
  <2>1. its[node].at + 1 \in Nat
    BY <1>1 DEF Iterators
  <2>2. [its[node] EXCEPT !.at = @ + 1, !.memory = piece, !.shown = M!Block(node)]
          \in Iterators(given)
    BY <1>1, <1>2, <1>4, <2>1 DEF Iterators
  <2> QED BY <2>2
<1>5. [its EXCEPT ![node].shown = M!Null] \in [DOMAIN given -> Iterators(given)]
  <2>1. M!Null \in [null : BOOLEAN, node : DOMAIN given]
    BY DEF M!Null
  <2> QED BY <1>1, <2>1 DEF Iterators
<1> QED BY <1>3, <1>4, <1>5

LEMMA ReadPartIs ==
  ASSUME NEW its, NEW node, its \in [DOMAIN Tree -> Iterators(Tree)], node \in DOMAIN Tree
  PROVE  /\ DOMAIN M!ReadPart(its, node) = DOMAIN Tree
         /\ \A other \in DOMAIN Tree \ {node} : M!ReadPart(its, node)[other] = its[other]
         /\ M!ReadPart(its, node)[node].stage = its[node].stage
         /\ M!ReadPart(its, node)[node].held = its[node].held
         /\ its[node].at <= Tree[node].n =>
              /\ M!ReadPart(its, node)[node].at = its[node].at + 1
              /\ M!ReadPart(its, node)[node].memory = M!Text("data", node, its[node].at)
              /\ M!ReadPart(its, node)[node].shown = M!Block(node)
         /\ ~(its[node].at <= Tree[node].n) =>
              /\ M!ReadPart(its, node)[node].at = its[node].at
              /\ M!ReadPart(its, node)[node].memory = its[node].memory
              /\ M!ReadPart(its, node)[node].shown = M!Null
<1>1. its[node] \in Iterators(Tree)
  OBVIOUS
<1>2. CASE its[node].at <= Tree[node].n
  <2>1. M!ReadPart(its, node) =
          [its EXCEPT ![node].at = @ + 1,
                     ![node].memory = M!Text("data", node, its[node].at),
                     ![node].shown = M!Block(node)]
    BY <1>2 DEF M!ReadPart
  <2> HIDE DEF Tree
  <2> QED BY <1>1, <1>2, <2>1 DEF Iterators
<1>3. CASE ~(its[node].at <= Tree[node].n)
  <2>1. M!ReadPart(its, node) = [its EXCEPT ![node].shown = M!Null]
    BY <1>3, Zenon DEF M!ReadPart
  <2> QED BY <1>1, <1>3, <2>1 DEF Iterators
<1> QED BY <1>2, <1>3

LEMMA SayIs ==
  ASSUME NEW its, NEW node, NEW said,
         its \in [DOMAIN Tree -> Iterators(Tree)], node \in DOMAIN Tree
  PROVE  /\ DOMAIN M!Say(its, node, said) = DOMAIN Tree
         /\ \A other \in DOMAIN Tree \ {node} : M!Say(its, node, said)[other] = its[other]
         /\ M!Say(its, node, said)[node].stage = its[node].stage
         /\ M!Say(its, node, said)[node].held = its[node].held
         /\ M!Say(its, node, said)[node].at = its[node].at
         /\ M!Say(its, node, said)[node].memory = said
         /\ M!Say(its, node, said)[node].shown = M!Block(node)
<1>1. its[node] \in Iterators(Tree)
  OBVIOUS
<1>2. M!Say(its, node, said) = [its EXCEPT ![node].memory = said, ![node].shown = M!Block(node)]
  BY DEF M!Say
<1> QED BY <1>1, <1>2 DEF Iterators

LEMMA Callable ==
  ASSUME NEW given, Good(given), NEW node \in Called(given)
  PROVE  /\ M!Root \in Called(given) /\ M!Root \in DOMAIN given /\ node \in DOMAIN given
         /\ \A k \in Nat : M!Text("data", node, k) \in Pieces
BY TreeProps, TextIs DEF Called, M!Texts

LEMMA ReadPartTyped ==
  ASSUME Good(Tree), NEW its \in [DOMAIN Tree -> Iterators(Tree)], NEW node \in Called(Tree)
  PROVE  M!ReadPart(its, node) \in [DOMAIN Tree -> Iterators(Tree)]
<1>1. node \in DOMAIN Tree /\ M!Root \in DOMAIN Tree
  BY Callable
<1>2. its[node].at \in Nat
  BY <1>1 DEF Iterators
<1>3. M!Text("data", node, its[node].at) \in Pieces
  BY <1>2, Callable
<1>4. CASE its[node].at <= Tree[node].n
  <2>1. M!ReadPart(its, node) =
          [its EXCEPT ![node].at = @ + 1,
                     ![node].memory = M!Text("data", node, its[node].at),
                     ![node].shown = M!Block(node)]
    BY <1>4 DEF M!ReadPart
  <2>2. \A piece \in Pieces :
          [its EXCEPT ![node].at = @ + 1, ![node].memory = piece,
                     ![node].shown = M!Block(node)] \in [DOMAIN Tree -> Iterators(Tree)]
    BY <1>1, SetField, ZenonT(60)
  <2> QED BY <1>3, <2>1, <2>2, ZenonT(60)
<1>5. CASE ~(its[node].at <= Tree[node].n)
  <2>1. M!ReadPart(its, node) = [its EXCEPT ![node].shown = M!Null]
    BY <1>5, Zenon DEF M!ReadPart
  <2>2. [its EXCEPT ![node].shown = M!Null] \in [DOMAIN Tree -> Iterators(Tree)]
    BY <1>1, SetField
  <2> QED BY <2>1, <2>2
<1> QED BY <1>4, <1>5

\* Which case of the iterator of an envelope is taken.
LEMMA ReadIs ==
  ASSUME Good(Tree), NEW its \in [DOMAIN Tree -> Iterators(Tree)]
  PROVE  LET here == its[M!Root]
             part == Child(here.at)
             new == M!Read(its, M!Root)
         IN /\ Tree[M!Root].kind # "envelope" => new = M!ReadPart(its, M!Root)
            /\ Tree[M!Root].kind = "envelope" /\ here.stage = "start" =>
                 new = M!Start(its, M!Root)
            /\ Tree[M!Root].kind = "envelope" /\ here.stage = "final" =>
                 new = [its EXCEPT ![M!Root].shown = M!Null]
            /\ /\ Tree[M!Root].kind = "envelope" /\ here.stage = "attachments"
               /\ here.at \in 1..Tree[M!Root].n
               => /\ ~here.held =>
                       new = [M!ReadPart(M!Say([its EXCEPT ![part] = M!Fresh], M!Root,
                                               M!Text("headers", part, 0)), part)
                                EXCEPT ![M!Root].held = TRUE]
                  /\ here.held /\ ~its[part].shown.null =>
                       new = [M!ReadPart(its, part) EXCEPT ![M!Root].shown = its[part].shown]
                  /\ here.held /\ its[part].shown.null => new = M!LeavePart(its, M!Root)
<1> DEFINE here == its[M!Root]
           part == Child(here.at)
           new == M!Read(its, M!Root)
<1>1. Tree[M!Root].kind # "envelope" => new = M!ReadPart(its, M!Root)
  BY DEF M!Read
<1>2. Tree[M!Root].kind = "envelope" =>
        new = M!ReadEnvelope(its, M!Root, M!ReadAttachment(M!EnterPart(its, M!Root), part),
                             M!ReadAttachment(its, part))
  BY DEF M!Read, M!Attachment, Child
<1>3. Tree[M!Root].kind = "envelope" /\ here.stage = "start" => new = M!Start(its, M!Root)
  BY <1>2 DEF M!ReadEnvelope
<1>4. Tree[M!Root].kind = "envelope" /\ here.stage = "final" =>
        new = [its EXCEPT ![M!Root].shown = M!Null]
  BY <1>2 DEF M!ReadEnvelope
<1>5. ASSUME Tree[M!Root].kind = "envelope", here.stage = "attachments",
             here.at \in 1..Tree[M!Root].n
      PROVE  /\ ~here.held =>
                  new = [M!ReadPart(M!Say([its EXCEPT ![part] = M!Fresh], M!Root,
                                          M!Text("headers", part, 0)), part)
                           EXCEPT ![M!Root].held = TRUE]
             /\ here.held /\ ~its[part].shown.null =>
                  new = [M!ReadPart(its, part) EXCEPT ![M!Root].shown = its[part].shown]
             /\ here.held /\ its[part].shown.null => new = M!LeavePart(its, M!Root)
  <2>0. part \in DOMAIN Tree /\ Tree[part].kind # "envelope"
    BY <1>5, TreeProps
  <2>1. \A any : M!ReadAttachment(any, part) = M!ReadPart(any, part)
    BY <2>0 DEF M!ReadAttachment
  <2>2. ~here.held =>
              new = [M!ReadAttachment(M!EnterPart(its, M!Root), part) EXCEPT ![M!Root].held = TRUE]
    BY <1>2, <1>5 DEF M!ReadEnvelope
  <2>3. here.held /\ ~its[part].shown.null =>
              new = M!PassPart(its, M!Root, M!ReadAttachment(its, part))
    BY <1>2, <1>5 DEF M!ReadEnvelope, M!Attachment, Child
  <2>4. here.held /\ its[part].shown.null => new = M!LeavePart(its, M!Root)
    BY <1>2, <1>5 DEF M!ReadEnvelope, M!Attachment, Child
  <2> QED BY <2>1, <2>2, <2>3, <2>4 DEF M!EnterPart, M!PassPart, M!Attachment, Child
<1> QED BY <1>1, <1>3, <1>4, <1>5

LEMMA SayTyped ==
  ASSUME Good(Tree), NEW its \in [DOMAIN Tree -> Iterators(Tree)], NEW node \in DOMAIN Tree,
         NEW said \in Pieces
  PROVE  M!Say(its, node, said) \in [DOMAIN Tree -> Iterators(Tree)]
<1>1. M!Root \in DOMAIN Tree
  BY TreeProps
<1>2. \A piece \in Pieces : [its EXCEPT ![node].memory = piece, ![node].shown = M!Block(node)]
        \in [DOMAIN Tree -> Iterators(Tree)]
  BY <1>1, SetField
<1>3. M!Say(its, node, said) = [its EXCEPT ![node].memory = said, ![node].shown = M!Block(node)]
  BY DEF M!Say
<1> QED BY <1>2, <1>3

LEMMA Blocks ==
  /\ M!Null.null /\ M!Null.node = M!Root
  /\ \A node : ~M!Block(node).null /\ M!Block(node).node = node
BY DEF M!Null, M!Block

LEMMA LeafMoves ==
  ASSUME Good(Tree), Tree[M!Root].kind # "envelope", NEW its, Typed(Tree, its), NEW done,
         done = [k \in 1..(its[M!Root].at - 1) |-> M!Text("data", M!Root, k)]
  PROVE  Moved(Tree, M!Read(its, M!Root), done)
<1> DEFINE new == M!Read(its, M!Root)
           at_ == its[M!Root].at
           n == Tree[M!Root].n
<1>1. /\ its \in [DOMAIN Tree -> Iterators(Tree)] /\ M!Root \in DOMAIN Tree
      /\ M!Root \in Called(Tree) /\ n \in Nat /\ at_ \in 1..(n + 1) /\ ~its[M!Root].held
  BY TreeProps DEF Typed, Called
<1>2. new = M!ReadPart(its, M!Root)
  BY <1>1, ReadIs
<1> HIDE DEF new
<1>3. new \in [DOMAIN Tree -> Iterators(Tree)]
  BY <1>1, <1>2, ReadPartTyped
<1>4. /\ \A other \in DOMAIN Tree \ {M!Root} : new[other] = its[other]
      /\ new[M!Root].held = its[M!Root].held
      /\ at_ <= n => /\ new[M!Root].at = at_ + 1
                     /\ new[M!Root].memory = M!Text("data", M!Root, at_)
                     /\ new[M!Root].shown = M!Block(M!Root)
      /\ ~(at_ <= n) => new[M!Root].at = at_ /\ new[M!Root].shown = M!Null
  BY <1>1, <1>2, ReadPartIs
<1>5. Typed(Tree, new)
  <2>1. new[M!Root].at \in 1..(n + 1)
    BY <1>1, <1>4
  <2>2. ASSUME NEW node \in DOMAIN Tree
        PROVE  new[node].at \in 1..(Tree[node].n + 1) /\ ~new[node].held
    <3>1. CASE node = M!Root
      BY <1>1, <1>4, <2>1, <3>1
    <3>2. CASE node # M!Root
      BY <1>4, <3>2 DEF Typed
    <3> QED BY <3>1, <3>2
  <2> QED BY <1>3, <2>2 DEF Typed
<1>6. CASE ~(at_ <= n)
  <2>1. at_ - 1 = n
    BY <1>1, <1>6
  <2>2. done = M!RenderedTree(Tree)
    BY <2>1, LeafRendered DEF Data
  <2> QED BY <1>4, <1>5, <1>6, <2>2, Blocks DEF Moved, new
<1>7. CASE at_ <= n
  <2>1. Sees(new) = M!Text("data", M!Root, at_) /\ ~new[M!Root].shown.null
    BY <1>4, <1>7, Blocks DEF Sees
  <2>2. Append(done, Sees(new)) = [k \in 1..(new[M!Root].at - 1) |-> M!Text("data", M!Root, k)]
    <3>1. new[M!Root].at - 1 = at_ /\ at_ \in Nat \ {0}
      BY <1>1, <1>4, <1>7
    <3>2. \A k \in 1..at_ : M!Text("data", M!Root, k) \in Pieces
      BY <1>1, Callable
    <3> DEFINE all == [k \in 1..at_ |-> M!Text("data", M!Root, k)]
    <3>3. all \in Seq(Pieces) /\ Len(all) = at_
      BY <3>1, <3>2
    <3>4. done \in Seq(Pieces) /\ Len(done) = at_ - 1
      BY <3>1, <3>2
    <3>5. Append(done, all[at_]) = all
      BY <3>1, <3>3, <3>4
    <3> QED BY <2>1, <3>1, <3>5
  <2>3. new[M!Root].at > 1
    BY <1>1, <1>4, <1>7
  <2>4. ReadsLeaf(Tree, new, Append(done, Sees(new)))
    BY <2>2, <2>3 DEF ReadsLeaf
  <2> QED BY <1>5, <2>1, <2>4 DEF Moved, Reads, new
<1> QED BY <1>6, <1>7

LEMMA StartMoves ==
  ASSUME Good(Tree), Tree[M!Root].kind = "envelope", NEW its, Typed(Tree, its),
         its[M!Root].stage = "start", its[M!Root].at = 1, ~its[M!Root].held
  PROVE  Moved(Tree, M!Read(its, M!Root), <<>>)
<1> DEFINE new == M!Read(its, M!Root)
           said == M!Say(its, M!Root, Open)
           n == Tree[M!Root].n
<1>1. /\ its \in [DOMAIN Tree -> Iterators(Tree)] /\ M!Root \in DOMAIN Tree
      /\ n \in Nat /\ n > 0
  BY TreeProps DEF Typed
<1>2. new = [said EXCEPT ![M!Root].stage = "attachments"]
  BY <1>1, ReadIs DEF M!Start, Open
<1>3. Open \in Pieces
  BY TextIs DEF Open, M!Texts
<1> HIDE DEF new
<1>4. said \in [DOMAIN Tree -> Iterators(Tree)]
  BY <1>1, <1>3, SayTyped
<1>5. /\ \A other \in DOMAIN Tree \ {M!Root} : said[other] = its[other]
      /\ ~said[M!Root].held
      /\ said[M!Root].at = 1
      /\ said[M!Root].memory = Open
      /\ said[M!Root].shown = M!Block(M!Root)
  BY <1>1, SayIs
<1> HIDE DEF said
<1>6. new \in [DOMAIN Tree -> Iterators(Tree)]
  BY <1>1, <1>2, <1>4 DEF Iterators
<1>7. /\ \A other \in DOMAIN Tree \ {M!Root} : new[other] = its[other]
      /\ ~new[M!Root].held
      /\ new[M!Root].stage = "attachments"
      /\ new[M!Root].at = 1
      /\ new[M!Root].memory = Open
      /\ new[M!Root].shown = M!Block(M!Root)
  BY <1>1, <1>2, <1>4, <1>5 DEF Iterators
<1>8. Typed(Tree, new)
  <2> SUFFICES ASSUME NEW node \in DOMAIN Tree
               PROVE  new[node].at \in 1..(Tree[node].n + 1) /\ ~new[node].held
    BY <1>6 DEF Typed
  <2>1. CASE node = M!Root
    BY <1>1, <1>7, <2>1
  <2>2. CASE node # M!Root
    BY <1>7, <2>2 DEF Typed
  <2> QED BY <2>1, <2>2
<1>9. Sees(new) = Open /\ ~new[M!Root].shown.null
  BY <1>7, Blocks DEF Sees
<1>10. PICK upto : /\ IsJoin(upto, n, Groups(Tree), Pieces)
                   /\ M!RenderedTree(Tree) = <<Open>> \o upto[n]
  BY EnvelopeRendered
<1>11. Append(<<>>, Open) = <<Open>> \o upto[0]
  <2>1. upto[0] = <<>>
    BY <1>10 DEF IsJoin
  <2>2. Append(<<>>, Open) = <<Open>> \o <<>>
    BY <1>3
  <2> QED BY <2>1, <2>2
<1>12. Before(Tree, new, upto, Append(<<>>, Sees(new)))
  <2>1. new[M!Root].at - 1 = 0 /\ ~(new[M!Root].at > n)
    BY <1>1, <1>7
  <2> QED BY <1>7, <1>9, <1>11, <2>1 DEF Before
<1>13. Reads(Tree, new, Append(<<>>, Sees(new)))
  BY <1>8, <1>10, <1>12 DEF Reads, ReadsEnvelope, Joined
<1> QED BY <1>8, <1>9, <1>13 DEF Moved, new

LEMMA HeadedIs ==
  ASSUME NEW given, Good(given), given[M!Root].kind = "envelope", NEW upto,
         Joined(given, upto), NEW i \in 1..given[M!Root].n
  PROVE  /\ Headed(i, upto) \in Seq(Pieces)
         /\ upto[i - 1] \in Seq(Pieces)
         /\ Open \in Pieces
<1> DEFINE n == given[M!Root].n
<1>1. n \in Nat
  BY TreeProps
<1>2. i - 1 \in 0..n /\ upto \in [0..n -> Seq(Pieces)]
  BY <1>1, SMTT(40) DEF Joined, IsJoin
<1>3. Open \in Pieces
  BY TextIs DEF Open, M!Texts
<1>4. upto[i - 1] \in Seq(Pieces)
  BY <1>2
<1>5. M!Text("headers", Child(i), 0) \in Pieces
  BY GroupIs
<1> QED BY <1>3, <1>4, <1>5 DEF Headed

LEMMA EnterMoves ==
  ASSUME Good(Tree), Tree[M!Root].kind = "envelope", NEW its, Typed(Tree, its),
         NEW upto, Joined(Tree, upto), NEW done, Before(Tree, its, upto, done),
         its[M!Root].at <= Tree[M!Root].n
  PROVE  Moved(Tree, M!Read(its, M!Root), done)
<1> DEFINE new == M!Read(its, M!Root)
           n == Tree[M!Root].n
           i == its[M!Root].at
           headers == M!Text("headers", Child(i), 0)
           anew == [its EXCEPT ![Child(i)] = M!Fresh]
           said == M!Say(anew, M!Root, headers)
           read == M!ReadPart(said, Child(i))
<1>1. /\ its \in [DOMAIN Tree -> Iterators(Tree)] /\ M!Root \in DOMAIN Tree
      /\ n \in Nat /\ i \in 1..n /\ ~its[M!Root].held /\ its[M!Root].stage = "attachments"
  BY TreeProps, SMTT(40) DEF Typed, Before
<1>2. /\ Child(i) \in DOMAIN Tree /\ Child(i) # M!Root /\ Child(i) \in Called(Tree)
      /\ Tree[Child(i)].n \in 0..1
  BY <1>1, TreeProps DEF Called
<1>3. new = [read EXCEPT ![M!Root].held = TRUE]
  BY <1>1, ReadIs
<1>4. headers \in Pieces /\ M!Text("data", Child(i), 1) \in Pieces
  BY <1>1, GroupIs
<1> HIDE DEF new, headers
<1>5. M!Fresh \in Iterators(Tree) /\ M!Fresh.at = 1 /\ ~M!Fresh.held
  BY <1>1 DEF M!Fresh, Iterators, M!Null
<1>6. /\ anew \in [DOMAIN Tree -> Iterators(Tree)]
      /\ anew[Child(i)] = M!Fresh
      /\ \A other \in DOMAIN Tree \ {Child(i)} : anew[other] = its[other]
  BY <1>1, <1>2, <1>5
<1> HIDE DEF anew
<1>7. said \in [DOMAIN Tree -> Iterators(Tree)]
  BY <1>1, <1>4, <1>6, SayTyped
<1>8. /\ \A other \in DOMAIN Tree \ {M!Root} : said[other] = anew[other]
      /\ said[M!Root].stage = "attachments"
      /\ said[M!Root].at = i
      /\ said[M!Root].memory = headers
      /\ said[M!Root].shown = M!Block(M!Root)
  <2>1. anew[M!Root] = its[M!Root]
    BY <1>1, <1>2, <1>6
  <2> HIDE DEF i
  <2> QED BY <1>1, <1>6, <2>1, SayIs DEF i
<1> HIDE DEF said
<1>9. read \in [DOMAIN Tree -> Iterators(Tree)]
  BY <1>2, <1>7, ReadPartTyped
<1>10. said[Child(i)] = M!Fresh
  BY <1>2, <1>6, <1>8
<1>11. /\ \A other \in DOMAIN Tree \ {Child(i)} : read[other] = said[other]
       /\ ~read[Child(i)].held
       /\ Tree[Child(i)].n = 1 =>
            /\ read[Child(i)].at = 2
            /\ read[Child(i)].memory = M!Text("data", Child(i), 1)
            /\ read[Child(i)].shown = M!Block(Child(i))
       /\ Tree[Child(i)].n = 0 => read[Child(i)].at = 1 /\ read[Child(i)].shown = M!Null
  <2> DEFINE x == Child(i)
  <2>1. /\ x \in DOMAIN Tree /\ Tree[x].n \in 0..1
        /\ said[x].at = 1 /\ ~said[x].held
    BY <1>2, <1>5, <1>10
  <2> HIDE DEF x, i
  <2>2. /\ \A other \in DOMAIN Tree \ {x} : M!ReadPart(said, x)[other] = said[other]
        /\ M!ReadPart(said, x)[x].held = said[x].held
        /\ said[x].at <= Tree[x].n =>
             /\ M!ReadPart(said, x)[x].at = said[x].at + 1
             /\ M!ReadPart(said, x)[x].memory = M!Text("data", x, said[x].at)
             /\ M!ReadPart(said, x)[x].shown = M!Block(x)
        /\ ~(said[x].at <= Tree[x].n) =>
             /\ M!ReadPart(said, x)[x].at = said[x].at
             /\ M!ReadPart(said, x)[x].shown = M!Null
    BY <1>7, <2>1, ReadPartIs
  <2>3. /\ \A other \in DOMAIN Tree \ {x} : M!ReadPart(said, x)[other] = said[other]
        /\ ~M!ReadPart(said, x)[x].held
    BY <2>1, <2>2
  <2>4. Tree[x].n = 1 =>
          /\ M!ReadPart(said, x)[x].at = 2
          /\ M!ReadPart(said, x)[x].memory = M!Text("data", x, 1)
          /\ M!ReadPart(said, x)[x].shown = M!Block(x)
    BY <2>1, <2>2
  <2>5. Tree[x].n = 0 => M!ReadPart(said, x)[x].at = 1 /\ M!ReadPart(said, x)[x].shown = M!Null
    BY <2>1, <2>2
  <2> QED BY <2>3, <2>4, <2>5 DEF x
<1> HIDE DEF read
<1>12. new \in [DOMAIN Tree -> Iterators(Tree)]
  BY <1>1, <1>3, <1>9, ZenonT(60) DEF Iterators
<1>13. /\ \A other \in DOMAIN Tree \ {M!Root} : new[other] = read[other]
       /\ new[M!Root].held
       /\ new[M!Root].stage = "attachments"
       /\ new[M!Root].at = i
       /\ new[M!Root].memory = headers
       /\ new[M!Root].shown = M!Block(M!Root)
  <2>1. read[M!Root] = said[M!Root]
    BY <1>1, <1>2, <1>11
  <2> HIDE DEF i
  <2> QED BY <1>1, <1>3, <1>8, <1>9, <2>1 DEF Iterators
<1>14. new[Child(i)] = read[Child(i)]
  BY <1>2, <1>13
<1>15. \A other \in DOMAIN Tree \ {M!Root, Child(i)} : new[other] = its[other]
  BY <1>6, <1>8, <1>11, <1>13
<1>16. Typed(Tree, new)
  <2>1. ASSUME NEW node \in DOMAIN Tree
        PROVE  /\ new[node].at \in 1..(Tree[node].n + 1)
               /\ node # M!Root => ~new[node].held
    <3>1. CASE node = M!Root
      BY <1>1, <1>13, <3>1
    <3>2. CASE node = Child(i)
      BY <1>2, <1>11, <1>14, <3>2
    <3>3. CASE node # M!Root /\ node # Child(i)
      BY <1>15, <3>3 DEF Typed
    <3> QED BY <3>1, <3>2, <3>3
  <2> QED BY <1>1, <1>12, <1>13, <2>1 DEF Typed
<1>17. Sees(new) = headers /\ ~new[M!Root].shown.null
  BY <1>13, Blocks DEF Sees
<1>18. Append(done, headers) = Headed(i, upto)
  BY DEF Before, Headed, headers
<1>19. CASE Tree[Child(i)].n = 1
  <2>1. Within(Tree, new, upto, Append(done, headers))
    BY <1>11, <1>13, <1>14, <1>18, <1>19 DEF Within
  <2>2. Reads(Tree, new, Append(done, headers))
    BY <1>16, <2>1 DEF Reads, ReadsEnvelope, Joined
  <2> QED BY <1>16, <1>17, <2>2 DEF Moved, new
<1>20. CASE Tree[Child(i)].n = 0
  <2>1. Headed(i, upto) \in Seq(Pieces)
    BY <1>1, HeadedIs
  <2>2. Headed(i, upto) = Headed(i, upto) \o Data(Tree, Child(i))
    <3>1. Data(Tree, Child(i)) = <<>>
      BY <1>1, <1>20, GroupIs
    <3> HIDE DEF i
    <3> QED BY <2>1, <3>1
  <2>3. AtItsEnd(Tree, new, upto, Append(done, headers))
    BY <1>11, <1>13, <1>14, <1>18, <1>20, <2>2, Blocks DEF AtItsEnd
  <2>4. Reads(Tree, new, Append(done, headers))
    BY <1>16, <2>3 DEF Reads, ReadsEnvelope, Joined
  <2> QED BY <1>16, <1>17, <2>4 DEF Moved, new
<1> QED BY <1>2, <1>19, <1>20

LEMMA FinalMoves ==
  ASSUME Good(Tree), Tree[M!Root].kind = "envelope", NEW its, Typed(Tree, its),
         NEW upto, Joined(Tree, upto), NEW done, Before(Tree, its, upto, done),
         its[M!Root].at > Tree[M!Root].n
  PROVE  Moved(Tree, M!Read(its, M!Root), done)
<1> DEFINE new == M!Read(its, M!Root)
           n == Tree[M!Root].n
<1>1. /\ its \in [DOMAIN Tree -> Iterators(Tree)] /\ M!Root \in DOMAIN Tree
      /\ n \in Nat /\ its[M!Root].at \in 1..(n + 1) /\ its[M!Root].stage = "final"
  BY TreeProps DEF Typed, Before
<1>2. new = [its EXCEPT ![M!Root].shown = M!Null]
  BY <1>1, ReadIs
<1> HIDE DEF new
<1>3. new \in [DOMAIN Tree -> Iterators(Tree)]
  <2>1. [its EXCEPT ![M!Root].shown = M!Null] \in [DOMAIN Tree -> Iterators(Tree)]
    BY <1>1, SetField
  <2> QED BY <1>2, <2>1
<1>4. /\ \A node \in DOMAIN Tree : new[node].at = its[node].at /\ new[node].held = its[node].held
      /\ new[M!Root].shown = M!Null
  BY <1>1, <1>2 DEF Iterators
<1>5. Typed(Tree, new)
  BY <1>3, <1>4 DEF Typed
<1>6. its[M!Root].at - 1 = n
  BY <1>1
<1>7. done = M!RenderedTree(Tree)
  BY <1>6 DEF Before, Joined
<1> QED BY <1>4, <1>5, <1>7, Blocks DEF Moved, new

LEMMA WithinMoves ==
  ASSUME Good(Tree), Tree[M!Root].kind = "envelope", NEW its, Typed(Tree, its),
         NEW upto, Joined(Tree, upto), NEW done, Within(Tree, its, upto, done)
  PROVE  Moved(Tree, M!Read(its, M!Root), done)
<1> DEFINE new == M!Read(its, M!Root)
           n == Tree[M!Root].n
           i == its[M!Root].at
           data == M!Text("data", Child(i), 1)
           read == M!ReadPart(its, Child(i))
<1>1. /\ its \in [DOMAIN Tree -> Iterators(Tree)] /\ M!Root \in DOMAIN Tree
      /\ n \in Nat /\ i \in 1..n /\ its[M!Root].held /\ its[M!Root].stage = "attachments"
  BY TreeProps DEF Typed, Within
<1>2. /\ Child(i) \in DOMAIN Tree /\ Child(i) # M!Root /\ Child(i) \in Called(Tree)
      /\ Tree[Child(i)].n = 1 /\ its[Child(i)].at = 2
      /\ its[Child(i)].memory = data
      /\ its[Child(i)].shown = M!Block(Child(i))
      /\ ~its[Child(i)].held
  BY <1>1, TreeProps DEF Called, Within, Typed
<1>3. new = [read EXCEPT ![M!Root].shown = M!Block(Child(i))]
  <2>1. ~its[Child(i)].shown.null
    BY <1>2, Blocks
  <2>2. new = [read EXCEPT ![M!Root].shown = its[Child(i)].shown]
    BY <1>1, <2>1, ReadIs
  <2> QED BY <1>2, <2>2
<1> HIDE DEF new, data
<1>4. read \in [DOMAIN Tree -> Iterators(Tree)]
  BY <1>1, <1>2, ReadPartTyped
<1>5. /\ \A other \in DOMAIN Tree \ {Child(i)} : read[other] = its[other]
      /\ ~read[Child(i)].held
      /\ read[Child(i)].at = 2
      /\ read[Child(i)].memory = data
      /\ read[Child(i)].shown = M!Null
  BY <1>1, <1>2, ReadPartIs
<1> HIDE DEF read
<1>6. read[M!Root] = its[M!Root]
  BY <1>1, <1>2, <1>5
<1>7. new \in [DOMAIN Tree -> Iterators(Tree)]
  <2>1. M!Block(Child(i)) \in [null : BOOLEAN, node : DOMAIN Tree]
    BY <1>2 DEF M!Block
  <2> QED BY <1>1, <1>3, <1>4, <2>1 DEF Iterators
<1>8. /\ \A other \in DOMAIN Tree \ {M!Root} : new[other] = read[other]
      /\ new[M!Root].held
      /\ new[M!Root].stage = "attachments"
      /\ new[M!Root].at = i
      /\ new[M!Root].shown = M!Block(Child(i))
  BY <1>1, <1>3, <1>4, <1>6 DEF Iterators
<1>9. new[Child(i)] = read[Child(i)]
  BY <1>2, <1>8
<1>10. \A other \in DOMAIN Tree \ {M!Root, Child(i)} : new[other] = its[other]
  BY <1>5, <1>8
<1>11. Typed(Tree, new)
  <2>1. ASSUME NEW node \in DOMAIN Tree
        PROVE  /\ new[node].at \in 1..(Tree[node].n + 1)
               /\ node # M!Root => ~new[node].held
    <3>1. CASE node = M!Root
      BY <1>1, <1>8, <3>1
    <3>2. CASE node = Child(i)
      BY <1>2, <1>5, <1>9, <3>2
    <3>3. CASE node # M!Root /\ node # Child(i)
      BY <1>10, <3>3 DEF Typed
    <3> QED BY <3>1, <3>2, <3>3
  <2> QED BY <1>1, <1>7, <1>8, <2>1 DEF Typed
<1>12. Sees(new) = data /\ ~new[M!Root].shown.null
  BY <1>5, <1>8, <1>9, Blocks DEF Sees
<1>13. Append(done, data) = Headed(i, upto) \o Data(Tree, Child(i))
  <2>1. Data(Tree, Child(i)) = <<data>>
    BY <1>1, <1>2, GroupIs DEF data
  <2>2. Headed(i, upto) \in Seq(Pieces) /\ data \in Pieces
    BY <1>1, HeadedIs, GroupIs DEF data
  <2>3. done = Headed(i, upto)
    BY DEF Within
  <2> HIDE DEF i
  <2> QED BY <2>1, <2>2, <2>3
<1>14. AtItsEnd(Tree, new, upto, Append(done, data))
  BY <1>5, <1>8, <1>9, <1>13, Blocks DEF AtItsEnd
<1>15. Reads(Tree, new, Append(done, data))
  BY <1>11, <1>14 DEF Reads, ReadsEnvelope, Joined
<1> QED BY <1>11, <1>12, <1>15 DEF Moved, new

LEMMA LeaveMoves ==
  ASSUME Good(Tree), Tree[M!Root].kind = "envelope", NEW its, Typed(Tree, its),
         NEW upto, Joined(Tree, upto), NEW done, AtItsEnd(Tree, its, upto, done)
  PROVE  Moved(Tree, M!Read(its, M!Root), done)
<1> DEFINE new == M!Read(its, M!Root)
           n == Tree[M!Root].n
           i == its[M!Root].at
           said == M!Say(its, M!Root, After(Tree, i))
<1>1. /\ its \in [DOMAIN Tree -> Iterators(Tree)] /\ M!Root \in DOMAIN Tree
      /\ n \in Nat /\ i \in 1..n /\ its[M!Root].held /\ its[M!Root].stage = "attachments"
      /\ its[Child(i)].shown.null
  BY TreeProps DEF Typed, AtItsEnd
<1>2. new = M!LeavePart(its, M!Root)
  BY <1>1, ReadIs
<1>3. new = [said EXCEPT ![M!Root].at = @ + 1, ![M!Root].held = FALSE,
                         ![M!Root].stage = IF i = n THEN "final" ELSE @]
  BY <1>2 DEF M!LeavePart, After
<1> HIDE DEF new
<1>4. After(Tree, i) \in Pieces
  BY <1>1, GroupIs
<1>5. said \in [DOMAIN Tree -> Iterators(Tree)]
  BY <1>1, <1>4, SayTyped
<1>6. /\ \A other \in DOMAIN Tree \ {M!Root} : said[other] = its[other]
      /\ said[M!Root].stage = "attachments"
      /\ said[M!Root].at = i
      /\ said[M!Root].memory = After(Tree, i)
      /\ said[M!Root].shown = M!Block(M!Root)
  <2> HIDE DEF i
  <2> QED BY <1>1, SayIs DEF i
<1> HIDE DEF said
<1>7. /\ \A other \in DOMAIN Tree \ {M!Root} : new[other] = its[other]
      /\ ~new[M!Root].held
      /\ new[M!Root].stage = IF i = n THEN "final" ELSE "attachments"
      /\ new[M!Root].at = i + 1
      /\ new[M!Root].memory = After(Tree, i)
      /\ new[M!Root].shown = M!Block(M!Root)
  <2> HIDE DEF i
  <2> QED BY <1>1, <1>3, <1>5, <1>6 DEF Iterators
<1>8. new \in [DOMAIN Tree -> Iterators(Tree)]
  <2>1. said[M!Root] \in Iterators(Tree) /\ said[M!Root].at + 1 \in Nat
    BY <1>1, <1>5 DEF Iterators
  <2>2. [said[M!Root] EXCEPT !.at = @ + 1, !.held = FALSE,
                             !.stage = IF i = n THEN "final" ELSE @] \in Iterators(Tree)
    <3>1. (IF i = n THEN "final" ELSE said[M!Root].stage) \in {"start", "attachments", "final"}
      BY <2>1 DEF Iterators
    <3> QED BY <2>1, <3>1 DEF Iterators
  <2> QED BY <1>1, <1>3, <1>5, <2>2
<1>9. Typed(Tree, new)
  <2> SUFFICES ASSUME NEW node \in DOMAIN Tree
               PROVE  new[node].at \in 1..(Tree[node].n + 1) /\ ~new[node].held
    BY <1>8 DEF Typed
  <2>1. CASE node = M!Root
    BY <1>1, <1>7, <2>1
  <2>2. CASE node # M!Root
    BY <1>7, <2>2 DEF Typed
  <2> QED BY <2>1, <2>2
<1>10. Sees(new) = After(Tree, i) /\ ~new[M!Root].shown.null
  BY <1>7, Blocks DEF Sees
<1>11. Append(done, After(Tree, i)) = <<Open>> \o upto[i]
  <2>1. upto[i] = upto[i - 1] \o Group(Tree, i)
    BY <1>1 DEF Joined, IsJoin, Groups
  <2>2. upto[i - 1] \in Seq(Pieces) /\ Open \in Pieces
    BY <1>1, HeadedIs
  <2>3. Data(Tree, Child(i)) \in Seq(Pieces) /\ M!Text("headers", Child(i), 0) \in Pieces
    BY <1>1, GroupIs
  <2>4. done = Append(<<Open>> \o upto[i - 1], M!Text("headers", Child(i), 0))
                 \o Data(Tree, Child(i))
    BY DEF AtItsEnd, Headed
  <2> DEFINE h == M!Text("headers", Child(i), 0)
             d == Data(Tree, Child(i))
             a == After(Tree, i)
             u == upto[i - 1]
  <2>5. upto[i] = u \o (<<h>> \o d \o <<a>>)
    BY <2>1 DEF Group
  <2>6. done = Append(<<Open>> \o u, h) \o d
    BY <2>4
  <2> HIDE DEF i, h, d, a, u
  <2>7. Open \in Pieces /\ h \in Pieces /\ a \in Pieces /\ u \in Seq(Pieces) /\ d \in Seq(Pieces)
    BY <1>4, <2>2, <2>3 DEF h, d, a, u
  <2>8. Append(Written(Open, u, h, d), a) = Through(Open, u, h, d, <<a>>)
    BY <2>7, Regroup, ZenonT(60)
  <2>9. Append(done, a) = <<Open>> \o upto[i]
    BY <2>5, <2>6, <2>8, Zenon DEF Written, Through
  <2> QED BY <2>9 DEF a
<1>12. Before(Tree, new, upto, Append(done, After(Tree, i)))
  <2>1. new[M!Root].at - 1 = i /\ (new[M!Root].at > n <=> i = n)
    BY <1>1, <1>7
  <2> HIDE DEF i
  <2> QED BY <1>7, <1>11, <2>1 DEF Before
<1>13. Reads(Tree, new, Append(done, After(Tree, i)))
  BY <1>9, <1>12 DEF Reads, ReadsEnvelope, Joined
<1> QED BY <1>9, <1>10, <1>13 DEF Moved, new

\* The first call of the iterator, and each later one.
LEMMA FirstMoves ==
  ASSUME Good(Tree), NEW its, its = [node \in DOMAIN Tree |-> M!Fresh]
  PROVE  Typed(Tree, its) /\ Moved(Tree, M!Read(its, M!Root), <<>>)
<1>1. M!Root \in DOMAIN Tree /\ \A node \in DOMAIN Tree : Tree[node].n \in Nat
  BY TreeProps
<1>2. /\ M!Fresh \in Iterators(Tree) /\ M!Fresh.at = 1 /\ ~M!Fresh.held
      /\ M!Fresh.stage = "start"
  BY <1>1 DEF M!Fresh, Iterators, M!Null
<1>3. Typed(Tree, its)
  BY <1>1, <1>2 DEF Typed
<1>4. its[M!Root] = M!Fresh
  BY <1>1
<1>5. CASE Tree[M!Root].kind = "envelope"
  BY <1>2, <1>3, <1>4, <1>5, StartMoves
<1>6. CASE Tree[M!Root].kind # "envelope"
  <2>1. <<>> = [k \in 1..(its[M!Root].at - 1) |-> M!Text("data", M!Root, k)]
    BY <1>2, <1>4
  <2> QED BY <1>3, <1>6, <2>1, LeafMoves
<1> QED BY <1>3, <1>5, <1>6

LEMMA NextMoves ==
  ASSUME Good(Tree), NEW its, NEW done, Reads(Tree, its, done)
  PROVE  Moved(Tree, M!Read(its, M!Root), done)
<1>1. CASE ReadsLeaf(Tree, its, done)
  BY <1>1, LeafMoves DEF Reads, ReadsLeaf
<1>2. CASE ReadsEnvelope(Tree, its, done)
  <2>1. PICK upto :
          /\ Joined(Tree, upto)
          /\ \/ Before(Tree, its, upto, done)
             \/ Within(Tree, its, upto, done)
             \/ AtItsEnd(Tree, its, upto, done)
    BY <1>2 DEF ReadsEnvelope, Joined
  <2>2. Typed(Tree, its) /\ Tree[M!Root].kind = "envelope"
    BY <1>2 DEF Reads, ReadsEnvelope
  <2>3. CASE Before(Tree, its, upto, done)
    <3>1. its[M!Root].at \in Nat /\ Tree[M!Root].n \in Nat
      BY <2>2, TreeProps DEF Typed
    <3>2. CASE its[M!Root].at <= Tree[M!Root].n
      BY <2>1, <2>2, <2>3, <3>2, EnterMoves
    <3>3. CASE its[M!Root].at > Tree[M!Root].n
      BY <2>1, <2>2, <2>3, <3>3, FinalMoves
    <3> QED BY <3>1, <3>2, <3>3
  <2>4. CASE Within(Tree, its, upto, done)
    BY <2>1, <2>2, <2>4, WithinMoves
  <2>5. CASE AtItsEnd(Tree, its, upto, done)
    BY <2>1, <2>2, <2>5, LeaveMoves
  <2> QED BY <2>1, <2>3, <2>4, <2>5
<1> QED BY <1>1, <1>2 DEF Reads

\* What is written with the block that the iterator shows begins the message.
LEMMA Begins ==
  ASSUME Good(Tree), NEW its, NEW done, Reads(Tree, its, done)
  PROVE  done \in Seq(Pieces) /\ Starts(done, M!RenderedTree(Tree), Pieces)
<1> DEFINE n == Tree[M!Root].n
           i == its[M!Root].at
           whole == M!RenderedTree(Tree)
<1>1. M!Root \in DOMAIN Tree /\ n \in Nat /\ i \in 1..(n + 1)
  BY TreeProps DEF Reads, Typed
<1>2. CASE ReadsLeaf(Tree, its, done)
  <2>1. /\ i > 1
        /\ done = [k \in 1..(i - 1) |-> M!Text("data", M!Root, k)]
        /\ whole = [k \in 1..n |-> M!Text("data", M!Root, k)]
    BY <1>2, LeafRendered DEF ReadsLeaf, Data
  <2>2. \A k \in Nat : M!Text("data", M!Root, k) \in Pieces
    BY <1>1, Callable DEF Called
  <2> DEFINE r == [k \in 1..(n - (i - 1)) |-> M!Text("data", M!Root, k + (i - 1))]
  <2> HIDE DEF n, i, whole
  <2>3. n - (i - 1) \in Nat /\ i - 1 \in Nat
    BY <1>1
  <2>4. /\ done \in Seq(Pieces) /\ Len(done) = i - 1
        /\ whole \in Seq(Pieces) /\ Len(whole) = n
        /\ r \in Seq(Pieces) /\ Len(r) = n - (i - 1)
    BY <1>1, <2>1, <2>2, <2>3
  <2>5. Len(done \o r) = n
    BY <1>1, <2>4
  <2>6. ASSUME NEW k \in 1..n PROVE whole[k] = (done \o r)[k]
    <3>1. whole[k] = M!Text("data", M!Root, k)
      BY <2>1
    <3>2. CASE k <= i - 1
      <4>1. k \in 1..(i - 1)
        BY <1>1, <2>3, <3>2
      <4>2. done[k] = M!Text("data", M!Root, k)
        BY <2>1, <4>1
      <4>3. (done \o r)[k] = done[k]
        <5> HIDE DEF r
        <5> QED BY <2>4, <4>1
      <4> QED BY <3>1, <4>2, <4>3
    <3>3. CASE k > i - 1
      <4>1. (done \o r)[k] = r[k - (i - 1)]
        <5> HIDE DEF r
        <5> QED BY <1>1, <2>3, <2>4, <3>3
      <4>2. k - (i - 1) \in 1..(n - (i - 1)) /\ (k - (i - 1)) + (i - 1) = k
        BY <1>1, <2>3, <3>3
      <4>3. \A j \in 1..(n - (i - 1)) : r[j] = M!Text("data", M!Root, j + (i - 1))
        OBVIOUS
      <4> HIDE DEF r
      <4>4. r[k - (i - 1)] = M!Text("data", M!Root, k)
        BY <4>2, <4>3, Zenon
      <4> QED BY <3>1, <4>1, <4>4, Zenon
    <3>4. k <= i - 1 \/ k > i - 1
      BY <1>1
    <3> QED BY <3>2, <3>3, <3>4, Zenon
  <2>7. whole = done \o r
    <3> HIDE DEF r
    <3> DEFINE both == done \o r
    <3>1. both \in Seq(Pieces) /\ Len(both) = n /\ \A k \in 1..n : both[k] = whole[k]
      BY <2>4, <2>5, <2>6
    <3> HIDE DEF both
    <3>2. both = whole
      BY <2>4, <3>1, SeqEqual
    <3> QED BY <3>2 DEF both
  <2> QED BY <2>4, <2>7 DEF whole, Starts
<1>3. CASE ReadsEnvelope(Tree, its, done)
  <2>1. PICK upto :
          /\ Joined(Tree, upto)
          /\ \/ Before(Tree, its, upto, done)
             \/ Within(Tree, its, upto, done)
             \/ AtItsEnd(Tree, its, upto, done)
    BY <1>3 DEF ReadsEnvelope, Joined
  <2>2. Typed(Tree, its) /\ Tree[M!Root].kind = "envelope"
    BY <1>3 DEF Reads, ReadsEnvelope
  <2>3. /\ Groups(Tree) \in [1..n -> Seq(Pieces)] /\ Open \in Pieces
        /\ upto \in [0..n -> Seq(Pieces)]
        /\ \A j \in 1..n : upto[j] = upto[j - 1] \o Groups(Tree)[j]
        /\ whole = <<Open>> \o upto[n]
    BY <2>1, <2>2, GroupIs, TextIs DEF Joined, IsJoin, Groups, Open, M!Texts
  <2>4. \A j \in 0..n : Starts(upto[j], upto[n], Pieces)
    <3>1. IsJoin(upto, n, Groups(Tree), Pieces)
      BY <2>1 DEF Joined
    <3> HIDE DEF n
    <3> QED BY <1>1, <2>3, <3>1, JoinPrefix
  <2>5. \A a, b, c \in Seq(Pieces) : (a \o b) \o c = a \o (b \o c) /\ b \o c \in Seq(Pieces)
    BY Associative
  <2>6. <<Open>> \in Seq(Pieces)
    BY <2>3
  <2>7. CASE Before(Tree, its, upto, done)
    <3>1. i - 1 \in 0..n
      BY <1>1
    <3>2. PICK r \in Seq(Pieces) : upto[n] = upto[i - 1] \o r
      BY <2>4, <3>1 DEF Starts
    <3>3. done = <<Open>> \o upto[i - 1] /\ upto[i - 1] \in Seq(Pieces)
      BY <2>3, <2>7, <3>1 DEF Before
    <3> HIDE DEF n, i, whole
    <3>4. whole = done \o r /\ done \in Seq(Pieces)
      <4>1. <<Open>> \o (upto[i - 1] \o r) = (<<Open>> \o upto[i - 1]) \o r
        BY <2>5, <2>6, <3>2, <3>3, Zenon
      <4>2. <<Open>> \o upto[i - 1] \in Seq(Pieces)
        BY <2>5, <2>6, <3>3, Zenon
      <4>3. whole = <<Open>> \o (upto[i - 1] \o r)
        BY <2>3, <3>2, Zenon
      <4> QED BY <3>3, <4>1, <4>2, <4>3, Zenon
    <3> QED BY <3>2, <3>4 DEF whole, Starts
  <2>8. ASSUME Within(Tree, its, upto, done) \/ AtItsEnd(Tree, its, upto, done)
        PROVE  done \in Seq(Pieces) /\ Starts(done, whole, Pieces)
    <3> DEFINE h == M!Text("headers", Child(i), 0)
               d == Data(Tree, Child(i))
               e == <<After(Tree, i)>>
               u == upto[i - 1]
    <3>1. i \in 1..n /\ i \in 0..n
      BY <1>1, <2>2, <2>8 DEF Within, AtItsEnd, Typed
    <3>2. PICK r \in Seq(Pieces) : upto[n] = upto[i] \o r
      BY <2>4, <3>1 DEF Starts
    <3>3. u \in Seq(Pieces) /\ h \in Pieces /\ d \in Seq(Pieces) /\ e \in Seq(Pieces)
      BY <2>1, <2>2, <3>1, HeadedIs, GroupIs
    <3>4. upto[i] = u \o (<<h>> \o d \o e)
      BY <2>3, <3>1 DEF Groups, Group
    <3>5. done = Append(<<Open>> \o u, h) \/ done = Append(<<Open>> \o u, h) \o d
      BY <2>8 DEF Within, AtItsEnd, Headed
    <3> HIDE DEF n, i, whole, u, h, d, e
    <3>6. whole = Whole(Open, u, h, d, e, r)
      BY <2>3, <3>2, <3>4, Zenon DEF Whole
    <3>7. /\ Starts(Append(<<Open>> \o u, h), Whole(Open, u, h, d, e, r), Pieces)
          /\ Starts(Written(Open, u, h, d), Whole(Open, u, h, d, e, r), Pieces)
      BY <2>3, <3>2, <3>3, Regrouped, Zenon
    <3>8. /\ Append(<<Open>> \o u, h) \in Seq(Pieces)
          /\ Append(<<Open>> \o u, h) \o d \in Seq(Pieces)
      BY <2>3, <3>3
    <3> QED BY <3>5, <3>6, <3>7, <3>8 DEF Written
  <2> QED BY <2>1, <2>7, <2>8
<1> QED BY <1>2, <1>3 DEF Reads

LEMMA RenderedTyped ==
  ASSUME NEW given, Good(given)
  PROVE  M!RenderedTree(given) \in Seq(Pieces)
<1>1. /\ M!Root \in DOMAIN given /\ M!Root \in Called(given)
      /\ given[M!Root].n \in Nat
  BY TreeProps DEF Called
<1>2. CASE given[M!Root].kind = "envelope"
  <2>1. PICK upto : /\ IsJoin(upto, given[M!Root].n, Groups(given), Pieces)
                    /\ M!RenderedTree(given) = <<Open>> \o upto[given[M!Root].n]
    BY <1>2, EnvelopeRendered
  <2>2. upto[given[M!Root].n] \in Seq(Pieces)
    BY <1>1, <2>1 DEF IsJoin
  <2>3. Open \in Pieces
    BY TextIs DEF Open, M!Texts
  <2> QED BY <2>1, <2>2, <2>3
<1>3. CASE given[M!Root].kind # "envelope"
  <2>1. \A k \in Nat : M!Text("data", M!Root, k) \in Pieces
    BY <1>1, Callable
  <2> QED BY <1>1, <1>3, <2>1, LeafRendered DEF Data
<1> QED BY <1>2, <1>3

\* A text is the headers and then what the iterator should yield.
LEMMA OutboxIs ==
  ASSUME NEW given \in Mails, NEW m \in Messages
  PROVE  /\ Good(given[m].tree)
         /\ M!RenderedTree(given[m].tree) \in Seq(Pieces)
         /\ DOMAIN Outbox(given)[m] = 1..(Len(M!RenderedTree(given[m].tree)) + 1)
         /\ Len(Outbox(given)[m]) = Len(M!RenderedTree(given[m].tree)) + 1
         /\ Outbox(given)[m][1] = HeaderText
         /\ \A i \in 1..Len(M!RenderedTree(given[m].tree)) :
              Outbox(given)[m][i + 1] = Piece(given[m], M!RenderedTree(given[m].tree)[i])
         /\ Outbox(given)[m] \in Seq(Pieces \cup {Dot})
<1> DEFINE rendered == M!RenderedTree(given[m].tree)
           pieces == [i \in DOMAIN rendered |-> Piece(given[m], rendered[i])]
<1>1. Good(given[m].tree)
  BY MailAssumption DEF Good
<1>2. rendered \in Seq(Pieces)
  BY <1>1, RenderedTyped
<1>3. Outbox(given)[m] = <<HeaderText>> \o pieces
  BY DEF Outbox, PiecesOf
<1> HIDE DEF rendered
<1>4. \A i \in DOMAIN rendered : Piece(given[m], rendered[i]) \in Pieces \cup {Dot}
  BY <1>2 DEF Piece
<1>5. pieces \in Seq(Pieces \cup {Dot}) /\ Len(pieces) = Len(rendered)
  BY <1>2, <1>4
<1>6. \A i \in 1..Len(rendered) : pieces[i] = Piece(given[m], rendered[i])
  BY <1>2
<1> HIDE DEF pieces
<1>7. HeaderText \in Pieces
  BY TextIs DEF HeaderText, M!Texts
<1>8. \A i \in 1..Len(rendered) : (<<HeaderText>> \o pieces)[i + 1] = pieces[i]
  BY <1>2, <1>5, <1>7
<1>9. /\ Len(<<HeaderText>> \o pieces) = Len(rendered) + 1
      /\ DOMAIN (<<HeaderText>> \o pieces) = 1..(Len(rendered) + 1)
      /\ (<<HeaderText>> \o pieces)[1] = HeaderText
      /\ <<HeaderText>> \o pieces \in Seq(Pieces \cup {Dot})
  BY <1>2, <1>5, <1>7
<1> QED BY <1>1, <1>2, <1>3, <1>6, <1>8, <1>9 DEF rendered

-----------------------------------------------------------------------------
(***************************************************************************)
(* The inductive invariant.                                                *)
(***************************************************************************)

Sends == {"MAIL", "RCPT", "DATA", "text", "end"}

\* The iterator is where the sender's loop is, and all that it has shown before
\* has been written after the headers.
Walks ==
  /\ written \in Nat
  /\ stage \in {"begin", "write", "next"}
  /\ output \in Seq(Pieces)
  /\ stage = "begin" =>
       it = [node \in DOMAIN Tree |-> M!Fresh] /\ output = <<>> /\ written \in 0..1
  /\ stage # "begin" => written = Len(output) + 1
  /\ stage = "write" => Moved(Tree, it, output)
  /\ stage = "next" => Reads(Tree, it, output)

IInv ==
  /\ mails \in Mails
  /\ at \in Sends => email \in Messages
  /\ folding # <<>> => at = "text" /\ written = 0
  /\ at = "text" => Walks

HeaderLines == {line \in [length : Nat, blanks : SUBSET Nat] : IsLine(line)}

LEMMA TreeIs ==
  ASSUME IInv, at \in Sends
  PROVE  Tree = mails[email].tree /\ Good(Tree)
<1>1. email \in Messages /\ mails \in Mails /\ email # Nobody
  BY MailAssumption DEF IInv
<1>2. Tree = mails[email].tree
  BY <1>1 DEF Tree
<1> QED BY <1>1, <1>2, OutboxIs

\* The session without the text.
Session == Calls \/ Server

LEMMA SessionSteps ==
  ASSUME Session
  PROVE  /\ UNCHANGED <<mails, folding, iteration>>
         /\ \/ UNCHANGED <<at, email, written>>
            \/ /\ at # "text" /\ at' # "text"
               /\ at' \in Sends => (at \in Sends /\ email' = email) \/ email' \in Messages
<1>1. UNCHANGED <<mails, folding, iteration>>
  BY DEF Session, Calls, Server
<1>2. \/ S!Greeted \/ S!Connected
      \/ \E m \in Messages : S!Send(m)
      \/ S!MailAccepted \/ S!RcptAccepted \/ S!Spooled \/ S!WrongReply \/ S!NoReply
      \/ S!Quit \/ S!QuitAccepted
      \/ S!Serve \/ S!ServeText \/ S!Drop
  BY DEF Session, Calls, Server
<1>3. CASE S!Serve \/ S!ServeText \/ S!Drop
  BY <1>1, <1>3 DEF S!Serve, S!ServeText, S!Drop
<1>4. CASE \E m \in Messages : S!Send(m)
  BY <1>1, <1>4 DEF S!Send, Sends
<1>5. CASE S!MailAccepted \/ S!RcptAccepted
  BY <1>1, <1>5 DEF S!MailAccepted, S!RcptAccepted, S!Checked, Sends
<1>6. CASE S!WrongReply \/ S!NoReply
  BY <1>1, <1>6 DEF S!WrongReply, S!NoReply, S!Thrown, S!Waits, Sends
<1>7. CASE S!Greeted \/ S!Connected \/ S!Spooled \/ S!Quit \/ S!QuitAccepted
  BY <1>1, <1>7 DEF S!Greeted, S!Connected, S!Spooled, S!Quit, S!QuitAccepted, S!Checked,
                    Sends
<1> QED BY <1>2, <1>3, <1>4, <1>5, <1>6, <1>7

\* The message stays the same while it is sent.
LEMMA TreeStays ==
  ASSUME mails' = mails, email' = email
  PROVE  Tree' = Tree
BY DEF Tree

LEMMA SessionKeeps ==
  ASSUME IInv, Session
  PROVE  IInv'
<1>1. UNCHANGED <<mails, folding, it, output, stage>>
  BY SessionSteps DEF iteration
<1>2. CASE UNCHANGED <<at, email, written>>
  <2>1. Tree' = Tree
    BY <1>1, <1>2, TreeStays
  <2>2. Walks' <=> Walks
    BY <1>1, <1>2, <2>1 DEF Walks
  <2> QED BY <1>1, <1>2, <2>2 DEF IInv
<1>3. CASE ~UNCHANGED <<at, email, written>>
  <2>1. /\ at # "text" /\ at' # "text"
        /\ at' \in Sends => (at \in Sends /\ email' = email) \/ email' \in Messages
    BY <1>3, SessionSteps
  <2> QED BY <1>1, <2>1 DEF IInv
<1> QED BY <1>2, <1>3

LEMMA BeginKeeps ==
  ASSUME IInv, BeginText
  PROVE  IInv'
<1>1. /\ mails' = mails /\ email' = email /\ at = "DATA" /\ at' = "text" /\ written' = 0
      /\ it' = [node \in DOMAIN Tree |-> M!Fresh] /\ output' = <<>> /\ stage' = "begin"
  BY DEF BeginText, S!DataAccepted, S!Checked
<1>2. Tree' = Tree
  BY <1>1, TreeStays
<1>3. it' = [node \in DOMAIN (Tree') |-> M!Fresh]
  BY <1>1, <1>2
<1>4. Walks'
  <2>1. output' \in Seq(Pieces) /\ written' \in Nat /\ written' \in 0..1
    BY <1>1
  <2> QED BY <1>1, <1>3, <2>1 DEF Walks
<1>5. email' \in Messages /\ mails' \in Mails
  BY <1>1 DEF IInv, Sends
<1> QED BY <1>1, <1>4, <1>5 DEF IInv

LEMMA FoldingKeeps ==
  ASSUME IInv, Fold \/ FoldEnds
  PROVE  IInv'
<1>1. /\ UNCHANGED <<mails, at, email, written, it, output, stage>>
      /\ folding # <<>>
  BY DEF Fold, FoldEnds, session, iteration
<1>2. Tree' = Tree
  BY <1>1, TreeStays
<1>3. Walks' <=> Walks
  BY <1>1, <1>2 DEF Walks
<1> QED BY <1>1, <1>3 DEF IInv

LEMMA HeadersKeep ==
  ASSUME IInv, WriteHeaders
  PROVE  IInv'
<1>1. /\ at = "text" /\ at' = "text" /\ written = 0 /\ written' = written + 1
      /\ UNCHANGED <<mails, email, folding, it, output, stage>> /\ folding = <<>>
  BY DEF WriteHeaders, S!WritePiece, iteration
<1>2. Tree' = Tree
  BY <1>1, TreeStays
<1>3. Walks
  BY <1>1 DEF IInv
<1>4. stage = "begin"
  <2>1. Len(output) \in Nat
    BY <1>3 DEF Walks
  <2> QED BY <1>1, <1>3, <2>1 DEF Walks
<1>5. written' = 1
  BY <1>1
<1>6. Walks'
  BY <1>1, <1>2, <1>3, <1>4, <1>5 DEF Walks
<1> QED BY <1>1, <1>6 DEF IInv, Sends

LEMMA BlockKeeps ==
  ASSUME IInv, WriteBlock
  PROVE  IInv'
<1>1. /\ at = "text" /\ at' = "text" /\ written' = written + 1
      /\ UNCHANGED <<mails, email, folding, it>>
      /\ stage = "write" /\ stage' = "next" /\ ~it[M!Root].shown.null
      /\ output' = Append(output, Sees(it))
  BY DEF WriteBlock, S!WritePiece, M!Write, M!Shown, Sees
<1>2. Tree' = Tree
  BY <1>1, TreeStays
<1>3. Walks /\ folding = <<>>
  BY <1>1 DEF IInv, WriteBlock
<1>4. Good(Tree) /\ email \in Messages /\ mails \in Mails
  BY <1>1, TreeIs DEF IInv, Sends
<1>5. Reads(Tree, it, output')
  BY <1>1, <1>3 DEF Walks, Moved
<1>6. output' \in Seq(Pieces)
  BY <1>4, <1>5, Begins
<1>7. written' = Len(output') + 1 /\ written' \in Nat
  <2>1. output \in Seq(Pieces) /\ written = Len(output) + 1
    BY <1>1, <1>3 DEF Walks
  <2>2. Len(output') = Len(output) + 1
    BY <1>1, <2>1
  <2> QED BY <1>1, <2>1, <2>2
<1>8. Walks'
  BY <1>1, <1>2, <1>5, <1>6, <1>7 DEF Walks
<1> QED BY <1>1, <1>3, <1>4, <1>8 DEF IInv

LEMMA NextKeeps ==
  ASSUME IInv, NextBlock
  PROVE  IInv'
<1>1. /\ at = "text" /\ UNCHANGED <<mails, at, email, written, folding, output>>
      /\ written > 0 /\ stage \in {"begin", "next"} /\ stage' = "write"
      /\ it' = M!Read(it, M!Root)
  BY DEF NextBlock, session, M!Begin, M!Increment, M!ReadRoot
<1>2. Tree' = Tree
  BY <1>1, TreeStays
<1>3. Walks
  BY <1>1 DEF IInv
<1>4. Good(Tree) /\ email \in Messages
  BY <1>1, TreeIs DEF IInv, Sends
<1>5. Moved(Tree, it', output)
  <2>1. CASE stage = "begin"
    <3>1. it = [node \in DOMAIN Tree |-> M!Fresh] /\ output = <<>>
      BY <1>3, <2>1 DEF Walks
    <3> QED BY <1>1, <1>4, <3>1, FirstMoves
  <2>2. CASE stage = "next"
    <3>1. Reads(Tree, it, output)
      BY <1>3, <2>2 DEF Walks
    <3> QED BY <1>1, <1>4, <3>1, NextMoves
  <2> QED BY <1>1, <2>1, <2>2
<1>6. written = Len(output) + 1
  <2>1. CASE stage = "begin"
    BY <1>1, <1>3, <2>1 DEF Walks
  <2>2. CASE stage # "begin"
    BY <1>3, <2>2 DEF Walks
  <2> QED BY <2>1, <2>2
<1>7. Walks'
  BY <1>1, <1>2, <1>3, <1>5, <1>6 DEF Walks
<1> QED BY <1>1, <1>7 DEF IInv

LEMMA LeavesText ==
  ASSUME IInv, TextFails \/ EndText
  PROVE  IInv'
<1>1. /\ at = "text" /\ at' \in {"failed", "end"}
      /\ UNCHANGED <<mails, email, written, folding>> /\ folding = <<>>
  <2>1. CASE TextFails
    BY <2>1 DEF TextFails, S!TextFails
  <2>2. CASE EndText
    BY <2>2 DEF EndText, S!WriteEnd, IInv
  <2> QED BY <2>1, <2>2
<1> QED BY <1>1 DEF IInv, Sends

LEMMA Starting ==
  ASSUME Init
  PROVE  IInv
BY DEF Init, S!Init, IInv, Sends

LEMMA Keeping ==
  ASSUME IInv, [Next]_vars
  PROVE  IInv'
<1>1. CASE Next /\ ~Hang
  BY <1>1, SessionKeeps, BeginKeeps, FoldingKeeps, HeadersKeep, BlockKeeps, NextKeeps,
     LeavesText DEF Next, Writing, Session
<1>2. CASE Hang \/ UNCHANGED vars
  <2>1. UNCHANGED <<mails, at, email, written, folding, it, output, stage>>
    BY <1>2 DEF Hang, vars, session, iteration
  <2>2. Tree' = Tree
    BY <2>1, TreeStays
  <2>3. Walks' <=> Walks
    BY <2>1, <2>2 DEF Walks
  <2> QED BY <2>1, <2>3 DEF IInv
<1> QED BY <1>1, <1>2

LEMMA Inductive ==
  Spec => []IInv
BY Starting, Keeping, PTL DEF Spec

-----------------------------------------------------------------------------
(***************************************************************************)
(* The client implements the session of Smtp.                              *)
(***************************************************************************)

LEMMA TextSteps ==
  ASSUME IInv, WriteHeaders \/ WriteBlock \/ EndText
  PROVE  S!WriteText \/ S!EndText
<1> DEFINE rendered == M!RenderedTree(mails[email].tree)
<1>1. at = "text"
  BY DEF WriteHeaders, WriteBlock, EndText
<1>2. /\ Walks /\ email \in Messages /\ mails \in Mails
      /\ Tree = mails[email].tree /\ Good(Tree)
  BY <1>1, TreeIs DEF IInv, Sends
<1>3. /\ rendered \in Seq(Pieces)
      /\ Len(Outbox(mails)[email]) = Len(rendered) + 1
      /\ Outbox(mails)[email][1] = HeaderText
      /\ \A i \in 1..Len(rendered) :
           Outbox(mails)[email][i + 1] = Piece(mails[email], rendered[i])
  BY <1>2, OutboxIs
<1>4. rendered = M!RenderedTree(Tree)
  BY <1>2
<1> HIDE DEF rendered
<1>5. CASE WriteHeaders
  <2>1. written = 0 /\ S!WritePiece(HeaderText)
    BY <1>5 DEF WriteHeaders
  <2>2. written < Len(Outbox(mails)[email]) /\ Outbox(mails)[email][written + 1] = HeaderText
    <3>1. Len(rendered) \in Nat
      BY <1>3
    <3> QED BY <1>3, <2>1, <3>1
  <2> QED BY <1>1, <2>1, <2>2 DEF S!WriteText
<1>6. CASE WriteBlock
  <2>1. /\ written > 0 /\ stage = "write" /\ ~it[M!Root].shown.null
        /\ S!WritePiece(Piece(mails[email], Sees(it)))
    BY <1>6 DEF WriteBlock, M!Write, M!Shown, Sees
  <2>2. /\ output \in Seq(Pieces) /\ written = Len(output) + 1
        /\ Reads(Tree, it, Append(output, Sees(it)))
    BY <1>2, <2>1 DEF Walks, Moved
  <2>3. /\ Append(output, Sees(it)) \in Seq(Pieces)
        /\ Starts(Append(output, Sees(it)), rendered, Pieces)
    BY <1>2, <1>4, <2>2, Begins
  <2>4. PICK r \in Seq(Pieces) : rendered = Append(output, Sees(it)) \o r
    BY <2>3 DEF Starts
  <2> DEFINE part == Append(output, Sees(it))
  <2>5. /\ part \in Seq(Pieces) /\ Len(part) = Len(output) + 1
        /\ part[Len(output) + 1] = Sees(it)
    BY <2>2, <2>3
  <2>6. rendered = part \o r
    BY <2>4
  <2> HIDE DEF part
  <2>7. Len(output) \in Nat
    BY <2>2
  <2>8. /\ Len(output) + 1 \in 1..Len(rendered)
        /\ rendered[Len(output) + 1] = part[Len(output) + 1]
    BY <2>5, <2>6, <2>7
  <2>9. /\ written \in 1..Len(rendered) /\ rendered[written] = Sees(it)
        /\ written < Len(Outbox(mails)[email])
    BY <1>3, <2>2, <2>5, <2>8
  <2>10. Outbox(mails)[email][written + 1] = Piece(mails[email], Sees(it))
    BY <1>3, <2>9
  <2> QED BY <1>1, <2>1, <2>9, <2>10 DEF S!WriteText
<1>7. CASE EndText
  <2>1. stage = "write" /\ it[M!Root].shown.null /\ S!WriteEnd
    BY <1>7 DEF EndText, M!AtEnd
  <2>2. written = Len(output) + 1 /\ output = rendered
    BY <1>2, <1>4, <2>1 DEF Walks, Moved
  <2>3. written = Len(Outbox(mails)[email])
    BY <1>3, <2>2
  <2> QED BY <1>1, <2>1, <2>3 DEF S!EndText
<1> QED BY <1>5, <1>6, <1>7

LEMMA Refines ==
  ASSUME IInv, [Next]_vars
  PROVE  [S!Next]_S!vars
<1>1. CASE WriteHeaders \/ WriteBlock \/ EndText
  BY <1>1, TextSteps DEF S!Next, S!Client
<1>2. CASE BeginText
  BY <1>2 DEF BeginText, S!Next, S!Client
<1>3. CASE TextFails
  BY <1>3 DEF TextFails, S!Next, S!Client
<1>4. CASE Session
  BY <1>4 DEF Session, Calls, Server, S!Next, S!Client
<1>5. CASE Fold \/ FoldEnds \/ NextBlock \/ Hang \/ UNCHANGED vars
  <2>1. UNCHANGED <<mails, session>>
    BY <1>5 DEF Fold, FoldEnds, NextBlock, Hang, vars
  <2> QED BY <2>1 DEF session, S!vars
<1> QED BY <1>1, <1>2, <1>3, <1>4, <1>5 DEF Next, Writing, Session

\* What the iterator makes the client write is, piece by piece, what there is of
\* the message, so that each step of the client is one of the session of Smtp or goes unseen
\* there (smtp_client::send, mime::const_iterator).
THEOREM SendsTheMessage ==
  Spec => ImplementsSmtp
<1>1. Init => S!Init
  BY DEF Init
<1>2. IInv /\ [Next]_vars => [S!Next]_S!vars
  BY Refines
<1> QED BY <1>1, <1>2, Inductive, PTL DEF Spec, ImplementsSmtp, S!Spec

-----------------------------------------------------------------------------
(***************************************************************************)
(* What the theorems of SmtpProofs say of the client.                      *)
(***************************************************************************)

LEMMA ProperSession ==
  ASSUME Proper
  PROVE  SP!Proper
<1>1. M!NoText \notin {Dot}
  BY DEF M!NoText, Dot, M!Text
<1>2. ASSUME NEW given \in Mails, NEW m \in Messages
      PROVE  /\ Outbox(given)[m] \in Seq(SP!Range(Outbox(given)[m]))
             /\ Outbox(given)[m] # <<>> /\ Outbox(given)[m][1] \notin {Dot}
  <2> DEFINE text_ == Outbox(given)[m]
  <2>1. /\ text_ \in Seq(Pieces \cup {Dot}) /\ Len(text_) \in Nat /\ Len(text_) > 0
        /\ text_[1] = HeaderText
    <3>1. Len(M!RenderedTree(given[m].tree)) \in Nat
      BY OutboxIs
    <3> QED BY <3>1, OutboxIs
  <2> HIDE DEF text_
  <2>2. \A i \in 1..Len(text_) : text_[i] \in SP!Range(text_)
    BY <2>1 DEF SP!Range
  <2>3. text_ \in Seq(SP!Range(text_))
    BY <2>1, <2>2
  <2>4. HeaderText # Dot
    BY DEF HeaderText, Dot, M!Text
  <2>5. text_ # <<>>
    BY <2>1
  <2> QED BY <2>1, <2>3, <2>4, <2>5 DEF text_
<1>3. MaxLines = 1 /\ MaxSends \in Nat /\ Nobody \notin Messages
  BY MailAssumption DEF Proper
<1> QED BY <1>1, <1>2, <1>3 DEF SP!Proper

LEMMA SameTexts ==
  /\ S!Dotted = SP!Dotted
  /\ \A m : S!Text(m) = SP!Text(m)
BY DEF S!Dotted, SP!Dotted, S!Range, SP!Range, S!Text, SP!Text, S!Line, SP!Line

\* The session as SmtpProofs has it.
LEMMA SameSession ==
  S!Spec => SP!Spec
<1>1. S!Init => SP!Init
  BY DEF S!Init, SP!Init
<1>2. S!Greeted => SP!Greeted
  BY DEF S!Greeted, SP!Greeted, S!Checked, SP!Checked, S!Write, SP!Write, S!Command,
         SP!Command, S!Line, SP!Line, S!Session, SP!Session
<1>3. S!Connected => SP!Connected
  BY DEF S!Connected, SP!Connected, S!Checked, SP!Checked, S!Session, SP!Session
<1>4. \A m \in Messages : S!Send(m) => SP!Send(m)
  BY DEF S!Send, SP!Send, S!Write, SP!Write, S!Command, SP!Command, S!Line, SP!Line,
         S!Session, SP!Session
<1>5. S!MailAccepted => SP!MailAccepted
  BY DEF S!MailAccepted, SP!MailAccepted, S!Checked, SP!Checked, S!Write, SP!Write,
         S!Command, SP!Command, S!Line, SP!Line, S!Session, SP!Session
<1>6. S!RcptAccepted => SP!RcptAccepted
  BY DEF S!RcptAccepted, SP!RcptAccepted, S!Checked, SP!Checked, S!Write, SP!Write,
         S!Command, SP!Command, S!Line, SP!Line, S!Session, SP!Session
<1>7. S!DataAccepted => SP!DataAccepted
  BY DEF S!DataAccepted, SP!DataAccepted, S!Checked, SP!Checked, S!Session,
         SP!Session
<1>8. S!WriteText => SP!WriteText
  BY DEF S!WriteText, SP!WriteText, S!WritePiece, SP!WritePiece, S!Write, SP!Write,
         S!Line, SP!Line, S!Session, SP!Session
<1>9. S!TextFails => SP!TextFails
  BY DEF S!TextFails, SP!TextFails, S!Session, SP!Session
<1>10. S!EndText => SP!EndText
  BY DEF S!EndText, SP!EndText, S!WriteEnd, SP!WriteEnd, S!Write, SP!Write,
         S!Command, SP!Command, S!Line, SP!Line, S!Session, SP!Session
<1>11. S!Spooled => SP!Spooled
  BY DEF S!Spooled, SP!Spooled, S!Checked, SP!Checked, S!Session, SP!Session
<1>12. S!WrongReply => SP!WrongReply
  BY DEF S!WrongReply, SP!WrongReply, S!Codes, SP!Codes, S!Thrown, SP!Thrown,
         S!Session, SP!Session
<1>13. S!NoReply => SP!NoReply
  BY DEF S!NoReply, SP!NoReply, S!Waits, SP!Waits, S!Thrown, SP!Thrown, S!Session,
         SP!Session
<1>14. S!Quit => SP!Quit
  BY DEF S!Quit, SP!Quit, S!Write, SP!Write, S!Command, SP!Command, S!Line, SP!Line,
         S!Session, SP!Session
<1>15. S!QuitAccepted => SP!QuitAccepted
  BY DEF S!QuitAccepted, SP!QuitAccepted, S!Checked, SP!Checked, S!Session,
         SP!Session
<1>16. S!Serve => SP!Serve
  BY DEF S!Serve, SP!Serve, S!Transitions, SP!Transitions, S!Answer, SP!Answer
<1>17. S!ServeText => SP!ServeText
  BY DEF S!ServeText, SP!ServeText, S!Answer, SP!Answer
<1>18. S!Drop => SP!Drop
  BY DEF S!Drop, SP!Drop
<1>19. S!Next => SP!Next
  BY <1>2, <1>3, <1>4, <1>5, <1>6, <1>7, <1>8, <1>9, <1>10, <1>11, <1>12, <1>13,
     <1>14, <1>15, <1>16, <1>17, <1>18 DEF S!Next, SP!Next, S!Client, SP!Client
<1>20. [S!Next]_S!vars => [SP!Next]_SP!vars
  BY <1>19 DEF S!vars, SP!vars
<1> QED BY <1>1, <1>20, PTL DEF S!Spec, SP!Spec

\* What there is of a message whose files are not cut short is the message.
LEMMA UncutText ==
  ASSUME IInv, NEW m \in Messages, m \notin Cut
  PROVE  Original(m) = S!Text(m)
<1> DEFINE tree_ == mails[m].tree
<1>1. mails \in Mails /\ ~M!IsCut(tree_)
  BY DEF IInv, Cut
<1>2. /\ Good(tree_)
      /\ Outbox(mails)[m] = PiecesOf(mails[m], tree_)
  BY <1>1, OutboxIs DEF Outbox
<1> HIDE DEF tree_
<1>3. M!Entire(tree_) = tree_
  <2>1. tree_ = [node \in DOMAIN tree_ |-> tree_[node]]
    BY <1>2 DEF Good, M!IsTree
  <2>2. ASSUME NEW node \in DOMAIN tree_
        PROVE  [tree_[node] EXCEPT !.n = tree_[node].size] = tree_[node]
    <3>1. /\ tree_[node] \in M!Part
          /\ tree_[node].n <= tree_[node].size /\ ~(tree_[node].n < tree_[node].size)
      BY <1>1, <1>2 DEF Good, M!IsTree, M!IsCut
    <3>2. tree_[node].n = tree_[node].size
      BY <3>1 DEF M!Part
    <3> QED BY <3>1, <3>2 DEF M!Part
  <2> QED BY <2>1, <2>2 DEF M!Entire
<1> QED BY <1>2, <1>3 DEF Original, S!Text, tree_

LEMMA FirstLine ==
  ASSUME IInv, NEW m \in Messages
  PROVE  1 \in DOMAIN S!Text(m) /\ S!Text(m)[1].of = m
<1>1. mails \in Mails
  BY DEF IInv
<1>2. /\ DOMAIN Outbox(mails)[m] = 1..(Len(M!RenderedTree(mails[m].tree)) + 1)
      /\ Len(M!RenderedTree(mails[m].tree)) \in Nat
  BY <1>1, OutboxIs
<1>3. 1 \in DOMAIN Outbox(mails)[m]
  BY <1>2
<1> QED BY <1>3 DEF S!Text, S!Line

\* When send returns, the server has spooled that message as the application made
\* it, its headers and all its parts, and by itself, unless a line of it is a dot or
\* a file of it is cut short (smtp_client::send).
THEOREM ReturnedWasSpooled ==
  ASSUME Proper
  PROVE  Spec => []ReturnedMeansSpooled
<1>1. SP!Spec => []SP!ReturnedMeansSpooled
  BY ProperSession, SP!SentMeansSpooled
<1>2. SP!Spec => []SP!TypeOK
  BY ProperSession, SP!TypeCorrect
<1>3. IInv /\ SP!TypeOK /\ SP!ReturnedMeansSpooled => ReturnedMeansSpooled
  <2> SUFFICES ASSUME IInv, SP!TypeOK, SP!ReturnedMeansSpooled,
                      NEW m \in delivered \ (S!Dotted \cup Cut)
               PROVE  \E i \in DOMAIN spooled : spooled[i] = Original(m)
    BY DEF ReturnedMeansSpooled
  <2>1. m \in Messages /\ m \in delivered \ SP!Dotted /\ m \notin Cut
    BY SameTexts DEF SP!TypeOK
  <2>2. Original(m) = SP!Text(m)
    BY <2>1, UncutText, SameTexts
  <2> QED BY <2>1, <2>2 DEF SP!ReturnedMeansSpooled
<1>4. Spec => SP!Spec
  BY SendsTheMessage, SameSession DEF ImplementsSmtp
<1> QED BY <1>1, <1>2, <1>3, <1>4, Inductive, PTL

\* However often send is called again for a message after it has thrown, one
\* connection spools what there is of the message at most once (smtp_client::send).
THEOREM SpooledAtMostOnce ==
  ASSUME Proper
  PROVE  Spec => []SpooledOnce
<1>1. SP!Spec => []SP!SpooledOnce
  BY ProperSession, SP!NeverSpooledTwice
<1>2. SP!SpooledOnce => SpooledOnce
  BY SameTexts DEF SpooledOnce, S!SpooledOnce, SP!SpooledOnce
<1>3. Spec => SP!Spec
  BY SendsTheMessage, SameSession DEF ImplementsSmtp
<1> QED BY <1>1, <1>2, <1>3, PTL

\* What is spooled without a dotted message in it, or one with a file cut short, is
\* a whole message: a send that breaks off between two blocks leaves nothing behind
\* (smtp_client::send).
THEOREM SpooledWhole ==
  ASSUME Proper
  PROVE  Spec => []NothingPartial
<1>1. SP!Spec => []SP!NothingPartial
  BY ProperSession, SP!WholeOrNothing
<1>2. IInv /\ SP!NothingPartial => NothingPartial
  <2> SUFFICES ASSUME IInv, SP!NothingPartial, NEW i \in DOMAIN spooled,
                      \A j \in DOMAIN spooled[i] : spooled[i][j].of \notin S!Dotted \cup Cut
               PROVE  \E m \in Messages : spooled[i] = Original(m)
    BY DEF NothingPartial
  <2>1. \A j \in DOMAIN spooled[i] : spooled[i][j].of \notin SP!Dotted
    BY SameTexts
  <2>2. PICK m \in Messages : spooled[i] = S!Text(m)
    BY <2>1, SameTexts DEF SP!NothingPartial
  <2>3. 1 \in DOMAIN S!Text(m) /\ S!Text(m)[1].of = m
    BY FirstLine
  <2>4. m \notin Cut
    BY <2>2, <2>3
  <2> QED BY <2>2, <2>4, UncutText
<1>3. Spec => SP!Spec
  BY SendsTheMessage, SameSession DEF ImplementsSmtp
<1> QED BY <1>1, <1>2, <1>3, Inductive, PTL

-----------------------------------------------------------------------------
(***************************************************************************)
(* Type correctness.                                                       *)
(***************************************************************************)

Folds == folding \in Seq(HeaderLines)
HungTyped == hung \in BOOLEAN

\* A line that is too long is cut at the last blank that it may be.
LEMMA LastCut ==
  ASSUME NEW line \in HeaderLines, Cuts(line) # {}
  PROVE  \E b \in Cuts(line) : \A c \in Cuts(line) : c <= b
<1> DEFINE room == {Limit - b : b \in Cuts(line)}
<1>1. \A b \in Cuts(line) : b \in Nat /\ b <= Limit
  BY DEF Cuts, HeaderLines, IsLine
<1>2. Limit \in Nat
  BY MailAssumption
<1>3. room \subseteq Nat /\ room # {}
  BY <1>1, <1>2
<1> HIDE DEF room
<1>4. PICK x \in room : \A y \in room : x <= y
  BY <1>3, Least
<1>5. PICK b \in Cuts(line) : x = Limit - b
  BY DEF room
<1>6. ASSUME NEW c \in Cuts(line) PROVE c <= b
  <2>1. Limit - c \in room
    BY DEF room
  <2>2. Limit - b <= Limit - c
    BY <1>4, <1>5, <2>1
  <2> QED BY <1>1, <1>2, <2>2
<1> QED BY <1>6

LEMMA FoldingLines ==
  ASSUME Proper, IInv, Folds, [Next]_vars
  PROVE  Folds'
<1>1. CASE BeginText
  <2>1. email \in Messages /\ mails \in Mails
    BY <1>1 DEF BeginText, S!DataAccepted, S!Checked, IInv, Sends
  <2>2. /\ mails[email].lines \in Seq([length : Nat, blanks : SUBSET Nat])
        /\ \A i \in DOMAIN mails[email].lines : IsLine(mails[email].lines[i])
    BY <2>1 DEF Proper
  <2>3. mails[email].lines \in Seq(HeaderLines)
    <3> DEFINE lines == mails[email].lines
               records == [length : Nat, blanks : SUBSET Nat]
    <3> HIDE DEF lines, records
    <3>1. lines \in Seq(records) /\ \A i \in DOMAIN lines : IsLine(lines[i])
      BY <2>2 DEF lines, records
    <3>2. \A i \in 1..Len(lines) : lines[i] \in HeaderLines
      <4> TAKE i \in 1..Len(lines)
      <4>1. lines[i] \in records /\ IsLine(lines[i])
        BY <3>1
      <4> QED BY <4>1 DEF HeaderLines, records
    <3>3. lines \in Seq(HeaderLines)
      BY <3>1, <3>2
    <3> QED BY <3>3 DEF lines
  <2> QED BY <1>1, <2>3 DEF BeginText, Folds
<1>2. CASE Fold
  <2> DEFINE line == Head(folding)
             cut == CHOOSE b \in Cuts(line) : \A c \in Cuts(line) : c <= b
             rest == [length |-> line.length - cut,
                      blanks |-> {b - cut : b \in {c \in line.blanks : c >= cut}}]
  <2>1. line \in HeaderLines /\ Cuts(line) # {} /\ 1 \in DOMAIN folding /\ line = folding[1]
    BY <1>2 DEF Fold, Folds
  <2>2. cut \in Cuts(line)
    BY <2>1, LastCut
  <2>3. folding' = [folding EXCEPT ![1] = rest]
    BY <1>2, <2>1 DEF Fold
  <2> HIDE DEF line, cut
  <2>4. /\ line.length \in Nat /\ line.blanks \subseteq 0..(line.length - 1)
        /\ cut \in line.blanks
    BY <2>1, <2>2 DEF HeaderLines, IsLine, Cuts
  <2>5. rest.length \in Nat /\ rest.blanks \subseteq 0..(rest.length - 1)
    BY <2>4
  <2>6. rest \in [length : Nat, blanks : SUBSET Nat]
    BY <2>4, <2>5
  <2>7. rest \in HeaderLines
    BY <2>5, <2>6 DEF HeaderLines, IsLine
  <2> HIDE DEF rest
  <2> QED BY <2>1, <2>3, <2>7 DEF Folds
<1>3. CASE FoldEnds
  BY <1>3 DEF FoldEnds, Folds
<1>4. CASE UNCHANGED folding
  BY <1>4 DEF Folds
<1>5. \/ BeginText \/ Fold \/ FoldEnds \/ UNCHANGED folding
  BY DEF Next, Writing, WriteHeaders, WriteBlock, NextBlock, EndText, TextFails, Calls, Server,
         Hang, vars
<1> QED BY <1>1, <1>2, <1>3, <1>4, <1>5

\* The iterator keeps to its types.
LEMMA WalkTyped ==
  ASSUME IInv, at = "text"
  PROVE  M!TypeOK
<1>1. Walks /\ email \in Messages /\ mails \in Mails /\ Tree = mails[email].tree /\ Good(Tree)
  BY TreeIs DEF IInv, Sends
<1>2. Typed(Tree, it)
  <2>1. CASE stage = "begin"
    BY <1>1, <2>1, FirstMoves DEF Walks
  <2>2. CASE stage # "begin"
    BY <1>1, <2>2 DEF Walks, Moved, Reads
  <2> QED BY <2>1, <2>2
<1>3. Tree \in {m[k].tree : m \in Mails, k \in Messages}
  BY <1>1
<1>4. /\ it \in [DOMAIN Tree -> Iterators(Tree)]
      /\ \A node \in DOMAIN Tree : it[node].at \in 1..(Tree[node].n + 1)
      /\ \A node \in DOMAIN Tree : it[node].held =>
           /\ node = M!Root /\ Tree[node].kind = "envelope"
           /\ it[node].at <= Tree[node].n
  BY <1>2 DEF Typed
<1>5. ASSUME NEW node \in DOMAIN Tree
      PROVE  /\ it[node].stage \in {"start", "attachments", "final"}
             /\ it[node].held \in BOOLEAN
             /\ it[node].memory.what \in M!Texts
             /\ it[node].shown.node \in DOMAIN Tree
  <2>1. it[node] \in Iterators(Tree)
    BY <1>4
  <2>2. it[node].memory \in Pieces \cup {M!NoText}
    BY <2>1 DEF Iterators
  <2>3. it[node].memory.what \in M!Texts
    BY <2>2 DEF Pieces, M!NoText, M!Text, M!Texts
  <2> QED BY <2>1, <2>3 DEF Iterators
<1>6. ASSUME NEW node \in DOMAIN Tree, it[node].held
      PROVE  Append(node, it[node].at) \in DOMAIN Tree
  <2>1. /\ node = M!Root /\ Tree[M!Root].kind = "envelope"
        /\ it[node].at \in 1..Tree[M!Root].n
    <3>1. Tree[node].n \in Nat
      BY <1>1, TreeProps
    <3> QED BY <1>4, <1>6, <3>1
  <2> QED BY <1>1, <2>1, TreeProps DEF Child
<1>7. \A i \in DOMAIN output : output[i].what \in M!Texts \ {"none"}
  <2> SUFFICES ASSUME NEW i \in DOMAIN output PROVE output[i].what \in M!Texts \ {"none"}
    OBVIOUS
  <2>1. output[i] \in Pieces
    BY <1>1 DEF Walks
  <2> QED BY <2>1 DEF Pieces
<1>8. stage \in {"begin", "write", "next", "done"} /\ DOMAIN it = DOMAIN Tree
  BY <1>1, <1>4 DEF Walks
<1> QED BY <1>3, <1>4, <1>5, <1>6, <1>7, <1>8 DEF M!TypeOK, M!Nodes

\* Every variable has its type; headers are folded before the text is written, and
\* the iterator of the message is on it.
THEOREM TypeCorrect ==
  ASSUME Proper
  PROVE  Spec => []TypeOK
<1>1. Init => Folds
  BY DEF Init, Folds
<1>2. IInv /\ Folds /\ [Next]_vars => Folds'
  BY FoldingLines
<1>3. SP!Spec => []SP!TypeOK
  BY ProperSession, SP!TypeCorrect
<1>4. Spec => SP!Spec
  BY SendsTheMessage, SameSession DEF ImplementsSmtp
<1>5. SP!TypeOK => S!TypeOK
  BY DEF SP!TypeOK, S!TypeOK, S!Waits, SP!Waits, S!Codes, SP!Codes, S!LineOK, SP!LineOK,
         S!Words, SP!Words
<1>6. IInv /\ Folds /\ S!TypeOK /\ HungTyped => TypeOK
  BY WalkTyped DEF IInv, Folds, HeaderLines, HungTyped, TypeOK
<1>7. Init => HungTyped
  BY DEF Init, HungTyped
<1>8. HungTyped /\ [Next]_vars => HungTyped'
  <2> SUFFICES ASSUME hung \in BOOLEAN, [Next]_vars PROVE hung' \in BOOLEAN
    BY DEF HungTyped
  <2>1. BeginText \/ Fold \/ FoldEnds => hung' = FALSE
    BY Zenon DEF BeginText, Fold, FoldEnds
  <2>2. WriteHeaders \/ WriteBlock \/ NextBlock \/ EndText => hung' = FALSE
    BY Zenon DEF WriteHeaders, WriteBlock, NextBlock, EndText
  <2>3. TextFails \/ Calls => hung' = FALSE
    BY Zenon DEF TextFails, Calls
  <2>4. Server \/ UNCHANGED vars => hung' = hung
    BY DEF Server, vars
  <2>5. Hang => hung' = TRUE
    BY Zenon DEF Hang
  <2>6. \/ BeginText \/ Fold \/ FoldEnds \/ WriteHeaders \/ WriteBlock \/ NextBlock
        \/ EndText \/ TextFails \/ Calls \/ Server \/ Hang \/ UNCHANGED vars
    BY DEF Next, Writing
  <2>7. hung' = hung \/ hung' = TRUE \/ hung' = FALSE
    BY <2>1, <2>2, <2>3, <2>4, <2>5, <2>6, Zenon
  <2> QED BY <2>7
<1> QED BY <1>1, <1>2, <1>3, <1>4, <1>5, <1>6, <1>7, <1>8, Inductive, PTL DEF Spec
=============================================================================
