---------------------------- MODULE RequestProofs ----------------------------
(***************************************************************************)
(* Proofs about a request's way from the application to the handler, for   *)
(* any applications, edits, calls, headers, queries and secrets.           *)
(*                                                                         *)
(* The argument: the multimap of headers stays sorted under every          *)
(* operation, and an operation on one name leaves the headers of others    *)
(* and their order alone; a line, parsed, is the header that was printed,  *)
(* but for arguments; the text of a query, printed, cached or parsed, has  *)
(* for each key the same fields.  Then the inductive invariant relates     *)
(* what is on the wire and at the server to the request, and what the      *)
(* agent signed last to what it sent (IInv, below).                        *)
(*                                                                         *)
(* Lists are filtered with Those and folded from the left, so that all of  *)
(* it rests on a few facts about sequences, proved first.                  *)
(***************************************************************************)
EXTENDS Request, SequenceTheorems, WellFoundedInduction, TLAPS

-----------------------------------------------------------------------------
(***************************************************************************)
(* Induction, over sets of numbers and of sequences.                       *)
(***************************************************************************)

LEMMA Least ==
  ASSUME NEW T, T \subseteq Nat, T # {}
  PROVE  \E x \in T : \A y \in T : x <= y
<1> DEFINE R == OpToRel(<, Nat)
<1>1. IsWellFoundedOn(R, Nat)
  BY NatLessThanWellFounded, Zenon
<1>2. R = {ss \in Nat \X Nat : ss[1] < ss[2]}
  BY Zenon DEF OpToRel
<1> HIDE DEF R
<1>3. PICK x \in T : \A y \in T : ~(<<y, x>> \in R)
  BY <1>1, WFMin, Zenon
<1>4. ASSUME NEW y \in T PROVE x <= y
  <2>1. x \in Nat /\ y \in Nat /\ <<y, x>> \notin R
    BY <1>3
  <2>2. <<y, x>> \in Nat \X Nat /\ <<y, x>>[1] = y /\ <<y, x>>[2] = x
    BY <2>1
  <2> QED BY <1>2, <2>1, <2>2
<1> QED BY <1>3, <1>4

\* A set of numbers up to n that has 0, and with each number the next, has all.
LEMMA Upwards ==
  ASSUME NEW n \in Nat, NEW Good, 0 \in Good,
         \A k \in 1..n : k - 1 \in Good => k \in Good
  PROVE  0..n \subseteq Good
<1> DEFINE Bad == {k \in 0..n : k \notin Good}
<1>1. CASE Bad # {}
  <2>1. Bad \subseteq Nat
    OBVIOUS
  <2> HIDE DEF Bad
  <2>2. PICK x \in Bad : \A y \in Bad : x <= y
    BY <1>1, <2>1, Least
  <2> USE DEF Bad
  <2>3. x \in 1..n /\ x - 1 \in 0..n /\ x - 1 < x
    BY <2>2
  <2> QED BY <2>2, <2>3
<1> QED BY <1>1

\* A set that has the empty sequence, and with each sequence those one longer,
\* has them all.
LEMMA Longer ==
  ASSUME NEW X, NEW Good, <<>> \in Good,
         \A u \in Seq(X), e \in X : u \in Good => Append(u, e) \in Good
  PROVE  Seq(X) \subseteq Good
<1> DEFINE Bad == {k \in Nat : \E s \in Seq(X) : Len(s) = k /\ s \notin Good}
<1>1. CASE Bad # {}
  <2>1. Bad \subseteq Nat
    OBVIOUS
  <2> HIDE DEF Bad
  <2>2. PICK x \in Bad : \A y \in Bad : x <= y
    BY <1>1, <2>1, Least
  <2> USE DEF Bad
  <2>3. PICK s \in Seq(X) : Len(s) = x /\ s \notin Good
    BY <2>2
  <2>4. s # <<>>
    BY <2>3
  <2>5. PICK u \in Seq(X), e \in X : s = Append(u, e)
    BY <2>4, SequenceEmptyOrAppend
  <2>6. Len(u) \in Nat /\ Len(u) < x
    BY <2>3, <2>5, AppendProperties
  <2>7. u \in Good
    BY <2>2, <2>6
  <2> QED BY <2>3, <2>5, <2>7
<1>2. ASSUME Bad = {}, NEW s \in Seq(X) PROVE s \in Good
  BY <1>2, LenProperties
<1> QED BY <1>1, <1>2

LEMMA SameUpto == \A a \in Nat, b \in Nat : 1..a = 1..b => a = b
<1> TAKE a \in Nat, b \in Nat
<1> HAVE 1..a = 1..b
<1>1. (a > 0 => a \in 1..a /\ a \in 1..b) /\ (b > 0 => b \in 1..b /\ b \in 1..a)
  OBVIOUS
<1> QED BY <1>1

\* The values of a recursion over the numbers up to k.
IsRecursion(F, k, X, base, step) ==
  /\ F \in [0..k -> X] /\ F[0] = base
  /\ \A j \in 1..k : F[j] = step[j][F[j - 1]]

\* A recursion over the numbers up to n has a value, whatever its steps are.
LEMMA Recursion ==
  ASSUME NEW n \in Nat, NEW X, NEW base \in X, NEW step \in [1..n -> [X -> X]]
  PROVE  \E F : IsRecursion(F, n, X, base, step)
<1> DEFINE Good == {k \in 0..n : \E F : IsRecursion(F, k, X, base, step)}
<1>1. 0 \in Good
  <2>1. IsRecursion([k \in 0..0 |-> base], 0, X, base, step)
    BY DEF IsRecursion
  <2> QED BY <2>1
<1>2. ASSUME NEW k \in 1..n, k - 1 \in Good PROVE k \in Good
  <2>1. PICK F : IsRecursion(F, k - 1, X, base, step)
    BY <1>2
  <2> DEFINE G == [j \in 0..k |-> IF j = k THEN step[k][F[k - 1]] ELSE F[j]]
  <2>2. k \in Nat \ {0} /\ k - 1 \in 0..(k - 1) /\ F[k - 1] \in X
    BY <2>1 DEF IsRecursion
  <2>3. step[k][F[k - 1]] \in X
    BY <2>2
  <2>4. ASSUME NEW j \in 0..k, j # k PROVE j \in 0..(k - 1) /\ F[j] \in X /\ G[j] = F[j]
    BY <2>1, <2>2, <2>4 DEF IsRecursion
  <2>5. G \in [0..k -> X]
    BY <2>3, <2>4
  <2>6. G[0] = base
    BY <2>1, <2>2 DEF IsRecursion
  <2>7. ASSUME NEW j \in 1..k PROVE G[j] = step[j][G[j - 1]]
    <3>1. CASE j = k
      <4>1. G[k] = step[k][F[k - 1]] /\ G[k - 1] = F[k - 1]
        BY <2>2
      <4> QED BY <3>1, <4>1
    <3>2. CASE j # k
      <4>1. j \in 1..(k - 1) /\ G[j] = F[j] /\ G[j - 1] = F[j - 1]
        BY <3>2, <2>2, <2>4
      <4> QED BY <2>1, <4>1 DEF IsRecursion
    <3> QED BY <3>1, <3>2
  <2> HIDE DEF G
  <2>8. IsRecursion(G, k, X, base, step)
    BY <2>5, <2>6, <2>7 DEF IsRecursion
  <2> QED BY <2>8
<1> HIDE DEF Good
<1>3. 0..n \subseteq Good
  BY <1>1, <1>2, Upwards
<1> QED BY <1>3 DEF Good

-----------------------------------------------------------------------------
(***************************************************************************)
(* The elements at some places of a sequence.                              *)
(***************************************************************************)

\* Those, step by step.
ThoseUpto(s, places, F) ==
  /\ F[0] = <<>>
  /\ \A k \in 1..Len(s) : F[k] = IF k \in places THEN Append(F[k - 1], s[k]) ELSE F[k - 1]
  /\ Those(s, places) = F[Len(s)]

LEMMA ThoseSteps ==
  ASSUME NEW X, NEW s \in Seq(X), NEW places
  PROVE  \E F \in [0..Len(s) -> Seq(X)] : ThoseUpto(s, places, F)
<1> DEFINE n == Len(s)
           step == [k \in 1..n |-> [u \in Seq(X) |->
                      IF k \in places THEN Append(u, s[k]) ELSE u]]
           Body(g) == [k \in 0..n |-> IF k = 0 THEN <<>>
                         ELSE IF k \in places THEN Append(g[k - 1], s[k]) ELSE g[k - 1]]
           upto == CHOOSE g : g = Body(g)
<1>1. n \in Nat /\ \A k \in 1..n : s[k] \in X
  BY LenProperties
<1>2. step \in [1..n -> [Seq(X) -> Seq(X)]]
  BY <1>1, AppendProperties
<1>3. <<>> \in Seq(X)
  BY EmptySeq
<1>4. \E F : IsRecursion(F, n, Seq(X), <<>>, step)
  <2> HIDE DEF step, n
  <2> QED BY <1>1, <1>2, <1>3, Recursion
<1>5. PICK F : /\ F \in [0..n -> Seq(X)] /\ F[0] = <<>>
               /\ \A k \in 1..n : F[k] = step[k][F[k - 1]]
  BY <1>4 DEF IsRecursion
<1>6. \A k \in 1..n : F[k] = IF k \in places THEN Append(F[k - 1], s[k]) ELSE F[k - 1]
  <2> TAKE k \in 1..n
  <2>1. k - 1 \in 0..n
    BY <1>1
  <2>2. F[k - 1] \in Seq(X)
    <3> HIDE DEF step, n, Body
    <3> QED BY <1>5, <2>1
  <2>3. F[k] = step[k][F[k - 1]]
    <3> HIDE DEF step, n, Body
    <3> QED BY <1>5
  <2> QED BY <2>2, <2>3
<1>7. F = Body(F)
  <2>1. \A k \in 0..n : F[k] = Body(F)[k]
    <3> TAKE k \in 0..n
    <3>1. k = 0 \/ k \in 1..n
      BY <1>1
    <3> QED BY <1>5, <1>6, <3>1
  <2> QED BY <1>5, <2>1
<1>8. upto = Body(upto)
  <2> HIDE DEF Body
  <2> QED BY <1>7
<1>9. Those(s, places) = upto[n]
  BY DEF Those
<1> HIDE DEF upto
<1>10. \A k \in 0..n : upto[k] = F[k]
  <2> DEFINE Good == {k \in 0..n : upto[k] = F[k]}
  <2>1. 0 \in Good
    BY <1>1, <1>5, <1>8
  <2>2. ASSUME NEW k \in 1..n, k - 1 \in Good PROVE k \in Good
    <3>1. k \in 0..n /\ k # 0
      BY <1>1
    <3>2. upto[k] = IF k \in places THEN Append(upto[k - 1], s[k]) ELSE upto[k - 1]
      BY <1>8, <3>1
    <3> QED BY <3>1, <3>2, <1>6, <2>2
  <2> HIDE DEF Good, n
  <2>3. 0..n \subseteq Good
    BY <1>1, <2>1, <2>2, Upwards
  <2> QED BY <2>3 DEF Good
<1>11. n \in 0..n
  BY <1>1
<1> QED BY <1>5, <1>6, <1>9, <1>10, <1>11 DEF ThoseUpto

\* Only the elements at those places count.
LEMMA ThoseSame ==
  ASSUME NEW X, NEW s \in Seq(X), NEW t \in Seq(X), NEW P, NEW Q, Len(s) = Len(t),
         \A i \in 1..Len(s) : i \in P <=> i \in Q,
         \A i \in 1..Len(s) : i \in P => s[i] = t[i]
  PROVE  Those(s, P) = Those(t, Q)
<1> DEFINE n == Len(s)
<1>1. n \in Nat
  BY LenProperties
<1>2. PICK F \in [0..n -> Seq(X)] : ThoseUpto(s, P, F)
  BY ThoseSteps
<1>3. PICK G \in [0..n -> Seq(X)] : ThoseUpto(t, Q, G)
  BY ThoseSteps
<1> DEFINE Good == {k \in 0..n : F[k] = G[k]}
<1>4. 0 \in Good
  BY <1>1, <1>2, <1>3 DEF ThoseUpto
<1>5. ASSUME NEW k \in 1..n, k - 1 \in Good PROVE k \in Good
  <2>1. k \in 0..n /\ (k \in P <=> k \in Q) /\ (k \in P => s[k] = t[k])
    BY <1>1
  <2>2. F[k] = IF k \in P THEN Append(F[k - 1], s[k]) ELSE F[k - 1]
    BY <1>2 DEF ThoseUpto
  <2>3. G[k] = IF k \in Q THEN Append(G[k - 1], t[k]) ELSE G[k - 1]
    BY <1>3 DEF ThoseUpto
  <2>4. F[k - 1] = G[k - 1]
    BY <1>5
  <2>5. F[k] = G[k]
    BY <2>1, <2>2, <2>3, <2>4
  <2> QED BY <2>1, <2>5
<1> HIDE DEF Good
<1>6. 0..n \subseteq Good
  BY <1>1, <1>4, <1>5, Upwards
<1>7. F[n] = G[n]
  BY <1>1, <1>6 DEF Good
<1> QED BY <1>2, <1>3, <1>7 DEF ThoseUpto

LEMMA ThoseAppend ==
  ASSUME NEW X, NEW s \in Seq(X), NEW e \in X, NEW P
  PROVE  /\ Those(s, P) \in Seq(X)
         /\ Those(Append(s, e), P)
              = IF Len(s) + 1 \in P THEN Append(Those(s, P), e) ELSE Those(s, P)
<1> DEFINE n == Len(s)
           t == Append(s, e)
<1>1. n \in Nat
  BY LenProperties
<1>2. t \in Seq(X) /\ Len(t) = n + 1 /\ (\A i \in 1..n : t[i] = s[i]) /\ t[n + 1] = e
  BY AppendProperties
<1> HIDE DEF t
<1>3. PICK F \in [0..n -> Seq(X)] : ThoseUpto(s, P, F)
  BY ThoseSteps
<1>4. PICK G \in [0..(n + 1) -> Seq(X)] : ThoseUpto(t, P, G)
  BY <1>2, ThoseSteps
<1> DEFINE Good == {k \in 0..n : F[k] = G[k]}
<1>5. 0 \in Good
  BY <1>1, <1>3, <1>4 DEF ThoseUpto
<1>6. ASSUME NEW k \in 1..n, k - 1 \in Good PROVE k \in Good
  <2>1. k \in 0..n /\ k \in 1..(n + 1) /\ t[k] = s[k]
    BY <1>1, <1>2
  <2>2. F[k] = IF k \in P THEN Append(F[k - 1], s[k]) ELSE F[k - 1]
    BY <1>3 DEF ThoseUpto
  <2>3. G[k] = IF k \in P THEN Append(G[k - 1], t[k]) ELSE G[k - 1]
    BY <1>2, <1>4, <2>1 DEF ThoseUpto
  <2>4. F[k - 1] = G[k - 1]
    BY <1>6
  <2>5. F[k] = G[k]
    BY <2>1, <2>2, <2>3, <2>4
  <2> QED BY <2>1, <2>5
<1> HIDE DEF Good
<1>7. 0..n \subseteq Good
  BY <1>1, <1>5, <1>6, Upwards
<1>8. F[n] = G[n]
  BY <1>1, <1>7 DEF Good
<1>9. n + 1 \in 1..(n + 1) /\ n + 1 - 1 = n /\ n \in 0..n
  BY <1>1
<1>10. G[n + 1] = IF n + 1 \in P THEN Append(G[n + 1 - 1], t[n + 1]) ELSE G[n + 1 - 1]
  BY <1>2, <1>4, <1>9 DEF ThoseUpto
<1>11. Those(s, P) = F[n] /\ Those(t, P) = G[n + 1]
  BY <1>2, <1>3, <1>4 DEF ThoseUpto
<1> QED BY <1>2, <1>8, <1>9, <1>10, <1>11 DEF t

LEMMA ThoseEmpty ==
  ASSUME NEW P
  PROVE  Those(<<>>, P) = <<>>
<1>1. <<>> \in Seq({}) /\ Len(<<>>) = 0
  BY EmptySeq
<1>2. PICK F : ThoseUpto(<<>>, P, F)
  BY <1>1, ThoseSteps
<1> QED BY <1>1, <1>2 DEF ThoseUpto

-----------------------------------------------------------------------------
(***************************************************************************)
(* The elements of a sequence that are in a set, and a sequence's image.   *)
(***************************************************************************)
Picked(s, T) == Those(s, {i \in DOMAIN s : s[i] \in T})
Image(s, F) == [i \in DOMAIN s |-> F[s[i]]]

LEMMA ConcatAppend ==
  ASSUME NEW X, NEW a \in Seq(X), NEW b \in Seq(X), NEW e \in X
  PROVE  a \o Append(b, e) = Append(a \o b, e)
<1>1. /\ a \o b \in Seq(X) /\ <<e>> \in Seq(X)
      /\ Append(b, e) = b \o <<e>> /\ Append(a \o b, e) = (a \o b) \o <<e>>
  BY ConcatProperties, AppendIsConcat
<1> QED BY <1>1, ConcatAssociative

LEMMA AppendParts ==
  ASSUME NEW s \in Seq(STRING), NEW e \in STRING
  PROVE  LET t == Append(s, e) IN
           /\ t \in Seq(STRING) /\ t # <<>> /\ Len(t) = Len(s) + 1
           /\ (\A i \in 1..Len(s) : t[i] = s[i]) /\ t[Len(s) + 1] = e
<1>1. Append(s, e) \in Seq(STRING) /\ Append(s, e) # <<>> /\ Len(Append(s, e)) = Len(s) + 1
  BY AppendProperties
<1>2. \A i \in 1..Len(s) : Append(s, e)[i] = s[i]
  BY AppendProperties
<1>3. Append(s, e)[Len(s) + 1] = e
  BY AppendProperties
<1> QED BY <1>1, <1>2, <1>3

LEMMA ConcatParts ==
  ASSUME NEW a \in Seq(STRING), NEW b \in Seq(STRING)
  PROVE  LET c == a \o b IN
           /\ c \in Seq(STRING) /\ Len(c) = Len(a) + Len(b)
           /\ \A i \in 1..(Len(a) + Len(b)) : c[i] = IF i <= Len(a) THEN a[i] ELSE b[i - Len(a)]
BY ConcatProperties

LEMMA ConcatThrice ==
  ASSUME NEW a \in Seq(STRING), NEW b \in Seq(STRING), NEW c \in Seq(STRING)
  PROVE  (a \o b) \o c = a \o (b \o c)
BY ConcatAssociative, SMTT(20)

LEMMA PickedEmpty == \A T : Picked(<<>>, T) = <<>>
BY ThoseEmpty DEF Picked

LEMMA PickedAppend ==
  ASSUME NEW X, NEW s \in Seq(X), NEW e \in X, NEW T
  PROVE  /\ Picked(s, T) \in Seq(X)
         /\ Picked(Append(s, e), T)
              = IF e \in T THEN Append(Picked(s, T), e) ELSE Picked(s, T)
<1> DEFINE t == Append(s, e)
           P == {i \in DOMAIN s : s[i] \in T}
           Q == {i \in DOMAIN t : t[i] \in T}
<1>1. Len(s) \in Nat /\ DOMAIN s = 1..Len(s)
  BY LenProperties
<1>2. /\ t \in Seq(X) /\ Len(t) = Len(s) + 1 /\ DOMAIN t = 1..(Len(s) + 1)
      /\ (\A i \in 1..Len(s) : t[i] = s[i]) /\ t[Len(s) + 1] = e
  BY AppendProperties, LenProperties
<1> HIDE DEF t
<1>3. \A i \in 1..Len(s) : i \in P <=> i \in Q
  BY <1>1, <1>2
<1>4. Len(s) + 1 \in Q <=> e \in T
  BY <1>1, <1>2
<1> HIDE DEF P, Q
<1>5. Those(s, P) = Those(s, Q) /\ Those(s, P) \in Seq(X)
  BY <1>3, ThoseSame, ThoseAppend
<1>6. Those(t, Q) = IF Len(s) + 1 \in Q THEN Append(Those(s, Q), e) ELSE Those(s, Q)
  BY ThoseAppend DEF t
<1>7. Picked(s, T) = Those(s, P) /\ Picked(t, T) = Those(t, Q)
  BY DEF Picked, P, Q
<1> QED BY <1>4, <1>5, <1>6, <1>7 DEF t

LEMMA PickedType ==
  ASSUME NEW X, NEW s \in Seq(X), NEW T
  PROVE  Picked(s, T) \in Seq(X \cap T)
<1> DEFINE Good == {u \in Seq(X) : Picked(u, T) \in Seq(X \cap T)}
<1>1. <<>> \in Good
  BY PickedEmpty, EmptySeq
<1>2. ASSUME NEW u \in Seq(X), NEW e \in X, u \in Good PROVE Append(u, e) \in Good
  <2>1. Append(u, e) \in Seq(X) /\ Picked(u, T) \in Seq(X \cap T)
    BY <1>2, AppendProperties
  <2>2. e \in T => Append(Picked(u, T), e) \in Seq(X \cap T)
    BY <2>1, AppendProperties
  <2>3. Picked(Append(u, e), T) = IF e \in T THEN Append(Picked(u, T), e) ELSE Picked(u, T)
    BY PickedAppend
  <2>4. Picked(Append(u, e), T) \in Seq(X \cap T)
    BY <2>1, <2>2, <2>3, Zenon
  <2> QED BY <2>1, <2>4
<1> HIDE DEF Good
<1>3. Seq(X) \subseteq Good
  BY <1>1, <1>2, Longer
<1> QED BY <1>3 DEF Good

LEMMA PickedInto ==
  ASSUME NEW X, NEW s \in Seq(X)
  PROVE  \A T : Picked(s, T) \in Seq(X)
<1> TAKE T
<1>1. Picked(s, T) \in Seq(X \cap T) /\ X \cap T \subseteq X
  BY PickedType
<1> DEFINE W == X \cap T
<1>2. Picked(s, T) \in Seq(W) /\ W \subseteq X
  BY <1>1
<1> HIDE DEF W
<1> QED BY <1>2, SeqMonotonic

LEMMA PickedStep ==
  ASSUME NEW X, NEW e \in X, NEW T
  PROVE  \A w \in Seq(X) :
           Picked(Append(w, e), T) = IF e \in T THEN Append(Picked(w, T), e) ELSE Picked(w, T)
BY PickedAppend

LEMMA PickedConcat ==
  ASSUME NEW X, NEW a \in Seq(X), NEW b \in Seq(X), NEW T
  PROVE  Picked(a \o b, T) = Picked(a, T) \o Picked(b, T)
<1> DEFINE Good == {u \in Seq(X) : Picked(a \o u, T) = Picked(a, T) \o Picked(u, T)}
<1>1. <<>> \in Good
  <2>1. Picked(a, T) \in Seq(X \cap T)
    BY PickedType
  <2>2. a \o <<>> = a /\ Picked(a, T) \o <<>> = Picked(a, T)
    BY <2>1, ConcatEmptySeq
  <2> QED BY <2>2, PickedEmpty, EmptySeq
<1>2. ASSUME NEW u \in Seq(X), NEW e \in X, u \in Good PROVE Append(u, e) \in Good
  <2>1. Append(u, e) \in Seq(X) /\ a \o u \in Seq(X) /\ a \o Append(u, e) = Append(a \o u, e)
    BY AppendProperties, ConcatProperties, ConcatAppend
  <2>2. Picked(a, T) \in Seq(X) /\ Picked(u, T) \in Seq(X)
    BY PickedAppend
  <2>3. Picked(a, T) \o Append(Picked(u, T), e) = Append(Picked(a, T) \o Picked(u, T), e)
    BY <2>2, ConcatAppend
  <2>4. Picked(Append(a \o u, e), T)
          = IF e \in T THEN Append(Picked(a \o u, T), e) ELSE Picked(a \o u, T)
    <3>1. \A w \in Seq(X) :
            Picked(Append(w, e), T) = IF e \in T THEN Append(Picked(w, T), e) ELSE Picked(w, T)
      BY PickedStep
    <3> QED BY <2>1, <3>1
  <2>5. Picked(Append(u, e), T) = IF e \in T THEN Append(Picked(u, T), e) ELSE Picked(u, T)
    BY PickedAppend, SMTT(20)
  <2>6. Picked(a \o u, T) = Picked(a, T) \o Picked(u, T)
    BY <1>2
  <2>7. Picked(a \o Append(u, e), T) = Picked(a, T) \o Picked(Append(u, e), T)
    BY <2>1, <2>3, <2>4, <2>5, <2>6
  <2> QED BY <2>1, <2>7
<1> HIDE DEF Good
<1>3. Seq(X) \subseteq Good
  BY <1>1, <1>2, Longer
<1> QED BY <1>3 DEF Good

LEMMA PickedAll ==
  ASSUME NEW T, NEW s \in Seq(T)
  PROVE  Picked(s, T) = s
<1> DEFINE Good == {u \in Seq(T) : Picked(u, T) = u}
<1>1. <<>> \in Good
  BY PickedEmpty, EmptySeq
<1>2. ASSUME NEW u \in Seq(T), NEW e \in T, u \in Good PROVE Append(u, e) \in Good
  BY <1>2, PickedAppend, AppendProperties
<1> HIDE DEF Good
<1>3. Seq(T) \subseteq Good
  BY <1>1, <1>2, Longer
<1> QED BY <1>3 DEF Good

LEMMA PickedNone ==
  ASSUME NEW X, NEW s \in Seq(X), NEW T, X \cap T = {}
  PROVE  Picked(s, T) = <<>>
<1> DEFINE Good == {u \in Seq(X) : Picked(u, T) = <<>>}
<1>1. <<>> \in Good
  BY PickedEmpty, EmptySeq
<1>2. ASSUME NEW u \in Seq(X), NEW e \in X, u \in Good PROVE Append(u, e) \in Good
  BY <1>2, PickedAppend, AppendProperties
<1> HIDE DEF Good
<1>3. Seq(X) \subseteq Good
  BY <1>1, <1>2, Longer
<1> QED BY <1>3 DEF Good

LEMMA PickedTwice ==
  ASSUME NEW X, NEW s \in Seq(X), NEW T, NEW U
  PROVE  Picked(Picked(s, T), U) = Picked(s, T \cap U)
<1> DEFINE Good == {u \in Seq(X) : Picked(Picked(u, T), U) = Picked(u, T \cap U)}
<1>1. <<>> \in Good
  BY PickedEmpty, EmptySeq
<1>2. ASSUME NEW u \in Seq(X), NEW e \in X, u \in Good PROVE Append(u, e) \in Good
  <2>1. Append(u, e) \in Seq(X) /\ Picked(u, T) \in Seq(X)
    BY AppendProperties, PickedAppend
  <2>2. Picked(Append(u, e), T) = IF e \in T THEN Append(Picked(u, T), e) ELSE Picked(u, T)
    BY PickedAppend
  <2>3. Picked(Append(Picked(u, T), e), U)
          = IF e \in U THEN Append(Picked(Picked(u, T), U), e) ELSE Picked(Picked(u, T), U)
    BY <2>1, PickedAppend, SMTT(20)
  <2>4. Picked(Append(u, e), T \cap U)
          = IF e \in T \cap U THEN Append(Picked(u, T \cap U), e) ELSE Picked(u, T \cap U)
    <3>1. \A W : Picked(Append(u, e), W)
            = IF e \in W THEN Append(Picked(u, W), e) ELSE Picked(u, W)
      BY PickedAppend
    <3> QED BY <3>1, Zenon
  <2>5. Picked(Picked(u, T), U) = Picked(u, T \cap U)
    BY <1>2
  <2>6. Picked(Picked(Append(u, e), T), U) = Picked(Append(u, e), T \cap U)
    <3>1. e \in T \cap U <=> e \in T /\ e \in U
      OBVIOUS
    <3> QED BY <2>2, <2>3, <2>4, <2>5, <3>1, Zenon
  <2> QED BY <2>1, <2>6
<1> HIDE DEF Good
<1>3. Seq(X) \subseteq Good
  BY <1>1, <1>2, Longer
<1> QED BY <1>3 DEF Good

\* The image of a sequence, element by element.
LEMMA ImageType ==
  ASSUME NEW X, NEW Y, NEW F, NEW s \in Seq(X), \A x \in X : F[x] \in Y
  PROVE  Image(s, F) \in Seq(Y)
<1>1. Len(s) \in Nat /\ DOMAIN s = 1..Len(s) /\ \A i \in 1..Len(s) : s[i] \in X
  BY LenProperties
<1>2. Image(s, F) \in [1..Len(s) -> Y]
  BY <1>1 DEF Image
<1>3. Image(s, F) \in Seq(Y)
  BY <1>1, <1>2, SeqDef
<1> QED BY <1>3

LEMMA ImageElements ==
  ASSUME NEW X, NEW F, NEW s \in Seq(X)
  PROVE  /\ Len(Image(s, F)) = Len(s)
         /\ \A i \in 1..Len(s) : Image(s, F)[i] = F[s[i]]
<1> DEFINE Y == {F[x] : x \in X}
<1>1. \A x \in X : F[x] \in Y
  OBVIOUS
<1> HIDE DEF Y
<1>2. Image(s, F) \in Seq(Y)
  BY <1>1, ImageType, Zenon
<1>3. DOMAIN s = 1..Len(s) /\ Len(s) \in Nat
  BY LenProperties
<1>4. DOMAIN Image(s, F) = DOMAIN s /\ \A i \in DOMAIN s : Image(s, F)[i] = F[s[i]]
  BY DEF Image
<1>5. DOMAIN Image(s, F) = 1..Len(Image(s, F)) /\ Len(Image(s, F)) \in Nat
  BY <1>2, LenProperties
<1> QED BY <1>3, <1>4, <1>5

LEMMA ImageAppend ==
  ASSUME NEW X, NEW F, NEW s \in Seq(X), NEW e \in X
  PROVE  Image(Append(s, e), F) = Append(Image(s, F), F[e])
<1> DEFINE Y == {F[x] : x \in X}
<1>1. Len(s) \in Nat /\ DOMAIN s = 1..Len(s) /\ \A i \in 1..Len(s) : s[i] \in X
  BY LenProperties
<1>2. \A x \in X : F[x] \in Y
  OBVIOUS
<1> HIDE DEF Y
<1>3. /\ Image(s, F) \in Seq(Y) /\ Len(Image(s, F)) = Len(s)
      /\ \A i \in 1..Len(s) : Image(s, F)[i] = F[s[i]]
  <2>1. Image(s, F) \in Seq(Y)
    BY <1>2, ImageType, Zenon
  <2>2. Len(Image(s, F)) = Len(s)
    BY ImageElements
  <2>3. \A i \in 1..Len(s) : Image(s, F)[i] = F[s[i]]
    BY ImageElements
  <2> QED BY <2>1, <2>2, <2>3
<1> DEFINE t == Append(s, e)
<1>5. /\ t \in Seq(X) /\ Len(t) = Len(s) + 1 /\ DOMAIN t = 1..(Len(s) + 1)
      /\ (\A i \in 1..Len(s) : t[i] = s[i]) /\ t[Len(s) + 1] = e
  BY AppendProperties, LenProperties
<1> HIDE DEF t
<1>6. /\ Image(t, F) \in Seq(Y) /\ Len(Image(t, F)) = Len(s) + 1
      /\ \A i \in 1..(Len(s) + 1) : Image(t, F)[i] = F[t[i]]
  <2>1. Image(t, F) \in Seq(Y)
    BY <1>2, <1>5, ImageType, Zenon
  <2>2. Len(Image(t, F)) = Len(t)
    BY <1>5, ImageElements
  <2>3. \A i \in 1..Len(t) : Image(t, F)[i] = F[t[i]]
    BY <1>5, ImageElements
  <2> QED BY <1>5, <2>1, <2>2, <2>3
<1> DEFINE v == Append(Image(s, F), F[e])
<1>10. /\ v \in Seq(Y) /\ Len(v) = Len(s) + 1
       /\ (\A i \in 1..Len(s) : v[i] = F[s[i]]) /\ v[Len(s) + 1] = F[e]
  BY <1>2, <1>3, AppendProperties
<1> HIDE DEF v
<1>11. \A i \in 1..(Len(s) + 1) : Image(t, F)[i] = v[i]
  BY <1>1, <1>5, <1>6, <1>10
<1>12. Image(t, F) = v
  BY <1>6, <1>10, <1>11, SeqEqual
<1> QED BY <1>12 DEF t, v

LEMMA ImageEmpty == \A F : Image(<<>>, F) = <<>>
BY DEF Image

\* Picking from an image is the image of what is picked.
LEMMA PickedImage ==
  ASSUME NEW X, NEW F, NEW s \in Seq(X), NEW U
  PROVE  Picked(Image(s, F), U) = Image(Picked(s, {x \in X : F[x] \in U}), F)
<1> DEFINE T == {x \in X : F[x] \in U}
           Y == {F[x] : x \in X}
<1>0. \A x \in X : F[x] \in Y
  OBVIOUS
<1> HIDE DEF T, Y
<1> DEFINE Good == {u \in Seq(X) : Picked(Image(u, F), U) = Image(Picked(u, T), F)}
<1>1. <<>> \in Good
  BY PickedEmpty, ImageEmpty, EmptySeq
<1>2. ASSUME NEW u \in Seq(X), NEW e \in X, u \in Good PROVE Append(u, e) \in Good
  <2>1. Append(u, e) \in Seq(X) /\ Picked(u, T) \in Seq(X)
    BY AppendProperties, PickedAppend
  <2> DEFINE f == F[e]
  <2>2. \A w \in Seq(X) : /\ Image(w, F) \in Seq(Y)
                          /\ Image(Append(w, e), F) = Append(Image(w, F), f)
    <3> TAKE w \in Seq(X)
    <3>1. Image(w, F) \in Seq(Y)
      BY <1>0, ImageType, Zenon
    <3>2. Image(Append(w, e), F) = Append(Image(w, F), F[e])
      BY ImageAppend
    <3> QED BY <3>1, <3>2
  <2>3. f \in Y
    BY <1>0
  <2> HIDE DEF f
  <2>4. \A w \in Seq(Y) : Picked(Append(w, f), U)
          = IF f \in U THEN Append(Picked(w, U), f) ELSE Picked(w, U)
    <3> TAKE w \in Seq(Y)
    <3> QED BY <2>3, PickedAppend, SMTT(20)
  <2>5. Picked(Append(u, e), T) = IF e \in T THEN Append(Picked(u, T), e) ELSE Picked(u, T)
    BY PickedAppend
  <2>6. Picked(Image(u, F), U) = Image(Picked(u, T), F) /\ (e \in T <=> f \in U)
    BY <1>2 DEF f, T
  <2>7. Picked(Image(Append(u, e), F), U)
          = IF f \in U THEN Append(Picked(Image(u, F), U), f) ELSE Picked(Image(u, F), U)
    BY <2>2, <2>4
  <2>8. Image(Append(Picked(u, T), e), F) = Append(Image(Picked(u, T), F), f)
    BY <2>1, <2>2
  <2>9. Picked(Image(Append(u, e), F), U) = Image(Picked(Append(u, e), T), F)
    BY <2>5, <2>6, <2>7, <2>8
  <2> QED BY <2>1, <2>9
<1> HIDE DEF Good
<1>3. Seq(X) \subseteq Good
  BY <1>1, <1>2, Longer
<1> QED BY <1>3 DEF Good, T

-----------------------------------------------------------------------------
(***************************************************************************)
(* The multimap of headers, or of lines: whatever has a name.              *)
(***************************************************************************)
Named(X) == \A x \in X : x.name \in Names
OfRank(X, ranks) == {x \in X : Rank[x.name] \in ranks}

Sorted(s) ==
  \A i \in 1..Len(s), j \in 1..Len(s) : i <= j => Rank[s[i].name] <= Rank[s[j].name]
Below(a, b) ==
  \A i \in 1..Len(a), j \in 1..Len(b) : Rank[a[i].name] <= Rank[b[j].name]

LEMMA RankType == \A name \in Names : Rank[name] \in Nat
BY HeadersAssumption

LEMMA RankedIsPicked ==
  ASSUME NEW X, NEW s \in Seq(X), NEW ranks
  PROVE  /\ Ranked(s, ranks) = Picked(s, OfRank(X, ranks))
         /\ Ranked(s, ranks) \in Seq(OfRank(X, ranks))
         /\ Ranked(s, ranks) \in Seq(X)
<1>1. DOMAIN s = 1..Len(s) /\ \A i \in 1..Len(s) : s[i] \in X
  BY LenProperties
<1>2. {i \in DOMAIN s : Rank[s[i].name] \in ranks} = {i \in DOMAIN s : s[i] \in OfRank(X, ranks)}
  BY <1>1 DEF OfRank
<1>3. Ranked(s, ranks) = Picked(s, OfRank(X, ranks))
  BY <1>2 DEF Ranked, Picked
<1>4. X \cap OfRank(X, ranks) = OfRank(X, ranks)
  BY DEF OfRank
<1>5. Picked(s, OfRank(X, ranks)) \in Seq(X \cap OfRank(X, ranks))
  BY PickedType
<1>6. Picked(s, OfRank(X, ranks)) \in Seq(X)
  BY PickedInto
<1> QED BY <1>3, <1>4, <1>5, <1>6

LEMMA RankedEmpty == \A ranks : Ranked(<<>>, ranks) = <<>>
BY ThoseEmpty DEF Ranked

LEMMA RankedAppend ==
  ASSUME NEW X, NEW s \in Seq(X), NEW e \in X, NEW ranks
  PROVE  Ranked(Append(s, e), ranks)
           = IF Rank[e.name] \in ranks THEN Append(Ranked(s, ranks), e) ELSE Ranked(s, ranks)
<1>1. Append(s, e) \in Seq(X)
  BY AppendProperties
<1>2. e \in OfRank(X, ranks) <=> Rank[e.name] \in ranks
  BY DEF OfRank
<1> DEFINE T == OfRank(X, ranks)
<1>3. Ranked(Append(s, e), ranks) = Picked(Append(s, e), T) /\ Ranked(s, ranks) = Picked(s, T)
  BY <1>1, RankedIsPicked
<1> HIDE DEF T
<1>4. Picked(Append(s, e), T) = IF e \in T THEN Append(Picked(s, T), e) ELSE Picked(s, T)
  BY PickedAppend
<1> QED BY <1>2, <1>3, <1>4 DEF T

LEMMA RankedConcat ==
  ASSUME NEW X, NEW a \in Seq(X), NEW b \in Seq(X), NEW ranks
  PROVE  Ranked(a \o b, ranks) = Ranked(a, ranks) \o Ranked(b, ranks)
<1> DEFINE T == OfRank(X, ranks)
<1>1. a \o b \in Seq(X)
  BY ConcatProperties
<1>2. \A s \in Seq(X) : Ranked(s, ranks) = Picked(s, T)
  BY RankedIsPicked
<1> HIDE DEF T
<1>3. Picked(a \o b, T) = Picked(a, T) \o Picked(b, T)
  BY PickedConcat
<1> QED BY <1>1, <1>2, <1>3

\* Of what has some ranks, that which has others.
LEMMA RankedTwice ==
  ASSUME NEW X, NEW s \in Seq(X), NEW Q, NEW R
  PROVE  /\ R \subseteq Q => Ranked(Ranked(s, Q), R) = Ranked(s, R)
         /\ R \cap Q = {} => Ranked(Ranked(s, Q), R) = <<>>
<1> DEFINE T == OfRank(X, Q)
           U == OfRank(X, R)
<1>1. Ranked(s, Q) = Picked(s, T) /\ Ranked(s, Q) \in Seq(X) /\ Ranked(s, R) = Picked(s, U)
  BY RankedIsPicked
<1>2. Ranked(Ranked(s, Q), R) = Picked(Ranked(s, Q), U)
  BY <1>1, RankedIsPicked
<1>3. (R \subseteq Q => T \cap U = U) /\ (R \cap Q = {} => T \cap U = {})
  BY DEF OfRank
<1> HIDE DEF T, U
<1>4. Picked(Picked(s, T), U) = Picked(s, T \cap U)
  BY PickedTwice
<1>5. Picked(s, {}) = <<>>
  BY PickedNone
<1> QED BY <1>1, <1>2, <1>3, <1>4, <1>5

\* What has one rank is not touched by looking for it, nor found by looking for
\* another.
LEMMA RankedOne ==
  ASSUME NEW X, NEW s \in Seq(X), NEW R
  PROVE  /\ (\A i \in 1..Len(s) : Rank[s[i].name] \in R) => Ranked(s, R) = s
         /\ (\A i \in 1..Len(s) : Rank[s[i].name] \notin R) => Ranked(s, R) = <<>>
<1> DEFINE Y == Range(s)
<1>1. Y = {s[i] : i \in 1..Len(s)}
  BY RangeEquality
<1> HIDE DEF Y
<1>3. s \in Seq(Y)
  BY SeqOfRange DEF Y
<1>4. Ranked(s, R) = Picked(s, OfRank(Y, R))
  BY <1>3, RankedIsPicked
<1>5. ASSUME \A i \in 1..Len(s) : Rank[s[i].name] \in R PROVE Ranked(s, R) = s
  <2>1. OfRank(Y, R) = Y
    BY <1>1, <1>5 DEF OfRank
  <2> QED BY <1>3, <1>4, <2>1, PickedAll
<1>6. ASSUME \A i \in 1..Len(s) : Rank[s[i].name] \notin R PROVE Ranked(s, R) = <<>>
  <2>1. Y \cap OfRank(Y, R) = {}
    BY <1>1, <1>6 DEF OfRank
  <2> QED BY <1>3, <1>4, <2>1, PickedNone
<1> QED BY <1>5, <1>6

LEMMA Parts ==
  ASSUME NEW X, Named(X), NEW s \in Seq(X), NEW name \in Names
  PROVE  /\ Before(s, name) \in Seq(X) /\ Equal(s, name) \in Seq(X) /\ After(s, name) \in Seq(X)
         /\ \A i \in 1..Len(Before(s, name)) : Rank[Before(s, name)[i].name] < Rank[name]
         /\ \A i \in 1..Len(Equal(s, name)) : Rank[Equal(s, name)[i].name] = Rank[name]
         /\ \A i \in 1..Len(After(s, name)) : Rank[After(s, name)[i].name] > Rank[name]
<1>1. \A R : /\ Ranked(s, R) \in Seq(X) /\ Ranked(s, R) \in Seq(OfRank(X, R))
  BY RankedIsPicked
<1>2. \A R : \A i \in 1..Len(Ranked(s, R)) : Rank[Ranked(s, R)[i].name] \in R
  <2> TAKE R
  <2> DEFINE t == Ranked(s, R)
  <2>1. t \in Seq(OfRank(X, R))
    BY <1>1
  <2> HIDE DEF t
  <2>2. \A i \in 1..Len(t) : t[i] \in OfRank(X, R)
    BY <2>1, LenProperties
  <2> QED BY <2>2 DEF OfRank, t
<1> QED BY <1>1, <1>2 DEF Before, Equal, After

LEMMA PartsEqual ==
  ASSUME NEW X, Named(X), NEW s \in Seq(X), NEW name \in Names, NEW m \in Names
  PROVE  /\ Equal(Before(s, name), m) = IF Rank[m] < Rank[name] THEN Equal(s, m) ELSE <<>>
         /\ Equal(Equal(s, name), m) = IF Rank[m] = Rank[name] THEN Equal(s, m) ELSE <<>>
         /\ Equal(After(s, name), m) = IF Rank[m] > Rank[name] THEN Equal(s, m) ELSE <<>>
<1>1. Rank[m] \in Range(Rank) /\ Rank[name] \in Range(Rank) /\ Range(Rank) \subseteq Nat
  <2>1. m \in DOMAIN Rank /\ name \in DOMAIN Rank /\ \A x \in DOMAIN Rank : Rank[x] \in Nat
    BY RankType DEF Names
  <2> QED BY <2>1 DEF Range
<1>2. \A Q : IF Rank[m] \in Q THEN Ranked(Ranked(s, Q), {Rank[m]}) = Ranked(s, {Rank[m]})
                            ELSE Ranked(Ranked(s, Q), {Rank[m]}) = <<>>
  <2> TAKE Q
  <2>1. /\ Rank[m] \in Q => {Rank[m]} \subseteq Q
        /\ Rank[m] \notin Q => {Rank[m]} \cap Q = {}
    OBVIOUS
  <2> DEFINE R == {Rank[m]}
  <2>2. /\ R \subseteq Q => Ranked(Ranked(s, Q), R) = Ranked(s, R)
        /\ R \cap Q = {} => Ranked(Ranked(s, Q), R) = <<>>
    <3> HIDE DEF R
    <3> QED BY RankedTwice
  <2> QED BY <2>1, <2>2
<1>3. Equal(Before(s, name), m) = IF Rank[m] < Rank[name] THEN Equal(s, m) ELSE <<>>
  <2> DEFINE Q == {r \in Range(Rank) : r < Rank[name]}
  <2>1. Rank[m] \in Q <=> Rank[m] < Rank[name]
    BY <1>1
  <2> HIDE DEF Q
  <2>2. Equal(Before(s, name), m) = Ranked(Ranked(s, Q), {Rank[m]}) /\ Equal(s, m) = Ranked(s, {Rank[m]})
    BY DEF Equal, Before, Q
  <2> QED BY <1>2, <2>1, <2>2
<1>4. Equal(After(s, name), m) = IF Rank[m] > Rank[name] THEN Equal(s, m) ELSE <<>>
  <2> DEFINE Q == {r \in Range(Rank) : r > Rank[name]}
  <2>1. Rank[m] \in Q <=> Rank[m] > Rank[name]
    BY <1>1
  <2> HIDE DEF Q
  <2>2. Equal(After(s, name), m) = Ranked(Ranked(s, Q), {Rank[m]}) /\ Equal(s, m) = Ranked(s, {Rank[m]})
    BY DEF Equal, After, Q
  <2> QED BY <1>2, <2>1, <2>2
<1>5. Equal(Equal(s, name), m) = IF Rank[m] = Rank[name] THEN Equal(s, m) ELSE <<>>
  <2> DEFINE Q == {Rank[name]}
  <2>1. Rank[m] \in Q <=> Rank[m] = Rank[name]
    OBVIOUS
  <2> HIDE DEF Q
  <2>2. Equal(Equal(s, name), m) = Ranked(Ranked(s, Q), {Rank[m]}) /\ Equal(s, m) = Ranked(s, {Rank[m]})
    BY DEF Equal, Q
  <2> QED BY <1>2, <2>1, <2>2
<1> QED BY <1>3, <1>4, <1>5

LEMMA OneEqual ==
  ASSUME NEW X, NEW h \in X, NEW m
  PROVE  Equal(<<h>>, m) = IF Rank[h.name] = Rank[m] THEN <<h>> ELSE <<>>
<1>1. <<>> \in Seq(X) /\ Append(<<>>, h) = <<h>>
  BY EmptySeq
<1> DEFINE R == {Rank[m]}
           e == <<>>
<1>2. e \in Seq(X)
  BY <1>1
<1>3. Ranked(e, R) = e /\ Append(e, h) = <<h>>
  BY <1>1, RankedEmpty
<1> HIDE DEF R, e
<1>4. Ranked(Append(e, h), R) = IF Rank[h.name] \in R THEN Append(Ranked(e, R), h) ELSE Ranked(e, R)
  BY <1>2, RankedAppend
<1>5. Ranked(<<h>>, R) = IF Rank[h.name] \in R THEN <<h>> ELSE e
  BY <1>3, <1>4
<1> QED BY <1>5 DEF Equal, R, e

LEMMA SortedConcat ==
  ASSUME NEW X, Named(X), NEW a \in Seq(X), NEW b \in Seq(X), Sorted(a), Sorted(b), Below(a, b)
  PROVE  Sorted(a \o b)
<1> DEFINE d == a \o b
<1>1. /\ Len(d) = Len(a) + Len(b)
      /\ \A i \in 1..(Len(a) + Len(b)) : d[i] = IF i <= Len(a) THEN a[i] ELSE b[i - Len(a)]
  BY ConcatProperties
<1>2. Len(a) \in Nat /\ Len(b) \in Nat
  BY LenProperties
<1> HIDE DEF d
<1>3. ASSUME NEW i \in 1..Len(d), NEW j \in 1..Len(d), i <= j
      PROVE  Rank[d[i].name] <= Rank[d[j].name]
  <2>1. CASE j <= Len(a)
    <3>1. i \in 1..Len(a) /\ j \in 1..Len(a) /\ d[i] = a[i] /\ d[j] = a[j]
      BY <1>1, <1>2, <1>3, <2>1
    <3> QED BY <1>3, <3>1 DEF Sorted
  <2>2. CASE i > Len(a)
    <3>1. /\ i - Len(a) \in 1..Len(b) /\ j - Len(a) \in 1..Len(b) /\ i - Len(a) <= j - Len(a)
          /\ d[i] = b[i - Len(a)] /\ d[j] = b[j - Len(a)]
      BY <1>1, <1>2, <1>3, <2>2
    <3> QED BY <3>1 DEF Sorted
  <2>3. CASE i <= Len(a) /\ j > Len(a)
    <3>1. i \in 1..Len(a) /\ j - Len(a) \in 1..Len(b) /\ d[i] = a[i] /\ d[j] = b[j - Len(a)]
      BY <1>1, <1>2, <1>3, <2>3
    <3> QED BY <3>1 DEF Below
  <2> QED BY <1>1, <1>2, <2>1, <2>2, <2>3
<1> QED BY <1>3 DEF Sorted, d

LEMMA BelowConcat ==
  ASSUME NEW X, NEW a \in Seq(X), NEW b \in Seq(X), NEW c, Below(a, c), Below(b, c)
  PROVE  Below(a \o b, c)
<1> DEFINE d == a \o b
<1>1. /\ Len(d) = Len(a) + Len(b)
      /\ \A i \in 1..(Len(a) + Len(b)) : d[i] = IF i <= Len(a) THEN a[i] ELSE b[i - Len(a)]
  BY ConcatProperties
<1>2. Len(a) \in Nat /\ Len(b) \in Nat
  BY LenProperties
<1> HIDE DEF d
<1>3. ASSUME NEW i \in 1..Len(d), NEW j \in 1..Len(c)
      PROVE  Rank[d[i].name] <= Rank[c[j].name]
  <2>1. CASE i <= Len(a)
    <3>1. i \in 1..Len(a) /\ d[i] = a[i]
      BY <1>1, <1>2, <1>3, <2>1
    <3> QED BY <3>1 DEF Below
  <2>2. CASE i > Len(a)
    <3>1. i - Len(a) \in 1..Len(b) /\ d[i] = b[i - Len(a)]
      BY <1>1, <1>2, <1>3, <2>2
    <3> QED BY <3>1 DEF Below
  <2> QED BY <1>1, <1>2, <2>1, <2>2
<1> QED BY <1>3 DEF Below, d

LEMMA EqualConcat ==
  ASSUME NEW X, NEW a \in Seq(X), NEW b \in Seq(X)
  PROVE  \A m : Equal(a \o b, m) = Equal(a, m) \o Equal(b, m)
<1> TAKE m
<1> DEFINE R == {Rank[m]}
<1> HIDE DEF R
<1>1. Ranked(a \o b, R) = Ranked(a, R) \o Ranked(b, R)
  BY RankedConcat
<1> QED BY <1>1 DEF Equal, R

LEMMA ConcatThree ==
  ASSUME NEW X, Named(X), NEW a \in Seq(X), NEW b \in Seq(X), NEW c \in Seq(X)
  PROVE  /\ a \o b \o c \in Seq(X)
         /\ \A m : Equal(a \o b \o c, m) = Equal(a, m) \o Equal(b, m) \o Equal(c, m)
         /\ Sorted(a) /\ Sorted(b) /\ Sorted(c) /\ Below(a, b) /\ Below(b, c) /\ Below(a, c)
              => Sorted(a \o b \o c)
<1> DEFINE d == a \o b
<1>1. d \in Seq(X)
  BY ConcatProperties
<1>2. \A m : Equal(d, m) = Equal(a, m) \o Equal(b, m)
  BY EqualConcat
<1>3. Sorted(a) /\ Sorted(b) /\ Below(a, b) => Sorted(d)
  BY SortedConcat
<1>4. Below(b, c) /\ Below(a, c) => Below(d, c)
  BY BelowConcat
<1> HIDE DEF d
<1>5. d \o c \in Seq(X)
  BY <1>1, ConcatProperties
<1>6. \A m : Equal(d \o c, m) = Equal(d, m) \o Equal(c, m)
  BY <1>1, EqualConcat, SMTT(20)
<1>7. Sorted(d) /\ Sorted(c) /\ Below(d, c) => Sorted(d \o c)
  BY <1>1, SortedConcat
<1> QED BY <1>2, <1>3, <1>4, <1>5, <1>6, <1>7 DEF d

LEMMA SortedRanked ==
  ASSUME NEW X, NEW s \in Seq(X), NEW R, Sorted(s)
  PROVE  Sorted(Ranked(s, R))
<1> DEFINE From(t, u) == \A i \in 1..Len(t) : \E j \in 1..Len(u) : t[i] = u[j]
           Good == {u \in Seq(X) : Sorted(u) => /\ Sorted(Ranked(u, R))
                                                /\ From(Ranked(u, R), u)}
<1>1. <<>> \in Good
  <2>1. Ranked(<<>>, R) = <<>> /\ Len(<<>>) = 0 /\ <<>> \in Seq(X)
    BY RankedEmpty, EmptySeq
  <2> QED BY <2>1 DEF Sorted
<1>2. ASSUME NEW u \in Seq(X), NEW e \in X, u \in Good PROVE Append(u, e) \in Good
  <2> DEFINE v == Append(u, e)
             t == Ranked(u, R)
             w == Ranked(v, R)
  <2>1. /\ v \in Seq(X) /\ Len(v) = Len(u) + 1 /\ Len(u) \in Nat
        /\ (\A i \in 1..Len(u) : v[i] = u[i]) /\ v[Len(u) + 1] = e
    BY AppendProperties, LenProperties
  <2>2. w = IF Rank[e.name] \in R THEN Append(t, e) ELSE t
    BY RankedAppend
  <2>3. t \in Seq(X)
    BY RankedIsPicked
  <2>4. /\ Len(Append(t, e)) = Len(t) + 1 /\ Len(t) \in Nat
        /\ (\A i \in 1..Len(t) : Append(t, e)[i] = t[i]) /\ Append(t, e)[Len(t) + 1] = e
    BY <2>3, AppendProperties, LenProperties
  <2>5. Sorted(u) => Sorted(t) /\ From(t, u)
    BY <1>2
  <2> HIDE DEF v, t, w
  <2>6. ASSUME Sorted(v) PROVE Sorted(w) /\ From(w, v)
    <3>1. Sorted(u)
      BY <2>1, <2>6 DEF Sorted
    <3>2. Sorted(t) /\ From(t, u)
      BY <2>5, <3>1
    <3>3. From(t, v)
      BY <2>1, <3>2
    <3>4. CASE w = t
      BY <3>2, <3>3, <3>4
    <3>5. CASE w = Append(t, e)
      <4>1. \A i \in 1..Len(t) : Rank[t[i].name] <= Rank[e.name]
        <5> TAKE i \in 1..Len(t)
        <5>1. PICK j \in 1..Len(u) : t[i] = u[j]
          BY <3>2
        <5>2. j \in 1..Len(v) /\ Len(u) + 1 \in 1..Len(v) /\ j <= Len(u) + 1 /\ v[j] = u[j]
          BY <2>1, <5>1
        <5>3. Rank[v[j].name] <= Rank[v[Len(u) + 1].name]
          BY <2>6, <5>2 DEF Sorted
        <5> QED BY <2>1, <5>1, <5>2, <5>3
      <4>2. Rank[e.name] <= Rank[e.name]
        <5>1. Len(u) + 1 \in 1..Len(v) /\ Len(u) + 1 <= Len(u) + 1
          BY <2>1
        <5> QED BY <2>1, <2>6, <5>1 DEF Sorted
      <4>3. Sorted(w)
        BY <2>4, <3>2, <3>5, <4>1, <4>2 DEF Sorted
      <4>4. From(w, v)
        <5> SUFFICES ASSUME NEW i \in 1..Len(w) PROVE \E j \in 1..Len(v) : w[i] = v[j]
          OBVIOUS
        <5>1. i \in 1..Len(t) \/ i = Len(t) + 1
          BY <2>4, <3>5
        <5>2. CASE i \in 1..Len(t)
          <6>1. PICK j \in 1..Len(v) : t[i] = v[j]
            BY <3>3, <5>2
          <6> QED BY <2>4, <3>5, <5>2, <6>1
        <5>3. CASE i = Len(t) + 1
          <6>1. Len(u) + 1 \in 1..Len(v) /\ v[Len(u) + 1] = e /\ w[i] = e
            BY <2>1, <2>4, <3>5, <5>3
          <6> QED BY <6>1
        <5> QED BY <5>1, <5>2, <5>3
      <4> QED BY <4>3, <4>4
    <3> QED BY <2>2, <3>4, <3>5
  <2> QED BY <2>1, <2>6 DEF v, w
<1> HIDE DEF Good
<1>3. Seq(X) \subseteq Good
  BY <1>1, <1>2, Longer
<1>4. s \in Good
  BY <1>3
<1> QED BY <1>4 DEF Good

LEMMA SortedOne ==
  ASSUME NEW X, NEW s \in Seq(X), NEW r \in Nat, \A i \in 1..Len(s) : Rank[s[i].name] = r
  PROVE  Sorted(s)
BY DEF Sorted

\* Before, at and after a name, in order.
LEMMA PartsSorted ==
  ASSUME NEW X, Named(X), NEW s \in Seq(X), NEW name \in Names,
         NEW these \in Seq(X), \A i \in 1..Len(these) : Rank[these[i].name] = Rank[name]
  PROVE  /\ Sorted(s) => Sorted(Before(s, name)) /\ Sorted(After(s, name)) /\ Sorted(these)
         /\ Below(Before(s, name), these) /\ Below(these, After(s, name))
         /\ Below(Before(s, name), After(s, name))
<1>1. Sorted(s) => Sorted(Before(s, name)) /\ Sorted(After(s, name))
  BY SortedRanked DEF Before, After
<1>2. Rank[name] \in Nat
  BY RankType
<1>3. Sorted(these)
  BY <1>2, SortedOne
<1> DEFINE a == Before(s, name)
           c == After(s, name)
<1>4. /\ \A i \in 1..Len(a) : a[i].name \in Names /\ Rank[a[i].name] < Rank[name]
      /\ \A i \in 1..Len(c) : c[i].name \in Names /\ Rank[c[i].name] > Rank[name]
  <2>1. /\ a \in Seq(X) /\ \A i \in 1..Len(a) : Rank[a[i].name] < Rank[name]
        /\ c \in Seq(X) /\ \A i \in 1..Len(c) : Rank[c[i].name] > Rank[name]
    BY Parts
  <2> HIDE DEF a, c
  <2>2. (\A i \in 1..Len(a) : a[i] \in X) /\ (\A i \in 1..Len(c) : c[i] \in X)
    BY <2>1, LenProperties
  <2> QED BY <2>1, <2>2 DEF Named
<1> HIDE DEF a, c
<1>5. Below(a, these)
  <2>1. \A i \in 1..Len(a) : Rank[a[i].name] \in Nat /\ Rank[a[i].name] <= Rank[name]
    BY <1>2, <1>4, RankType
  <2> QED BY <2>1 DEF Below
<1>6. Below(these, c)
  <2>1. \A j \in 1..Len(c) : Rank[c[j].name] \in Nat /\ Rank[name] <= Rank[c[j].name]
    BY <1>2, <1>4, RankType
  <2> QED BY <2>1 DEF Below
<1>7. Below(a, c)
  <2>1. ASSUME NEW i \in 1..Len(a), NEW j \in 1..Len(c)
        PROVE  Rank[a[i].name] <= Rank[c[j].name]
    <3>1. /\ Rank[a[i].name] \in Nat /\ Rank[a[i].name] < Rank[name]
          /\ Rank[c[j].name] \in Nat /\ Rank[c[j].name] > Rank[name]
      BY <1>4, RankType
    <3> QED BY <1>2, <3>1, SMTT(20)
  <2> QED BY <2>1 DEF Below
<1> QED BY <1>1, <1>3, <1>5, <1>6, <1>7 DEF a, c

\* What Set and SetSubvalue do: a part is put in the place of a name's headers.
LEMMA Replaced ==
  ASSUME NEW X, Named(X), NEW s \in Seq(X), NEW name \in Names,
         NEW these \in Seq(X), \A i \in 1..Len(these) : Rank[these[i].name] = Rank[name]
  PROVE  LET t == Before(s, name) \o these \o After(s, name) IN
           /\ t \in Seq(X)
           /\ Sorted(s) => Sorted(t)
           /\ \A m \in Names : Equal(t, m) = IF Rank[m] = Rank[name] THEN these ELSE Equal(s, m)
<1> DEFINE a == Before(s, name)
           c == After(s, name)
           t == a \o these \o c
<1>1. a \in Seq(X) /\ c \in Seq(X)
  BY Parts
<1>2. /\ Sorted(s) => Sorted(a) /\ Sorted(c) /\ Sorted(these)
      /\ Below(a, these) /\ Below(these, c) /\ Below(a, c)
  BY PartsSorted
<1>3. ASSUME NEW m \in Names
      PROVE  /\ Equal(a, m) = IF Rank[m] < Rank[name] THEN Equal(s, m) ELSE <<>>
             /\ Equal(c, m) = IF Rank[m] > Rank[name] THEN Equal(s, m) ELSE <<>>
  BY PartsEqual
<1>4. ASSUME NEW m \in Names
      PROVE  Equal(these, m) = IF Rank[m] = Rank[name] THEN these ELSE <<>>
  <2>1. CASE Rank[m] = Rank[name]
    <3>1. \A i \in 1..Len(these) : Rank[these[i].name] \in {Rank[m]}
      BY <2>1
    <3> QED BY <2>1, <3>1, RankedOne DEF Equal
  <2>2. CASE Rank[m] # Rank[name]
    <3>1. \A i \in 1..Len(these) : Rank[these[i].name] \notin {Rank[m]}
      BY <2>2
    <3> QED BY <2>2, <3>1, RankedOne DEF Equal
  <2> QED BY <2>1, <2>2
<1> HIDE DEF a, c
<1>5. /\ t \in Seq(X)
      /\ \A m : Equal(t, m) = Equal(a, m) \o Equal(these, m) \o Equal(c, m)
      /\ Sorted(a) /\ Sorted(these) /\ Sorted(c) /\ Below(a, these) /\ Below(these, c) /\ Below(a, c)
           => Sorted(t)
  BY <1>1, ConcatThree
<1> HIDE DEF t
<1>6. ASSUME NEW m \in Names
      PROVE  Equal(t, m) = IF Rank[m] = Rank[name] THEN these ELSE Equal(s, m)
  <2>1. Rank[m] \in Nat /\ Rank[name] \in Nat
    BY RankType
  <2> DEFINE e == Equal(s, m)
  <2>2. e \in Seq(X)
    BY Parts
  <2>3. /\ Equal(a, m) = IF Rank[m] < Rank[name] THEN e ELSE <<>>
        /\ Equal(c, m) = IF Rank[m] > Rank[name] THEN e ELSE <<>>
        /\ Equal(these, m) = IF Rank[m] = Rank[name] THEN these ELSE <<>>
        /\ Equal(t, m) = Equal(a, m) \o Equal(these, m) \o Equal(c, m)
    BY <1>3, <1>4, <1>5
  <2> HIDE DEF e
  <2>4. /\ e \o <<>> = e /\ <<>> \o e = e /\ <<>> \o <<>> = <<>>
        /\ <<>> \o these = these /\ these \o <<>> = these
    BY <2>2, ConcatEmptySeq, EmptySeq
  <2>5. CASE Rank[m] < Rank[name]
    <3>1. Equal(a, m) = e /\ Equal(c, m) = <<>> /\ Equal(these, m) = <<>>
      BY <2>1, <2>3, <2>5
    <3>2. Equal(t, m) = e
      BY <2>3, <2>4, <3>1, Zenon
    <3> QED BY <2>1, <2>5, <3>2 DEF e
  <2>6. CASE Rank[m] > Rank[name]
    <3>1. Equal(a, m) = <<>> /\ Equal(c, m) = e /\ Equal(these, m) = <<>>
      BY <2>1, <2>3, <2>6
    <3>2. Equal(t, m) = e
      BY <2>3, <2>4, <3>1, Zenon
    <3> QED BY <2>1, <2>6, <3>2 DEF e
  <2>7. CASE Rank[m] = Rank[name]
    BY <2>1, <2>3, <2>4, <2>7
  <2> QED BY <2>1, <2>5, <2>6, <2>7
<1> QED BY <1>2, <1>5, <1>6 DEF a, c, t

LEMMA SetHeaders ==
  ASSUME NEW X, Named(X), NEW s \in Seq(X), NEW name \in Names, NEW content,
         Header(name, content) \in X
  PROVE  /\ Set(s, name, content) \in Seq(X)
         /\ Sorted(s) => Sorted(Set(s, name, content))
         /\ \A m \in Names : Equal(Set(s, name, content), m)
              = IF Rank[m] = Rank[name] THEN <<Header(name, content)>> ELSE Equal(s, m)
<1> DEFINE h == Header(name, content)
           these == <<h>>
<1>1. h.name = name
  BY DEF Header
<1> HIDE DEF h
<1>2. these \in Seq(X) /\ Len(these) = 1 /\ these[1] = h
  BY DEF h
<1>3. \A i \in 1..Len(these) : Rank[these[i].name] = Rank[name]
  BY <1>1, <1>2
<1> HIDE DEF these
<1> DEFINE t == Before(s, name) \o these \o After(s, name)
<1>4. /\ t \in Seq(X)
      /\ Sorted(s) => Sorted(t)
      /\ \A m \in Names : Equal(t, m) = IF Rank[m] = Rank[name] THEN these ELSE Equal(s, m)
  BY <1>2, <1>3, Replaced
<1>5. t = Set(s, name, content)
  BY DEF Set, h, these
<1> HIDE DEF t
<1> QED BY <1>4, <1>5 DEF these, h

LEMMA AddHeaders ==
  ASSUME NEW X, Named(X), NEW s \in Seq(X), NEW name \in Names, NEW content,
         Header(name, content) \in X
  PROVE  /\ Add(s, name, content) \in Seq(X)
         /\ Sorted(s) => Sorted(Add(s, name, content))
         /\ \A m \in Names : Equal(Add(s, name, content), m)
              = IF Rank[m] = Rank[name] THEN Append(Equal(s, m), Header(name, content))
                                        ELSE Equal(s, m)
<1> DEFINE h == Header(name, content)
           old == Equal(s, name)
           these == old \o <<h>>
<1>1. h.name = name
  BY DEF Header
<1>2. old \in Seq(X) /\ \A i \in 1..Len(old) : Rank[old[i].name] = Rank[name]
  BY Parts
<1> HIDE DEF h, old
<1>3. these \in Seq(X) /\ these = Append(old, h)
  BY <1>2, ConcatProperties, AppendIsConcat DEF h
<1>4. /\ Len(these) = Len(old) + 1 /\ Len(old) \in Nat
      /\ (\A i \in 1..Len(old) : these[i] = old[i]) /\ these[Len(old) + 1] = h
  BY <1>2, <1>3, AppendProperties, LenProperties DEF h
<1>5. \A i \in 1..Len(these) : Rank[these[i].name] = Rank[name]
  BY <1>1, <1>2, <1>4
<1> DEFINE t == Before(s, name) \o these \o After(s, name)
<1>6. /\ t \in Seq(X)
      /\ Sorted(s) => Sorted(t)
      /\ \A m \in Names : Equal(t, m) = IF Rank[m] = Rank[name] THEN these ELSE Equal(s, m)
  <2>1. these \in Seq(X)
    BY <1>3
  <2> HIDE DEF these
  <2> QED BY <2>1, <1>5, Replaced
<1>7. t = Add(s, name, content)
  <2>1. Before(s, name) \in Seq(X) /\ <<h>> \in Seq(X)
    BY Parts DEF h
  <2> DEFINE b == Before(s, name)
             w == <<h>>
  <2>2. b \o (old \o w) = (b \o old) \o w
    <3> HIDE DEF b, w
    <3> QED BY <1>2, <2>1, ConcatAssociative DEF b, w
  <2> QED BY <2>2 DEF Add, h, old
<1> HIDE DEF t, these
<1>8. ASSUME NEW m \in Names, Rank[m] = Rank[name] PROVE Equal(s, m) = old
  BY <1>8 DEF Equal, old
<1> QED BY <1>3, <1>6, <1>7, <1>8 DEF h

-----------------------------------------------------------------------------
(***************************************************************************)
(* The headers of a request.  No value of theirs is an intermediary's, and *)
(* a digest is of a signature that has been made.                          *)
(***************************************************************************)

\* What a word may say.  (The provers do not know a literal to be a string.)
Literals == {"8bit", "FOST", "X-FOST-Headers", "agent", "date", "length", "peer", "time",
             "trailers", "type", "utf-8", "via"}
Texts == STRING \cup Literals \cup Names

Word == [text : Texts, name : STRING, n : Nat]
PlainWord == [text : Texts, name : {Unnamed}, n : Nat]
Contents == [value : Seq(PlainWord),
             subvalues : UNION {[S -> Texts] : S \in SUBSET ToSet(SubNames)}]
HeaderSet == [name : Names, content : Contents]

Clean(top) ==
  {h \in HeaderSet :
     /\ h.content.value # Via
     /\ Rank[h.name] = Rank["Authorization"] =>
          \A i \in 1..Len(h.content.value) : h.content.value[i].n <= top}

LEMMA CleanNamed == \A top : Named(Clean(top))
BY DEF Named, Clean, HeaderSet

LEMMA ContentParts ==
  \A c \in Contents :
    /\ c.value \in Seq(PlainWord) /\ c = Content(c.value, c.subvalues)
    /\ DOMAIN c.subvalues \subseteq ToSet(SubNames)
    /\ c.subvalues \in [DOMAIN c.subvalues -> Texts]
BY DEF Contents, Content

LEMMA ContentType ==
  ASSUME NEW value \in Seq(PlainWord), NEW S \in SUBSET ToSet(SubNames), NEW f \in [S -> Texts]
  PROVE  Content(value, f) \in Contents
BY DEF Contents, Content

LEMMA SimpleType ==
  ASSUME NEW value \in Seq(PlainWord)
  PROVE  Simple(value) \in Contents /\ Simple(value).value = value
                                    /\ DOMAIN Simple(value).subvalues = {}
<1>1. <<>> \in [{} -> Texts] /\ {} \in SUBSET ToSet(SubNames) /\ DOMAIN <<>> = {}
  OBVIOUS
<1>2. Content(value, <<>>) \in Contents
  BY <1>1, ContentType
<1> QED BY <1>1, <1>2 DEF Simple, Content

LEMMA WrittenContents == \A content : IsContent(content) => content \in Contents
<1> TAKE content
<1> HAVE IsContent(content)
<1>1. /\ content = Content(content.value, content.subvalues)
      /\ content.value \in Seq(PlainWord)
      /\ DOMAIN content.subvalues \in SUBSET ToSet(SubNames)
      /\ content.subvalues \in [DOMAIN content.subvalues -> Texts]
  <2>1. /\ content = Content(content.value, content.subvalues)
        /\ content.value \in Seq([text : STRING, name : {Unnamed}, n : Nat])
        /\ DOMAIN content.subvalues \in SUBSET ToSet(SubNames)
        /\ content.subvalues \in [DOMAIN content.subvalues -> STRING]
    BY DEF IsContent
  <2>2. STRING \subseteq Texts
    BY DEF Texts
  <2>3. [text : STRING, name : {Unnamed}, n : Nat] \subseteq PlainWord
    <3> SUFFICES ASSUME NEW w \in [text : STRING, name : {Unnamed}, n : Nat]
                 PROVE  w \in PlainWord
      OBVIOUS
    <3> QED BY <2>2 DEF PlainWord
  <2>4. content.value \in Seq(PlainWord)
    BY <2>1, <2>3, SeqMonotonic
  <2> QED BY <2>1, <2>2, <2>4
<1>2. Content(content.value, content.subvalues) \in Contents
  BY <1>1, ContentType
<1> QED BY <1>1, <1>2

LEMMA SubvalueType ==
  ASSUME NEW c \in Contents, NEW sub \in ToSet(SubNames), NEW text \in Texts
  PROVE  /\ Subvalue(c, sub, text) \in Contents
         /\ Subvalue(c, sub, text).value = c.value
         /\ DOMAIN Subvalue(c, sub, text).subvalues = DOMAIN c.subvalues \cup {sub}
         /\ \A k \in DOMAIN c.subvalues \cup {sub} :
              Subvalue(c, sub, text).subvalues[k] = IF k = sub THEN text ELSE c.subvalues[k]
<1> DEFINE S == DOMAIN c.subvalues \cup {sub}
           f == [k \in S |-> IF k = sub THEN text ELSE c.subvalues[k]]
<1>1. /\ c.value \in Seq(PlainWord) /\ c = Content(c.value, c.subvalues)
      /\ DOMAIN c.subvalues \subseteq ToSet(SubNames)
      /\ c.subvalues \in [DOMAIN c.subvalues -> Texts]
  BY ContentParts
<1>2. S \in SUBSET ToSet(SubNames) /\ f \in [S -> Texts]
  BY <1>1
<1>3. Subvalue(c, sub, text) = Content(c.value, f)
  BY <1>1, SMTT(20) DEF Subvalue, Content
<1>4. Content(c.value, f) \in Contents
  <2> HIDE DEF S, f
  <2> QED BY <1>1, <1>2, ContentType
<1> QED BY <1>3, <1>4 DEF Content

LEMMA CleanType ==
  ASSUME NEW top, NEW name \in Names, NEW c \in Contents, c.value # Via,
         Rank[name] = Rank["Authorization"] => \A i \in 1..Len(c.value) : c.value[i].n <= top
  PROVE  Header(name, c) \in Clean(top)
BY DEF Clean, HeaderSet, Header

LEMMA CleanParts ==
  ASSUME NEW top, NEW h \in Clean(top)
  PROVE  /\ h = Header(h.name, h.content) /\ h.name \in Names /\ h.content \in Contents
         /\ h.content.value # Via
         /\ Rank[h.name] = Rank["Authorization"] =>
              \A i \in 1..Len(h.content.value) : h.content.value[i].n <= top
BY DEF Clean, HeaderSet, Header

LEMMA NothingClean ==
  ASSUME NEW top, NEW name \in Names
  PROVE  Header(name, NoContent) \in Clean(top) /\ NoContent \in Contents
<1>1. <<>> \in Seq(PlainWord)
  BY EmptySeq
<1>2. NoContent \in Contents /\ NoContent.value = <<>>
  BY <1>1, SimpleType DEF NoContent
<1>3. <<>> # Via /\ Len(<<>>) = 0
  BY DEF Via
<1> QED BY <1>2, <1>3, CleanType

LEMMA SubvalueHeaders ==
  ASSUME NEW top, NEW s \in Seq(Clean(top)), NEW name \in Names,
         NEW sub \in ToSet(SubNames), NEW text \in Texts
  PROVE  /\ SetSubvalue(s, name, sub, text) \in Seq(Clean(top))
         /\ Sorted(s) => Sorted(SetSubvalue(s, name, sub, text))
         /\ \A m \in Names : Rank[m] # Rank[name] =>
              Equal(SetSubvalue(s, name, sub, text), m) = Equal(s, m)
<1> DEFINE X == Clean(top)
           G(h) == [h EXCEPT !.content = Subvalue(@, sub, text)]
           F == [h \in X |-> G(h)]
           old == IF Equal(s, name) \o After(s, name) = <<>>
                    THEN <<Header(name, NoContent)>> ELSE Equal(s, name)
           these == [i \in DOMAIN old |-> G(old[i])]
<1>1. Named(X)
  BY CleanNamed
<1>2. Header(name, NoContent) \in X
  BY NothingClean
<1>3. old \in Seq(X) /\ \A i \in 1..Len(old) : Rank[old[i].name] = Rank[name]
  <2>1. CASE Equal(s, name) \o After(s, name) = <<>>
    <3> DEFINE h == Header(name, NoContent)
    <3>1. h.name = name
      BY DEF Header
    <3>2. old = <<h>>
      BY <2>1
    <3> HIDE DEF h, old, X
    <3>3. <<h>> \in Seq(X) /\ Len(<<h>>) = 1 /\ <<h>>[1] = h
      BY <1>2 DEF h
    <3> QED BY <3>1, <3>2, <3>3
  <2>2. CASE Equal(s, name) \o After(s, name) # <<>>
    <3>1. old = Equal(s, name)
      BY <2>2
    <3> HIDE DEF old
    <3> QED BY <1>1, <3>1, Parts, ZenonT(60)
  <2> QED BY <2>1, <2>2
<1>4. ASSUME NEW h \in X PROVE G(h) \in X /\ G(h).name = h.name
  <2>1. /\ h = Header(h.name, h.content) /\ h.name \in Names /\ h.content \in Contents
        /\ h.content.value # Via
        /\ Rank[h.name] = Rank["Authorization"] =>
             \A i \in 1..Len(h.content.value) : h.content.value[i].n <= top
    BY CleanParts
  <2> DEFINE c == Subvalue(h.content, sub, text)
  <2>2. c \in Contents /\ c.value = h.content.value
    BY <2>1, SubvalueType
  <2> HIDE DEF c
  <2>3. Header(h.name, c) \in X
    BY <2>1, <2>2, CleanType
  <2>4. G(h) = Header(h.name, c)
    BY <2>1 DEF Header, c
  <2> QED BY <2>3, <2>4 DEF Header
<1>5. \A h \in X : F[h] \in X /\ F[h].name = h.name
  BY <1>4
<1>6. DOMAIN old = 1..Len(old) /\ \A i \in 1..Len(old) : old[i] \in X
  BY <1>3, LenProperties
<1>7. these = Image(old, F)
  BY <1>6 DEF Image
<1> HIDE DEF F
<1>8. /\ Image(old, F) \in Seq(X) /\ Len(Image(old, F)) = Len(old)
      /\ \A i \in 1..Len(old) : Image(old, F)[i] = F[old[i]]
  <2> HIDE DEF X, old
  <2>1. Image(old, F) \in Seq(X)
    BY <1>3, <1>5, ImageType, Zenon
  <2> QED BY <1>3, <2>1, ImageElements
<1>9. these \in Seq(X) /\ \A i \in 1..Len(these) : Rank[these[i].name] = Rank[name]
  <2> HIDE DEF X, old, these
  <2> QED BY <1>3, <1>5, <1>6, <1>7, <1>8
<1>10. SetSubvalue(s, name, sub, text) = Before(s, name) \o these \o After(s, name)
  BY DEF SetSubvalue
<1> DEFINE t == Before(s, name) \o these \o After(s, name)
<1>11. /\ t \in Seq(X)
       /\ Sorted(s) => Sorted(t)
       /\ \A m \in Names : Equal(t, m) = IF Rank[m] = Rank[name] THEN these ELSE Equal(s, m)
  <2> HIDE DEF X, these
  <2>1. s \in Seq(X)
    BY DEF X
  <2> QED BY <1>1, <1>9, <2>1, Replaced
<1> HIDE DEF t, these
<1> QED BY <1>10, <1>11 DEF t

-----------------------------------------------------------------------------
(***************************************************************************)
(* Folds of sequences.                                                     *)
(***************************************************************************)
LEMMA MaxOf ==
  ASSUME NEW n \in Nat, NEW s \in SUBSET (1..n), s # {}
  PROVE  Max(s) \in s /\ \A y \in s : Max(s) >= y
<1> DEFINE T == {n - x : x \in s}
<1>1. T \subseteq Nat /\ T # {}
  <2>1. \A x \in s : n - x \in Nat
    OBVIOUS
  <2>2. PICK x \in s : TRUE
    OBVIOUS
  <2>3. n - x \in T
    BY <2>2
  <2> QED BY <2>1, <2>3
<1> HIDE DEF T
<1>2. PICK t \in T : \A y \in T : t <= y
  BY <1>1, Least
<1> USE DEF T
<1>3. PICK x \in s : t = n - x
  BY <1>2
<1>4. \A y \in s : x >= y
  <2> TAKE y \in s
  <2>1. n - y \in T
    OBVIOUS
  <2>2. t <= n - y
    BY <1>2, <2>1
  <2>3. x \in 1..n /\ y \in 1..n
    OBVIOUS
  <2> QED BY <1>3, <2>2, <2>3
<1> QED BY <1>3, <1>4 DEF Max

LEMMA MaxUpto ==
  ASSUME NEW n \in Nat, NEW k \in 1..n
  PROVE  /\ 1..k \in SUBSET (1..n) /\ 1..k # {}
         /\ Max(1..k) = k /\ (1..k) \ {k} = 1..(k - 1)
<1>1. 1..k \in SUBSET (1..n) /\ 1..k # {} /\ k \in 1..k
  OBVIOUS
<1> DEFINE s == 1..k
<1>2. Max(s) \in s /\ \A y \in s : Max(s) >= y
  <2> HIDE DEF s
  <2>1. s \in SUBSET (1..n) /\ s # {}
    BY <1>1 DEF s
  <2> QED BY <2>1, MaxOf
<1>3. Max(s) >= k /\ Max(s) \in 1..k
  BY <1>1, <1>2
<1> QED BY <1>1, <1>3

\* After the last place where something is done, nothing changes.
Still(step, m, n, X) == \A k \in 1..n : k > m => \A x \in X : step[k][x] = x

LEMMA RecursionStill ==
  ASSUME NEW n \in Nat, NEW X, NEW base \in X, NEW step, NEW F, NEW m \in 0..n,
         IsRecursion(F, n, X, base, step), Still(step, m, n, X)
  PROVE  F[n] = F[m]
<1> DEFINE Good == {k \in 0..n : k >= m => F[k] = F[m]}
<1>1. 0 \in Good
  OBVIOUS
<1>2. ASSUME NEW k \in 1..n, k - 1 \in Good PROVE k \in Good
  <2>1. CASE k > m
    <3>1. k - 1 >= m /\ k - 1 \in 0..n
      BY <2>1
    <3>2. F[k - 1] = F[m] /\ F[k - 1] \in X /\ F[k] = step[k][F[k - 1]]
      BY <1>2, <3>1 DEF IsRecursion
    <3>3. F[k] = F[m]
      BY <2>1, <3>2 DEF Still
    <3> QED BY <3>3
  <2>2. CASE ~(k > m)
    BY <2>2
  <2> QED BY <2>1, <2>2
<1> HIDE DEF Good
<1>3. 0..n \subseteq Good
  BY <1>1, <1>2, Upwards
<1>4. n \in Good
  BY <1>3
<1> QED BY <1>4 DEF Good

LEMMA RecursionSame ==
  ASSUME NEW n \in Nat, NEW X, NEW base \in X, NEW step, NEW last, NEW F, NEW G, NEW m \in 0..n,
         IsRecursion(F, n, X, base, step), IsRecursion(G, n, X, base, last),
         \A k \in 1..m : step[k] = last[k]
  PROVE  F[m] = G[m]
<1> DEFINE Good == {k \in 0..m : F[k] = G[k]}
<1>1. 0 \in Good
  BY DEF IsRecursion
<1>2. ASSUME NEW k \in 1..m, k - 1 \in Good PROVE k \in Good
  <2>1. k \in 1..n /\ F[k - 1] = G[k - 1] /\ step[k] = last[k]
    BY <1>2
  <2>2. F[k] = step[k][F[k - 1]] /\ G[k] = last[k][G[k - 1]]
    BY <2>1 DEF IsRecursion
  <2>3. F[k] = G[k]
    BY <2>1, <2>2
  <2> QED BY <2>3
<1> HIDE DEF Good
<1>3. 0..m \subseteq Good
  BY <1>1, <1>2, Upwards
<1>4. m \in Good
  BY <1>3
<1> QED BY <1>4 DEF Good

IsSetFold(H, n, X, base, step) ==
  /\ H \in [SUBSET (1..n) -> X] /\ H[{}] = base
  /\ \A s \in SUBSET (1..n) : s # {} => H[s] = step[Max(s)][H[s \ {Max(s)}]]

LEMMA SetFold ==
  ASSUME NEW n \in Nat, NEW X, NEW base \in X, NEW step \in [1..n -> [X -> X]]
  PROVE  \E H : IsSetFold(H, n, X, base, step)
<1> DEFINE only(s) == [k \in 1..n |-> IF k \in s THEN step[k] ELSE [x \in X |-> x]]
           F(s) == CHOOSE f : IsRecursion(f, n, X, base, only(s))
           H == [s \in SUBSET (1..n) |-> F(s)[n]]
<1>1. ASSUME NEW s PROVE only(s) \in [1..n -> [X -> X]]
  OBVIOUS
<1>2. ASSUME NEW s
      PROVE  /\ \A k \in 1..n : k \in s => only(s)[k] = step[k]
             /\ \A k \in 1..n : k \notin s => \A x \in X : only(s)[k][x] = x
  OBVIOUS
<1>3. ASSUME NEW s, NEW t, NEW k \in 1..n, k \in s <=> k \in t
      PROVE  only(s)[k] = only(t)[k]
  BY <1>3
<1> HIDE DEF only
<1>4. ASSUME NEW s PROVE IsRecursion(F(s), n, X, base, only(s))
  BY <1>1, Recursion
<1> HIDE DEF F
<1>5. ASSUME NEW s PROVE F(s)[n] \in X /\ F(s)[0] = base
  BY <1>4 DEF IsRecursion
<1>6. H \in [SUBSET (1..n) -> X]
  BY <1>5
<1>0. ASSUME NEW f, NEW w, NEW m \in 0..n, IsRecursion(f, n, X, base, w), Still(w, m, n, X)
      PROVE  f[n] = f[m]
  BY <1>0, RecursionStill
<1>7. H[{}] = base
  <2>1. Still(only({}), 0, n, X)
    BY <1>2 DEF Still
  <2>2. F({})[n] = F({})[0]
    BY <1>0, <1>4, <2>1
  <2> QED BY <1>5, <2>2
<1>9. ASSUME NEW f, NEW g, NEW v, NEW w, NEW m \in 0..n,
             IsRecursion(f, n, X, base, v), IsRecursion(g, n, X, base, w),
             \A k \in 1..m : v[k] = w[k]
      PROVE  f[m] = g[m]
  BY <1>9, RecursionSame
<1>8. ASSUME NEW s \in SUBSET (1..n), s # {} PROVE H[s] = step[Max(s)][H[s \ {Max(s)}]]
  <2>1. PICK m \in 1..n : m = Max(s) /\ m \in s /\ \A y \in s : m >= y
    BY <1>8, MaxOf
  <2> DEFINE t == s \ {m}
  <2>2. t \in SUBSET (1..n) /\ m - 1 \in 0..n /\ m \in 0..n
    <3>1. m \in 1..n
      BY <2>1
    <3> QED BY <3>1
  <2>3. F(s)[n] = F(s)[m]
    <3>1. Still(only(s), m, n, X)
      <4>1. \A k \in 1..n : k > m => k \notin s
        BY <2>1
      <4> QED BY <1>2, <4>1 DEF Still
    <3> QED BY <1>0, <1>4, <2>2, <3>1
  <2>4. F(t)[n] = F(t)[m - 1]
    <3>1. Still(only(t), m - 1, n, X)
      <4>1. \A k \in 1..n : k > m - 1 => k \notin t
        BY <2>1
      <4> HIDE DEF t
      <4> QED BY <1>2, <4>1 DEF Still
    <3> HIDE DEF t
    <3> QED BY <1>0, <1>4, <2>2, <3>1
  <2>5. F(s)[m - 1] = F(t)[m - 1]
    <3>1. \A k \in 1..(m - 1) : only(s)[k] = only(t)[k]
      <4> TAKE k \in 1..(m - 1)
      <4>1. k \in 1..n /\ (k \in s <=> k \in t)
        BY <2>1
      <4> HIDE DEF t
      <4> QED BY <1>3, <4>1
    <3> HIDE DEF t
    <3> QED BY <1>4, <1>9, <2>2, <3>1
  <2>6. F(s)[m] = step[m][F(s)[m - 1]]
    <3>1. F(s)[m] = only(s)[m][F(s)[m - 1]]
      BY <1>4, <2>1 DEF IsRecursion
    <3> QED BY <1>2, <2>1, <3>1
  <2> QED BY <2>1, <2>2, <2>3, <2>4, <2>5, <2>6
<1> HIDE DEF H
<1> QED BY <1>6, <1>7, <1>8 DEF IsSetFold

-----------------------------------------------------------------------------
(***************************************************************************)
(* Parsing, line by line.                                                  *)
(***************************************************************************)
LooseContents == [value : Seq(Word), subvalues : UNION {[S -> Texts] : S \in SUBSET STRING}]
Loose == [name : Names, content : LooseContents]
LineSet == [name : Names, text : Seq(Word)]

LEMMA LooseNamed == Named(Loose) /\ Named(LineSet)
BY DEF Named, Loose, LineSet

LEMMA LooseSubvalue ==
  ASSUME NEW c \in LooseContents, NEW word \in Word
  PROVE  Subvalue(c, word.name, word.text) \in LooseContents
<1> DEFINE S == DOMAIN c.subvalues \cup {word.name}
           f == [k \in S |-> IF k = word.name THEN word.text ELSE c.subvalues[k]]
<1>1. word.name \in STRING /\ word.text \in Texts
  BY DEF Word
<1>2. /\ c.value \in Seq(Word) /\ c = [value |-> c.value, subvalues |-> c.subvalues]
      /\ DOMAIN c.subvalues \subseteq STRING /\ \A k \in DOMAIN c.subvalues : c.subvalues[k] \in Texts
  BY DEF LooseContents
<1>3. S \in SUBSET STRING /\ f \in [S -> Texts]
  BY <1>1, <1>2
<1>4. Subvalue(c, word.name, word.text) = [value |-> c.value, subvalues |-> f]
  BY <1>2 DEF Subvalue
<1>5. [value |-> c.value, subvalues |-> f] \in LooseContents
  <2> HIDE DEF S, f
  <2> QED BY <1>2, <1>3 DEF LooseContents
<1> QED BY <1>4, <1>5

LEMMA LooseSimple ==
  ASSUME NEW value \in Seq(Word)
  PROVE  Simple(value) \in LooseContents
<1>1. <<>> \in [{} -> Texts] /\ {} \in SUBSET STRING
  OBVIOUS
<1> QED BY <1>1 DEF Simple, Content, LooseContents

\* The arguments of a text, one after the other.
Taken(c, args) ==
  FoldLeft(LAMBDA content, word : Subvalue(content, word.name, word.text), c, args)

TakenSteps(c, args, F) ==
  /\ F[0] = c
  /\ \A k \in 1..Len(args) : F[k] = Subvalue(F[k - 1], args[k].name, args[k].text)
  /\ Taken(c, args) = F[Len(args)]

LEMMA TakenFold ==
  ASSUME NEW c \in LooseContents, NEW args \in Seq(Word)
  PROVE  \E F \in [0..Len(args) -> LooseContents] : TakenSteps(c, args, F)
<1> DEFINE n == Len(args)
           X == LooseContents
           op(content, word) == Subvalue(content, word.name, word.text)
           step == [k \in 1..n |-> [x \in X |-> op(x, args[k])]]
           Body(g) == [s \in SUBSET DOMAIN args |->
                         IF s = {} THEN c ELSE op(g[s \ {Max(s)}], args[Max(s)])]
           iter == CHOOSE g : g = Body(g)
<1>1. n \in Nat /\ DOMAIN args = 1..n /\ \A k \in 1..n : args[k] \in Word
  BY LenProperties
<1>2. ASSUME NEW x \in X, NEW k \in 1..n PROVE op(x, args[k]) \in X
  BY <1>1, LooseSubvalue
<1>3. step \in [1..n -> [X -> X]]
  <2> HIDE DEF op, X
  <2> QED BY <1>2
<1>4. ASSUME NEW x \in X, NEW k \in 1..n PROVE step[k][x] = op(x, args[k])
  <2> HIDE DEF op
  <2> QED OBVIOUS
<1> HIDE DEF step, op, X
<1>5. PICK H : /\ H \in [SUBSET (1..n) -> X] /\ H[{}] = c
               /\ \A s \in SUBSET (1..n) : s # {} => H[s] = step[Max(s)][H[s \ {Max(s)}]]
  <2>1. c \in X
    BY DEF X
  <2>2. \E H : IsSetFold(H, n, X, c, step)
    <3> HIDE DEF n
    <3> QED BY <1>1, <1>3, <2>1, SetFold
  <2> QED BY <2>2 DEF IsSetFold
<1>6. H = Body(H)
  <2>1. \A s \in SUBSET (1..n) : H[s] = IF s = {} THEN c ELSE op(H[s \ {Max(s)}], args[Max(s)])
    <3> TAKE s \in SUBSET (1..n)
    <3>1. CASE s # {}
      <4>1. Max(s) \in 1..n
        BY <1>1, <3>1, MaxOf
      <4>2. H[s \ {Max(s)}] \in X
        BY <1>5
      <4>3. H[s] = step[Max(s)][H[s \ {Max(s)}]]
        BY <1>5, <3>1
      <4> QED BY <1>4, <3>1, <4>1, <4>2, <4>3
    <3> QED BY <1>5, <3>1
  <2> QED BY <1>1, <1>5, <2>1
<1>7. iter = Body(iter)
  <2> HIDE DEF Body
  <2> QED BY <1>6
<1>8. Taken(c, args) = iter[DOMAIN args]
  BY DEF Taken, FoldLeft, MapThenFoldSet, op
<1> HIDE DEF iter
<1>9. iter[{}] = c /\ \A k \in 1..n : iter[1..k] = op(iter[1..(k - 1)], args[k])
  <2>1. {} \in SUBSET DOMAIN args
    OBVIOUS
  <2>2. ASSUME NEW k \in 1..n PROVE iter[1..k] = op(iter[1..(k - 1)], args[k])
    <3>1. /\ 1..k \in SUBSET DOMAIN args /\ 1..k # {}
          /\ Max(1..k) = k /\ (1..k) \ {k} = 1..(k - 1)
      BY <1>1, MaxUpto
    <3> DEFINE s == 1..k
    <3>2. iter[s] = op(iter[s \ {Max(s)}], args[Max(s)])
      <4>1. s \in SUBSET DOMAIN args /\ s # {}
        BY <3>1
      <4> HIDE DEF s
      <4> QED BY <1>7, <4>1
    <3> QED BY <3>1, <3>2
  <2> QED BY <1>7, <2>1, <2>2
<1> DEFINE F == [k \in 0..n |-> iter[1..k]]
<1>10. F[0] = c /\ \A k \in 1..n : F[k] = op(F[k - 1], args[k])
  <2>1. 1..0 = {} /\ 0 \in 0..n /\ \A k \in 1..n : k \in 0..n /\ k - 1 \in 0..n
    BY <1>1
  <2> QED BY <1>9, <2>1
<1>11. F[n] = Taken(c, args)
  <2>1. n \in 0..n
    BY <1>1
  <2> QED BY <1>1, <1>8, <2>1
<1>12. F \in [0..n -> X]
  <2> DEFINE Good == {k \in 0..n : F[k] \in X}
  <2>1. 0 \in Good
    BY <1>1, <1>10 DEF X
  <2>2. ASSUME NEW k \in 1..n, k - 1 \in Good PROVE k \in Good
    <3>1. F[k - 1] \in X /\ k \in 0..n
      BY <2>2
    <3>2. F[k] = op(F[k - 1], args[k])
      BY <1>10
    <3> HIDE DEF F
    <3> QED BY <1>2, <3>1, <3>2
  <2> HIDE DEF Good, n
  <2>3. 0..n \subseteq Good
    BY <1>1, <2>1, <2>2, Upwards
  <2> QED BY <2>3 DEF Good
<1> HIDE DEF F
<1>13. TakenSteps(c, args, F)
  BY <1>10, <1>11 DEF TakenSteps, op
<1> QED BY <1>12, <1>13 DEF X

LEMMA PickedCovers ==
  ASSUME NEW X, NEW s \in Seq(X), NEW T
  PROVE  \A i \in 1..Len(s) : s[i] \in T =>
           \E j \in 1..Len(Picked(s, T)) : Picked(s, T)[j] = s[i]
<1> DEFINE Covers(t, u) == \A k \in 1..Len(u) : u[k] \in T => \E j \in 1..Len(t) : t[j] = u[k]
           Good == {u \in Seq(X) : Covers(Picked(u, T), u)}
<1>1. <<>> \in Good
  BY EmptySeq
<1>2. ASSUME NEW u \in Seq(X), NEW e \in X, u \in Good PROVE Append(u, e) \in Good
  <2> DEFINE v == Append(u, e)
             t == Picked(u, T)
             w == Picked(v, T)
  <2>1. /\ v \in Seq(X) /\ Len(v) = Len(u) + 1 /\ Len(u) \in Nat
        /\ (\A k \in 1..Len(u) : v[k] = u[k]) /\ v[Len(u) + 1] = e
    BY AppendProperties, LenProperties
  <2>2. w = IF e \in T THEN Append(t, e) ELSE t
    BY PickedAppend
  <2>3. t \in Seq(X)
    BY PickedAppend
  <2>4. /\ Len(Append(t, e)) = Len(t) + 1 /\ Len(t) \in Nat
        /\ (\A k \in 1..Len(t) : Append(t, e)[k] = t[k]) /\ Append(t, e)[Len(t) + 1] = e
    BY <2>3, AppendProperties, LenProperties
  <2>5. Covers(t, u)
    BY <1>2
  <2> HIDE DEF v, t, w
  <2>6. ASSUME NEW k \in 1..Len(v), v[k] \in T PROVE \E j \in 1..Len(w) : w[j] = v[k]
    <3>1. CASE k = Len(u) + 1
      <4>1. v[k] = e /\ w = Append(t, e)
        BY <2>1, <2>2, <2>6, <3>1
      <4>2. Len(t) + 1 \in 1..Len(w) /\ w[Len(t) + 1] = e
        BY <2>4, <4>1
      <4> QED BY <4>1, <4>2
    <3>2. CASE k # Len(u) + 1
      <4>1. k \in 1..Len(u) /\ v[k] = u[k]
        BY <2>1, <3>2
      <4>2. PICK j \in 1..Len(t) : t[j] = v[k]
        BY <2>5, <2>6, <4>1
      <4>3. j \in 1..Len(w) /\ w[j] = t[j]
        BY <2>2, <2>4, <4>2
      <4> QED BY <4>2, <4>3
    <3> QED BY <3>1, <3>2
  <2> QED BY <2>1, <2>6 DEF v, w
<1> HIDE DEF Good
<1>3. Seq(X) \subseteq Good
  BY <1>1, <1>2, Longer
<1>4. s \in Good
  BY <1>3
<1> QED BY <1>4 DEF Good

\* The arguments of a content, and what is said of them.
ArgumentNames(c) == Picked(SubNames, DOMAIN c.subvalues)
Arguments(c) == Image(ArgumentNames(c), [k \in DOMAIN c.subvalues |-> Argument(k, c.subvalues[k])])
PlainPart == {w \in Word : ~IsArgument(w)}
ArgumentPart == {w \in Word : IsArgument(w)}

LEMMA SubNamesType ==
  /\ SubNames \in Seq(STRING \ {Unnamed})
  /\ ToSet(SubNames) \subseteq STRING \ {Unnamed}
  /\ \A x \in ToSet(SubNames) : \E i \in 1..Len(SubNames) : SubNames[i] = x
<1>1. SubNames \in Seq(STRING \ {Unnamed})
  BY HeadersAssumption
<1>2. DOMAIN SubNames = 1..Len(SubNames) /\ \A i \in 1..Len(SubNames) : SubNames[i] \in STRING \ {Unnamed}
  BY <1>1, LenProperties
<1> QED BY <1>1, <1>2 DEF ToSet

LEMMA ArgumentNamesType ==
  ASSUME NEW c \in Contents
  PROVE  /\ ArgumentNames(c) \in Seq(DOMAIN c.subvalues)
         /\ \A x \in DOMAIN c.subvalues :
              \E j \in 1..Len(ArgumentNames(c)) : ArgumentNames(c)[j] = x
<1> DEFINE D == DOMAIN c.subvalues
           X == STRING \ {Unnamed}
<1>1. D \subseteq ToSet(SubNames) /\ D \subseteq X
  BY ContentParts, SubNamesType
<1>2. X \cap D = D /\ SubNames \in Seq(X)
  BY <1>1, SubNamesType
<1> HIDE DEF D, X
<1>3. Picked(SubNames, D) \in Seq(X \cap D)
  BY <1>2, PickedType
<1>4. ASSUME NEW x \in D PROVE \E j \in 1..Len(Picked(SubNames, D)) : Picked(SubNames, D)[j] = x
  <2>1. PICK i \in 1..Len(SubNames) : SubNames[i] = x
    BY <1>1, SubNamesType
  <2> QED BY <1>2, <2>1, PickedCovers
<1> QED BY <1>2, <1>3, <1>4 DEF ArgumentNames, D

LEMMA TextParts ==
  ASSUME NEW c \in Contents
  PROVE  /\ c.value \in Seq(PlainPart) /\ Arguments(c) \in Seq(ArgumentPart)
         /\ Text(c) = c.value \o Arguments(c)
<1> DEFINE D == DOMAIN c.subvalues
           args == ArgumentNames(c)
           A == [k \in D |-> Argument(k, c.subvalues[k])]
<1>1. /\ c.value \in Seq(PlainWord) /\ D \subseteq ToSet(SubNames)
      /\ c.subvalues \in [D -> Texts]
  BY ContentParts
<1>2. PlainWord \subseteq PlainPart
  <2> SUFFICES ASSUME NEW w \in PlainWord PROVE w \in PlainPart
    OBVIOUS
  <2>1. w \in Word /\ w.name = Unnamed
    <3>1. /\ w.text \in Texts /\ w.name \in {Unnamed} /\ w.n \in Nat
          /\ w = [text |-> w.text, name |-> w.name, n |-> w.n]
      BY DEF PlainWord
    <3>2. w.name \in STRING
      BY <3>1, HeadersAssumption
    <3>3. [text |-> w.text, name |-> w.name, n |-> w.n] \in Word
      BY <3>1, <3>2 DEF Word
    <3> QED BY <3>1, <3>3
  <2> QED BY <2>1 DEF PlainPart, IsArgument
<1>3. c.value \in Seq(PlainPart)
  BY <1>1, <1>2, SeqMonotonic
<1>4. args \in Seq(D)
  BY ArgumentNamesType
<1>5. \A x \in D : A[x] \in ArgumentPart
  BY <1>1, SubNamesType DEF ArgumentPart, Argument, Word, IsArgument
<1>6. Image(args, A) \in Seq(ArgumentPart)
  <2> HIDE DEF A, D, args
  <2> QED BY <1>4, <1>5, ImageType, Zenon
<1>7. Those(SubNames, {i \in DOMAIN SubNames : SubNames[i] \in D}) = args
  BY DEF ArgumentNames, Picked
<1>8. [i \in DOMAIN args |-> Argument(args[i], c.subvalues[args[i]])] = Image(args, A)
  <2>1. \A i \in DOMAIN args : args[i] \in D
    <3> HIDE DEF args, D
    <3> QED BY <1>4, LenProperties
  <2> HIDE DEF args
  <2> QED BY <2>1 DEF Image
<1>9. Text(c) = c.value \o Image(args, A)
  <2> HIDE DEF args, A
  <2> QED BY <1>7, <1>8 DEF Text
<1> QED BY <1>3, <1>6, <1>9 DEF Arguments

LEMMA TextType ==
  ASSUME NEW c \in Contents
  PROVE  /\ Text(c) \in Seq(Word)
         /\ DOMAIN c.subvalues = {} => Text(c) = c.value
<1>1. /\ c.value \in Seq(PlainPart) /\ Arguments(c) \in Seq(ArgumentPart)
      /\ Text(c) = c.value \o Arguments(c)
  BY TextParts
<1>2. PlainPart \subseteq Word /\ ArgumentPart \subseteq Word
  BY DEF PlainPart, ArgumentPart
<1>3. c.value \in Seq(Word) /\ Arguments(c) \in Seq(Word)
  BY <1>1, <1>2, SeqMonotonic
<1>4. ASSUME DOMAIN c.subvalues = {} PROVE Text(c) = c.value
  <2>1. ArgumentNames(c) \in Seq({})
    BY <1>4, ArgumentNamesType
  <2>2. ArgumentNames(c) = <<>>
    <3>1. Seq({}) \subseteq {<<>>}
      <4>1. \A u \in Seq({}), e \in {} : Append(u, e) \in {<<>>}
        OBVIOUS
      <4> QED BY <4>1, Longer
    <3> QED BY <2>1, <3>1
  <2>3. Arguments(c) = <<>>
    BY <2>2, ImageEmpty DEF Arguments
  <2> QED BY <1>1, <1>3, <2>3, ConcatEmptySeq
<1> QED BY <1>1, <1>3, <1>4, ConcatProperties

LEMMA PartsOfText ==
  ASSUME NEW text \in Seq(Word)
  PROVE  /\ Those(text, {i \in DOMAIN text : ~IsArgument(text[i])}) = Picked(text, PlainPart)
         /\ Those(text, {i \in DOMAIN text : IsArgument(text[i])}) = Picked(text, ArgumentPart)
         /\ Picked(text, PlainPart) \in Seq(Word) /\ Picked(text, ArgumentPart) \in Seq(Word)
<1>1. DOMAIN text = 1..Len(text) /\ \A i \in 1..Len(text) : text[i] \in Word
  BY LenProperties
<1>2. /\ {i \in DOMAIN text : ~IsArgument(text[i])} = {i \in DOMAIN text : text[i] \in PlainPart}
      /\ {i \in DOMAIN text : IsArgument(text[i])} = {i \in DOMAIN text : text[i] \in ArgumentPart}
  BY <1>1 DEF PlainPart, ArgumentPart
<1>3. \A T : Picked(text, T) \in Seq(Word)
  BY PickedInto
<1> QED BY <1>2, <1>3 DEF Picked

LEMMA ValueCases ==
  ASSUME NEW name, NEW text \in Seq(Word)
  PROVE  /\ name \notin Divided => Value(name, text) = Simple(text)
         /\ name \in Divided =>
              Value(name, text) = Taken(Simple(Picked(text, PlainPart)), Picked(text, ArgumentPart))
<1>1. /\ Those(text, {i \in DOMAIN text : ~IsArgument(text[i])}) = Picked(text, PlainPart)
      /\ Those(text, {i \in DOMAIN text : IsArgument(text[i])}) = Picked(text, ArgumentPart)
  BY PartsOfText
<1> DEFINE P == Those(text, {i \in DOMAIN text : ~IsArgument(text[i])})
           A == Those(text, {i \in DOMAIN text : IsArgument(text[i])})
<1>2. Value(name, text) = IF name \in Divided THEN Taken(Simple(P), A) ELSE Simple(text)
  BY DEF Value, Taken
<1> HIDE DEF P, A
<1>3. P = Picked(text, PlainPart) /\ A = Picked(text, ArgumentPart)
  BY <1>1 DEF P, A
<1> QED BY <1>2, <1>3

LEMMA ValueType ==
  ASSUME NEW name, NEW text \in Seq(Word)
  PROVE  Value(name, text) \in LooseContents
<1> DEFINE c == Simple(Picked(text, PlainPart))
           args == Picked(text, ArgumentPart)
<1>1. args \in Seq(Word) /\ c \in LooseContents /\ Simple(text) \in LooseContents
  BY PartsOfText, LooseSimple
<1> HIDE DEF c, args
<1>2. PICK F \in [0..Len(args) -> LooseContents] : TakenSteps(c, args, F)
  BY <1>1, TakenFold
<1>3. Taken(c, args) \in LooseContents
  <2>1. Len(args) \in 0..Len(args)
    BY <1>1, LenProperties
  <2> QED BY <1>2, <2>1 DEF TakenSteps
<1> QED BY <1>1, <1>3, ValueCases DEF c, args

\* A text is divided into the content that it was printed from.
LEMMA ValueOfText ==
  ASSUME NEW c \in Contents, NEW name \in Divided
  PROVE  Value(name, Text(c)) = c
<1> DEFINE text == Text(c)
           D == DOMAIN c.subvalues
           names == ArgumentNames(c)
           args == Arguments(c)
           base == Simple(c.value)
           n == Len(names)
<1>1. /\ c.value \in Seq(PlainPart) /\ args \in Seq(ArgumentPart)
      /\ text = c.value \o args /\ text \in Seq(Word)
  BY TextParts, TextType
<1>2. /\ PlainPart \subseteq Word /\ ArgumentPart \subseteq Word
      /\ PlainPart \cap ArgumentPart = {}
  BY DEF PlainPart, ArgumentPart
<1>3. c.value \in Seq(Word) /\ args \in Seq(Word)
  BY <1>1, <1>2, SeqMonotonic
<1> HIDE DEF text, args
<1>4. Picked(text, PlainPart) = c.value
  <2>1. Picked(c.value, PlainPart) = c.value
    BY <1>1, PickedAll
  <2>2. Picked(args, PlainPart) = <<>>
    <3>1. ArgumentPart \cap PlainPart = {}
      BY <1>2
    <3> QED BY <1>1, <3>1, PickedNone
  <2>3. \A a \in Seq(Word), b \in Seq(Word) :
          Picked(a \o b, PlainPart) = Picked(a, PlainPart) \o Picked(b, PlainPart)
    BY PickedConcat
  <2>4. Picked(text, PlainPart) = c.value \o <<>>
    BY <1>1, <1>3, <2>1, <2>2, <2>3
  <2> QED BY <1>3, <2>4, ConcatEmptySeq
<1>5. Picked(text, ArgumentPart) = args
  <2>1. Picked(args, ArgumentPart) = args
    BY <1>1, PickedAll
  <2>2. Picked(c.value, ArgumentPart) = <<>>
    BY <1>1, <1>2, PickedNone
  <2>3. \A a \in Seq(Word), b \in Seq(Word) :
          Picked(a \o b, ArgumentPart) = Picked(a, ArgumentPart) \o Picked(b, ArgumentPart)
    BY PickedConcat
  <2>4. Picked(text, ArgumentPart) = <<>> \o args
    BY <1>1, <1>3, <2>1, <2>2, <2>3
  <2> QED BY <1>3, <2>4, ConcatEmptySeq
<1>6. Value(name, text) = Taken(base, args)
  BY <1>1, <1>4, <1>5, ValueCases
<1>7. base \in LooseContents /\ base.value = c.value /\ DOMAIN base.subvalues = {}
  BY <1>3, LooseSimple DEF Simple, Content
<1>8. /\ names \in Seq(D) /\ n \in Nat
      /\ \A x \in D : \E j \in 1..n : names[j] = x
      /\ \A j \in 1..n : names[j] \in D
  BY ArgumentNamesType, LenProperties
<1>9. /\ Len(args) = n
      /\ \A j \in 1..n : args[j].name = names[j] /\ args[j].text = c.subvalues[names[j]]
  <2> DEFINE A == [k \in D |-> Argument(k, c.subvalues[k])]
  <2>1. args = Image(names, A)
    BY DEF args, Arguments
  <2>2. \A x \in D : A[x].name = x /\ A[x].text = c.subvalues[x]
    BY DEF Argument
  <2> HIDE DEF A, D, names
  <2>3. Len(Image(names, A)) = Len(names) /\ \A j \in 1..Len(names) : Image(names, A)[j] = A[names[j]]
    BY <1>8, ImageElements
  <2> QED BY <1>8, <2>1, <2>2, <2>3
<1> HIDE DEF base, names, D
<1>10. PICK F \in [0..n -> LooseContents] : TakenSteps(base, args, F)
  BY <1>3, <1>7, <1>9, TakenFold
<1> DEFINE So(k) == /\ F[k].value = c.value
                    /\ DOMAIN F[k].subvalues = {names[j] : j \in 1..k}
                    /\ \A j \in 1..k : F[k].subvalues[names[j]] = c.subvalues[names[j]]
           Good == {k \in 0..n : So(k)}
<1>11. 0 \in Good
  <2>1. F[0] = base
    BY <1>10 DEF TakenSteps
  <2> QED BY <1>7, <1>8, <2>1
<1>12. ASSUME NEW k \in 1..n, k - 1 \in Good PROVE k \in Good
  <2>1. k \in 0..n /\ k - 1 \in 0..n
    BY <1>8
  <2>0. So(k - 1)
    BY <1>12
  <2> DEFINE old == F[k - 1]
             x == names[k]
             S == {names[j] : j \in 1..(k - 1)}
  <2>2. F[k] = Subvalue(old, x, c.subvalues[x])
    BY <1>9, <1>10 DEF TakenSteps
  <2>3. old \in LooseContents
    BY <1>10, <2>1
  <2>4. old.value = c.value /\ DOMAIN old.subvalues = S
        /\ \A j \in 1..(k - 1) : old.subvalues[names[j]] = c.subvalues[names[j]]
    BY <2>0
  <2> HIDE DEF old
  <2>5. /\ F[k].value = old.value
        /\ F[k].subvalues = [y \in DOMAIN old.subvalues \cup {x} |->
                               IF y = x THEN c.subvalues[x] ELSE old.subvalues[y]]
    <3>1. old = [value |-> old.value, subvalues |-> old.subvalues]
      BY <2>3 DEF LooseContents
    <3> QED BY <2>2, <3>1 DEF Subvalue
  <2>6. S \cup {x} = {names[j] : j \in 1..k}
    <3>1. 1..k = 1..(k - 1) \cup {k}
      BY <1>8, SMTT(20)
    <3> QED BY <3>1
  <2>7. ASSUME NEW j \in 1..k PROVE F[k].subvalues[names[j]] = c.subvalues[names[j]]
    <3>1. CASE names[j] = x
      BY <2>5, <3>1
    <3>2. CASE names[j] # x
      <4>1. j \in 1..(k - 1)
        BY <1>8, <3>2
      <4>2. names[j] \in DOMAIN old.subvalues
        BY <2>4, <4>1
      <4> QED BY <2>4, <2>5, <3>2, <4>1, <4>2
    <3> QED BY <3>1, <3>2
  <2>8. So(k)
    BY <2>4, <2>5, <2>6, <2>7
  <2> QED BY <2>1, <2>8
<1> HIDE DEF Good
<1>13. 0..n \subseteq Good
  BY <1>8, <1>11, <1>12, Upwards
<1>14. n \in Good
  BY <1>8, <1>13
<1>15. So(n)
  BY <1>14 DEF Good
<1>16. F[n] \in LooseContents /\ Taken(base, args) = F[n]
  BY <1>8, <1>9, <1>10 DEF TakenSteps
<1>17. {names[j] : j \in 1..n} = D
  BY <1>8
<1>18. F[n] = Content(F[n].value, F[n].subvalues) /\ F[n].subvalues = [y \in D |-> F[n].subvalues[y]]
  BY <1>15, <1>16, <1>17 DEF LooseContents, Content
<1>19. c = Content(c.value, c.subvalues) /\ c.subvalues = [y \in D |-> c.subvalues[y]]
  <2> DEFINE f == c.subvalues
  <2>1. c = Content(c.value, f) /\ f \in [DOMAIN f -> Texts]
    BY ContentParts
  <2>2. D = DOMAIN f
    BY DEF D
  <2> HIDE DEF f, D
  <2>3. f = [y \in D |-> f[y]]
    BY <2>1, <2>2
  <2> QED BY <2>1, <2>3 DEF f
<1>20. \A y \in D : F[n].subvalues[y] = c.subvalues[y]
  <2>1. ASSUME NEW y \in D PROVE F[n].subvalues[y] = c.subvalues[y]
    <3>1. PICK j \in 1..n : y = names[j]
      BY <1>17
    <3> QED BY <1>15, <3>1
  <2> QED BY <2>1
<1>21. F[n].subvalues = c.subvalues
  BY <1>18, <1>19, <1>20
<1> QED BY <1>6, <1>15, <1>16, <1>18, <1>19, <1>21 DEF text

LEMMA TextOfSimple ==
  ASSUME NEW text \in Seq(Word)
  PROVE  Text(Simple(text)) = text
<1>1. Simple(text).value = text /\ DOMAIN Simple(text).subvalues = {}
  BY DEF Simple, Content
<1> DEFINE c == Simple(text)
<1> HIDE DEF c
<1>2. {i \in DOMAIN SubNames : SubNames[i] \in DOMAIN c.subvalues} = {}
  BY <1>1 DEF c
<1>3. Those(SubNames, {}) = <<>>
  <2> DEFINE X == STRING \ {Unnamed}
  <2>1. SubNames \in Seq(X) /\ X \cap {} = {}
    BY SubNamesType
  <2> HIDE DEF X
  <2>2. Picked(SubNames, {}) = <<>>
    BY <2>1, PickedNone
  <2>3. {i \in DOMAIN SubNames : SubNames[i] \in {}} = {}
    OBVIOUS
  <2> QED BY <2>2, <2>3 DEF Picked
<1>4. Text(c) = text \o [i \in DOMAIN <<>> |-> Argument(<<>>[i], c.subvalues[<<>>[i]])]
  BY <1>1, <1>2, <1>3 DEF Text, c
<1>5. [i \in DOMAIN <<>> |-> Argument(<<>>[i], c.subvalues[<<>>[i]])] = <<>>
  OBVIOUS
<1> QED BY <1>4, <1>5, ConcatEmptySeq DEF c

\* What is parsed prints as it was printed.
LEMMA TextOfValue ==
  ASSUME NEW c \in Contents, NEW name
  PROVE  Text(Value(name, Text(c))) = Text(c)
<1>1. Text(c) \in Seq(Word)
  BY TextType
<1>2. CASE name \in Divided
  BY <1>2, ValueOfText
<1>3. CASE name \notin Divided
  <2>1. Value(name, Text(c)) = Simple(Text(c))
    BY <1>1, <1>3, ValueCases
  <2> QED BY <1>1, <2>1, TextOfSimple
<1> QED BY <1>2, <1>3

Parsed(line) == Header(ValueName(line.name), Value(line.name, line.text))
ParsedLines == [line \in LineSet |-> Parsed(line)]

LEMMA ParsedType ==
  ASSUME NEW line \in LineSet
  PROVE  /\ line.name \in Names /\ line.text \in Seq(Word)
         /\ ValueName(line.name) \in Names /\ Rank[ValueName(line.name)] = Rank[line.name]
         /\ Parsed(line) \in Loose
<1>1. line.name \in Names /\ line.text \in Seq(Word)
  BY DEF LineSet
<1>2. ValueName(line.name) \in Names /\ Rank[ValueName(line.name)] = Rank[line.name]
  <2>1. "content-disposition" \in Names /\ Rank["content-disposition"] = Rank["Content-Disposition"]
    BY HeadersAssumption DEF Divided
  <2> QED BY <1>1, <2>1 DEF ValueName
<1>3. Value(line.name, line.text) \in LooseContents
  BY <1>1, ValueType
<1> QED BY <1>1, <1>2, <1>3 DEF Parsed, Header, Loose

LEMMA ParseLineHeaders ==
  ASSUME NEW hs \in Seq(Loose), NEW line \in LineSet
  PROVE  /\ ParseLine(hs, line) \in Seq(Loose)
         /\ Sorted(hs) => Sorted(ParseLine(hs, line))
         /\ \A m \in Names : Equal(ParseLine(hs, line), m)
              = IF line.name \notin Underscored /\ Rank[m] = Rank[line.name]
                  THEN Append(Equal(hs, m), Parsed(line)) ELSE Equal(hs, m)
<1> DEFINE name == ValueName(line.name)
           content == Value(line.name, line.text)
<1>1. name \in Names /\ Rank[name] = Rank[line.name] /\ Header(name, content) \in Loose
  BY ParsedType DEF Parsed
<1>2. ParseLine(hs, line) = IF line.name \in Underscored THEN hs ELSE Add(hs, name, content)
  BY DEF ParseLine
<1>3. Parsed(line) = Header(name, content)
  BY DEF Parsed
<1> HIDE DEF name, content
<1>4. /\ Add(hs, name, content) \in Seq(Loose)
      /\ Sorted(hs) => Sorted(Add(hs, name, content))
      /\ \A m \in Names : Equal(Add(hs, name, content), m)
           = IF Rank[m] = Rank[name] THEN Append(Equal(hs, m), Header(name, content))
                                     ELSE Equal(hs, m)
  BY <1>1, LooseNamed, AddHeaders
<1> QED BY <1>1, <1>2, <1>3, <1>4

ParseSteps(lines, F) ==
  /\ F[0] = <<>>
  /\ \A k \in 1..Len(lines) : F[k] = ParseLine(F[k - 1], lines[k])
  /\ Parse(lines) = F[Len(lines)]

LEMMA ParseFold ==
  ASSUME NEW lines \in Seq(LineSet)
  PROVE  \E F \in [0..Len(lines) -> Seq(Loose)] : ParseSteps(lines, F)
<1> DEFINE n == Len(lines)
           X == Seq(Loose)
           op(hs, line) == ParseLine(hs, line)
           step == [k \in 1..n |-> [x \in X |-> op(x, lines[k])]]
           Body(g) == [s \in SUBSET DOMAIN lines |->
                         IF s = {} THEN <<>> ELSE op(g[s \ {Max(s)}], lines[Max(s)])]
           iter == CHOOSE g : g = Body(g)
<1>1. n \in Nat /\ DOMAIN lines = 1..n /\ \A k \in 1..n : lines[k] \in LineSet
  BY LenProperties
<1>2. ASSUME NEW x \in X, NEW k \in 1..n PROVE op(x, lines[k]) \in X
  BY <1>1, ParseLineHeaders
<1>3. step \in [1..n -> [X -> X]]
  <2> HIDE DEF op, X
  <2> QED BY <1>2
<1>4. ASSUME NEW x \in X, NEW k \in 1..n PROVE step[k][x] = op(x, lines[k])
  <2> HIDE DEF op
  <2> QED OBVIOUS
<1> HIDE DEF step, op, X
<1>5. PICK H : /\ H \in [SUBSET (1..n) -> X] /\ H[{}] = <<>>
               /\ \A s \in SUBSET (1..n) : s # {} => H[s] = step[Max(s)][H[s \ {Max(s)}]]
  <2>1. <<>> \in X
    BY EmptySeq DEF X
  <2>2. \E H : IsSetFold(H, n, X, <<>>, step)
    <3> HIDE DEF n
    <3> QED BY <1>1, <1>3, <2>1, SetFold
  <2> QED BY <2>2 DEF IsSetFold
<1>6. H = Body(H)
  <2>1. \A s \in SUBSET (1..n) : H[s] = IF s = {} THEN <<>> ELSE op(H[s \ {Max(s)}], lines[Max(s)])
    <3> TAKE s \in SUBSET (1..n)
    <3>1. CASE s # {}
      <4>1. Max(s) \in 1..n
        BY <1>1, <3>1, MaxOf
      <4>2. H[s \ {Max(s)}] \in X
        BY <1>5
      <4>3. H[s] = step[Max(s)][H[s \ {Max(s)}]]
        BY <1>5, <3>1
      <4> QED BY <1>4, <3>1, <4>1, <4>2, <4>3
    <3> QED BY <1>5, <3>1
  <2> QED BY <1>1, <1>5, <2>1
<1>7. iter = Body(iter)
  <2> HIDE DEF Body
  <2> QED BY <1>6
<1>8. Parse(lines) = iter[DOMAIN lines]
  BY DEF Parse, FoldLeft, MapThenFoldSet, op
<1> HIDE DEF iter
<1>9. iter[{}] = <<>> /\ \A k \in 1..n : iter[1..k] = op(iter[1..(k - 1)], lines[k])
  <2>1. {} \in SUBSET DOMAIN lines
    OBVIOUS
  <2>2. ASSUME NEW k \in 1..n PROVE iter[1..k] = op(iter[1..(k - 1)], lines[k])
    <3>1. /\ 1..k \in SUBSET DOMAIN lines /\ 1..k # {}
          /\ Max(1..k) = k /\ (1..k) \ {k} = 1..(k - 1)
      BY <1>1, MaxUpto
    <3> DEFINE s == 1..k
    <3>2. iter[s] = op(iter[s \ {Max(s)}], lines[Max(s)])
      <4>1. s \in SUBSET DOMAIN lines /\ s # {}
        BY <3>1
      <4> HIDE DEF s
      <4> QED BY <1>7, <4>1
    <3> QED BY <3>1, <3>2
  <2> QED BY <1>7, <2>1, <2>2
<1> DEFINE F == [k \in 0..n |-> iter[1..k]]
<1>10. F[0] = <<>> /\ \A k \in 1..n : F[k] = op(F[k - 1], lines[k])
  <2>1. 1..0 = {} /\ 0 \in 0..n /\ \A k \in 1..n : k \in 0..n /\ k - 1 \in 0..n
    BY <1>1
  <2> QED BY <1>9, <2>1
<1>11. F[n] = Parse(lines)
  <2>1. n \in 0..n
    BY <1>1
  <2> QED BY <1>1, <1>8, <2>1
<1>12. F \in [0..n -> X]
  <2> DEFINE Good == {k \in 0..n : F[k] \in X}
  <2>1. 0 \in Good
    <3>1. <<>> \in X /\ 0 \in 0..n
      BY <1>1, EmptySeq DEF X
    <3> HIDE DEF F
    <3> QED BY <1>10, <3>1
  <2>2. ASSUME NEW k \in 1..n, k - 1 \in Good PROVE k \in Good
    <3>1. F[k - 1] \in X /\ k \in 0..n
      BY <2>2
    <3>2. F[k] = op(F[k - 1], lines[k])
      BY <1>10
    <3> HIDE DEF F
    <3> QED BY <1>2, <3>1, <3>2
  <2> HIDE DEF Good, n
  <2>3. 0..n \subseteq Good
    BY <1>1, <2>1, <2>2, Upwards
  <2> QED BY <2>3 DEF Good
<1> HIDE DEF F
<1>13. ParseSteps(lines, F)
  BY <1>10, <1>11 DEF ParseSteps, op
<1> QED BY <1>12, <1>13 DEF X

LEMMA ParseAppend ==
  ASSUME NEW lines \in Seq(LineSet), NEW line \in LineSet
  PROVE  /\ Parse(lines) \in Seq(Loose)
         /\ Parse(Append(lines, line)) = ParseLine(Parse(lines), line)
<1> DEFINE n == Len(lines)
           t == Append(lines, line)
<1>1. n \in Nat
  BY LenProperties
<1>2. /\ t \in Seq(LineSet) /\ Len(t) = n + 1
      /\ (\A i \in 1..n : t[i] = lines[i]) /\ t[n + 1] = line
  BY AppendProperties
<1> HIDE DEF t
<1>3. PICK F \in [0..n -> Seq(Loose)] : ParseSteps(lines, F)
  BY ParseFold
<1>4. PICK G \in [0..(n + 1) -> Seq(Loose)] : ParseSteps(t, G)
  BY <1>2, ParseFold
<1> DEFINE Good == {k \in 0..n : F[k] = G[k]}
<1>5. 0 \in Good
  BY <1>1, <1>3, <1>4 DEF ParseSteps
<1>6. ASSUME NEW k \in 1..n, k - 1 \in Good PROVE k \in Good
  <2>1. k \in 0..n /\ k \in 1..(n + 1) /\ t[k] = lines[k]
    BY <1>1, <1>2
  <2>2. F[k] = ParseLine(F[k - 1], lines[k])
    BY <1>3 DEF ParseSteps
  <2>3. G[k] = ParseLine(G[k - 1], t[k])
    BY <1>2, <1>4, <2>1 DEF ParseSteps
  <2>4. F[k - 1] = G[k - 1]
    BY <1>6
  <2>5. F[k] = G[k]
    BY <2>1, <2>2, <2>3, <2>4
  <2> QED BY <2>1, <2>5
<1> HIDE DEF Good
<1>7. 0..n \subseteq Good
  BY <1>1, <1>5, <1>6, Upwards
<1>8. F[n] = G[n]
  BY <1>1, <1>7 DEF Good
<1>9. n + 1 \in 1..(n + 1) /\ n + 1 - 1 = n /\ n \in 0..n
  BY <1>1
<1>10. G[n + 1] = ParseLine(G[n], t[n + 1])
  <2>1. G[n + 1] = ParseLine(G[n + 1 - 1], t[n + 1])
    BY <1>2, <1>4, <1>9 DEF ParseSteps
  <2> QED BY <1>9, <2>1
<1>11. Parse(lines) = F[n] /\ Parse(t) = G[n + 1]
  BY <1>2, <1>3, <1>4 DEF ParseSteps
<1>12. F[n] \in Seq(Loose)
  BY <1>3, <1>9
<1> QED BY <1>2, <1>8, <1>10, <1>11, <1>12 DEF t

LEMMA ParseEmpty == Parse(<<>>) = <<>>
<1>1. <<>> \in Seq(LineSet) /\ Len(<<>>) = 0
  BY EmptySeq
<1>2. PICK F : ParseSteps(<<>>, F)
  BY <1>1, ParseFold
<1> QED BY <1>1, <1>2 DEF ParseSteps

\* For every name the lines of that name are parsed, in their order.
LEMMA EqualParse ==
  ASSUME NEW lines \in Seq(LineSet)
  PROVE  /\ Parse(lines) \in Seq(Loose) /\ Sorted(Parse(lines))
         /\ \A m \in Names : Equal(Parse(lines), m)
              = IF m \in Underscored THEN <<>> ELSE Image(Equal(lines, m), ParsedLines)
<1> DEFINE Right(u) == \A m \in Names : Equal(Parse(u), m)
                         = IF m \in Underscored THEN <<>> ELSE Image(Equal(u, m), ParsedLines)
           Good == {u \in Seq(LineSet) : Sorted(Parse(u)) /\ Right(u)}
<1>1. <<>> \in Good
  <2>1. Sorted(Parse(<<>>)) /\ <<>> \in Seq(LineSet)
    BY ParseEmpty, EmptySeq DEF Sorted
  <2>2. \A m : Equal(<<>>, m) = <<>>
    BY RankedEmpty DEF Equal
  <2>3. Right(<<>>)
    BY <2>2, ParseEmpty, ImageEmpty
  <2> QED BY <2>1, <2>3
<1>2. ASSUME NEW u \in Seq(LineSet), NEW line \in LineSet, u \in Good
      PROVE  Append(u, line) \in Good
  <2> DEFINE t == Append(u, line)
             hs == Parse(u)
  <2>1. t \in Seq(LineSet)
    BY AppendProperties
  <2>2. hs \in Seq(Loose) /\ Parse(t) = ParseLine(hs, line)
    BY ParseAppend
  <2>3. Sorted(hs) /\ Right(u)
    BY <1>2
  <2>4. \A m \in Names : Equal(t, m) = IF Rank[line.name] = Rank[m] THEN Append(Equal(u, m), line)
                                                                   ELSE Equal(u, m)
    <3>1. \A R : Ranked(t, R) = IF Rank[line.name] \in R THEN Append(Ranked(u, R), line)
                                                         ELSE Ranked(u, R)
      BY RankedAppend
    <3> QED BY <3>1 DEF Equal
  <2> HIDE DEF hs, t
  <2>5. /\ Sorted(ParseLine(hs, line))
        /\ \A m \in Names : Equal(ParseLine(hs, line), m)
             = IF line.name \notin Underscored /\ Rank[m] = Rank[line.name]
                 THEN Append(Equal(hs, m), Parsed(line)) ELSE Equal(hs, m)
    BY <2>2, <2>3, ParseLineHeaders
  <2>6. ASSUME NEW m \in Names
        PROVE  Equal(Parse(t), m) = IF m \in Underscored THEN <<>> ELSE Image(Equal(t, m), ParsedLines)
    <3>1. Rank[m] = Rank[line.name] => (m \in Underscored <=> line.name \in Underscored)
      BY ParsedType, HeadersAssumption
    <3>2. Equal(hs, m) = IF m \in Underscored THEN <<>> ELSE Image(Equal(u, m), ParsedLines)
      BY <2>3 DEF hs
    <3>3. Equal(u, m) \in Seq(LineSet)
      BY LooseNamed, Parts
    <3>4. Image(Append(Equal(u, m), line), ParsedLines) = Append(Image(Equal(u, m), ParsedLines), ParsedLines[line])
      BY <3>3, ImageAppend
    <3>5. ParsedLines[line] = Parsed(line)
      BY DEF ParsedLines
    <3>6. CASE Rank[m] = Rank[line.name] /\ m \notin Underscored
      BY <2>2, <2>4, <2>5, <3>1, <3>2, <3>4, <3>5, <3>6
    <3>7. CASE Rank[m] = Rank[line.name] /\ m \in Underscored
      BY <2>2, <2>5, <3>1, <3>2, <3>7
    <3>8. CASE Rank[m] # Rank[line.name]
      BY <2>2, <2>4, <2>5, <3>2, <3>8
    <3> QED BY <3>6, <3>7, <3>8
  <2> QED BY <2>1, <2>2, <2>5, <2>6 DEF t
<1> HIDE DEF Good
<1>3. Seq(LineSet) \subseteq Good
  BY <1>1, <1>2, Longer
<1>4. lines \in Good
  BY <1>3
<1>5. <<>> \in Seq(LineSet)
  BY EmptySeq
<1>6. Parse(lines) \in Seq(Loose)
  <2>1. PICK F \in [0..Len(lines) -> Seq(Loose)] : ParseSteps(lines, F)
    BY ParseFold
  <2>2. Len(lines) \in 0..Len(lines)
    BY LenProperties
  <2> QED BY <2>1, <2>2 DEF ParseSteps
<1> QED BY <1>4, <1>6 DEF Good

-----------------------------------------------------------------------------
(***************************************************************************)
(* From the agent's headers to the server's.                               *)
(***************************************************************************)
OnWire(message, hs) ==
  /\ message.lines \in Seq(LineSet)
  /\ Len(message.lines) = Len(hs) \/ Len(message.lines) = Len(hs) + 1
  /\ \A i \in 1..Len(hs) :
       /\ message.lines[i].name = hs[i].name
       /\ \/ message.lines[i].text = Text(hs[i].content)
          \/ message.lines[i].text = Via /\ hs[i].name \in message.rewritten
  /\ Len(message.lines) = Len(hs) + 1 =>
       /\ message.lines[Len(hs) + 1].text = Via
       /\ message.lines[Len(hs) + 1].name \in Touchable
  /\ \A m \in Names, n \in Names :
       Rank[m] = Rank[n] => (m \in message.rewritten <=> n \in message.rewritten)

\* A header, and the line that it has become.
Faithful(top, rewritten) ==
  {p \in Clean(top) \X LineSet :
     /\ p[2].name = p[1].name
     /\ \/ p[2].text = Text(p[1].content)
        \/ p[2].text = Via /\ p[1].name \in rewritten}

Appended(extra, m) ==
  /\ extra \in Seq(LineSet)
  /\ \A i \in 1..Len(extra) : extra[i].text = Via
  /\ (\A name \in Touchable : Rank[m] # Rank[name]) => extra = <<>>

\* The lines of a name are those of its headers, and what has been appended.
Carried(lines, these, rewritten, m, kept, extra) ==
  /\ kept \in Seq(LineSet) /\ Len(kept) = Len(these)
  /\ \A i \in 1..Len(these) :
       /\ kept[i].name = these[i].name
       /\ \/ kept[i].text = Text(these[i].content)
          \/ kept[i].text = Via /\ m \in rewritten
  /\ Appended(extra, m)
  /\ Equal(lines, m) = kept \o extra

LEMMA ViaType == Via \in Seq(Word) /\ Via = <<Plain("via")>>
<1>1. Unnamed \in STRING
  BY HeadersAssumption
<1>2. "via" \in Texts /\ 0 \in Nat
  BY DEF Texts, Literals
<1>3. Plain("via") \in Word
  BY <1>1, <1>2 DEF Plain, Word
<1> QED BY <1>3 DEF Via

LEMMA EqualAppended ==
  ASSUME NEW message, NEW hs \in Seq(HeaderSet), OnWire(message, hs), NEW m \in Names
  PROVE  \E extra : /\ Appended(extra, m)
                    /\ Equal(message.lines, m)
                         = Equal(SubSeq(message.lines, 1, Len(hs)), m) \o extra
<1> DEFINE n == Len(hs)
           lines == message.lines
           u == SubSeq(lines, 1, n)
<1>1. /\ n \in Nat /\ lines \in Seq(LineSet) /\ Len(lines) \in {n, n + 1}
      /\ \A i \in 1..Len(lines) : lines[i] \in LineSet
      /\ Len(lines) = n + 1 => lines[n + 1].text = Via /\ lines[n + 1].name \in Touchable
  BY LenProperties DEF OnWire
<1> HIDE DEF n, lines
<1>2. u \in Seq(LineSet)
  <2>1. \A i \in 1..n : lines[i] \in LineSet
    BY <1>1
  <2> QED BY <1>1, <2>1, SubSeqProperties
<1>3. <<>> \in Seq(LineSet) /\ Appended(<<>>, m)
  BY EmptySeq DEF Appended
<1>4. CASE Len(lines) = n
  <2>1. u = lines
    BY <1>1, <1>4, SubSeqFull
  <2>2. Equal(lines, m) \in Seq(LineSet)
    BY <1>1, LooseNamed, Parts
  <2>3. Equal(lines, m) = Equal(u, m) \o <<>>
    BY <2>1, <2>2, ConcatEmptySeq
  <2> QED BY <1>3, <2>3 DEF n, lines
<1>5. CASE Len(lines) = n + 1
  <2> DEFINE e == lines[n + 1]
  <2>1. e \in LineSet /\ e.text = Via /\ e.name \in Touchable
    BY <1>1, <1>5
  <2>2. lines = u \o <<e>>
    <3>1. 1 \in 1..Len(lines) /\ n + 1 \in 1..Len(lines) /\ n + 1 - 1 = n
      BY <1>1, <1>5
    <3>2. SubSeq(lines, 1, n + 1) = SubSeq(lines, 1, n + 1 - 1) \o <<lines[n + 1]>>
      BY <1>1, <3>1, SubSeqRecursiveSecond
    <3>3. SubSeq(lines, 1, Len(lines)) = lines
      BY <1>1, SubSeqFull
    <3> QED BY <1>5, <3>1, <3>2, <3>3
  <2> HIDE DEF e, u
  <2>3. <<e>> \in Seq(LineSet)
    BY <2>1
  <2> DEFINE w == <<e>>
  <2>4. Equal(u \o w, m) = Equal(u, m) \o Equal(w, m)
    <3>1. \A b \in Seq(LineSet) : \A R : Ranked(u \o b, R) = Ranked(u, R) \o Ranked(b, R)
      BY <1>2, RankedConcat
    <3>2. w \in Seq(LineSet)
      BY <2>3
    <3> HIDE DEF w
    <3> QED BY <3>1, <3>2 DEF Equal
  <2>5. Equal(w, m) = IF Rank[e.name] = Rank[m] THEN <<e>> ELSE <<>>
    BY <2>1, OneEqual
  <2>6. Appended(Equal(w, m), m)
    <3>1. CASE Rank[e.name] = Rank[m]
      <4>1. Equal(w, m) = <<e>> /\ Len(<<e>>) = 1 /\ <<e>>[1] = e
        BY <2>5, <3>1
      <4> QED BY <2>1, <2>3, <3>1, <4>1 DEF Appended
    <3>2. CASE Rank[e.name] # Rank[m]
      BY <1>3, <2>5, <3>2
    <3> QED BY <3>1, <3>2
  <2> QED BY <2>2, <2>4, <2>6 DEF n, lines, u
<1> QED BY <1>1, <1>4, <1>5

LEMMA LinesCarried ==
  ASSUME NEW top, NEW hs \in Seq(Clean(top)), NEW message, OnWire(message, hs), NEW m \in Names
  PROVE  \E kept, extra :
           Carried(message.lines, Equal(hs, m), message.rewritten, m, kept, extra)
<1> DEFINE n == Len(hs)
           lines == message.lines
           u == SubSeq(lines, 1, n)
           Z == Faithful(top, message.rewritten)
           z == [i \in 1..n |-> <<hs[i], lines[i]>>]
           first == [p \in Z |-> p[1]]
           second == [p \in Z |-> p[2]]
<1>1. /\ n \in Nat /\ lines \in Seq(LineSet)
      /\ (\A i \in 1..n : hs[i] \in Clean(top)) /\ (\A i \in 1..n : lines[i] \in LineSet)
  BY LenProperties DEF OnWire
<1>2. /\ u \in Seq(LineSet) /\ Len(u) = n
      /\ \A i \in 1..n : u[i] = lines[i]
  <2> HIDE DEF n, lines
  <2> QED BY <1>1, SubSeqProperties
<1>3. \A i \in 1..n : <<hs[i], lines[i]>> \in Z
  BY <1>1 DEF OnWire, Faithful
<1>4. z \in Seq(Z) /\ Len(z) = n /\ \A i \in 1..n : z[i] = <<hs[i], lines[i]>>
  <2>1. z \in [1..n -> Z]
    <3> HIDE DEF Z
    <3> QED BY <1>3
  <2>2. z \in Seq(Z)
    <3> HIDE DEF Z, z
    <3> QED BY <1>1, <2>1, SeqDef
  <2>3. DOMAIN z = 1..n /\ DOMAIN z = 1..Len(z) /\ Len(z) \in Nat
    <3>1. DOMAIN z = 1..Len(z) /\ Len(z) \in Nat
      <4> HIDE DEF z, Z
      <4> QED BY <2>2, LenProperties
    <3> QED BY <3>1
  <2>4. Len(z) = n
    <3> HIDE DEF z, n
    <3> QED BY <1>1, <2>3
  <2> QED BY <2>2, <2>4
<1>5. /\ \A p \in Z : first[p] = p[1] /\ p[1] \in Clean(top)
      /\ \A p \in Z : second[p] = p[2] /\ p[2] \in LineSet
  BY DEF Faithful
<1>6. \A p \in Z : p[2].name = p[1].name
  BY DEF Faithful
<1>7. ASSUME NEW p \in Z
      PROVE  \/ p[2].text = Text(p[1].content)
             \/ p[2].text = Via /\ p[1].name \in message.rewritten
  BY DEF Faithful
<1> HIDE DEF Z, z, first, second
<1>8. /\ Len(Image(z, first)) = Len(z) /\ \A i \in 1..Len(z) : Image(z, first)[i] = first[z[i]]
      /\ Len(Image(z, second)) = Len(z) /\ \A i \in 1..Len(z) : Image(z, second)[i] = second[z[i]]
  BY <1>4, ImageElements
<1>9. Image(z, first) = hs
  <2>1. \A x \in Z : first[x] \in Clean(top)
    BY <1>5
  <2>2. Image(z, first) \in Seq(Clean(top))
    BY <1>4, <2>1, ImageType, Zenon
  <2>3. Len(Image(z, first)) = Len(hs) /\ \A i \in 1..Len(hs) : Image(z, first)[i] = hs[i]
    BY <1>3, <1>4, <1>5, <1>8
  <2> QED BY <2>2, <2>3, SeqEqual
<1>10. Image(z, second) = u
  <2>1. \A x \in Z : second[x] \in LineSet
    BY <1>5
  <2>2. Image(z, second) \in Seq(LineSet)
    BY <1>4, <2>1, ImageType, Zenon
  <2>3. Len(Image(z, second)) = Len(u) /\ \A i \in 1..Len(u) : Image(z, second)[i] = u[i]
    BY <1>2, <1>3, <1>4, <1>5, <1>8
  <2> QED BY <1>2, <2>2, <2>3, SeqEqual
<1> HIDE DEF u, lines, n
<1> DEFINE T == {p \in Z : Rank[p[1].name] = Rank[m]}
           q == Picked(z, T)
<1>11. T \subseteq Z /\ q \in Seq(T)
  <2>1. T \subseteq Z /\ Z \cap T = T
    OBVIOUS
  <2> HIDE DEF T
  <2>2. q \in Seq(Z \cap T)
    BY <1>4, PickedType
  <2> QED BY <2>1, <2>2
<1>12. Equal(hs, m) = Image(q, first)
  <2> DEFINE U == OfRank(Clean(top), {Rank[m]})
  <2>1. Equal(hs, m) = Picked(hs, U)
    BY RankedIsPicked DEF Equal
  <2>2. {p \in Z : first[p] \in U} = T
    BY <1>5 DEF OfRank
  <2> HIDE DEF U, T
  <2>3. Picked(Image(z, first), U) = Image(Picked(z, {p \in Z : first[p] \in U}), first)
    BY <1>4, PickedImage
  <2> QED BY <1>9, <2>1, <2>2, <2>3
<1>13. Equal(u, m) = Image(q, second)
  <2> DEFINE U == OfRank(LineSet, {Rank[m]})
  <2>1. Equal(u, m) = Picked(u, U)
    BY <1>2, RankedIsPicked DEF Equal
  <2>2. {p \in Z : second[p] \in U} = T
    BY <1>5, <1>6 DEF OfRank
  <2> HIDE DEF U, T
  <2>3. Picked(Image(z, second), U) = Image(Picked(z, {p \in Z : second[p] \in U}), second)
    BY <1>4, PickedImage
  <2> QED BY <1>10, <2>1, <2>2, <2>3
<1> HIDE DEF q
<1>14. /\ Len(Image(q, first)) = Len(q) /\ Len(Image(q, second)) = Len(q)
       /\ \A i \in 1..Len(q) : /\ Image(q, first)[i] = first[q[i]]
                               /\ Image(q, second)[i] = second[q[i]]
  <2> HIDE DEF T
  <2> QED BY <1>11, ImageElements
<1>15. \A i \in 1..Len(q) : q[i] \in T
  <2> HIDE DEF T
  <2> QED BY <1>11, LenProperties
<1>16. \A p \in T : p[1].name \in message.rewritten => m \in message.rewritten
  <2>1. \A p \in T : p[1].name \in Names /\ Rank[p[1].name] = Rank[m]
    BY <1>5, CleanParts
  <2>2. \A a \in Names, b \in Names :
          Rank[a] = Rank[b] => (a \in message.rewritten <=> b \in message.rewritten)
    BY DEF OnWire
  <2> HIDE DEF T
  <2> QED BY <2>1, <2>2
<1>17. ASSUME NEW i \in 1..Len(Equal(hs, m))
       PROVE  /\ Equal(u, m)[i].name = Equal(hs, m)[i].name
              /\ \/ Equal(u, m)[i].text = Text(Equal(hs, m)[i].content)
                 \/ Equal(u, m)[i].text = Via /\ m \in message.rewritten
  <2>1. i \in 1..Len(q) /\ q[i] \in T /\ q[i] \in Z
    BY <1>11, <1>12, <1>14, <1>15, <1>17
  <2>2. Equal(hs, m)[i] = q[i][1] /\ Equal(u, m)[i] = q[i][2]
    BY <1>5, <1>12, <1>13, <1>14, <2>1
  <2>3. /\ q[i][2].name = q[i][1].name
        /\ \/ q[i][2].text = Text(q[i][1].content)
           \/ q[i][2].text = Via /\ q[i][1].name \in message.rewritten
    BY <1>6, <1>7, <2>1
  <2>4. q[i][1].name \in message.rewritten => m \in message.rewritten
    BY <1>16, <2>1
  <2> QED BY <2>2, <2>3, <2>4
<1>18. Equal(u, m) \in Seq(LineSet) /\ Len(Equal(u, m)) = Len(Equal(hs, m))
  <2>1. Equal(u, m) \in Seq(LineSet)
    BY <1>2, LooseNamed, Parts
  <2> QED BY <1>12, <1>13, <1>14, <2>1
<1>19. PICK extra : Appended(extra, m) /\ Equal(lines, m) = Equal(u, m) \o extra
  <2>1. Clean(top) \subseteq HeaderSet
    BY DEF Clean
  <2>2. hs \in Seq(HeaderSet)
    BY <2>1, SeqMonotonic
  <2> QED BY <2>2, EqualAppended DEF lines, u, n
<1>20. Carried(lines, Equal(hs, m), message.rewritten, m, Equal(u, m), extra)
  BY <1>17, <1>18, <1>19 DEF Carried
<1> QED BY <1>20 DEF lines

\* What an intermediary has written is a value without arguments.
LEMMA ValueOfVia ==
  ASSUME NEW name
  PROVE  Value(name, Via) = Simple(Via) /\ Simple(Via) \in LooseContents
<1>1. Via \in Seq(Word) /\ Via = <<Plain("via")>>
  BY ViaType
<1>2. Plain("via") \in PlainPart
  <2>1. \A i \in 1..Len(Via) : Via[i] \in Word
    BY <1>1, LenProperties
  <2>2. Len(Via) = 1 /\ Via[1] = Plain("via")
    BY <1>1
  <2>3. Plain("via") \in Word
    BY <2>1, <2>2
  <2>4. ~IsArgument(Plain("via"))
    BY DEF IsArgument, Plain
  <2> QED BY <2>3, <2>4 DEF PlainPart
<1>3. Via \in Seq(PlainPart)
  BY <1>1, <1>2
<1>4. Picked(Via, PlainPart) = Via
  BY <1>3, PickedAll
<1>5. Picked(Via, ArgumentPart) = <<>>
  <2>1. PlainPart \cap ArgumentPart = {}
    BY DEF PlainPart, ArgumentPart
  <2> QED BY <1>3, <2>1, PickedNone
<1>6. Simple(Via) \in LooseContents
  BY <1>1, LooseSimple
<1>7. Taken(Simple(Via), <<>>) = Simple(Via)
  <2>1. <<>> \in Seq(Word) /\ Len(<<>>) = 0
    BY EmptySeq
  <2>2. PICK F : TakenSteps(Simple(Via), <<>>, F)
    BY <1>6, <2>1, TakenFold
  <2> QED BY <2>1, <2>2 DEF TakenSteps
<1> QED BY <1>1, <1>4, <1>5, <1>6, <1>7, ValueCases

\* The headers that the server's request begins with.
Arrived(lines) == Add(Parse(lines), "__remote_addr", Peer)

LEMMA Arrival ==
  ASSUME NEW lines \in Seq(LineSet)
  PROVE  /\ Arrived(lines) \in Seq(Loose) /\ Sorted(Arrived(lines))
         /\ \A m \in Names : Equal(Arrived(lines), m)
              = IF Rank[m] = Rank["__remote_addr"] THEN <<Header("__remote_addr", Peer)>>
                ELSE IF m \in Underscored THEN <<>> ELSE Image(Equal(lines, m), ParsedLines)
<1> DEFINE hs == Parse(lines)
           name == "__remote_addr"
<1>1. /\ hs \in Seq(Loose) /\ Sorted(hs)
      /\ \A m \in Names : Equal(hs, m)
           = IF m \in Underscored THEN <<>> ELSE Image(Equal(lines, m), ParsedLines)
  BY EqualParse
<1>2. name \in Underscored
  BY RequestAssumption
<1>3. name \in Names /\ \A m \in Names : Rank[m] = Rank[name] => m \in Underscored
  BY <1>2, HeadersAssumption
<1>4. Peer \in LooseContents
  <2>1. Unnamed \in STRING
    BY HeadersAssumption
  <2>2. "peer" \in Texts /\ 0 \in Nat
    BY DEF Texts, Literals
  <2>3. Plain("peer") \in Word
    BY <2>1, <2>2 DEF Plain, Word
  <2>4. <<Plain("peer")>> \in Seq(Word)
    BY <2>3
  <2> QED BY <2>4, LooseSimple DEF Peer
<1>5. Header(name, Peer) \in Loose
  BY <1>3, <1>4 DEF Header, Loose
<1> HIDE DEF name, hs
<1>6. /\ Add(hs, name, Peer) \in Seq(Loose)
      /\ Sorted(hs) => Sorted(Add(hs, name, Peer))
      /\ \A m \in Names : Equal(Add(hs, name, Peer), m)
           = IF Rank[m] = Rank[name] THEN Append(Equal(hs, m), Header(name, Peer))
                                     ELSE Equal(hs, m)
  BY <1>1, <1>3, <1>5, LooseNamed, AddHeaders
<1>7. \A m \in Names : Rank[m] = Rank[name] => Equal(hs, m) = <<>>
  BY <1>1, <1>3
<1>8. Append(<<>>, Header(name, Peer)) = <<Header(name, Peer)>>
  OBVIOUS
<1> QED BY <1>1, <1>6, <1>7, <1>8 DEF Arrived, name, hs

\* A header as it is when it arrives.
Delivered(g, h, touched) ==
  \/ g = Header(ValueName(h.name), Value(h.name, Text(h.content)))
  \/ touched /\ g = Header(ValueName(h.name), Simple(Via))

LEMMA HeadersDelivered ==
  ASSUME NEW top, NEW hs \in Seq(Clean(top)), NEW message, OnWire(message, hs),
         NEW m \in Names \ Underscored
  PROVE  LET g == Equal(Arrived(message.lines), m)
             h == Equal(hs, m)
         IN /\ h \in Seq(Clean(top)) /\ g \in Seq(Loose)
            /\ Len(h) \in Nat /\ Len(g) \in Nat /\ Len(h) <= Len(g)
            /\ \A i \in 1..Len(h) : Delivered(g[i], h[i], m \in message.rewritten)
            /\ \A i \in 1..Len(g) : i > Len(h) => g[i].content = Simple(Via)
            /\ (\A name \in Touchable : Rank[m] # Rank[name]) => Len(g) = Len(h)
<1> DEFINE lines == message.lines
           g == Equal(Arrived(lines), m)
           h == Equal(hs, m)
<1>1. lines \in Seq(LineSet)
  BY DEF OnWire
<1>2. m \in Names /\ m \notin Underscored /\ Rank[m] # Rank["__remote_addr"]
  <2>1. "__remote_addr" \in Underscored
    BY RequestAssumption
  <2> QED BY <2>1, HeadersAssumption
<1>3. g = Image(Equal(lines, m), ParsedLines)
  BY <1>1, <1>2, Arrival
<1>4. PICK kept, extra : Carried(lines, h, message.rewritten, m, kept, extra)
  BY LinesCarried
<1>5. h \in Seq(Clean(top)) /\ g \in Seq(Loose)
  BY <1>1, Arrival, CleanNamed, LooseNamed, Parts
<1> HIDE DEF lines, g, h
<1>6. /\ kept \in Seq(LineSet) /\ extra \in Seq(LineSet) /\ Len(kept) = Len(h)
      /\ Equal(lines, m) = kept \o extra
  BY <1>4 DEF Carried, Appended
<1> DEFINE all == kept \o extra
<1>7. /\ all \in Seq(LineSet) /\ Len(all) = Len(kept) + Len(extra)
      /\ Len(kept) \in Nat /\ Len(extra) \in Nat
      /\ \A i \in 1..(Len(kept) + Len(extra)) :
           all[i] = IF i <= Len(kept) THEN kept[i] ELSE extra[i - Len(kept)]
  BY <1>6, ConcatProperties, LenProperties
<1>8. g = Image(all, ParsedLines)
  BY <1>3, <1>6
<1> HIDE DEF all
<1>9. Len(g) = Len(all) /\ \A i \in 1..Len(all) : g[i] = ParsedLines[all[i]]
  <2>1. \A u \in Seq(LineSet) :
          /\ Len(Image(u, ParsedLines)) = Len(u)
          /\ \A i \in 1..Len(u) : Image(u, ParsedLines)[i] = ParsedLines[u[i]]
    BY ImageElements
  <2> QED BY <1>7, <1>8, <2>1
<1>10. \A i \in 1..Len(all) : g[i] = Parsed(all[i])
  <2>1. \A i \in 1..Len(all) : all[i] \in LineSet
    BY <1>7, LenProperties
  <2> QED BY <1>9, <2>1 DEF ParsedLines
<1>11. ASSUME NEW i \in 1..Len(h) PROVE Delivered(g[i], h[i], m \in message.rewritten)
  <2>1. i \in 1..Len(all) /\ all[i] = kept[i]
    BY <1>6, <1>7
  <2>2. g[i] = Header(ValueName(kept[i].name), Value(kept[i].name, kept[i].text))
    BY <1>10, <2>1 DEF Parsed
  <2>3. /\ kept[i].name = h[i].name
        /\ \/ kept[i].text = Text(h[i].content)
           \/ kept[i].text = Via /\ m \in message.rewritten
    BY <1>4 DEF Carried
  <2>4. Value(h[i].name, Via) = Simple(Via)
    BY ValueOfVia
  <2> QED BY <2>2, <2>3, <2>4 DEF Delivered
<1>12. ASSUME NEW i \in 1..Len(g), i > Len(h) PROVE g[i].content = Simple(Via)
  <2>1. i - Len(kept) \in 1..Len(extra) /\ all[i] = extra[i - Len(kept)] /\ i \in 1..Len(all)
    BY <1>6, <1>7, <1>9, <1>12
  <2>2. extra[i - Len(kept)].text = Via
    BY <1>4, <2>1 DEF Carried, Appended
  <2>3. g[i] = Header(ValueName(all[i].name), Value(all[i].name, Via))
    BY <1>10, <2>1, <2>2 DEF Parsed
  <2> QED BY <2>3, ValueOfVia DEF Header
<1>13. (\A name \in Touchable : Rank[m] # Rank[name]) => Len(g) = Len(h)
  <2>1. (\A name \in Touchable : Rank[m] # Rank[name]) => extra = <<>>
    BY <1>4 DEF Carried, Appended
  <2>2. extra = <<>> => Len(extra) = 0
    BY EmptySeq
  <2> QED BY <1>6, <1>7, <1>9, <2>1, <2>2
<1>14. Len(h) \in Nat /\ Len(g) \in Nat /\ Len(h) <= Len(g)
  BY <1>6, <1>7, <1>9
<1> QED BY <1>5, <1>11, <1>12, <1>13, <1>14 DEF g, h, lines

\* No word gets a number on the way.
LEMMA NumbersOfValue ==
  ASSUME NEW c \in Contents, NEW top \in Nat, \A i \in 1..Len(c.value) : c.value[i].n <= top,
         NEW name
  PROVE  LET value == Value(name, Text(c)).value IN \A i \in 1..Len(value) : value[i].n <= top
<1>1. CASE name \in Divided
  BY <1>1, ValueOfText
<1>2. CASE name \notin Divided
  <2> DEFINE D == DOMAIN c.subvalues
             A == [k \in D |-> Argument(k, c.subvalues[k])]
             args == Arguments(c)
             value == c.value \o args
  <2>1. \A k \in D : A[k].n = 0
    BY DEF Argument
  <2>2. /\ c.value \in Seq(PlainPart) /\ args \in Seq(ArgumentPart) /\ Text(c) = value
    BY TextParts
  <2>3. ArgumentNames(c) \in Seq(D)
    BY ArgumentNamesType
  <2>4. \A i \in 1..Len(args) : args[i].n = 0
    <3> HIDE DEF A, D
    <3>1. args = Image(ArgumentNames(c), A)
      BY DEF Arguments, A, D
    <3>2. \A i \in 1..Len(ArgumentNames(c)) : ArgumentNames(c)[i] \in D
      BY <2>3, LenProperties
    <3>3. /\ Len(Image(ArgumentNames(c), A)) = Len(ArgumentNames(c))
          /\ \A i \in 1..Len(ArgumentNames(c)) :
               Image(ArgumentNames(c), A)[i] = A[ArgumentNames(c)[i]]
      BY <2>3, ImageElements
    <3> HIDE DEF args
    <3> QED BY <2>1, <3>1, <3>2, <3>3
  <2>5. Value(name, Text(c)).value = Text(c)
    <3>1. Text(c) \in Seq(Word)
      BY TextType
    <3>2. Value(name, Text(c)) = Simple(Text(c))
      BY <1>2, <3>1, ValueCases
    <3> QED BY <3>2 DEF Simple, Content
  <2> HIDE DEF args
  <2>6. /\ Len(value) = Len(c.value) + Len(args) /\ Len(c.value) \in Nat /\ Len(args) \in Nat
        /\ \A i \in 1..(Len(c.value) + Len(args)) :
             value[i] = IF i <= Len(c.value) THEN c.value[i] ELSE args[i - Len(c.value)]
    <3>1. \A a \in Seq(PlainPart), b \in Seq(ArgumentPart) :
            a \in Seq(PlainPart \cup ArgumentPart) /\ b \in Seq(PlainPart \cup ArgumentPart)
      BY SeqMonotonic
    <3> QED BY <2>2, <3>1, ConcatProperties, LenProperties
  <2> HIDE DEF value
  <2>7. ASSUME NEW i \in 1..Len(value) PROVE value[i].n <= top
    <3>1. CASE i <= Len(c.value)
      BY <2>6, <2>7, <3>1
    <3>2. CASE i > Len(c.value)
      <4>1. i - Len(c.value) \in 1..Len(args) /\ value[i] = args[i - Len(c.value)]
        BY <2>6, <2>7, <3>2
      <4> QED BY <2>4, <4>1, SMTT(20)
    <3> QED BY <2>6, <2>7, <3>1, <3>2
  <2> QED BY <2>2, <2>5, <2>7
<1> QED BY <1>1, <1>2

\* The first header of a name, as the server has it.
LEMMA FirstDelivered ==
  ASSUME NEW top \in Nat, NEW hs \in Seq(Clean(top)), NEW message, OnWire(message, hs),
         NEW m \in Names \ Underscored
  PROVE  LET got == Arrived(message.lines) IN
           /\ Exists(hs, m) => Exists(got, m)
           /\ Text(Get(got, m)) \in {Text(Get(hs, m)), Via}
           /\ /\ m \notin message.rewritten
              /\ Exists(hs, m) \/ \A name \in Touchable : Rank[m] # Rank[name]
              => Text(Get(got, m)) = Text(Get(hs, m))
           /\ m \notin message.rewritten /\ Exists(hs, m) =>
                Get(got, m) = Value(Equal(hs, m)[1].name, Text(Get(hs, m)))
           /\ Rank[m] = Rank["Authorization"] =>
                \A i \in 1..Len(Get(got, m).value) : Get(got, m).value[i].n <= top
<1> DEFINE got == Arrived(message.lines)
           g == Equal(got, m)
           h == Equal(hs, m)
           touched == m \in message.rewritten
           same == \A name \in Touchable : Rank[m] # Rank[name]
<1>1. /\ h \in Seq(Clean(top)) /\ g \in Seq(Loose)
      /\ Len(h) \in Nat /\ Len(g) \in Nat /\ Len(h) <= Len(g)
      /\ \A i \in 1..Len(h) : Delivered(g[i], h[i], touched)
      /\ \A i \in 1..Len(g) : i > Len(h) => g[i].content = Simple(Via)
      /\ same => Len(g) = Len(h)
  BY HeadersDelivered
<1>2. /\ Get(got, m) = IF g # <<>> THEN g[1].content ELSE NoContent
      /\ Get(hs, m) = IF h # <<>> THEN h[1].content ELSE NoContent
      /\ Exists(got, m) = (g # <<>>) /\ Exists(hs, m) = (h # <<>>)
  BY DEF Get, Exists
<1>3. \A i \in 1..Len(h) : Rank[h[i].name] = Rank[m]
  BY CleanNamed, Parts, ZenonT(60)
<1> HIDE DEF got, g, h, touched, same
<1>4. /\ h = <<>> <=> Len(h) = 0
      /\ g = <<>> <=> Len(g) = 0
  BY <1>1, EmptySeq
<1>5. Text(Simple(Via)) = Via /\ Text(NoContent) = <<>>
  <2>1. <<>> \in Seq(Word)
    BY EmptySeq
  <2> QED BY <2>1, ViaType, TextOfSimple DEF NoContent
<1>6. /\ \A i \in 1..Len(Simple(Via).value) : Simple(Via).value[i].n <= top
      /\ \A i \in 1..Len(NoContent.value) : NoContent.value[i].n <= top
  <2>1. Simple(Via).value = <<Plain("via")>> /\ Plain("via").n = 0
    BY DEF Simple, Content, Via, Plain
  <2>2. Len(<<Plain("via")>>) = 1 /\ <<Plain("via")>>[1] = Plain("via")
    OBVIOUS
  <2>3. Len(<<>>) = 0 /\ NoContent.value = <<>>
    BY DEF NoContent, Simple, Content
  <2> QED BY <2>1, <2>2, <2>3
<1>7. CASE h # <<>>
  <2>1. 1 \in 1..Len(h) /\ g # <<>>
    BY <1>1, <1>4, <1>7
  <2> DEFINE c == h[1].content
             name == h[1].name
  <2>2. /\ c \in Contents /\ c.value # Via
        /\ Rank[name] = Rank["Authorization"] =>
             \A i \in 1..Len(c.value) : c.value[i].n <= top
    <3>1. h[1] \in Clean(top)
      BY <1>1, <2>1, LenProperties
    <3> QED BY <3>1, CleanParts
  <2>3. Delivered(g[1], h[1], touched)
    BY <1>1, <2>1
  <2>4. \/ g[1].content = Value(name, Text(c))
        \/ touched /\ g[1].content = Simple(Via)
    BY <2>3 DEF Delivered, Header
  <2>5. Text(Value(name, Text(c))) = Text(c)
    BY <2>2, TextOfValue
  <2>6. ASSUME Rank[m] = Rank["Authorization"]
        PROVE  \A i \in 1..Len(Value(name, Text(c)).value) : Value(name, Text(c)).value[i].n <= top
    <3>1. Rank[name] = Rank[m]
      BY <1>3, <2>1
    <3>2. \A i \in 1..Len(c.value) : c.value[i].n <= top
      BY <2>2, <2>6, <3>1
    <3> QED BY <2>2, <3>2, NumbersOfValue
  <2>7. Get(got, m) = g[1].content /\ Get(hs, m) = c
    BY <1>2, <1>7, <2>1
  <2> HIDE DEF c, name
  <2>8. touched <=> m \in message.rewritten
    BY DEF touched
  <2> QED BY <1>2, <1>5, <1>6, <1>7, <2>1, <2>4, <2>5, <2>6, <2>7, <2>8 DEF got, h, name
<1>8. CASE h = <<>>
  <2>1. Get(hs, m) = NoContent /\ ~Exists(hs, m) /\ Len(h) = 0
    BY <1>2, <1>4, <1>8
  <2>2. CASE g = <<>>
    <3>1. Get(got, m) = NoContent
      BY <1>2, <2>2
    <3> QED BY <1>6, <2>1, <3>1 DEF got
  <2>3. CASE g # <<>>
    <3>1. 1 \in 1..Len(g) /\ 1 > Len(h)
      BY <1>1, <1>4, <2>1, <2>3
    <3>2. Get(got, m) = Simple(Via) /\ ~same
      BY <1>1, <1>2, <1>4, <2>1, <2>3, <3>1
    <3> QED BY <1>5, <1>6, <2>1, <3>2 DEF got, same
  <2> QED BY <2>2, <2>3
<1> QED BY <1>7, <1>8 DEF got, touched, same

-----------------------------------------------------------------------------
(***************************************************************************)
(* What the user agent makes of the headers.                               *)
(***************************************************************************)
CleanHeaders(hs, top) == hs \in Seq(Clean(top)) /\ Sorted(hs)

LEMMA CleanGrows ==
  ASSUME NEW a \in Nat, NEW b \in Nat, a <= b, NEW hs, CleanHeaders(hs, a)
  PROVE  CleanHeaders(hs, b)
<1>1. Clean(a) \subseteq Clean(b)
  <2> SUFFICES ASSUME NEW h \in Clean(a) PROVE h \in Clean(b)
    OBVIOUS
  <2> DEFINE c == h.content
  <2>1. /\ h = Header(h.name, c) /\ h.name \in Names /\ c \in Contents /\ c.value # Via
        /\ Rank[h.name] = Rank["Authorization"] => \A i \in 1..Len(c.value) : c.value[i].n <= a
    BY CleanParts
  <2>2. \A i \in 1..Len(c.value) : c.value[i].n \in Nat
    <3>1. \A i \in 1..Len(c.value) : c.value[i] \in PlainWord
      BY <2>1, ContentParts, LenProperties
    <3> QED BY <3>1 DEF PlainWord
  <2> HIDE DEF c
  <2>3. Rank[h.name] = Rank["Authorization"] => \A i \in 1..Len(c.value) : c.value[i].n <= b
    BY <2>1, <2>2
  <2>4. Header(h.name, c) \in Clean(b)
    BY <2>1, <2>3, CleanType
  <2> QED BY <2>1, <2>4
<1> QED BY <1>1, SeqMonotonic DEF CleanHeaders

LEMMA SetClean ==
  ASSUME NEW top, NEW hs, CleanHeaders(hs, top), NEW name \in Names, NEW c \in Contents,
         c.value # Via,
         Rank[name] = Rank["Authorization"] => \A i \in 1..Len(c.value) : c.value[i].n <= top
  PROVE  /\ CleanHeaders(Set(hs, name, c), top) /\ CleanHeaders(Add(hs, name, c), top)
         /\ \A m \in Names : Equal(Set(hs, name, c), m)
              = IF Rank[m] = Rank[name] THEN <<Header(name, c)>> ELSE Equal(hs, m)
<1>1. Header(name, c) \in Clean(top)
  BY CleanType
<1>2. hs \in Seq(Clean(top)) /\ Sorted(hs)
  BY DEF CleanHeaders
<1> QED BY <1>1, <1>2, CleanNamed, SetHeaders, AddHeaders DEF CleanHeaders

LEMMA Words ==
  \A text \in Texts, n \in Nat : /\ Plain(text) \in PlainWord /\ Plain(text).text = text
                                 /\ Number(text, n) \in PlainWord /\ Number(text, n).text = text
                                 /\ Number(text, n).n = n
BY DEF Plain, Number, PlainWord

\* A header of one word.
LEMMA SetWord ==
  ASSUME NEW top, NEW hs, CleanHeaders(hs, top), NEW name \in Names,
         Rank[name] # Rank["Authorization"], NEW w \in PlainWord, w.text # "via"
  PROVE  CleanHeaders(Set(hs, name, Simple(<<w>>)), top)
<1> DEFINE value == <<w>>
<1>1. value \in Seq(PlainWord)
  OBVIOUS
<1>2. value # Via
  <2>1. value[1] = w /\ Via[1].text = "via"
    BY DEF Via, Plain
  <2> QED BY <2>1
<1> HIDE DEF value
<1>3. Simple(value) \in Contents /\ Simple(value).value = value
  BY <1>1, SimpleType
<1> DEFINE c == Simple(value)
<1> HIDE DEF c
<1>4. c \in Contents /\ c.value # Via
  BY <1>2, <1>3 DEF c
<1>5. CleanHeaders(Set(hs, name, c), top)
  BY <1>4, SetClean
<1> QED BY <1>5 DEF c, value

LEMMA OwnNames ==
  /\ \A name \in Own : name \in Names /\ Rank[name] # Rank["Authorization"]
  /\ Stamps \subseteq Names \ Underscored
  /\ Rank["X-FOST-Headers"] # Rank["Authorization"]
  /\ Rank["X-FOST-Timestamp"] # Rank["Authorization"]
  /\ Rank["X-FOST-Headers"] # Rank["X-FOST-Timestamp"]
<1>1. \A name \in Own : name \in Names /\ Rank[name] # Rank["Authorization"]
  BY RequestAssumption
<1>2. /\ Stamps \subseteq Names \ Underscored
      /\ \A m \in Stamps, n \in Stamps : Rank[m] = Rank[n] => m = n
  BY AuthenticationAssumption
<1>3. /\ "X-FOST-Headers" \in Stamps /\ "X-FOST-Timestamp" \in Stamps /\ "Authorization" \in Stamps
      /\ "X-FOST-Headers" # "Authorization" /\ "X-FOST-Timestamp" # "Authorization"
      /\ "X-FOST-Headers" # "X-FOST-Timestamp"
  BY DEF Stamps
<1> QED BY <1>1, <1>2, <1>3

LEMMA OwnHeader ==
  ASSUME NEW top, NEW hs, CleanHeaders(hs, top), NEW name \in Own,
         NEW w, \/ \E t \in Texts : t # "via" /\ w = Plain(t)
                \/ \E t \in Texts, n \in Nat : t # "via" /\ w = Number(t, n)
  PROVE  CleanHeaders(Set(hs, name, Simple(<<w>>)), top)
<1>1. w \in PlainWord /\ w.text # "via"
  BY Words
<1> QED BY <1>1, OwnNames, SetWord

LEMMA MimeHeadersClean ==
  ASSUME NEW blocks, Len(blocks) \in Nat, NEW top \in Nat
  PROVE  CleanHeaders(MimeHeaders(blocks), top)
<1>1. CleanHeaders(<<>>, top)
  BY EmptySeq DEF CleanHeaders, Sorted
<1>2. /\ "type" \in Texts /\ "type" # "via" /\ "length" \in Texts /\ "length" # "via"
      /\ "8bit" \in Texts /\ "8bit" # "via" /\ "utf-8" \in Texts
  BY DEF Texts, Literals
<1>3. "Content-Type" \in Own /\ "Content-Length" \in Own /\ "Content-Transfer-Encoding" \in Own
  BY DEF Own
<1> DEFINE one == Set(<<>>, "Content-Type", Simple(<<Plain("type")>>))
           two == Set(one, "Content-Length", Simple(<<Number("length", Len(blocks))>>))
           three == SetSubvalue(two, "Content-Type", "charset", "utf-8")
           four == Set(three, "Content-Transfer-Encoding", Simple(<<Plain("8bit")>>))
<1>4. CleanHeaders(one, top)
  BY <1>1, <1>2, <1>3, OwnHeader
<1> HIDE DEF one
<1>5. CleanHeaders(two, top)
  BY <1>2, <1>3, <1>4, OwnHeader
<1> HIDE DEF two
<1>6. CleanHeaders(three, top)
  <2>1. "Content-Type" \in Names /\ "charset" \in ToSet(SubNames)
    BY <1>3, OwnNames, RequestAssumption
  <2>2. two \in Seq(Clean(top)) /\ Sorted(two)
    BY <1>5 DEF CleanHeaders
  <2> QED BY <1>2, <2>1, <2>2, SubvalueHeaders DEF CleanHeaders
<1> HIDE DEF three
<1>7. CleanHeaders(four, top)
  BY <1>2, <1>3, <1>6, OwnHeader
<1>8. MimeHeaders(blocks) = IF blocks = <<>> THEN two ELSE four
  BY DEF MimeHeaders, one, two, three
<1> QED BY <1>5, <1>7, <1>8

LEMMA CompletedClean ==
  ASSUME NEW top \in Nat, NEW hs, CleanHeaders(hs, top), now \in Nat,
         address.host \in STRING \ {"via"}
  PROVE  CleanHeaders(Completed(hs), top)
<1>1. /\ "date" \in Texts /\ "date" # "via" /\ "agent" \in Texts /\ "agent" # "via"
      /\ "trailers" \in Texts /\ "trailers" # "via"
      /\ address.host \in Texts /\ address.host # "via"
  BY DEF Texts, Literals
<1>2. "Date" \in Own /\ "Host" \in Own /\ "User-Agent" \in Own /\ "TE" \in Own
  BY DEF Own
<1>3. ASSUME NEW given, CleanHeaders(given, top), NEW name, NEW content,
             CleanHeaders(Set(given, name, content), top)
      PROVE  CleanHeaders(Default(given, name, content), top)
  BY <1>3 DEF Default
<1> DEFINE one == Default(hs, "Date", Simple(<<Number("date", now)>>))
           two == Default(one, "Host", Simple(<<Plain(address.host)>>))
           three == Default(two, "User-Agent", Simple(<<Plain("agent")>>))
           four == Set(three, "TE", Simple(<<Plain("trailers")>>))
<1>4. CleanHeaders(one, top)
  <2>1. CleanHeaders(Set(hs, "Date", Simple(<<Number("date", now)>>)), top)
    BY <1>1, <1>2, OwnHeader
  <2> QED BY <1>3, <2>1
<1> HIDE DEF one
<1>5. CleanHeaders(two, top)
  <2>1. CleanHeaders(Set(one, "Host", Simple(<<Plain(address.host)>>)), top)
    BY <1>1, <1>2, <1>4, OwnHeader
  <2> QED BY <1>3, <1>4, <2>1
<1> HIDE DEF two
<1>6. CleanHeaders(three, top)
  <2>1. CleanHeaders(Set(two, "User-Agent", Simple(<<Plain("agent")>>)), top)
    BY <1>1, <1>2, <1>5, OwnHeader
  <2> QED BY <1>3, <1>5, <2>1
<1> HIDE DEF three
<1>7. CleanHeaders(four, top)
  BY <1>1, <1>2, <1>6, OwnHeader
<1> QED BY <1>7 DEF Completed, one, two, three

-----------------------------------------------------------------------------
(***************************************************************************)
(* Signatures.                                                             *)
(***************************************************************************)
LEMMA GetClean ==
  ASSUME NEW top, NEW hs, CleanHeaders(hs, top), NEW m \in Names
  PROVE  /\ Get(hs, m) \in Contents /\ Get(hs, m).value # Via
         /\ Get(hs, m).value \in Seq(PlainWord)
         /\ Exists(hs, m) => Get(hs, m) = Equal(hs, m)[1].content
         /\ ~Exists(hs, m) => Get(hs, m) = NoContent
<1> DEFINE these == Equal(hs, m)
<1>1. these \in Seq(Clean(top))
  BY CleanNamed, Parts DEF CleanHeaders
<1>2. NoContent \in Contents /\ NoContent.value # Via
  <2>1. NoContent \in Contents
    BY NothingClean
  <2>2. NoContent.value = <<>> /\ <<>> # Via
    BY DEF NoContent, Simple, Content, Via
  <2> QED BY <2>1, <2>2
<1>3. /\ Exists(hs, m) => these # <<>> /\ Get(hs, m) = these[1].content
      /\ ~Exists(hs, m) => Get(hs, m) = NoContent
  BY DEF Get, Exists
<1> HIDE DEF these
<1>4. ASSUME these # <<>> PROVE these[1].content \in Contents /\ these[1].content.value # Via
  <2>1. 1 \in 1..Len(these)
    BY <1>1, <1>4, EmptySeq, LenProperties
  <2>2. these[1] \in Clean(top)
    BY <1>1, <2>1, LenProperties
  <2> QED BY <2>2, CleanParts
<1> QED BY <1>2, <1>3, <1>4, ContentParts DEF these

LEMMA ListedType ==
  ASSUME NEW names \in Seq(Names)
  PROVE  LET list == Listed(ListedNames(names)) IN
           /\ list \in Contents /\ list = Simple(list.value)
           /\ list.value \in Seq(PlainWord) /\ list.value # Via
           /\ Len(names) \in Nat /\ DOMAIN names = 1..Len(names)
           /\ Len(list.value) = Len(names) + 1
           /\ list.value[1] = Plain("X-FOST-Headers")
           /\ \A i \in 1..Len(names) : list.value[i + 1] = Plain(names[i])
<1> DEFINE Y == Names \cup {"X-FOST-Headers"}
           all == ListedNames(names)
           F == [text \in Y |-> Plain(text)]
           value == [i \in DOMAIN all |-> Plain(all[i])]
<1>1. Y \subseteq Texts
  BY DEF Texts, Literals
<1>2. /\ all \in Seq(Y) /\ Len(all) = Len(names) + 1
      /\ all[1] = "X-FOST-Headers" /\ \A i \in 1..Len(names) : all[i + 1] = names[i]
      /\ Len(names) \in Nat /\ DOMAIN names = 1..Len(names)
  <2> DEFINE w == <<"X-FOST-Headers">>
  <2>1. w \in Seq(Y) /\ Len(w) = 1 /\ w[1] = "X-FOST-Headers"
    OBVIOUS
  <2>2. names \in Seq(Y)
    <3>1. Names \subseteq Y
      OBVIOUS
    <3> HIDE DEF Y
    <3> QED BY <3>1, SeqMonotonic
  <2> HIDE DEF w, Y
  <2>3. \A a \in Seq(Y), b \in Seq(Y) :
          /\ a \o b \in Seq(Y) /\ Len(a \o b) = Len(a) + Len(b)
          /\ \A i \in 1..(Len(a) + Len(b)) :
               (a \o b)[i] = IF i <= Len(a) THEN a[i] ELSE b[i - Len(a)]
    BY ConcatProperties
  <2>4. Len(names) \in Nat /\ DOMAIN names = 1..Len(names)
    BY LenProperties
  <2>5. all = w \o names
    BY DEF ListedNames, w
  <2> HIDE DEF all
  <2>6. \A i \in 1..Len(names) : i + 1 \in 1..(1 + Len(names)) /\ ~(i + 1 <= 1) /\ i + 1 - 1 = i
    BY <2>4
  <2>7. 1 \in 1..(1 + Len(names)) /\ 1 <= 1
    BY <2>4
  <2>8. /\ all \in Seq(Y) /\ Len(all) = 1 + Len(names)
        /\ \A i \in 1..(1 + Len(names)) : all[i] = IF i <= 1 THEN w[i] ELSE names[i - 1]
    <3>1. /\ w \o names \in Seq(Y) /\ Len(w \o names) = Len(w) + Len(names)
          /\ \A i \in 1..(Len(w) + Len(names)) :
               (w \o names)[i] = IF i <= Len(w) THEN w[i] ELSE names[i - Len(w)]
      BY <2>1, <2>2, <2>3
    <3> QED BY <2>1, <2>5, <3>1
  <2>9. all[1] = "X-FOST-Headers" /\ \A i \in 1..Len(names) : all[i + 1] = names[i]
    BY <2>1, <2>6, <2>7, <2>8
  <2> QED BY <2>4, <2>8, <2>9
<1> HIDE DEF all
<1>3. DOMAIN all = 1..Len(all) /\ \A i \in 1..Len(all) : all[i] \in Y
  BY <1>2, LenProperties
<1>4. value = Image(all, F)
  BY <1>3 DEF Image
<1>5. \A x \in Y : F[x] = Plain(x) /\ F[x] \in PlainWord
  <2>1. \A x \in Y : x \in Texts /\ 0 \in Nat
    BY <1>1
  <2> HIDE DEF Y
  <2> QED BY <2>1, Words
<1> HIDE DEF F, Y
<1>6. /\ Image(all, F) \in Seq(PlainWord) /\ Len(Image(all, F)) = Len(all)
      /\ \A i \in 1..Len(all) : Image(all, F)[i] = F[all[i]]
  <2>1. \A x \in Y : F[x] \in PlainWord
    BY <1>5
  <2>2. Image(all, F) \in Seq(PlainWord)
    BY <1>2, <2>1, ImageType, Zenon
  <2> QED BY <1>2, <2>2, ImageElements
<1> HIDE DEF value
<1>7. /\ value \in Seq(PlainWord) /\ Len(value) = Len(names) + 1
      /\ value[1] = Plain("X-FOST-Headers")
      /\ \A i \in 1..Len(names) : value[i + 1] = Plain(names[i])
  BY <1>2, <1>3, <1>4, <1>5, <1>6
<1>8. value # Via
  <2>1. Via[1].text = "via" /\ Plain("X-FOST-Headers").text = "X-FOST-Headers"
    BY DEF Via, Plain
  <2> QED BY <1>7, <2>1
<1>9. Listed(all) = Simple(value)
  BY DEF Listed, value
<1>10. Simple(value) \in Contents /\ Simple(value).value = value
  BY <1>7, SimpleType
<1> QED BY <1>2, <1>7, <1>8, <1>9, <1>10 DEF all

Authorization(key, digest) == Simple(<<Plain("FOST"), Number(key, digest)>>)
Timestamp(time) == Simple(<<Number("time", time)>>)

LEMMA StampTypes ==
  ASSUME NEW key \in STRING, NEW time \in Nat, NEW digest \in Nat
  PROVE  /\ Authorization(key, digest) \in Contents /\ Timestamp(time) \in Contents
         /\ Authorization(key, digest).value = <<Plain("FOST"), Number(key, digest)>>
         /\ Timestamp(time).value = <<Number("time", time)>>
         /\ Authorization(key, digest).value # Via /\ Timestamp(time).value # Via
         /\ \A i \in 1..Len(Authorization(key, digest).value) :
              Authorization(key, digest).value[i].n <= digest
<1> DEFINE a == <<Plain("FOST"), Number(key, digest)>>
           t == <<Number("time", time)>>
<1>1. "FOST" \in Texts /\ "time" \in Texts /\ key \in Texts /\ 0 \in Nat
  BY DEF Texts, Literals
<1>2. Plain("FOST") \in PlainWord /\ Number(key, digest) \in PlainWord /\ Number("time", time) \in PlainWord
  BY <1>1, Words
<1>3. /\ a \in Seq(PlainWord) /\ Len(a) = 2 /\ a[1] = Plain("FOST") /\ a[2] = Number(key, digest)
      /\ t \in Seq(PlainWord) /\ Len(t) = 1 /\ t[1] = Number("time", time)
  BY <1>2
<1>4. a # Via /\ t # Via
  <2>1. /\ Via[1].text = "via" /\ Plain("FOST").text = "FOST" /\ Number("time", time).text = "time"
    BY DEF Via, Plain, Number
  <2> QED BY <1>3, <2>1
<1>5. Plain("FOST").n = 0 /\ Number(key, digest).n = digest
  BY DEF Plain, Number
<1> HIDE DEF a, t
<1>6. \A i \in 1..Len(a) : a[i].n <= digest
  BY <1>3, <1>5
<1>7. /\ Simple(a) \in Contents /\ Simple(a).value = a
      /\ Simple(t) \in Contents /\ Simple(t).value = t
  BY <1>3, SimpleType
<1> QED BY <1>4, <1>6, <1>7 DEF a, t, Authorization, Timestamp

LEMMA SignedHeaders ==
  ASSUME NEW given, NEW top \in Nat, CleanHeaders(given, top), NEW key \in STRING,
         NEW names \in Seq(Names), NEW time \in Nat, NEW digest \in Nat, digest <= top
  PROVE  LET hs == Signed(given, key, names, time, digest)
             stamped == Stamped(given, time)
         IN /\ CleanHeaders(hs, top) /\ CleanHeaders(stamped, top)
            /\ Equal(hs, "Authorization") = <<Header("Authorization", Authorization(key, digest))>>
            /\ Equal(hs, "X-FOST-Headers")
                 = <<Header("X-FOST-Headers", Listed(ListedNames(names)))>>
            /\ Equal(hs, "X-FOST-Timestamp") = <<Header("X-FOST-Timestamp", Timestamp(time))>>
            /\ \A m \in Names :
                 Rank[m] # Rank["X-FOST-Headers"] /\ Rank[m] # Rank["Authorization"] =>
                   Equal(hs, m) = Equal(stamped, m)
<1> DEFINE list == Listed(ListedNames(names))
           stamp == Timestamp(time)
           auth == Authorization(key, digest)
           one == Set(given, "X-FOST-Timestamp", stamp)
           two == Set(one, "X-FOST-Headers", list)
           three == Set(two, "Authorization", auth)
<1>1. /\ list \in Contents /\ list.value # Via /\ stamp \in Contents /\ stamp.value # Via
      /\ auth \in Contents /\ auth.value # Via /\ \A i \in 1..Len(auth.value) : auth.value[i].n <= digest
  BY ListedType, StampTypes
<1>2. /\ "X-FOST-Headers" \in Names /\ "X-FOST-Timestamp" \in Names /\ "Authorization" \in Names
      /\ Rank["X-FOST-Headers"] # Rank["Authorization"]
      /\ Rank["X-FOST-Timestamp"] # Rank["Authorization"]
      /\ Rank["X-FOST-Headers"] # Rank["X-FOST-Timestamp"]
  BY OwnNames DEF Stamps
<1>3. \A i \in 1..Len(auth.value) : auth.value[i].n <= top
  <2>1. \A i \in 1..Len(auth.value) : auth.value[i].n \in Nat
    <3>1. auth.value \in Seq(PlainWord)
      BY <1>1, ContentParts
    <3> HIDE DEF auth
    <3>2. \A i \in 1..Len(auth.value) : auth.value[i] \in PlainWord
      BY <3>1, LenProperties
    <3> QED BY <3>2 DEF PlainWord
  <2> HIDE DEF auth
  <2> QED BY <1>1, <2>1
<1> HIDE DEF list, stamp, auth
<1>4. /\ CleanHeaders(one, top)
      /\ \A m \in Names : Equal(one, m) = IF Rank[m] = Rank["X-FOST-Timestamp"]
                            THEN <<Header("X-FOST-Timestamp", stamp)>> ELSE Equal(given, m)
  <2>1. ASSUME NEW name \in Names, NEW c \in Contents, c.value # Via,
               Rank[name] # Rank["Authorization"]
        PROVE  /\ CleanHeaders(Set(given, name, c), top)
               /\ \A m \in Names : Equal(Set(given, name, c), m)
                    = IF Rank[m] = Rank[name] THEN <<Header(name, c)>> ELSE Equal(given, m)
    BY <2>1, SetClean
  <2>2. stamp \in Contents /\ stamp.value # Via
    BY <1>1
  <2>3. "X-FOST-Timestamp" \in Names /\ Rank["X-FOST-Timestamp"] # Rank["Authorization"]
    BY <1>2
  <2> QED BY <2>1, <2>2, <2>3
<1>5. one = Stamped(given, time)
  BY DEF Stamped, stamp, Timestamp
<1> HIDE DEF one
<1>6. /\ CleanHeaders(two, top)
      /\ \A m \in Names : Equal(two, m) = IF Rank[m] = Rank["X-FOST-Headers"]
                            THEN <<Header("X-FOST-Headers", list)>> ELSE Equal(one, m)
  <2>1. ASSUME NEW name \in Names, NEW c \in Contents, c.value # Via,
               Rank[name] # Rank["Authorization"]
        PROVE  /\ CleanHeaders(Set(one, name, c), top)
               /\ \A m \in Names : Equal(Set(one, name, c), m)
                    = IF Rank[m] = Rank[name] THEN <<Header(name, c)>> ELSE Equal(one, m)
    BY <1>4, <2>1, SetClean
  <2>2. list \in Contents /\ list.value # Via
    BY <1>1
  <2>3. "X-FOST-Headers" \in Names /\ Rank["X-FOST-Headers"] # Rank["Authorization"]
    BY <1>2
  <2> QED BY <2>1, <2>2, <2>3
<1>7. two = Set(Stamped(given, time), "X-FOST-Headers", list)
  BY <1>5
<1> HIDE DEF two
<1>8. /\ CleanHeaders(three, top)
      /\ \A m \in Names : Equal(three, m) = IF Rank[m] = Rank["Authorization"]
                            THEN <<Header("Authorization", auth)>> ELSE Equal(two, m)
  <2>1. ASSUME NEW c \in Contents, c.value # Via, \A i \in 1..Len(c.value) : c.value[i].n <= top
        PROVE  /\ CleanHeaders(Set(two, "Authorization", c), top)
               /\ \A m \in Names : Equal(Set(two, "Authorization", c), m)
                    = IF Rank[m] = Rank["Authorization"]
                        THEN <<Header("Authorization", c)>> ELSE Equal(two, m)
    BY <1>2, <1>6, <2>1, SetClean
  <2> QED BY <1>1, <1>3, <2>1
<1>9. three = Signed(given, key, names, time, digest)
  BY <1>7 DEF Signed, auth, Authorization, list
<1> HIDE DEF three
<1> QED BY <1>2, <1>4, <1>5, <1>6, <1>8, <1>9 DEF list, stamp, auth

\* What has been signed for each listed header.
LEMMA SignedValues ==
  ASSUME NEW given, NEW top \in Nat, CleanHeaders(given, top), NEW names \in Seq(Names),
         NEW time \in Nat, NEW method, NEW path, NEW rest
  PROVE  LET values == SignedDocument(method, path, given, names, time, rest).values
             stamped == Stamped(given, time)
         IN /\ values \in Seq(Seq(PlainWord)) /\ DOMAIN values = 1..(Len(names) + 1)
            /\ values[1] = Listed(ListedNames(names)).value
            /\ \A i \in 1..Len(names) : values[i + 1] = Get(stamped, names[i]).value
            /\ \A i \in DOMAIN values : values[i] # Via
<1> DEFINE stamped == Stamped(given, time)
           list == Listed(ListedNames(names)).value
           V == [i \in DOMAIN names |-> Get(stamped, names[i]).value]
           X == Seq(PlainWord)
           w == <<list>>
           values == w \o V
<1>1. CleanHeaders(stamped, top)
  <2>1. Timestamp(time) \in Contents /\ Timestamp(time).value # Via
    <3>1. \A key \in STRING, d \in Nat : Timestamp(time) \in Contents /\ Timestamp(time).value # Via
      BY StampTypes
    <3>2. Unnamed \in STRING /\ 0 \in Nat
      BY HeadersAssumption
    <3> QED BY <3>1, <3>2
  <2>2. "X-FOST-Timestamp" \in Names /\ Rank["X-FOST-Timestamp"] # Rank["Authorization"]
    BY OwnNames DEF Stamps
  <2> DEFINE c == Timestamp(time)
  <2>3. stamped = Set(given, "X-FOST-Timestamp", c)
    BY DEF Stamped, Timestamp
  <2> HIDE DEF c, stamped
  <2>4. CleanHeaders(Set(given, "X-FOST-Timestamp", c), top)
    BY <2>1, <2>2, SetClean DEF c
  <2> QED BY <2>3, <2>4
<1>2. /\ list \in X /\ list # Via /\ Len(names) \in Nat /\ DOMAIN names = 1..Len(names)
  BY ListedType
<1>3. \A i \in 1..Len(names) : names[i] \in Names
  BY LenProperties
<1> HIDE DEF stamped, list
<1>4. \A i \in 1..Len(names) : Get(stamped, names[i]).value \in X /\ Get(stamped, names[i]).value # Via
  BY <1>1, <1>3, GetClean
<1>5. /\ V \in Seq(X) /\ Len(V) = Len(names)
      /\ \A i \in 1..Len(names) : V[i] = Get(stamped, names[i]).value
  <2>1. V \in [1..Len(names) -> X]
    <3> HIDE DEF X
    <3> QED BY <1>2, <1>4
  <2>2. V \in Seq(X)
    <3> HIDE DEF X, V
    <3> QED BY <1>2, <2>1, SeqDef
  <2>3. DOMAIN V = 1..Len(V) /\ Len(V) \in Nat
    <3> HIDE DEF X, V
    <3> QED BY <2>2, LenProperties
  <2>4. DOMAIN V = 1..Len(names)
    BY <1>2
  <2>5. Len(V) = Len(names)
    <3>1. Len(V) \in Nat /\ Len(names) \in Nat /\ 1..Len(V) = 1..Len(names)
      BY <1>2, <2>3, <2>4
    <3> QED BY <3>1, SameUpto
  <2> QED BY <1>2, <2>2, <2>5
<1>6. w \in Seq(X) /\ Len(w) = 1 /\ w[1] = list
  <2> HIDE DEF X
  <2> QED BY <1>2
<1> HIDE DEF V, w, X
<1>7. /\ values \in Seq(X) /\ Len(values) = 1 + Len(names)
      /\ \A i \in 1..(1 + Len(names)) : values[i] = IF i <= 1 THEN w[i] ELSE V[i - 1]
  <2>1. \A a \in Seq(X), b \in Seq(X) :
          /\ a \o b \in Seq(X) /\ Len(a \o b) = Len(a) + Len(b)
          /\ \A i \in 1..(Len(a) + Len(b)) :
               (a \o b)[i] = IF i <= Len(a) THEN a[i] ELSE b[i - Len(a)]
    BY ConcatProperties
  <2> QED BY <1>5, <1>6, <2>1
<1>8. values = SignedDocument(method, path, given, names, time, rest).values
  BY DEF SignedDocument, Document, V, w, list, stamped
<1> HIDE DEF values
<1>9. DOMAIN values = 1..(Len(names) + 1)
  BY <1>2, <1>7, LenProperties
<1>10. \A i \in 1..Len(names) : values[i + 1] = Get(stamped, names[i]).value
  <2> TAKE i \in 1..Len(names)
  <2>1. i + 1 \in 1..(1 + Len(names)) /\ ~(i + 1 <= 1) /\ i + 1 - 1 = i
    BY <1>2
  <2> QED BY <1>5, <1>7, <2>1
<1>11. values[1] = list
  BY <1>2, <1>6, <1>7
<1>12. \A i \in DOMAIN values : values[i] # Via
  <2> TAKE i \in DOMAIN values
  <2>1. CASE i = 1
    BY <1>2, <1>11, <2>1
  <2>2. CASE i # 1
    <3>1. i - 1 \in 1..Len(names) /\ i - 1 + 1 = i
      BY <1>2, <1>9, <2>2
    <3> QED BY <1>4, <1>10, <3>1
  <2> QED BY <2>1, <2>2
<1> QED BY <1>7, <1>8, <1>9, <1>10, <1>11, <1>12 DEF stamped, list, X

\* A header that carries a signature, and was not touched.
LEMMA StampArrives ==
  ASSUME NEW top \in Nat, NEW hs \in Seq(Clean(top)), NEW message, OnWire(message, hs),
         NEW name \in Stamps, name \notin message.rewritten, NEW value \in Seq(PlainWord),
         Equal(hs, name) = <<Header(name, Simple(value))>>
  PROVE  LET got == Arrived(message.lines) IN
           /\ Exists(got, name) /\ Get(got, name).value = value
           /\ Text(Get(got, name)) = value
<1> DEFINE got == Arrived(message.lines)
           c == Simple(value)
<1>1. name \in Names \ Underscored
  BY OwnNames
<1>2. name \notin Divided
  BY DEF Stamps, Divided
<1>3. /\ Exists(hs, name) => Exists(got, name)
      /\ name \notin message.rewritten /\ Exists(hs, name) =>
           Get(got, name) = Value(Equal(hs, name)[1].name, Text(Get(hs, name)))
  BY <1>1, FirstDelivered
<1> HIDE DEF got, c
<1>4. Exists(hs, name) /\ Get(hs, name) = c /\ Equal(hs, name)[1].name = name
  BY DEF Exists, Get, Header, c
<1>5. PlainWord \subseteq Word
  <2>1. Unnamed \in STRING
    BY HeadersAssumption
  <2> SUFFICES ASSUME NEW w \in PlainWord PROVE w \in Word
    OBVIOUS
  <2> QED BY <2>1 DEF PlainWord, Word
<1>6. value \in Seq(Word)
  BY <1>5, SeqMonotonic
<1>7. Text(c) = value
  BY <1>6, TextOfSimple DEF c
<1>8. Value(name, value) = c
  BY <1>2, <1>6, ValueCases DEF c
<1>9. Get(got, name) = c
  BY <1>3, <1>4, <1>7, <1>8
<1>10. c.value = value
  BY DEF c, Simple, Content
<1> QED BY <1>3, <1>4, <1>7, <1>9, <1>10 DEF got

\* Headers that carry a signature.
Carries(hs, key, names, time, digest) ==
  /\ Equal(hs, "Authorization") = <<Header("Authorization", Authorization(key, digest))>>
  /\ Equal(hs, "X-FOST-Headers") = <<Header("X-FOST-Headers", Listed(ListedNames(names)))>>
  /\ Equal(hs, "X-FOST-Timestamp") = <<Header("X-FOST-Timestamp", Timestamp(time))>>

\* A signature of a request with these headers.
StandsFor(s, secret, path, hs, names, time, rest) ==
  /\ s = Signature(secret, Document("GET", path, time, s.document.values, rest))
  /\ s.document.values \in Seq(Seq(PlainWord))
  /\ DOMAIN s.document.values = 1..(Len(names) + 1)
  /\ s.document.values[1] = Listed(ListedNames(names)).value
  /\ \A i \in 1..Len(names) :
       Rank[names[i]] # Rank["X-FOST-Headers"] /\ Rank[names[i]] # Rank["Authorization"] =>
         s.document.values[i + 1] = Get(hs, names[i]).value

LEMMA SigningSigns ==
  ASSUME NEW given, NEW top \in Nat, CleanHeaders(given, top), NEW key \in STRING,
         NEW names \in Seq(Names), NEW time \in Nat, NEW digest \in Nat, digest <= top,
         NEW secret, NEW path, NEW rest
  PROVE  LET hs == Signed(given, key, names, time, digest)
             s == Signature(secret, SignedDocument("GET", path, given, names, time, rest))
         IN /\ CleanHeaders(hs, top)
            /\ Carries(hs, key, names, time, digest)
            /\ StandsFor(s, secret, path, hs, names, time, rest)
            /\ s.document.path = path /\ s.document.time = time
            /\ \A i \in DOMAIN s.document.values : s.document.values[i] # Via
<1> DEFINE hs == Signed(given, key, names, time, digest)
           stamped == Stamped(given, time)
           d == SignedDocument("GET", path, given, names, time, rest)
           values == d.values
<1>1. /\ CleanHeaders(hs, top) /\ Carries(hs, key, names, time, digest)
      /\ \A m \in Names :
           Rank[m] # Rank["X-FOST-Headers"] /\ Rank[m] # Rank["Authorization"] =>
             Equal(hs, m) = Equal(stamped, m)
  BY SignedHeaders DEF Carries
<1>2. /\ values \in Seq(Seq(PlainWord)) /\ DOMAIN values = 1..(Len(names) + 1)
      /\ values[1] = Listed(ListedNames(names)).value
      /\ \A i \in 1..Len(names) : values[i + 1] = Get(stamped, names[i]).value
      /\ \A i \in DOMAIN values : values[i] # Via
  <2> DEFINE V(method) == SignedDocument(method, path, given, names, time, rest).values
  <2>1. \A method : /\ V(method) \in Seq(Seq(PlainWord)) /\ DOMAIN V(method) = 1..(Len(names) + 1)
                    /\ V(method)[1] = Listed(ListedNames(names)).value
                    /\ \A i \in 1..Len(names) : V(method)[i + 1] = Get(stamped, names[i]).value
                    /\ \A i \in DOMAIN V(method) : V(method)[i] # Via
    BY SignedValues
  <2>2. values = V("GET")
    OBVIOUS
  <2> HIDE DEF V, values, stamped
  <2> QED BY <2>1, <2>2
<1>3. d = Document("GET", path, time, values, rest)
  BY DEF SignedDocument, Document
<1> HIDE DEF hs, stamped, d
<1>4. ASSUME NEW i \in 1..Len(names), Rank[names[i]] # Rank["X-FOST-Headers"],
             Rank[names[i]] # Rank["Authorization"]
      PROVE  values[i + 1] = Get(hs, names[i]).value
  <2>1. names[i] \in Names
    BY LenProperties
  <2>2. Equal(hs, names[i]) = Equal(stamped, names[i])
    BY <1>1, <1>4, <2>1
  <2>3. Get(hs, names[i]) = Get(stamped, names[i])
    BY <2>2 DEF Get, Exists
  <2> QED BY <1>2, <2>3
<1> DEFINE s == Signature(secret, d)
<1>5. s.document = d /\ s = Signature(secret, s.document)
  BY DEF Signature
<1>6. d.path = path /\ d.time = time
  BY <1>3 DEF Document
<1> HIDE DEF s
<1>7. StandsFor(s, secret, path, hs, names, time, rest)
  <2>1. s = Signature(secret, Document("GET", path, time, s.document.values, rest))
    BY <1>3, <1>5
  <2>2. s.document.values = values
    BY <1>5
  <2> HIDE DEF values
  <2> QED BY <1>2, <1>4, <2>1, <2>2 DEF StandsFor
<1> QED BY <1>1, <1>2, <1>5, <1>6, <1>7 DEF hs, s, d

LEMMA GetLoose ==
  ASSUME NEW hs \in Seq(Loose), NEW m \in Names
  PROVE  Get(hs, m).value \in Seq(Word)
<1> DEFINE these == Equal(hs, m)
<1>1. these \in Seq(Loose)
  BY LooseNamed, Parts
<1>2. Get(hs, m) = IF these # <<>> THEN these[1].content ELSE NoContent
  BY DEF Get, Exists
<1> HIDE DEF these
<1>3. CASE these # <<>>
  <2>1. 1 \in 1..Len(these)
    BY <1>1, <1>3, EmptySeq, LenProperties
  <2>2. these[1] \in Loose
    BY <1>1, <2>1, LenProperties
  <2>3. these[1].content \in LooseContents
    BY <2>2 DEF Loose
  <2> QED BY <1>2, <1>3, <2>3 DEF LooseContents
<1>4. CASE these = <<>>
  <2>1. Get(hs, m).value = <<>>
    BY <1>2, <1>4 DEF NoContent, Simple, Content
  <2> QED BY <2>1, EmptySeq
<1> QED BY <1>3, <1>4

SignedBy(all, top, doc) ==
  \E digest \in 1..top, key \in DOMAIN Secret : all[digest] = Signature(Secret[key], doc)

\* What the verifier has found out of a request that it takes for authenticated.
LEMMA AuthenticatedMeans ==
  ASSUME NEW top \in Nat, NEW hs \in Seq(Clean(top)), NEW message, OnWire(message, hs),
         NEW path, NEW time, NEW all,
         Verdict("GET", path, Arrived(message.lines), time, all) = "authenticated"
  PROVE  LET got == Arrived(message.lines) IN
           /\ InTime(Get(got, "X-FOST-Timestamp").value[1].n, time)
           /\ SignedBy(all, top, VerifiedDocument("GET", path, got))
<1> DEFINE got == Arrived(message.lines)
           parsed == IsTime(Get(got, "X-FOST-Timestamp").value)
           a == Get(got, "Authorization").value
           stamp == Get(got, "X-FOST-Timestamp").value
           doc == VerifiedDocument("GET", path, got)
           exists == Exists(got, "Authorization")
           list == Exists(got, "X-FOST-Headers")
           itself == ListsItself(got)
           when == Exists(got, "X-FOST-Timestamp")
<1>1. Verdict("GET", path, got, time, all) = "authenticated"
  OBVIOUS
<1>2. "Authorization" \in Names \ Underscored
  BY OwnNames DEF Stamps
<1>3. \A i \in 1..Len(a) : a[i].n <= top
  <2>1. \A m \in Names \ Underscored : Rank[m] = Rank["Authorization"] =>
          \A i \in 1..Len(Get(got, m).value) : Get(got, m).value[i].n <= top
    BY FirstDelivered
  <2> HIDE DEF got
  <2> QED BY <1>2, <2>1
<1>4. a \in Seq(Word)
  <2>1. message.lines \in Seq(LineSet)
    BY DEF OnWire
  <2>2. got \in Seq(Loose)
    BY <2>1, Arrival
  <2> HIDE DEF got
  <2> QED BY <1>2, <2>2, GetLoose
<1>5. /\ exists /\ list /\ itself /\ when
      /\ ~(Len(a) < 2) /\ InTime(stamp[1].n, time) /\ a[2].n # 0 /\ a[2].text \in DOMAIN Secret
      /\ all[a[2].n] = Signature(Secret[a[2].text], doc)
  <2>1. "authenticated" =
          IF ~exists THEN "none"
          ELSE IF Len(a) < 2 \/ a[1].text # "FOST" THEN "not FOST"
          ELSE IF ~list THEN "no headers"
          ELSE IF ~itself THEN "no list"
          ELSE IF ~when THEN "no timestamp"
          ELSE IF ~parsed THEN "throws"
          ELSE IF ~InTime(stamp[1].n, time) THEN "skew"
          ELSE IF a[2].n = 0 THEN "no signature"
          ELSE IF a[2].text \notin DOMAIN Secret THEN "no key"
          ELSE IF all[a[2].n] # Signature(Secret[a[2].text], doc) THEN "mismatch"
          ELSE "authenticated"
    BY <1>1 DEF Verdict
  <2> HIDE DEF got, a, stamp, doc, exists, list, itself, when, parsed
  <2> QED BY <2>1
<1> HIDE DEF got, parsed, a, stamp, doc, exists, list, itself, when
<1>6. 2 \in 1..Len(a) /\ a[2].n \in Nat
  <2>1. Len(a) \in Nat /\ \A i \in 1..Len(a) : a[i] \in Word
    BY <1>4, LenProperties
  <2>2. 2 \in 1..Len(a)
    BY <1>5, <2>1
  <2>3. a[2] \in Word
    BY <2>1, <2>2
  <2> QED BY <2>2, <2>3 DEF Word
<1>7. a[2].n \in 1..top
  BY <1>3, <1>5, <1>6
<1>8. SignedBy(all, top, doc)
  BY <1>5, <1>7 DEF SignedBy
<1> QED BY <1>5, <1>8 DEF got, stamp, doc

\* How the verifier finds a signature that was not touched.
Found(got, key, names, time, digest) ==
  LET list == Listed(ListedNames(names)).value IN
    /\ \A name \in Stamps : Exists(got, name)
    /\ Get(got, "Authorization").value = <<Plain("FOST"), Number(key, digest)>>
    /\ Get(got, "X-FOST-Timestamp").value = <<Number("time", time)>>
    /\ Get(got, "X-FOST-Headers").value = list
    /\ Text(Get(got, "X-FOST-Headers")) = list

LEMMA UntouchedIsFound ==
  ASSUME NEW top \in Nat, NEW hs \in Seq(Clean(top)), NEW message, OnWire(message, hs),
         NEW key \in STRING, NEW names \in Seq(Names), NEW time \in Nat, NEW digest \in Nat,
         Carries(hs, key, names, time, digest), Stamps \cap message.rewritten = {}
  PROVE  Found(Arrived(message.lines), key, names, time, digest)
<1> DEFINE got == Arrived(message.lines)
           list == Listed(ListedNames(names)).value
           a == <<Plain("FOST"), Number(key, digest)>>
           t == <<Number("time", time)>>
<1>1. /\ Listed(ListedNames(names)) = Simple(list) /\ list \in Seq(PlainWord)
  BY ListedType
<1>2. a \in Seq(PlainWord) /\ t \in Seq(PlainWord)
  <2>1. /\ Authorization(key, digest) \in Contents /\ Timestamp(time) \in Contents
        /\ Authorization(key, digest).value = a /\ Timestamp(time).value = t
    BY StampTypes
  <2> HIDE DEF a, t
  <2> QED BY <2>1, ContentParts
<1>3. /\ Equal(hs, "Authorization") = <<Header("Authorization", Simple(a))>>
      /\ Equal(hs, "X-FOST-Timestamp") = <<Header("X-FOST-Timestamp", Simple(t))>>
      /\ Equal(hs, "X-FOST-Headers") = <<Header("X-FOST-Headers", Simple(list))>>
  BY <1>1 DEF Carries, Authorization, Timestamp
<1>4. ASSUME NEW name \in Stamps, NEW value \in Seq(PlainWord),
             Equal(hs, name) = <<Header(name, Simple(value))>>
      PROVE  /\ Exists(got, name) /\ Get(got, name).value = value
             /\ Text(Get(got, name)) = value
  <2>1. name \notin message.rewritten
    OBVIOUS
  <2> QED BY <1>4, <2>1, StampArrives
<1>5. /\ "Authorization" \in Stamps /\ "X-FOST-Timestamp" \in Stamps /\ "X-FOST-Headers" \in Stamps
      /\ \A name \in Stamps : name \in {"Authorization", "X-FOST-Timestamp", "X-FOST-Headers"}
  BY DEF Stamps
<1> HIDE DEF got, list, a, t
<1>6. Exists(got, "Authorization") /\ Get(got, "Authorization").value = a
  BY <1>2, <1>3, <1>4, <1>5
<1>7. Exists(got, "X-FOST-Timestamp") /\ Get(got, "X-FOST-Timestamp").value = t
  BY <1>2, <1>3, <1>4, <1>5
<1>8. /\ Exists(got, "X-FOST-Headers") /\ Get(got, "X-FOST-Headers").value = list
      /\ Text(Get(got, "X-FOST-Headers")) = list
  BY <1>1, <1>3, <1>4, <1>5
<1> QED BY <1>5, <1>6, <1>7, <1>8 DEF got, list, a, t, Found

\* The text of a listed header, for a header without arguments that was not
\* touched, nor was appended where there was none.
LEMMA ListedArrives ==
  ASSUME NEW top \in Nat, NEW hs \in Seq(Clean(top)), NEW message, OnWire(message, hs),
         NEW m \in Names \ Underscored, m \notin message.rewritten,
         Exists(hs, m) \/ \A name \in Touchable : Rank[m] # Rank[name],
         DOMAIN Get(hs, m).subvalues = {}, Sorted(hs)
  PROVE  Text(Get(Arrived(message.lines), m)) = Get(hs, m).value
<1>1. Text(Get(Arrived(message.lines), m)) = Text(Get(hs, m))
  BY FirstDelivered
<1>2. Get(hs, m) \in Contents
  BY GetClean DEF CleanHeaders
<1> QED BY <1>1, <1>2, TextType

\* Listed headers that a signature can stand for.
Undisturbed(names, hs, message) ==
  \A i \in 1..Len(names) :
    /\ names[i] \notin Underscored \cup message.rewritten
    /\ Rank[names[i]] # Rank["X-FOST-Headers"] /\ Rank[names[i]] # Rank["Authorization"]
    /\ Exists(hs, names[i]) \/ \A name \in Touchable : Rank[names[i]] # Rank[name]
    /\ DOMAIN Get(hs, names[i]).subvalues = {}

LEMMA SignedIsAuthenticated ==
  ASSUME NEW top \in Nat, NEW hs \in Seq(Clean(top)), Sorted(hs), NEW message, OnWire(message, hs),
         NEW key \in STRING, NEW names \in Seq(Names), NEW time \in Nat,
         NEW digest \in Nat, digest # 0, NEW all, NEW path, NEW then \in Int,
         Carries(hs, key, names, time, digest), Stamps \cap message.rewritten = {},
         key \in DOMAIN Secret,
         StandsFor(all[digest], Secret[key], path, hs, names, time, <<>>),
         Undisturbed(names, hs, message)
  PROVE  Verdict("GET", path, Arrived(message.lines), then, all)
           = IF InTime(time, then) THEN "authenticated" ELSE "skew"
<1> DEFINE got == Arrived(message.lines)
           s == all[digest]
           values == s.document.values
           list == Listed(ListedNames(names)).value
           seen == [i \in DOMAIN list |-> Text(Get(got, list[i].text))]
<1>1. /\ \A name \in Stamps : Exists(got, name)
      /\ Get(got, "Authorization").value = <<Plain("FOST"), Number(key, digest)>>
      /\ Get(got, "X-FOST-Timestamp").value = <<Number("time", time)>>
      /\ Get(got, "X-FOST-Headers").value = list
      /\ Text(Get(got, "X-FOST-Headers")) = list
  <2>1. Found(got, key, names, time, digest)
    <3> HIDE DEF got
    <3> QED BY UntouchedIsFound DEF got
  <2> QED BY <2>1 DEF Found
<1>2. /\ list \in Seq(PlainWord) /\ Len(names) \in Nat /\ Len(list) = Len(names) + 1
      /\ list[1] = Plain("X-FOST-Headers")
      /\ \A i \in 1..Len(names) : list[i + 1] = Plain(names[i])
  BY ListedType
<1>3. /\ s = Signature(Secret[key], Document("GET", path, time, values, <<>>))
      /\ values \in Seq(Seq(PlainWord)) /\ DOMAIN values = 1..(Len(names) + 1)
      /\ values[1] = list
      /\ \A i \in 1..Len(names) :
           Rank[names[i]] # Rank["X-FOST-Headers"] /\ Rank[names[i]] # Rank["Authorization"] =>
             values[i + 1] = Get(hs, names[i]).value
  BY DEF StandsFor
<1>4. ASSUME NEW i \in 1..Len(names) PROVE Text(Get(got, names[i])) = values[i + 1]
  <2>1. names[i] \in Names
    BY LenProperties
  <2>2. Text(Get(got, names[i])) = Get(hs, names[i]).value
    BY <2>1, ListedArrives DEF Undisturbed
  <2>3. Rank[names[i]] # Rank["X-FOST-Headers"] /\ Rank[names[i]] # Rank["Authorization"]
    BY DEF Undisturbed
  <2> HIDE DEF values, got
  <2> QED BY <1>3, <2>2, <2>3
<1> HIDE DEF got, s, values, list
<1>5. DOMAIN list = 1..(Len(names) + 1)
  BY <1>2, LenProperties
<1>6. seen = values
  <2>1. \A text : Plain(text).text = text
    BY DEF Plain
  <2>2. ASSUME NEW i \in 1..(Len(names) + 1) PROVE Text(Get(got, list[i].text)) = values[i]
    <3>1. CASE i = 1
      BY <1>1, <1>2, <1>3, <2>1, <3>1
    <3>2. CASE i # 1
      <4>1. i - 1 \in 1..Len(names) /\ i - 1 + 1 = i
        BY <1>2, <3>2
      <4>2. list[i].text = names[i - 1]
        BY <1>2, <2>1, <4>1
      <4> QED BY <1>4, <4>1, <4>2
    <3> QED BY <3>1, <3>2
  <2>3. values = [i \in DOMAIN values |-> values[i]]
    <3>1. \A v \in Seq(Seq(PlainWord)) : v = [i \in DOMAIN v |-> v[i]]
      BY IsASeq
    <3> QED BY <1>3, <3>1
  <2>4. seen = [i \in 1..(Len(names) + 1) |-> values[i]]
    BY <1>5, <2>2
  <2> HIDE DEF seen
  <2> QED BY <1>3, <2>3, <2>4
<1>7. VerifiedDocument("GET", path, got) = Document("GET", path, time, values, <<>>)
  <2>1. <<Number("time", time)>>[1].n = time
    BY DEF Number
  <2>2. VerifiedDocument("GET", path, got)
          = Document("GET", path, Get(got, "X-FOST-Timestamp").value[1].n, seen, <<>>)
    BY <1>1 DEF VerifiedDocument
  <2> QED BY <1>1, <1>6, <2>1, <2>2
<1>8. ListsItself(got)
  <2>1. 1 \in DOMAIN list /\ list[1].text = "X-FOST-Headers"
    BY <1>2, <1>5 DEF Plain
  <2> QED BY <1>1, <2>1 DEF ListsItself
<1> DEFINE a == Get(got, "Authorization").value
           stamp == Get(got, "X-FOST-Timestamp").value
           doc == VerifiedDocument("GET", path, got)
           exists == Exists(got, "Authorization")
           listed == Exists(got, "X-FOST-Headers")
           parsed == IsTime(stamp)
           itself == ListsItself(got)
           when == Exists(got, "X-FOST-Timestamp")
<1>9. Verdict("GET", path, got, then, all) =
          IF ~exists THEN "none"
          ELSE IF Len(a) < 2 \/ a[1].text # "FOST" THEN "not FOST"
          ELSE IF ~listed THEN "no headers"
          ELSE IF ~itself THEN "no list"
          ELSE IF ~when THEN "no timestamp"
          ELSE IF ~parsed THEN "throws"
          ELSE IF ~InTime(stamp[1].n, then) THEN "skew"
          ELSE IF a[2].n = 0 THEN "no signature"
          ELSE IF a[2].text \notin DOMAIN Secret THEN "no key"
          ELSE IF all[a[2].n] # Signature(Secret[a[2].text], doc) THEN "mismatch"
          ELSE "authenticated"
  BY DEF Verdict
<1>10. exists /\ listed /\ itself /\ when
  BY <1>1, <1>8 DEF Stamps
<1>11. /\ Len(a) = 2 /\ a[1].text = "FOST" /\ a[2].n = digest /\ a[2].text = key
       /\ stamp[1].n = time /\ parsed
  <2>1. a = <<Plain("FOST"), Number(key, digest)>> /\ stamp = <<Number("time", time)>>
    BY <1>1
  <2> HIDE DEF a, stamp
  <2> QED BY <2>1 DEF Plain, Number, IsTime
<1>12. all[digest] = Signature(Secret[key], doc)
  BY <1>3, <1>7 DEF s
<1> HIDE DEF a, stamp, doc, exists, listed, parsed, itself, when
<1>13. ~(Len(a) < 2 \/ a[1].text # "FOST") /\ a[2].n # 0
  BY <1>11
<1> QED BY <1>9, <1>10, <1>11, <1>12, <1>13 DEF got

-----------------------------------------------------------------------------
(***************************************************************************)
(* Loops that come down.                                                   *)
(***************************************************************************)

\* From each of S, until it is in T, a step leads to one that is lower, first by
\* a and then by b.
ComesDown(S, T, step, a, b) ==
  /\ step \in [S -> S] /\ a \in [S -> Nat] /\ b \in [S -> Nat]
  /\ \A s \in S \ T : \/ a[step[s]] < a[s]
                      \/ a[step[s]] = a[s] /\ b[step[s]] < b[s]

LEMMA Descent ==
  ASSUME NEW S, NEW T, NEW step, NEW a, NEW b, ComesDown(S, T, step, a, b), NEW Good,
         \A s \in S \cap T : s \in Good,
         \A s \in S \ T : step[s] \in Good => s \in Good
  PROVE  S \subseteq Good
<1> DEFINE Bad == S \ Good
<1>1. CASE Bad # {}
  <2> DEFINE A == {a[s] : s \in Bad}
  <2>1. A \subseteq Nat /\ A # {}
    BY <1>1 DEF ComesDown
  <2> HIDE DEF A
  <2>2. PICK n \in A : \A x \in A : n <= x
    BY <2>1, Least
  <2> DEFINE B == {b[s] : s \in {x \in Bad : a[x] = n}}
  <2>3. B \subseteq Nat /\ B # {}
    BY <2>2 DEF ComesDown, A
  <2> HIDE DEF B
  <2>4. PICK m \in B : \A x \in B : m <= x
    BY <2>3, Least
  <2>5. PICK s \in Bad : a[s] = n /\ b[s] = m
    BY <2>4 DEF B
  <2>6. s \in S \ T /\ step[s] \in S
    BY <2>5 DEF ComesDown
  <2>7. step[s] \in Bad
    BY <2>5, <2>6
  <2>8. a[step[s]] \in Nat /\ b[step[s]] \in Nat /\ n \in Nat /\ m \in Nat
    BY <2>1, <2>2, <2>3, <2>4, <2>6 DEF ComesDown
  <2>9. n <= a[step[s]]
    BY <2>2, <2>7 DEF A
  <2>10. a[step[s]] = n => m <= b[step[s]]
    BY <2>4, <2>7 DEF B
  <2>11. \/ a[step[s]] < n
         \/ a[step[s]] = n /\ b[step[s]] < m
    BY <2>5, <2>6 DEF ComesDown
  <2> QED BY <2>8, <2>9, <2>10, <2>11
<1> QED BY <1>1

\* What such a loop returns: the value of the last.
Solves(f, P, T, step, out) ==
  /\ \A x \in P \ T : step[x] \in P /\ f[x] = f[step[x]]
  /\ \A x \in P \cap T : f[x] = out[x]

IsLoop(f, S, Y, T, step, out) ==
  f \in [S -> Y] /\ \A s \in S : f[s] = IF s \in T THEN out[s] ELSE f[step[s]]

LEMMA Loop ==
  ASSUME NEW S, NEW T, NEW step, NEW a, NEW b, ComesDown(S, T, step, a, b),
         NEW Y, NEW out \in [S -> Y]
  PROVE  \E f : IsLoop(f, S, Y, T, step, out)
<1> DEFINE Result(s, r) == \E P \in SUBSET S : \E f \in [P -> Y] :
                            s \in P /\ Solves(f, P, T, step, out) /\ f[s] = r
<1>1. \A s \in S : step[s] \in S
  BY DEF ComesDown
<1>2. ASSUME NEW s \in S PROVE \E r \in Y : Result(s, r)
  <2> DEFINE Good == {x \in S : \E r \in Y : Result(x, r)}
  <2>1. ASSUME NEW x \in S \cap T PROVE x \in Good
    <3> DEFINE P == {x}
               f == [y \in P |-> out[y]]
    <3>1. P \in SUBSET S /\ f \in [P -> Y] /\ x \in P /\ out[x] \in Y /\ f[x] = out[x]
      BY <2>1
    <3>2. Solves(f, P, T, step, out)
      BY <2>1 DEF Solves
    <3> HIDE DEF P, f
    <3>3. Result(x, out[x])
      BY <3>1, <3>2
    <3> HIDE DEF Result
    <3> QED BY <2>1, <3>1, <3>3
  <2>2. ASSUME NEW x \in S \ T, step[x] \in Good PROVE x \in Good
    <3>1. PICK r \in Y : Result(step[x], r)
      BY <2>2
    <3> PICK P \in SUBSET S :
          \E f \in [P -> Y] : step[x] \in P /\ Solves(f, P, T, step, out) /\ f[step[x]] = r
      BY <3>1
    <3>2. PICK f \in [P -> Y] :
            step[x] \in P /\ Solves(f, P, T, step, out) /\ f[step[x]] = r
      OBVIOUS
    <3> DEFINE Q == P \cup {x}
               g == [y \in Q |-> IF y = x THEN r ELSE f[y]]
    <3>3. Q \in SUBSET S /\ g \in [Q -> Y] /\ x \in Q /\ g[x] = r
      BY <2>2, <3>1, <3>2
    <3>4. \A y \in P : g[y] = f[y]
      BY <2>2, <3>2 DEF Solves
    <3>5. \A y \in Q : y # x => y \in P
      OBVIOUS
    <3>6. step[x] \in Q /\ g[step[x]] = r
      BY <3>2, <3>4
    <3> HIDE DEF Q, g
    <3>7. P \subseteq Q
      BY DEF Q
    <3>8. Solves(g, Q, T, step, out)
      <4>1. ASSUME NEW y \in Q \ T PROVE step[y] \in Q /\ g[y] = g[step[y]]
        <5>1. CASE y = x
          BY <3>3, <3>6, <5>1
        <5>2. CASE y # x
          BY <3>2, <3>4, <3>5, <3>7, <4>1, <5>2 DEF Solves
        <5> QED BY <5>1, <5>2
      <4>2. ASSUME NEW y \in Q \cap T PROVE g[y] = out[y]
        BY <2>2, <3>2, <3>4, <3>5, <4>2 DEF Solves
      <4> QED BY <4>1, <4>2 DEF Solves
    <3>9. Result(x, r)
      BY <3>3, <3>8
    <3> HIDE DEF Result
    <3> QED BY <2>2, <3>1, <3>9
  <2> HIDE DEF Good
  <2>3. S \subseteq Good
    BY <2>1, <2>2, Descent
  <2> QED BY <2>3 DEF Good
<1>3. ASSUME NEW s \in S \ T, NEW r, Result(s, r) PROVE Result(step[s], r)
  <2> PICK P \in SUBSET S :
        \E f \in [P -> Y] : s \in P /\ Solves(f, P, T, step, out) /\ f[s] = r
    BY <1>3
  <2>1. PICK f \in [P -> Y] : s \in P /\ Solves(f, P, T, step, out) /\ f[s] = r
    OBVIOUS
  <2>2. step[s] \in P /\ f[step[s]] = r
    BY <2>1 DEF Solves
  <2> QED BY <2>1, <2>2
<1>4. ASSUME NEW s \in S \cap T, NEW r, Result(s, r) PROVE r = out[s]
  BY <1>4 DEF Solves
<1>5. ASSUME NEW s \in S PROVE \A r, q : Result(s, r) /\ Result(s, q) => r = q
  <2> HIDE DEF Result
  <2> DEFINE Good == {x \in S : \A r, q : Result(x, r) /\ Result(x, q) => r = q}
  <2>1. \A x \in S \cap T : x \in Good
    BY <1>4
  <2>2. \A x \in S \ T : step[x] \in Good => x \in Good
    BY <1>3
  <2> HIDE DEF Good
  <2>3. S \subseteq Good
    BY <2>1, <2>2, Descent
  <2> QED BY <2>3 DEF Good
<1> HIDE DEF Result
<1> DEFINE g == [s \in S |-> CHOOSE r \in Y : Result(s, r)]
<1>6. \A s \in S : g[s] \in Y /\ Result(s, g[s])
  BY <1>2
<1>7. g \in [S -> Y]
  BY <1>6
<1> HIDE DEF g
<1>8. ASSUME NEW s \in S PROVE g[s] = IF s \in T THEN out[s] ELSE g[step[s]]
  <2>1. CASE s \in T
    BY <1>4, <1>6, <2>1
  <2>2. CASE s \notin T
    <3>1. Result(step[s], g[s]) /\ Result(step[s], g[step[s]]) /\ step[s] \in S
      BY <1>1, <1>3, <1>6, <2>2
    <3>2. g[s] = g[step[s]]
      BY <1>5, <3>1
    <3> QED BY <2>2, <3>2
  <2> QED BY <2>1, <2>2
<1>9. IsLoop(g, S, Y, T, step, out)
  BY <1>7, <1>8 DEF IsLoop
<1> QED BY <1>9

-----------------------------------------------------------------------------
(***************************************************************************)
(* Paths.                                                                  *)
(***************************************************************************)
LEMMA EraseType ==
  ASSUME NEW X, NEW list \in Seq(X), NEW first \in 1..Len(list), NEW last \in first..Len(list)
  PROVE  /\ Erase(list, first, last) \in Seq(X)
         /\ Len(Erase(list, first, last)) = Len(list) - (last - first + 1)
<1> DEFINE a == SubSeq(list, 1, first - 1)
           c == SubSeq(list, last + 1, Len(list))
<1>1. /\ Len(list) \in Nat /\ first \in Nat /\ last \in Nat /\ 1 <= first /\ first <= last
      /\ last <= Len(list) /\ \A i \in 1..Len(list) : list[i] \in X
  BY LenProperties
<1>2. a \in Seq(X) /\ Len(a) = first - 1
  <2>1. first - 1 \in 1 - 1..Len(list) /\ \A i \in 1..(first - 1) : list[i] \in X
    BY <1>1
  <2> QED BY <1>1, <2>1, SubSeqProperties
<1>3. c \in Seq(X) /\ Len(c) = Len(list) - last
  <2>1. Len(list) \in last + 1 - 1..Len(list) /\ \A i \in (last + 1)..Len(list) : list[i] \in X
    BY <1>1
  <2> QED BY <1>1, <2>1, SubSeqProperties
<1>4. Erase(list, first, last) = a \o c
  BY DEF Erase
<1> HIDE DEF a, c
<1>5. a \o c \in Seq(X) /\ Len(a \o c) = Len(a) + Len(c)
  BY <1>2, <1>3, ConcatProperties
<1> QED BY <1>1, <1>2, <1>3, <1>4, <1>5

\* Where the loop of normalise_path goes from an element of the list.
Onward(list, at) ==
  IF list[at] = "." THEN <<Erase(list, at, at), 2>>
  ELSE IF list[at] # ".." THEN <<list, at + 1>>
  ELSE IF at = 1 THEN <<Erase(list, 1, 1), 2>>
  ELSE <<Erase(list, at - 1, at), 2>>

Places == Seq(STRING) \X (Nat \ {0})

LEMMA OnwardType ==
  ASSUME NEW list \in Seq(STRING), NEW at \in Nat \ {0}, at <= Len(list)
  PROVE  /\ Onward(list, at) \in Places
         /\ Onward(list, at) = <<Onward(list, at)[1], Onward(list, at)[2]>>
         /\ Onward(list, at)[1] \in Seq(STRING) /\ Onward(list, at)[2] \in Nat \ {0}
         /\ \/ Len(Onward(list, at)[1]) < Len(list)
            \/ Onward(list, at)[1] = list /\ Onward(list, at)[2] = at + 1
<1>1. Len(list) \in Nat
  BY LenProperties
<1>2. /\ Erase(list, at, at) \in Seq(STRING) /\ Len(Erase(list, at, at)) < Len(list)
  <2>1. at \in 1..Len(list) /\ at \in at..Len(list)
    BY <1>1
  <2>2. Erase(list, at, at) \in Seq(STRING) /\ Len(Erase(list, at, at)) = Len(list) - (at - at + 1)
    BY <2>1, EraseType
  <2> QED BY <1>1, <2>2
<1>3. ASSUME at > 1
      PROVE  /\ Erase(list, at - 1, at) \in Seq(STRING) /\ Len(Erase(list, at - 1, at)) < Len(list)
  <2>1. at - 1 \in 1..Len(list) /\ at \in (at - 1)..Len(list)
    BY <1>1, <1>3
  <2>2. /\ Erase(list, at - 1, at) \in Seq(STRING)
        /\ Len(Erase(list, at - 1, at)) = Len(list) - (at - (at - 1) + 1)
    BY <2>1, EraseType
  <2> QED BY <1>1, <2>2
<1>4. CASE list[at] = "."
  <2>1. Onward(list, at) = <<Erase(list, at, at), 2>>
    BY <1>4 DEF Onward
  <2> QED BY <1>2, <2>1 DEF Places
<1>5. CASE list[at] # "." /\ list[at] # ".."
  <2>1. Onward(list, at) = <<list, at + 1>>
    BY <1>5 DEF Onward
  <2> QED BY <1>1, <2>1 DEF Places
<1>6. CASE list[at] = ".." /\ at = 1
  <2>1. Onward(list, at) = <<Erase(list, at, at), 2>>
    BY <1>6 DEF Onward
  <2> QED BY <1>2, <2>1 DEF Places
<1>7. CASE list[at] = ".." /\ at # 1
  <2>1. Onward(list, at) = <<Erase(list, at - 1, at), 2>> /\ at > 1
    BY <1>7 DEF Onward
  <2> QED BY <1>3, <2>1 DEF Places
<1> QED BY <1>4, <1>5, <1>6, <1>7

LEMMA RemoveDotsSteps ==
  ASSUME NEW list \in Seq(STRING), NEW at \in Nat \ {0}
  PROVE  /\ RemoveDots[<<list, at>>] \in Seq(STRING)
         /\ at > Len(list) => RemoveDots[<<list, at>>] = list
         /\ at <= Len(list) => RemoveDots[<<list, at>>] = RemoveDots[Onward(list, at)]
<1> DEFINE S == Places
           T == {s \in S : s[2] > Len(s[1])}
           step == [s \in S |-> IF s \in T THEN s ELSE Onward(s[1], s[2])]
           a == [s \in S |-> Len(s[1])]
           b == [s \in S |-> IF s \in T THEN 0 ELSE Len(s[1]) + 1 - s[2]]
           out == [s \in S |-> s[1]]
           Y == Seq(STRING)
           Body(f) == [place \in Seq(STRING) \X (Nat \ {0}) |->
              LET l == place[1]
                  i == place[2]
              IN IF i > Len(l)
                   THEN l
                   ELSE CASE l[i] = "."            -> f[<<Erase(l, i, i), 2>>]
                          [] l[i] = ".." /\ i = 1  -> f[<<Erase(l, 1, 1), 2>>]
                          [] l[i] = ".." /\ i > 1  -> f[<<Erase(l, i - 1, i), 2>>]
                          [] OTHER                 -> f[<<l, i + 1>>]]
           fixed == CHOOSE f : f = Body(f)
<1>1. ASSUME NEW s \in S
      PROVE  /\ s = <<s[1], s[2]>> /\ s[1] \in Seq(STRING) /\ s[2] \in Nat \ {0}
             /\ Len(s[1]) \in Nat
             /\ s \notin T => s[2] <= Len(s[1])
  <2>1. s = <<s[1], s[2]>> /\ s[1] \in Seq(STRING) /\ s[2] \in Nat \ {0}
    BY DEF Places
  <2> QED BY <2>1, LenProperties
<1>2. ComesDown(S, T, step, a, b)
  <2>1. ASSUME NEW s \in S \ T
        PROVE  /\ step[s] \in S
               /\ \/ a[step[s]] < a[s]
                  \/ a[step[s]] = a[s] /\ b[step[s]] < b[s]
    <3>1. s[1] \in Seq(STRING) /\ s[2] \in Nat \ {0} /\ s[2] <= Len(s[1]) /\ Len(s[1]) \in Nat
      BY <1>1
    <3>2. /\ Onward(s[1], s[2]) \in Places
          /\ \/ Len(Onward(s[1], s[2])[1]) < Len(s[1])
             \/ Onward(s[1], s[2])[1] = s[1] /\ Onward(s[1], s[2])[2] = s[2] + 1
      BY <3>1, OnwardType
    <3> DEFINE t == Onward(s[1], s[2])
    <3>3. step[s] = t
      OBVIOUS
    <3> HIDE DEF t, step
    <3>4. t \in S /\ (Len(t[1]) < Len(s[1]) \/ (t[1] = s[1] /\ t[2] = s[2] + 1))
      BY <3>2 DEF t
    <3>5. a[t] = Len(t[1]) /\ a[s] = Len(s[1])
      BY <3>4
    <3>6. b[s] = Len(s[1]) + 1 - s[2] /\ b[t] = IF t[2] > Len(t[1]) THEN 0 ELSE Len(t[1]) + 1 - t[2]
      BY <3>4
    <3> HIDE DEF a, b
    <3> QED BY <3>1, <3>3, <3>4, <3>5, <3>6
  <2>2. step \in [S -> S]
    BY <2>1
  <2>3. a \in [S -> Nat]
    BY <1>1
  <2>4. b \in [S -> Nat]
    <3>1. ASSUME NEW s \in S \ T PROVE Len(s[1]) + 1 - s[2] \in Nat
      BY <1>1
    <3> QED BY <3>1
  <2> HIDE DEF S, T, step, a, b
  <2> QED BY <2>1, <2>2, <2>3, <2>4 DEF ComesDown
<1>3. out \in [S -> Y]
  BY <1>1
<1>4. PICK g : IsLoop(g, S, Y, T, step, out)
  <2> HIDE DEF S, T, step, a, b, out, Y
  <2> QED BY <1>2, <1>3, Loop
<1>5. g \in [S -> Y] /\ \A s \in S : g[s] = IF s \in T THEN out[s] ELSE g[step[s]]
  BY <1>4 DEF IsLoop
<1>6. ASSUME NEW l \in Seq(STRING), NEW i \in Nat \ {0}
      PROVE  g[<<l, i>>] = IF i > Len(l) THEN l ELSE g[Onward(l, i)]
  <2>1. <<l, i>> \in S /\ <<l, i>>[1] = l /\ <<l, i>>[2] = i
    BY DEF Places
  <2> HIDE DEF S
  <2>2. CASE i > Len(l)
    <3>1. <<l, i>> \in T /\ out[<<l, i>>] = l
      BY <2>1, <2>2
    <3> HIDE DEF T, out
    <3> QED BY <1>5, <2>1, <2>2, <3>1
  <2>3. CASE ~(i > Len(l))
    <3>1. <<l, i>> \notin T /\ step[<<l, i>>] = Onward(l, i)
      BY <2>1, <2>3
    <3> HIDE DEF T, step
    <3> QED BY <1>5, <2>1, <2>3, <3>1
  <2> QED BY <2>2, <2>3
<1> HIDE DEF T, step, a, b, out
<1>7. ASSUME NEW f, NEW s \in S
      PROVE  Body(f)[s] = IF s[2] > Len(s[1]) THEN s[1] ELSE f[Onward(s[1], s[2])]
  <2> DEFINE l == s[1]
             i == s[2]
  <2>1. i \in Nat \ {0}
    BY <1>1
  <2>2. Body(f)[s] = IF i > Len(l)
                   THEN l
                   ELSE CASE l[i] = "."            -> f[<<Erase(l, i, i), 2>>]
                          [] l[i] = ".." /\ i = 1  -> f[<<Erase(l, 1, 1), 2>>]
                          [] l[i] = ".." /\ i > 1  -> f[<<Erase(l, i - 1, i), 2>>]
                          [] OTHER                 -> f[<<l, i + 1>>]
    BY DEF Places
  <2> HIDE DEF Body, l, i
  <2>3. CASE i > Len(l)
    BY <2>2, <2>3 DEF l, i
  <2>4. CASE ~(i > Len(l)) /\ l[i] = "."
    <3>1. Onward(l, i) = <<Erase(l, i, i), 2>>
      BY <2>4 DEF Onward
    <3> QED BY <2>2, <2>4, <3>1 DEF l, i
  <2>5. CASE ~(i > Len(l)) /\ l[i] = ".." /\ i = 1
    <3>1. Onward(l, i) = <<Erase(l, 1, 1), 2>>
      BY <2>5 DEF Onward
    <3> QED BY <2>2, <2>5, <3>1 DEF l, i
  <2>6. CASE ~(i > Len(l)) /\ l[i] = ".." /\ i # 1
    <3>1. Onward(l, i) = <<Erase(l, i - 1, i), 2>>
      BY <2>6 DEF Onward
    <3> QED BY <2>1, <2>2, <2>6, <3>1 DEF l, i
  <2>7. CASE ~(i > Len(l)) /\ l[i] # "." /\ l[i] # ".."
    <3>1. Onward(l, i) = <<l, i + 1>>
      BY <2>7 DEF Onward
    <3> QED BY <2>2, <2>7, <3>1 DEF l, i
  <2> QED BY <2>3, <2>4, <2>5, <2>6, <2>7
<1>8. ASSUME NEW s \in S PROVE g[s] = Body(g)[s]
  <2>1. g[<<s[1], s[2]>>] = IF s[2] > Len(s[1]) THEN s[1] ELSE g[Onward(s[1], s[2])]
    BY <1>1, <1>6
  <2>2. s = <<s[1], s[2]>>
    BY <1>1
  <2>3. Body(g)[s] = IF s[2] > Len(s[1]) THEN s[1] ELSE g[Onward(s[1], s[2])]
    BY <1>7
  <2> HIDE DEF Body, S
  <2> QED BY <2>1, <2>2, <2>3
<1>9. g = Body(g)
  <2>1. DOMAIN Body(g) = S /\ Body(g) = [s \in S |-> Body(g)[s]]
    BY DEF Places
  <2>2. g = [s \in S |-> g[s]]
    BY <1>5
  <2> HIDE DEF Body, S, Y
  <2> QED BY <1>8, <2>1, <2>2
<1>10. RemoveDots = Body(RemoveDots)
  <2> HIDE DEF Body
  <2>1. fixed = Body(fixed)
    BY <1>9
  <2>2. RemoveDots = fixed
    BY DEF RemoveDots, Body
  <2> QED BY <2>1, <2>2
<1> DEFINE R == RemoveDots
<1>11. ASSUME NEW s \in S
       PROVE  R[s] = IF s[2] > Len(s[1]) THEN s[1] ELSE R[Onward(s[1], s[2])]
  <2> HIDE DEF Body
  <2> QED BY <1>7, <1>10
<1> HIDE DEF R, Body, fixed
<1>12. S \subseteq {s \in S : R[s] \in Y}
  <2> DEFINE Good == {s \in S : R[s] \in Y}
  <2>1. ASSUME NEW s \in S \cap T PROVE s \in Good
    <3>1. s[2] > Len(s[1]) /\ s[1] \in Y
      BY <1>1, <2>1 DEF T
    <3> QED BY <1>11, <2>1, <3>1
  <2>2. ASSUME NEW s \in S \ T, step[s] \in Good PROVE s \in Good
    <3>1. ~(s[2] > Len(s[1])) /\ step[s] = Onward(s[1], s[2])
      BY <2>2 DEF T, step
    <3> HIDE DEF S, Y
    <3> QED BY <1>11, <2>2, <3>1
  <2> HIDE DEF Good, S
  <2>3. S \subseteq Good
    BY <1>2, <2>1, <2>2, Descent
  <2> QED BY <2>3 DEF Good
<1>13. <<list, at>> \in S /\ <<list, at>>[1] = list /\ <<list, at>>[2] = at
  BY DEF Places
<1>14. Len(list) \in Nat
  BY LenProperties
<1>15. R[<<list, at>>] \in Y
  BY <1>12, <1>13
<1>16. R[<<list, at>>] = IF at > Len(list) THEN list ELSE R[Onward(list, at)]
  BY <1>11, <1>13
<1> QED BY <1>14, <1>15, <1>16 DEF R

LEMMA FrontType ==
  ASSUME NEW X, NEW s \in Seq(X), s # <<>>
  PROVE  /\ Front(s) \in Seq(X) /\ Len(Front(s)) = Len(s) - 1
         /\ \A i \in 1..(Len(s) - 1) : Front(s)[i] = s[i]
         /\ Last(s) = s[Len(s)] /\ Last(s) \in X
<1>1. Len(s) \in Nat /\ Len(s) # 0 /\ \A i \in 1..Len(s) : s[i] \in X
  BY LenProperties, EmptySeq
<1> DEFINE k == Len(s) - 1
<1>2. 1 \in Int /\ k \in Int /\ k \in Nat /\ \A i \in 1..k : s[i] \in X
  BY <1>1
<1>3. Front(s) = SubSeq(s, 1, k) /\ Last(s) = s[Len(s)]
  BY DEF Front, Last
<1> HIDE DEF k
<1>4. /\ SubSeq(s, 1, k) \in Seq(X) /\ Len(SubSeq(s, 1, k)) = IF 1 <= k THEN k - 1 + 1 ELSE 0
      /\ \A i \in 1..(k - 1 + 1) : SubSeq(s, 1, k)[i] = s[1 + i - 1]
  BY <1>2, SubSeqProperties
<1>5. Len(SubSeq(s, 1, k)) = k
  BY <1>2, <1>4
<1>6. ASSUME NEW i \in 1..k PROVE SubSeq(s, 1, k)[i] = s[i]
  <2>1. i \in 1..(k - 1 + 1) /\ 1 + i - 1 = i
    BY <1>2
  <2> QED BY <1>4, <2>1
<1> QED BY <1>1, <1>3, <1>4, <1>5, <1>6 DEF k

\* A path without doubled slashes: its first segment, the names between, its last.
LEMMA SlashslashParts ==
  ASSUME NEW path \in Seq(STRING), path # <<>>
  PROVE  /\ Slashslash(path) \in Seq(STRING) /\ Slashslash(path) # <<>>
         /\ Slashslash(path)[1] = path[1]
         /\ Len(path) < 2 => Slashslash(path) = path
         /\ Len(path) >= 2 =>
              /\ Tail(Front(path)) \in Seq(STRING)
              /\ Slashslash(path) = <<path[1]>> \o Picked(Tail(Front(path)), STRING \ {Blank})
                                                \o <<Last(path)>>
<1>1. Len(path) \in Nat /\ Len(path) # 0
  BY LenProperties, EmptySeq
<1>2. CASE Len(path) < 2
  <2>1. Slashslash(path) = path
    BY <1>2 DEF Slashslash
  <2> QED BY <1>1, <1>2, <2>1
<1>3. CASE ~(Len(path) < 2)
  <2>1. Front(path) \in Seq(STRING) /\ Len(Front(path)) = Len(path) - 1 /\ Last(path) \in STRING
    BY FrontType
  <2>2. Front(path) # <<>>
    BY <1>1, <1>3, <2>1, EmptySeq
  <2> DEFINE inside == Tail(Front(path))
             a == <<path[1]>>
             b == Picked(inside, STRING \ {Blank})
             c == <<Last(path)>>
  <2>3. inside \in Seq(STRING)
    BY <2>1, <2>2, HeadTailProperties
  <2>4. b \in Seq(STRING)
    <3> HIDE DEF inside
    <3> QED BY <2>3, PickedInto
  <2>5. path[1] \in STRING
    BY <1>1, <1>3, LenProperties
  <2>6. a \in Seq(STRING) /\ Len(a) = 1 /\ a[1] = path[1] /\ c \in Seq(STRING)
    BY <2>1, <2>5
  <2>7. Slashslash(path) = a \o b \o c
    <3>1. Slashslash(path) = a \o Those(inside, {i \in DOMAIN inside : inside[i] # Blank}) \o c
      BY <1>3 DEF Slashslash
    <3>2. ASSUME NEW i \in DOMAIN inside PROVE inside[i] \in STRING
      <4> HIDE DEF inside
      <4> QED BY <2>3, LenProperties
    <3>3. {i \in DOMAIN inside : inside[i] # Blank}
            = {i \in DOMAIN inside : inside[i] \in STRING \ {Blank}}
      BY <3>2
    <3> HIDE DEF inside
    <3> QED BY <3>1, <3>3 DEF Picked
  <2> HIDE DEF a, b, c, inside
  <2>8. /\ a \o b \in Seq(STRING) /\ Len(a \o b) = Len(a) + Len(b)
        /\ \A i \in 1..(Len(a) + Len(b)) : (a \o b)[i] = IF i <= Len(a) THEN a[i] ELSE b[i - Len(a)]
    BY <2>4, <2>6, ConcatProperties
  <2>9. Len(b) \in Nat /\ Len(c) \in Nat
    BY <2>4, <2>6, LenProperties
  <2>10. 1 \in 1..(Len(a) + Len(b)) /\ (a \o b)[1] = path[1]
    BY <2>6, <2>8, <2>9
  <2> DEFINE ab == a \o b
  <2> HIDE DEF ab
  <2>11. /\ ab \o c \in Seq(STRING) /\ Len(ab \o c) = Len(ab) + Len(c)
         /\ \A i \in 1..(Len(ab) + Len(c)) : (ab \o c)[i] = IF i <= Len(ab) THEN ab[i] ELSE c[i - Len(ab)]
    <3>1. ab \in Seq(STRING)
      BY <2>8 DEF ab
    <3> QED BY <2>6, <3>1, ConcatProperties
  <2>12. Len(ab) = 1 + Len(b) /\ ab[1] = path[1]
    BY <2>6, <2>8, <2>10 DEF ab
  <2>13. 1 \in 1..(Len(ab) + Len(c)) /\ 1 <= Len(ab) /\ Len(ab) + Len(c) # 0
    BY <2>9, <2>12
  <2>14. (ab \o c)[1] = path[1] /\ ab \o c # <<>>
    BY <2>11, <2>12, <2>13, EmptySeq
  <2>15. Slashslash(path) = ab \o c
    BY <2>7 DEF ab
  <2>16. Slashslash(path) = a \o b \o c /\ inside \in Seq(STRING)
    BY <2>7, <2>3
  <2> QED BY <1>1, <1>3, <2>11, <2>14, <2>15, <2>16 DEF a, b, c, inside
<1> QED BY <1>2, <1>3

LEMMA OneOrTwo ==
  ASSUME NEW X, NEW x \in X, NEW y \in X
  PROVE  <<x>> \in Seq(X) /\ <<x, y>> \in Seq(X)
OBVIOUS

LEMMA NoPathType ==
  /\ NoPath \in Seq(STRING) /\ Len(NoPath) = 1 /\ NoPath[1] = Blank /\ NoPath # <<>>
  /\ Root \in Seq(STRING) /\ Len(Root) = 2 /\ Root[1] = Blank /\ Root[2] = Blank /\ Root # <<>>
<1> DEFINE b == Blank
<1>1. b \in STRING
  BY UrlAssumption
<1>2. NoPath = <<b>> /\ Root = <<b, b>>
  BY DEF NoPath, Root
<1> HIDE DEF b
<1>3. <<b>> \in Seq(STRING) /\ <<b, b>> \in Seq(STRING)
  BY <1>1, OneOrTwo
<1>4. Len(<<b>>) = 1 /\ <<b>>[1] = b /\ <<b>> # <<>> /\ Len(<<b, b>>) = 2 /\ <<b, b>>[1] = b
      /\ <<b, b>>[2] = b /\ <<b, b>> # <<>>
  OBVIOUS
<1>5. Blank = b
  BY DEF b
<1> QED BY <1>2, <1>3, <1>4, <1>5

LEMMA NormaliseType ==
  ASSUME NEW path \in Seq(STRING), path # <<>>
  PROVE  /\ NormalisePath(path) \in Seq(STRING) /\ NormalisePath(path) # <<>>
         /\ NormalisePath(path)[1] = Blank
<1> DEFINE collapsed == Slashslash(path)
           list == IF Rooted(collapsed) THEN Tail(collapsed) ELSE collapsed
           left == RemoveDots[<<list, 1>>]
<1>1. collapsed \in Seq(STRING) /\ collapsed # <<>>
  BY SlashslashParts
<1>2. list \in Seq(STRING)
  <2> HIDE DEF collapsed
  <2>1. Tail(collapsed) \in Seq(STRING)
    BY <1>1, HeadTailProperties
  <2> QED BY <1>1, <2>1
<1>3. left \in Seq(STRING)
  <2>1. 1 \in Nat \ {0}
    OBVIOUS
  <2> HIDE DEF list
  <2> QED BY <1>2, <2>1, RemoveDotsSteps
<1>4. NormalisePath(path) = Slashslash(NoPath \o left)
  BY DEF NormalisePath
<1>5. NoPath \in Seq(STRING) /\ Len(NoPath) = 1 /\ NoPath[1] = Blank
  BY NoPathType
<1> HIDE DEF left
<1>6. /\ NoPath \o left \in Seq(STRING) /\ Len(NoPath \o left) = Len(NoPath) + Len(left)
      /\ \A i \in 1..(Len(NoPath) + Len(left)) :
           (NoPath \o left)[i] = IF i <= Len(NoPath) THEN NoPath[i] ELSE left[i - Len(NoPath)]
  BY <1>3, <1>5, ConcatProperties
<1>7. Len(left) \in Nat
  BY <1>3, LenProperties
<1>8. NoPath \o left # <<>> /\ (NoPath \o left)[1] = Blank
  BY <1>5, <1>6, <1>7, EmptySeq
<1> DEFINE q == NoPath \o left
<1>9. q \in Seq(STRING) /\ q # <<>> /\ q[1] = Blank /\ NormalisePath(path) = Slashslash(q)
  BY <1>4, <1>6, <1>8
<1> HIDE DEF q
<1>10. /\ Slashslash(q) \in Seq(STRING) /\ Slashslash(q) # <<>>
       /\ Slashslash(q)[1] = q[1]
  BY <1>9, SlashslashParts
<1> QED BY <1>9, <1>10

LEMMA FormalisedType ==
  ASSUME NEW path \in Seq(STRING), path # <<>>
  PROVE  Formalised(path) \in Seq(STRING) /\ Formalised(path) # <<>>
<1>1. Blank \in STRING
  BY UrlAssumption
<1>2. Root \in Seq(STRING) /\ Len(Root) = 2 /\ Root # <<>>
  BY NoPathType
<1>3. Append(path, Blank) \in Seq(STRING) /\ Append(path, Blank) # <<>>
  BY <1>1, AppendProperties
<1>4. Formalised(path) \in {Root, Append(path, Blank), path}
  BY DEF Formalised
<1> QED BY <1>2, <1>3, <1>4

LEMMA PathspecType ==
  ASSUME NEW old \in Seq(STRING), old # <<>>, NEW path \in Seq(STRING), path # <<>>
  PROVE  /\ Pathspec(old, path) \in Seq(STRING) /\ Pathspec(old, path) # <<>>
         /\ Pathspec(old, path)[1] = Blank
<1> DEFINE new == Formalised(path)
           dir == Directory(old)
<1>1. new \in Seq(STRING) /\ new # <<>>
  BY FormalisedType
<1>2. dir \in Seq(STRING) /\ dir # <<>>
  <2>1. Blank \in STRING /\ ".." \in STRING
    BY UrlAssumption DEF Dots
  <2>2. <<"..", Blank>> \in Seq(STRING)
    BY <2>1
  <2>3. old \o <<"..", Blank>> \in Seq(STRING) /\ old \o <<"..", Blank>> # <<>>
    BY <2>2, ConcatProperties, ConcatEqualIffEmpty
  <2> QED BY <2>3 DEF Directory
<1> HIDE DEF new, dir
<1>3. Front(dir) \in Seq(STRING)
  BY <1>2, FrontType
<1>4. Under(dir, new) \in Seq(STRING) /\ Under(dir, new) # <<>>
  BY <1>1, <1>3, ConcatProperties, ConcatEqualIffEmpty DEF Under
<1> DEFINE q == IF Rooted(new) THEN new ELSE Under(dir, new)
<1>5. q \in Seq(STRING) /\ q # <<>> /\ Pathspec(old, path) = NormalisePath(q)
  BY <1>1, <1>4 DEF Pathspec, new, dir
<1> HIDE DEF q
<1> QED BY <1>5, NormaliseType

-----------------------------------------------------------------------------
(***************************************************************************)
(* Query strings.                                                          *)
(***************************************************************************)
FlatSteps(seqs, F) ==
  /\ F[0] = <<>>
  /\ \A k \in 1..Len(seqs) : F[k] = F[k - 1] \o seqs[k]
  /\ FlattenSeq(seqs) = F[Len(seqs)]

LEMMA FlattenSteps ==
  ASSUME NEW X, NEW seqs \in Seq(Seq(X))
  PROVE  \E F \in [0..Len(seqs) -> Seq(X)] : FlatSteps(seqs, F)
<1> DEFINE n == Len(seqs)
           step == [k \in 1..n |-> [u \in Seq(X) |-> u \o seqs[k]]]
           Body(g) == [i \in 1..n |-> IF i = 1 THEN seqs[i] ELSE g[i - 1] \o seqs[i]]
           flatten == CHOOSE g : g = Body(g)
<1>1. n \in Nat /\ \A k \in 1..n : seqs[k] \in Seq(X)
  BY LenProperties
<1>2. step \in [1..n -> [Seq(X) -> Seq(X)]]
  BY <1>1, ConcatProperties
<1>3. <<>> \in Seq(X)
  BY EmptySeq
<1>4. \E F : IsRecursion(F, n, Seq(X), <<>>, step)
  <2> HIDE DEF step, n
  <2> QED BY <1>1, <1>2, <1>3, Recursion
<1>5. PICK F : /\ F \in [0..n -> Seq(X)] /\ F[0] = <<>>
               /\ \A k \in 1..n : F[k] = step[k][F[k - 1]]
  BY <1>4 DEF IsRecursion
<1>6. \A k \in 1..n : F[k] = F[k - 1] \o seqs[k]
  <2> TAKE k \in 1..n
  <2> DEFINE j == k - 1
  <2>1. j \in 0..n /\ k \in 1..n
    BY <1>1
  <2> HIDE DEF j, step, n
  <2>2. F[j] \in Seq(X)
    BY <1>5, <2>1
  <2>3. F[k] = step[k][F[j]]
    BY <1>5, <2>1 DEF j
  <2> USE DEF step
  <2>4. step[k][F[j]] = F[j] \o seqs[k]
    BY <2>1, <2>2
  <2> QED BY <2>3, <2>4 DEF j
<1> DEFINE G == [k \in 1..n |-> F[k]]
<1>7. G = Body(G)
  <2>1. \A k \in 1..n : G[k] = Body(G)[k]
    <3> TAKE k \in 1..n
    <3>1. CASE k = 1
      <4>0. k - 1 = 0
        BY <3>1
      <4>1. F[k] = F[k - 1] \o seqs[k]
        BY <1>6
      <4>2. <<>> \o seqs[1] = seqs[1]
        BY <1>1, <3>1, ConcatEmptySeq
      <4> QED BY <1>5, <3>1, <4>0, <4>1, <4>2
    <3>2. CASE k # 1
      <4>1. k - 1 \in 1..n
        BY <1>1, <3>2
      <4> QED BY <1>6, <3>2, <4>1
    <3> QED BY <3>1, <3>2
  <2> QED BY <2>1
<1>8. flatten = Body(flatten)
  <2> HIDE DEF Body, G
  <2> QED BY <1>7
<1>9. FlattenSeq(seqs) = IF n = 0 THEN seqs ELSE flatten[n]
  BY DEF FlattenSeq
<1> HIDE DEF flatten
<1>10. \A k \in 0..n : k = 0 \/ flatten[k] = F[k]
  <2> DEFINE Good == {k \in 0..n : k = 0 \/ flatten[k] = F[k]}
  <2>1. 0 \in Good
    BY <1>1
  <2>2. ASSUME NEW k \in 1..n, k - 1 \in Good PROVE k \in Good
    <3>1. k \in 0..n /\ k # 0 /\ (k # 1 => k - 1 # 0)
      BY <1>1
    <3>2. flatten[k] = IF k = 1 THEN seqs[k] ELSE flatten[k - 1] \o seqs[k]
      BY <1>8
    <3>3. CASE k = 1
      <4>0. k - 1 = 0
        BY <3>3
      <4>1. F[k] = F[k - 1] \o seqs[k]
        BY <1>6
      <4>2. <<>> \o seqs[1] = seqs[1]
        BY <1>1, <3>3, ConcatEmptySeq
      <4> QED BY <1>5, <3>1, <3>2, <3>3, <4>0, <4>1, <4>2
    <3>4. CASE k # 1
      BY <1>6, <2>2, <3>1, <3>2, <3>4
    <3> QED BY <3>3, <3>4
  <2> HIDE DEF Good, n
  <2>3. 0..n \subseteq Good
    BY <1>1, <2>1, <2>2, Upwards
  <2> QED BY <2>3 DEF Good
<1>11. FlattenSeq(seqs) = F[n]
  <2>1. CASE n = 0
    <3>1. seqs = <<>>
      BY <2>1, EmptySeq
    <3> QED BY <1>5, <1>9, <2>1, <3>1
  <2>2. CASE n # 0
    BY <1>1, <1>9, <1>10, <2>2
  <2> QED BY <2>1, <2>2
<1> QED BY <1>5, <1>6, <1>11 DEF FlatSteps

LEMMA FlattenEmpty == FlattenSeq(<<>>) = <<>>
BY DEF FlattenSeq

LEMMA FlattenAppend ==
  ASSUME NEW X, NEW seqs \in Seq(Seq(X)), NEW s \in Seq(X)
  PROVE  /\ FlattenSeq(seqs) \in Seq(X)
         /\ FlattenSeq(Append(seqs, s)) = FlattenSeq(seqs) \o s
<1> DEFINE n == Len(seqs)
           t == Append(seqs, s)
<1>1. n \in Nat
  BY LenProperties
<1>2. /\ t \in Seq(Seq(X)) /\ Len(t) = n + 1
      /\ (\A i \in 1..n : t[i] = seqs[i]) /\ t[n + 1] = s
  BY AppendProperties
<1> HIDE DEF t
<1>3. PICK F \in [0..n -> Seq(X)] : FlatSteps(seqs, F)
  BY FlattenSteps
<1>4. PICK G \in [0..(n + 1) -> Seq(X)] : FlatSteps(t, G)
  BY <1>2, FlattenSteps
<1> DEFINE Good == {k \in 0..n : F[k] = G[k]}
<1>5. 0 \in Good
  BY <1>1, <1>3, <1>4 DEF FlatSteps
<1>6. ASSUME NEW k \in 1..n, k - 1 \in Good PROVE k \in Good
  <2>1. k \in 0..n /\ k \in 1..(n + 1) /\ t[k] = seqs[k]
    BY <1>1, <1>2
  <2>2. F[k] = F[k - 1] \o seqs[k]
    BY <1>3 DEF FlatSteps
  <2>3. G[k] = G[k - 1] \o t[k]
    BY <1>2, <1>4, <2>1 DEF FlatSteps
  <2>4. F[k - 1] = G[k - 1]
    BY <1>6
  <2>5. F[k] = G[k]
    BY <2>1, <2>2, <2>3, <2>4
  <2> QED BY <2>1, <2>5
<1> HIDE DEF Good
<1>7. 0..n \subseteq Good
  BY <1>1, <1>5, <1>6, Upwards
<1>8. F[n] = G[n]
  BY <1>1, <1>7 DEF Good
<1>9. n + 1 \in 1..(n + 1) /\ n + 1 - 1 = n /\ n \in 0..n
  BY <1>1
<1>10. G[n + 1] = G[n] \o s
  <2>1. \A k \in 1..Len(t) : G[k] = G[k - 1] \o t[k]
    BY <1>4 DEF FlatSteps
  <2> DEFINE j == n + 1
  <2>2. j \in 1..Len(t) /\ j - 1 = n
    BY <1>2, <1>9
  <2> HIDE DEF j, n
  <2>3. G[j] = G[j - 1] \o t[j]
    BY <2>1, <2>2
  <2>4. t[j] = s
    BY <1>2 DEF j
  <2>5. G[j] = G[n] \o s
    BY <2>2, <2>3, <2>4
  <2> QED BY <2>5 DEF j
<1>11. FlattenSeq(seqs) = F[n] /\ FlattenSeq(t) = G[n + 1]
  BY <1>2, <1>3, <1>4 DEF FlatSteps
<1>12. F[n] \in Seq(X)
  BY <1>3, <1>9
<1> QED BY <1>8, <1>10, <1>11, <1>12 DEF t

KeySet == ToSet(Keys)
Items == [KeySet -> Seq(STRING)]

\* The fields of a key.
OfKey(fields, key) == Those(fields, {i \in DOMAIN fields : fields[i].key = key})
KeyFields(key) == {f \in Fields : f.key = key}

LEMMA OfIsPicked ==
  ASSUME NEW s \in Seq(Fields), NEW key
  PROVE  OfKey(s, key) = Picked(s, KeyFields(key)) /\ OfKey(s, key) \in Seq(Fields)
<1>1. \A i \in DOMAIN s : s[i] \in Fields
  BY LenProperties
<1>2. {i \in DOMAIN s : s[i].key = key} = {i \in DOMAIN s : s[i] \in KeyFields(key)}
  BY <1>1 DEF KeyFields
<1>3. OfKey(s, key) = Picked(s, KeyFields(key))
  BY <1>2 DEF OfKey, Picked
<1> QED BY <1>3, PickedInto

LEMMA OfEmpty == \A key : OfKey(<<>>, key) = <<>>
BY ThoseEmpty DEF OfKey

LEMMA OfAppend ==
  ASSUME NEW s \in Seq(Fields), NEW f \in Fields, NEW key
  PROVE  OfKey(Append(s, f), key)
           = IF f.key = key THEN Append(OfKey(s, key), f) ELSE OfKey(s, key)
<1> DEFINE t == Append(s, f)
           T == KeyFields(key)
<1>1. t \in Seq(Fields)
  BY AppendProperties
<1>2. Picked(t, T) = IF f \in T THEN Append(Picked(s, T), f) ELSE Picked(s, T)
  <2> HIDE DEF T
  <2> QED BY PickedAppend
<1> HIDE DEF t
<1>3. OfKey(t, key) = Picked(t, T) /\ OfKey(s, key) = Picked(s, T)
  BY <1>1, OfIsPicked
<1>4. f \in T <=> f.key = key
  BY DEF KeyFields
<1> HIDE DEF T
<1> QED BY <1>2, <1>3, <1>4 DEF t

LEMMA OfConcat ==
  ASSUME NEW a \in Seq(Fields), NEW b \in Seq(Fields), NEW key
  PROVE  OfKey(a \o b, key) = OfKey(a, key) \o OfKey(b, key)
<1> DEFINE t == a \o b
<1>1. t \in Seq(Fields)
  BY ConcatProperties
<1>2. Picked(t, KeyFields(key)) = Picked(a, KeyFields(key)) \o Picked(b, KeyFields(key))
  BY PickedConcat
<1> HIDE DEF t
<1>3. /\ OfKey(t, key) = Picked(t, KeyFields(key))
      /\ OfKey(a, key) = Picked(a, KeyFields(key))
      /\ OfKey(b, key) = Picked(b, KeyFields(key))
  BY <1>1, OfIsPicked
<1> QED BY <1>2, <1>3 DEF t

\* The fields of the other keys.
Without(fields, key) == Those(fields, {i \in DOMAIN fields : fields[i].key # key})

LEMMA OfWithout ==
  ASSUME NEW s \in Seq(Fields), NEW gone
  PROVE  /\ Without(s, gone) \in Seq(Fields)
         /\ s = <<>> => Without(s, gone) = <<>>
         /\ \A key : OfKey(Without(s, gone), key) = IF key = gone THEN <<>> ELSE OfKey(s, key)
<1> DEFINE T == Fields \ KeyFields(gone)
<1>1. \A i \in DOMAIN s : s[i] \in Fields
  BY LenProperties
<1>2. {i \in DOMAIN s : s[i].key # gone} = {i \in DOMAIN s : s[i] \in T}
  BY <1>1 DEF KeyFields
<1>3. Without(s, gone) = Picked(s, T)
  <2> HIDE DEF T
  <2> QED BY <1>2 DEF Without, Picked
<1>4. Picked(s, T) \in Seq(Fields)
  <2> HIDE DEF T
  <2> QED BY PickedInto
<1>5. ASSUME NEW key
      PROVE  OfKey(Picked(s, T), key) = IF key = gone THEN <<>> ELSE OfKey(s, key)
  <2> DEFINE U == KeyFields(key)
             V == T \cap U
  <2>1. Picked(Picked(s, T), U) = Picked(s, V)
    <3> HIDE DEF T, U
    <3> QED BY PickedTwice
  <2>2. CASE key = gone
    <3>1. Fields \cap V = {}
      BY <2>2
    <3> HIDE DEF V
    <3>2. Picked(s, V) = <<>>
      BY <3>1, PickedNone
    <3>3. OfKey(Picked(s, T), key) = Picked(Picked(s, T), U)
      <4> HIDE DEF T
      <4> QED BY <1>4, OfIsPicked
    <3> QED BY <2>1, <2>2, <3>2, <3>3
  <2>3. CASE key # gone
    <3>1. V = U
      BY <2>3 DEF KeyFields
    <3>2. OfKey(Picked(s, T), key) = Picked(Picked(s, T), U) /\ OfKey(s, key) = Picked(s, U)
      <4> HIDE DEF T
      <4> QED BY <1>4, OfIsPicked
    <3> HIDE DEF T, U, V
    <3> QED BY <2>1, <2>3, <3>1, <3>2
  <2> QED BY <2>2, <2>3
<1>6. Picked(<<>>, T) = <<>>
  BY PickedEmpty
<1> HIDE DEF T
<1> QED BY <1>3, <1>4, <1>5, <1>6

\* The fields of a key with these values.
FieldsOf(key, values) == [i \in DOMAIN values |-> Field(key, values[i])]

LEMMA FieldsOfType ==
  ASSUME NEW key \in KeySet, KeySet \subseteq STRING, NEW values \in Seq(STRING)
  PROVE  /\ FieldsOf(key, values) \in Seq(Fields)
         /\ values = <<>> => FieldsOf(key, values) = <<>>
         /\ \A m : OfKey(FieldsOf(key, values), m)
                     = IF m = key THEN FieldsOf(key, values) ELSE <<>>
         /\ \A v \in STRING :
              FieldsOf(key, Append(values, v)) = Append(FieldsOf(key, values), Field(key, v))
<1> DEFINE F == [v \in STRING |-> Field(key, v)]
           K == KeyFields(key)
           u == Image(values, F)
<1>1. \A v \in STRING : F[v] \in K
  BY DEF Field, KeyFields, Fields, KeySet
<1>2. ASSUME NEW w \in Seq(STRING) PROVE FieldsOf(key, w) = Image(w, F)
  <2>1. \A i \in DOMAIN w : w[i] \in STRING
    BY LenProperties
  <2> QED BY <2>1 DEF FieldsOf, Image
<1>3. \A v \in STRING : F[v] = Field(key, v)
  OBVIOUS
<1>4. K \subseteq Fields /\ \A x \in K : x.key = key
  BY DEF KeyFields
<1> HIDE DEF F, K
<1>5. u \in Seq(K)
  BY <1>1, ImageType
<1>6. Seq(K) \subseteq Seq(Fields)
  BY <1>4, SeqMonotonic
<1>7. values = <<>> => u = <<>>
  BY ImageEmpty
<1>8. ASSUME NEW m PROVE OfKey(u, m) = IF m = key THEN u ELSE <<>>
  <2>0. u \in Seq(Fields)
    BY <1>5, <1>6
  <2> HIDE DEF u
  <2>1. OfKey(u, m) = Picked(u, KeyFields(m))
    BY <2>0, OfIsPicked
  <2>2. CASE m = key
    <3>1. KeyFields(m) = K
      BY <2>2 DEF K
    <3>2. Picked(u, K) = u
      BY <1>5, PickedAll
    <3> QED BY <2>1, <2>2, <3>1, <3>2
  <2>3. CASE m # key
    <3> DEFINE T == KeyFields(m)
    <3>1. K \cap T = {}
      BY <1>4, <2>3 DEF KeyFields
    <3> HIDE DEF T
    <3>2. Picked(u, T) = <<>>
      BY <1>5, <3>1, PickedNone
    <3> QED BY <2>1, <2>3, <3>2 DEF T
  <2> QED BY <2>2, <2>3
<1>9. ASSUME NEW v \in STRING
      PROVE  Image(Append(values, v), F) = Append(u, F[v]) /\ Append(values, v) \in Seq(STRING)
  <2>1. Image(Append(values, v), F) = Append(Image(values, F), F[v])
    BY ImageAppend
  <2> QED BY <2>1, AppendProperties
<1>10. FieldsOf(key, values) = u
  BY <1>2
<1>11. ASSUME NEW v \in STRING
       PROVE  FieldsOf(key, Append(values, v)) = Append(u, Field(key, v))
  <2> DEFINE w == Append(values, v)
  <2>1. w \in Seq(STRING) /\ Image(w, F) = Append(u, F[v])
    BY <1>9
  <2> HIDE DEF w, u
  <2>2. FieldsOf(key, w) = Image(w, F)
    BY <1>2, <2>1
  <2> QED BY <1>3, <2>1, <2>2 DEF w
<1> HIDE DEF u
<1>12. u \in Seq(Fields)
  BY <1>5, <1>6 DEF u
<1> QED BY <1>7, <1>8, <1>10, <1>11, <1>12 DEF u

LEMMA KeysType ==
  /\ Keys \in Seq(STRING) /\ KeySet \subseteq STRING
  /\ \A k \in 1..Len(Keys) : Keys[k] \in KeySet
  /\ \A key \in KeySet : \E k \in 1..Len(Keys) : Keys[k] = key
  /\ \A i \in 1..Len(Keys), j \in 1..Len(Keys) : Keys[i] = Keys[j] => i = j
<1>1. Keys \in Seq(STRING) /\ IsInjective(Keys)
  BY UrlAssumption
<1>2. DOMAIN Keys = 1..Len(Keys) /\ \A k \in 1..Len(Keys) : Keys[k] \in STRING
  BY <1>1, LenProperties
<1>3. KeySet = {Keys[k] : k \in 1..Len(Keys)}
  BY <1>2 DEF KeySet, ToSet
<1> QED BY <1>1, <1>2, <1>3 DEF IsInjective

\* A query's text has for every key the fields with the values of that key.
LEMMA PrintedOf ==
  ASSUME NEW items \in Items
  PROVE  /\ Printed(items) \in Seq(Fields)
         /\ \A key \in KeySet : OfKey(Printed(items), key) = FieldsOf(key, items[key])
         /\ items = NoItems => Printed(items) = <<>>
<1> DEFINE n == Len(Keys)
           part(k) == FieldsOf(Keys[k], items[Keys[k]])
           upto(m) == [k \in 1..m |-> part(k)]
           met(m) == {Keys[k] : k \in 1..m}
           Right(m) == /\ FlattenSeq(upto(m)) \in Seq(Fields)
                       /\ \A key \in KeySet : OfKey(FlattenSeq(upto(m)), key)
                            = IF key \in met(m) THEN FieldsOf(key, items[key]) ELSE <<>>
                       /\ items = NoItems => FlattenSeq(upto(m)) = <<>>
           Good == {m \in 0..n : Right(m)}
<1>1. n \in Nat /\ \A k \in 1..n : items[Keys[k]] \in Seq(STRING) /\ Keys[k] \in KeySet
  BY KeysType, LenProperties DEF Items
<1>2. ASSUME NEW k \in 1..n
      PROVE  /\ part(k) \in Seq(Fields)
             /\ items = NoItems => part(k) = <<>>
             /\ \A m : OfKey(part(k), m) = IF m = Keys[k] THEN part(k) ELSE <<>>
  <2>1. items = NoItems => items[Keys[k]] = <<>>
    BY <1>1 DEF NoItems, KeySet
  <2> QED BY <1>1, <2>1, KeysType, FieldsOfType
<1>3. ASSUME NEW m \in 0..n PROVE upto(m) \in Seq(Seq(Fields)) /\ Len(upto(m)) = m
  <2>1. m \in Nat /\ \A k \in 1..m : k \in 1..n
    BY <1>1
  <2> HIDE DEF part
  <2> QED BY <1>2, <2>1
<1>4. 0 \in Good
  <2>1. upto(0) = <<>>
    OBVIOUS
  <2>2. <<>> \in Seq(Fields)
    BY EmptySeq
  <2>3. 0 \in 0..n /\ met(0) = {}
    BY <1>1
  <2> HIDE DEF upto, met, n
  <2>4. Right(0)
    BY <2>1, <2>2, <2>3, FlattenEmpty, OfEmpty
  <2> QED BY <2>3, <2>4
<1>5. ASSUME NEW m \in 1..n, m - 1 \in Good PROVE m \in Good
  <2> DEFINE o == m - 1
             a == upto(o)
             s == part(m)
  <2>1. o \in 0..n /\ m \in 0..n /\ m = o + 1
    BY <1>1
  <2>2. Right(o)
    BY <1>5
  <2>3. a \in Seq(Seq(Fields)) /\ Len(a) = o
    <3> HIDE DEF o, upto
    <3> QED BY <1>3, <2>1
  <2>4. s \in Seq(Fields)
    BY <1>2
  <2>5. upto(m) = Append(a, s)
    <3> DEFINE b == Append(a, s)
               c == upto(m)
    <3>1. /\ b \in Seq(Seq(Fields)) /\ Len(b) = m /\ b[m] = s
          /\ \A i \in 1..o : b[i] = a[i]
      <4> HIDE DEF a, s, o
      <4> QED BY <2>1, <2>3, <2>4, AppendProperties
    <3>2. c \in Seq(Seq(Fields)) /\ Len(c) = m
      <4> HIDE DEF upto
      <4> QED BY <1>3, <2>1
    <3>3. ASSUME NEW i \in 1..m PROVE b[i] = c[i]
      <4>1. CASE i = m
        BY <3>1, <4>1
      <4>2. CASE i # m
        <5>1. i \in 1..o
          BY <4>2, <2>1
        <5>2. a[i] = part(i) /\ c[i] = part(i)
          BY <5>1
        <5> QED BY <3>1, <5>1, <5>2
      <4> QED BY <4>1, <4>2
    <3> HIDE DEF b, c
    <3>4. b = c
      BY <3>1, <3>2, <3>3, SeqEqual
    <3> QED BY <3>4 DEF b, c
  <2>6. Keys[m] \notin met(o)
    <3>1. \A k \in 1..o : k \in 1..n /\ k # m
      BY <2>1, <1>1
    <3> QED BY <3>1, KeysType
  <2>7. met(m) = met(o) \cup {Keys[m]}
    <3>1. 1..m = 1..o \cup {m}
      BY <2>1
    <3> QED BY <3>1
  <2> DEFINE f == FlattenSeq(a)
  <2>8. f \in Seq(Fields) /\ FlattenSeq(upto(m)) = f \o s
    <3> HIDE DEF a, s, upto, part
    <3> QED BY <2>3, <2>4, <2>5, FlattenAppend
  <2>9. f \o s \in Seq(Fields)
    <3> HIDE DEF f, s
    <3> QED BY <2>4, <2>8, ConcatProperties
  <2>10. ASSUME NEW key \in KeySet
         PROVE  OfKey(f \o s, key) = IF key \in met(m) THEN FieldsOf(key, items[key]) ELSE <<>>
    <3>1. OfKey(f, key) = IF key \in met(o) THEN FieldsOf(key, items[key]) ELSE <<>>
      BY <2>2
    <3>2. OfKey(s, key) = IF key = Keys[m] THEN FieldsOf(key, items[key]) ELSE <<>>
      BY <1>2
    <3>3. FieldsOf(key, items[key]) \in Seq(Fields)
      BY KeysType, FieldsOfType DEF Items
    <3> DEFINE q == FieldsOf(key, items[key])
    <3>4. q \in Seq(Fields)
      BY <3>3
    <3> HIDE DEF f, s, met, q
    <3>5. OfKey(f \o s, key) = OfKey(f, key) \o OfKey(s, key)
      BY <2>4, <2>8, OfConcat
    <3>6. q \o <<>> = q /\ <<>> \o q = q /\ <<>> \o <<>> = <<>>
      BY <3>4, ConcatEmptySeq, EmptySeq
    <3>7. OfKey(f, key) = IF key \in met(o) THEN q ELSE <<>>
      BY <3>1 DEF q
    <3>8. OfKey(s, key) = IF key = Keys[m] THEN q ELSE <<>>
      BY <3>2 DEF q
    <3>9. OfKey(f \o s, key) = IF key \in met(m) THEN q ELSE <<>>
      BY <2>6, <2>7, <3>5, <3>6, <3>7, <3>8
    <3> QED BY <3>9 DEF q
  <2>11. items = NoItems => f \o s = <<>>
    <3>1. items = NoItems => f = <<>> /\ s = <<>>
      BY <1>2, <2>2
    <3> HIDE DEF f, s
    <3>2. <<>> \o <<>> = <<>>
      BY ConcatEmptySeq, EmptySeq
    <3> QED BY <3>1, <3>2
  <2> HIDE DEF f, s, met, upto, o
  <2> QED BY <2>1, <2>8, <2>9, <2>10, <2>11
<1>6. 0..n \subseteq Good
  <2> HIDE DEF Good, n
  <2> QED BY <1>1, <1>4, <1>5, Upwards
<1>7. n \in Good
  <2> HIDE DEF Good
  <2> QED BY <1>1, <1>6
<1>8. Printed(items) = FlattenSeq(upto(n))
  <2>1. DOMAIN Keys = 1..n
    BY KeysType, LenProperties
  <2> QED BY <2>1 DEF Printed, FieldsOf
<1>9. \A key \in KeySet : key \in met(n)
  BY KeysType
<1> QED BY <1>7, <1>8, <1>9

\* A query whose text, if it is cached, is that of its items, if it has any.
GoodQuery(q) ==
  /\ q = Query(q.cached, q.items)
  /\ q.cached \in Seq(Fields) /\ q.items \in Items
  /\ q.cached # <<>> /\ q.items # NoItems => q.cached = Printed(q.items)

LEMMA NoItemsType == NoItems \in Items /\ \A key \in KeySet : NoItems[key] = <<>>
<1>1. <<>> \in Seq(STRING)
  BY EmptySeq
<1> QED BY <1>1 DEF NoItems, Items, KeySet

LEMMA TextOfQuery ==
  ASSUME NEW q, GoodQuery(q)
  PROVE  /\ AsString(q) \in Seq(Fields)
         /\ AsString(q) = IF q.items = NoItems THEN q.cached ELSE Printed(q.items)
         /\ GoodQuery(Cached(q)) /\ Cached(q).items = q.items
         /\ AsString(Cached(q)) = AsString(q)
<1>1. q.cached \in Seq(Fields) /\ q.items \in Items
  BY DEF GoodQuery
<1>2. Printed(q.items) \in Seq(Fields) /\ (q.items = NoItems => Printed(q.items) = <<>>)
  BY <1>1, PrintedOf
<1> DEFINE p == Printed(q.items)
<1>3. CASE q.cached = <<>>
  <2>1. Cached(q) = Query(p, q.items)
    BY <1>3 DEF Cached
  <2>2. p \in Seq(Fields) /\ (q.items = NoItems => p = <<>>)
    BY <1>2
  <2>3. p = Printed(q.items)
    OBVIOUS
  <2> HIDE DEF p
  <2>4. Query(p, q.items).cached = p /\ Query(p, q.items).items = q.items
    BY DEF Query
  <2>5. AsString(q) = p
    BY <2>1, <2>4 DEF AsString
  <2>6. GoodQuery(Cached(q)) /\ Cached(q).items = q.items
    BY <1>1, <2>1, <2>2, <2>3, <2>4 DEF GoodQuery
  <2>7. AsString(Cached(q)) = p
    <3>1. CASE p = <<>>
      <4>1. Cached(Cached(q)) = Query(p, q.items)
        BY <2>1, <2>3, <2>4, <3>1 DEF Cached
      <4> QED BY <2>4, <4>1 DEF AsString
    <3>2. CASE p # <<>>
      <4>1. Cached(Cached(q)) = Cached(q)
        BY <2>1, <2>4, <3>2 DEF Cached
      <4> QED BY <2>1, <2>4, <4>1 DEF AsString
    <3> QED BY <3>1, <3>2
  <2> QED BY <1>3, <2>2, <2>3, <2>5, <2>6, <2>7
<1>4. CASE q.cached # <<>>
  <2>1. Cached(q) = q
    BY <1>4 DEF Cached
  <2>2. AsString(q) = q.cached
    BY <2>1 DEF AsString
  <2> QED BY <1>1, <1>4, <2>1, <2>2 DEF GoodQuery
<1> QED BY <1>3, <1>4

LEMMA GivenQuery ==
  ASSUME NEW text \in Seq(Fields)
  PROVE  GoodQuery(Query(text, NoItems)) /\ AsString(Query(text, NoItems)) = text
<1> DEFINE q == Query(text, NoItems)
<1>1. q.cached = text /\ q.items = NoItems /\ q = Query(q.cached, q.items)
  BY DEF Query
<1> HIDE DEF q
<1>2. GoodQuery(q)
  BY <1>1, NoItemsType DEF GoodQuery
<1>3. AsString(q) = text
  BY <1>1, <1>2, TextOfQuery
<1> QED BY <1>2, <1>3 DEF q

LEMMA BlankQuery == GoodQuery(NoQuery) /\ AsString(NoQuery) = <<>>
<1>1. <<>> \in Seq(Fields)
  BY EmptySeq
<1> QED BY <1>1, GivenQuery DEF NoQuery

\* A query of its items alone.
LEMMA ItemQuery ==
  ASSUME NEW items \in Items
  PROVE  /\ GoodQuery(Query(<<>>, items)) /\ Query(<<>>, items).items = items
         /\ \A key \in KeySet : OfKey(AsString(Query(<<>>, items)), key) = FieldsOf(key, items[key])
<1> DEFINE q == Query(<<>>, items)
<1>1. q.cached = <<>> /\ q.items = items /\ q = Query(q.cached, q.items)
  BY DEF Query
<1> HIDE DEF q
<1>2. <<>> \in Seq(Fields)
  BY EmptySeq
<1>3. GoodQuery(q)
  BY <1>1, <1>2 DEF GoodQuery
<1>4. AsString(q) = Printed(items)
  BY <1>1, <1>3, TextOfQuery, PrintedOf
<1> QED BY <1>1, <1>3, <1>4, PrintedOf DEF q

LEMMA AppendFieldMeans ==
  ASSUME NEW q, GoodQuery(q), NEW key \in KeySet, NEW value \in STRING
  PROVE  LET new == AppendField(q, key, value) IN
           /\ GoodQuery(new) /\ new.items # NoItems
           /\ \A m \in KeySet : OfKey(AsString(new), m)
                = IF m = key THEN Append(FieldsOf(m, q.items[m]), Field(key, value))
                             ELSE FieldsOf(m, q.items[m])
<1> DEFINE old == q.items
           items == [old EXCEPT ![key] = Append(@, value)]
<1>1. old \in Items
  BY DEF GoodQuery
<1>2. Append(old[key], value) \in Seq(STRING) /\ Append(old[key], value) # <<>>
  <2>1. old[key] \in Seq(STRING)
    BY <1>1 DEF Items
  <2> DEFINE s == old[key]
  <2> HIDE DEF old, s
  <2>2. Append(s, value) \in Seq(STRING) /\ Append(s, value) # <<>>
    <3>1. s \in Seq(STRING)
      BY <2>1 DEF s
    <3> QED BY <3>1, AppendParts
  <2> QED BY <2>2 DEF s
<1>3. items \in Items /\ items[key] = Append(old[key], value)
      /\ \A m \in KeySet : m # key => items[m] = old[m]
  <2> HIDE DEF old
  <2> QED BY <1>1, <1>2 DEF Items
<1>4. items # NoItems
  BY <1>2, <1>3, NoItemsType
<1>5. AppendField(q, key, value) = Query(<<>>, items)
  BY DEF AppendField
<1> HIDE DEF items, old
<1>6. ASSUME NEW m \in KeySet
      PROVE  FieldsOf(m, items[m]) = IF m = key THEN Append(FieldsOf(m, old[m]), Field(key, value))
                                                ELSE FieldsOf(m, old[m])
  <2>1. old[key] \in Seq(STRING)
    BY <1>1 DEF Items
  <2>2. FieldsOf(key, Append(old[key], value)) = Append(FieldsOf(key, old[key]), Field(key, value))
    BY <2>1, KeysType, FieldsOfType
  <2> QED BY <1>3, <2>2
<1>7. /\ GoodQuery(Query(<<>>, items)) /\ Query(<<>>, items).items = items
      /\ \A m \in KeySet : OfKey(AsString(Query(<<>>, items)), m) = FieldsOf(m, items[m])
  BY <1>3, ItemQuery
<1> QED BY <1>4, <1>5, <1>6, <1>7 DEF old

LEMMA RemoveKeyMeans ==
  ASSUME NEW q, GoodQuery(q), NEW key \in KeySet
  PROVE  LET new == RemoveKey(q, key) IN
           /\ GoodQuery(new)
           /\ q.items = NoItems => new = q
           /\ q.items # NoItems => \A m \in KeySet : OfKey(AsString(new), m)
                = IF m = key THEN <<>> ELSE FieldsOf(m, q.items[m])
<1> DEFINE old == q.items
           items == [old EXCEPT ![key] = <<>>]
<1>1. old \in Items
  BY DEF GoodQuery
<1>2. \A m \in KeySet : old[m] \in Seq(STRING)
  BY <1>1 DEF Items
<1>3. items \in Items /\ items[key] = <<>> /\ \A m \in KeySet : m # key => items[m] = old[m]
  <2>1. <<>> \in Seq(STRING)
    BY EmptySeq
  <2> HIDE DEF old
  <2> QED BY <1>1, <2>1 DEF Items
<1>4. FieldsOf(key, <<>>) = <<>>
  BY DEF FieldsOf
<1>5. CASE old[key] = <<>>
  <2>1. RemoveKey(q, key) = q
    BY <1>5 DEF RemoveKey
  <2>2. q.items # NoItems => AsString(q) = Printed(old)
    BY TextOfQuery
  <2>3. \A m \in KeySet : OfKey(Printed(old), m) = FieldsOf(m, old[m])
    BY <1>1, PrintedOf
  <2> HIDE DEF items
  <2> QED BY <1>4, <1>5, <2>1, <2>2, <2>3
<1>6. CASE old[key] # <<>>
  <2>1. RemoveKey(q, key) = Query(<<>>, items)
    BY <1>6 DEF RemoveKey
  <2>2. old # NoItems
    BY <1>6, NoItemsType
  <2> HIDE DEF items, old
  <2>3. /\ GoodQuery(Query(<<>>, items))
        /\ \A m \in KeySet : OfKey(AsString(Query(<<>>, items)), m) = FieldsOf(m, items[m])
    BY <1>3, ItemQuery
  <2> QED BY <1>3, <1>4, <2>1, <2>2, <2>3 DEF old
<1> QED BY <1>5, <1>6

Queries == [cached : {<<>>}, items : Items]
Filling(q, f) == AppendField(q, AsRead(f).key, AsRead(f).value)
Filled(text) ==
  FoldLeft(LAMBDA query, field : AppendField(query, AsRead(field).key, AsRead(field).value),
           NoQuery, text)

LEMMA AsReadType ==
  ASSUME NEW f \in Fields
  PROVE  /\ AsRead(f) \in Fields
         /\ f \in DOMAIN Misprinted => AsRead(f) = Misprinted[f]
         /\ f \notin DOMAIN Misprinted => AsRead(f) = f
BY UrlAssumption DEF AsRead

LEMMA FillingType ==
  /\ NoQuery \in Queries
  /\ \A q \in Queries, f \in Fields :
       /\ Filling(q, f) \in Queries
       /\ \A m \in KeySet : Filling(q, f).items[m]
            = IF m = AsRead(f).key THEN Append(q.items[m], AsRead(f).value) ELSE q.items[m]
<1>1. NoQuery \in Queries
  BY NoItemsType DEF NoQuery, Query, Queries
<1>2. ASSUME NEW q \in Queries, NEW f \in Fields
      PROVE  /\ Filling(q, f) \in Queries
             /\ \A m \in KeySet : Filling(q, f).items[m]
                  = IF m = AsRead(f).key THEN Append(q.items[m], AsRead(f).value)
                                         ELSE q.items[m]
  <2> DEFINE old == q.items
             e == AsRead(f)
             items == [old EXCEPT ![e.key] = Append(@, e.value)]
  <2>0. e \in Fields
    BY AsReadType
  <2>1. old \in Items /\ e.key \in KeySet /\ e.value \in STRING
    <3> HIDE DEF e
    <3> QED BY <2>0 DEF Queries, Fields, KeySet
  <2> HIDE DEF old
  <2>2. Append(old[e.key], e.value) \in Seq(STRING)
    <3> HIDE DEF e
    <3>1. old[e.key] \in Seq(STRING)
      BY <2>1 DEF Items
    <3> QED BY <2>1, <3>1, AppendProperties
  <2>3. items \in Items
    <3> HIDE DEF e
    <3> QED BY <2>1, <2>2 DEF Items
  <2>4. \A m \in KeySet : items[m] = IF m = e.key THEN Append(old[m], e.value) ELSE old[m]
    <3> HIDE DEF e
    <3> QED BY <2>1 DEF Items
  <2>5. Filling(q, f) = Query(<<>>, items)
    BY DEF Filling, AppendField, old
  <2> HIDE DEF items
  <2>6. Query(<<>>, items) \in Queries /\ Query(<<>>, items).items = items
    BY <2>3 DEF Query, Queries
  <2> QED BY <2>4, <2>5, <2>6 DEF old
<1> QED BY <1>1, <1>2

FillSteps(text, F) ==
  /\ F[0] = NoQuery
  /\ \A k \in 1..Len(text) : F[k] = Filling(F[k - 1], text[k])
  /\ Filled(text) = F[Len(text)]

LEMMA FillFold ==
  ASSUME NEW text \in Seq(Fields)
  PROVE  \E F \in [0..Len(text) -> Queries] : FillSteps(text, F)
<1> DEFINE n == Len(text)
           X == Queries
           op(q, f) == Filling(q, f)
           step == [k \in 1..n |-> [x \in X |-> op(x, text[k])]]
           Body(g) == [s \in SUBSET DOMAIN text |->
                         IF s = {} THEN NoQuery ELSE op(g[s \ {Max(s)}], text[Max(s)])]
           iter == CHOOSE g : g = Body(g)
<1>1. n \in Nat /\ DOMAIN text = 1..n /\ \A k \in 1..n : text[k] \in Fields
  BY LenProperties
<1>2. ASSUME NEW x \in X, NEW k \in 1..n PROVE op(x, text[k]) \in X
  BY <1>1, FillingType
<1>3. step \in [1..n -> [X -> X]]
  <2> HIDE DEF op, X
  <2> QED BY <1>2
<1>4. ASSUME NEW x \in X, NEW k \in 1..n PROVE step[k][x] = op(x, text[k])
  <2> HIDE DEF op
  <2> QED OBVIOUS
<1> HIDE DEF step, op, X
<1>5. PICK H : /\ H \in [SUBSET (1..n) -> X] /\ H[{}] = NoQuery
               /\ \A s \in SUBSET (1..n) : s # {} => H[s] = step[Max(s)][H[s \ {Max(s)}]]
  <2>1. NoQuery \in X
    BY FillingType DEF X
  <2>2. \E H : IsSetFold(H, n, X, NoQuery, step)
    <3> HIDE DEF n
    <3> QED BY <1>1, <1>3, <2>1, SetFold
  <2> QED BY <2>2 DEF IsSetFold
<1>6. H = Body(H)
  <2>1. \A s \in SUBSET (1..n) : H[s] = IF s = {} THEN NoQuery ELSE op(H[s \ {Max(s)}], text[Max(s)])
    <3> TAKE s \in SUBSET (1..n)
    <3>1. CASE s # {}
      <4>1. Max(s) \in 1..n
        BY <1>1, <3>1, MaxOf
      <4>2. H[s \ {Max(s)}] \in X
        BY <1>5
      <4>3. H[s] = step[Max(s)][H[s \ {Max(s)}]]
        BY <1>5, <3>1
      <4> QED BY <1>4, <3>1, <4>1, <4>2, <4>3
    <3> QED BY <1>5, <3>1
  <2> QED BY <1>1, <1>5, <2>1
<1>7. iter = Body(iter)
  <2> HIDE DEF Body
  <2> QED BY <1>6
<1>8. Filled(text) = iter[DOMAIN text]
  BY DEF Filled, FoldLeft, MapThenFoldSet, op, Filling
<1> HIDE DEF iter
<1>9. iter[{}] = NoQuery /\ \A k \in 1..n : iter[1..k] = op(iter[1..(k - 1)], text[k])
  <2>1. {} \in SUBSET DOMAIN text
    OBVIOUS
  <2>2. ASSUME NEW k \in 1..n PROVE iter[1..k] = op(iter[1..(k - 1)], text[k])
    <3>1. /\ 1..k \in SUBSET DOMAIN text /\ 1..k # {}
          /\ Max(1..k) = k /\ (1..k) \ {k} = 1..(k - 1)
      BY <1>1, MaxUpto
    <3> DEFINE s == 1..k
    <3>2. iter[s] = op(iter[s \ {Max(s)}], text[Max(s)])
      <4>1. s \in SUBSET DOMAIN text /\ s # {}
        BY <3>1
      <4> HIDE DEF s
      <4> QED BY <1>7, <4>1
    <3> QED BY <3>1, <3>2
  <2> QED BY <1>7, <2>1, <2>2
<1> DEFINE F == [k \in 0..n |-> iter[1..k]]
<1>10. F[0] = NoQuery /\ \A k \in 1..n : F[k] = op(F[k - 1], text[k])
  <2>1. 1..0 = {} /\ 0 \in 0..n /\ \A k \in 1..n : k \in 0..n /\ k - 1 \in 0..n
    BY <1>1
  <2> QED BY <1>9, <2>1
<1>11. F[n] = Filled(text)
  <2>1. n \in 0..n
    BY <1>1
  <2> QED BY <1>1, <1>8, <2>1
<1>12. F \in [0..n -> X]
  <2> DEFINE Good == {k \in 0..n : F[k] \in X}
  <2>1. 0 \in Good
    <3>1. NoQuery \in X /\ 0 \in 0..n
      BY <1>1, FillingType DEF X
    <3> HIDE DEF F
    <3> QED BY <1>10, <3>1
  <2>2. ASSUME NEW k \in 1..n, k - 1 \in Good PROVE k \in Good
    <3>1. F[k - 1] \in X /\ k \in 0..n
      BY <2>2
    <3>2. F[k] = op(F[k - 1], text[k])
      BY <1>10
    <3> HIDE DEF F
    <3> QED BY <1>2, <3>1, <3>2
  <2> HIDE DEF Good, n
  <2>3. 0..n \subseteq Good
    BY <1>1, <2>1, <2>2, Upwards
  <2> QED BY <2>3 DEF Good
<1> HIDE DEF F
<1>13. FillSteps(text, F)
  BY <1>10, <1>11 DEF FillSteps, op
<1> QED BY <1>12, <1>13 DEF X

LEMMA FilledAppend ==
  ASSUME NEW text \in Seq(Fields), NEW f \in Fields
  PROVE  /\ Filled(text) \in Queries
         /\ Filled(Append(text, f)) = Filling(Filled(text), f)
<1> DEFINE n == Len(text)
           t == Append(text, f)
<1>1. n \in Nat
  BY LenProperties
<1>2. /\ t \in Seq(Fields) /\ Len(t) = n + 1
      /\ (\A i \in 1..n : t[i] = text[i]) /\ t[n + 1] = f
  BY AppendProperties
<1> HIDE DEF t
<1>3. PICK F \in [0..n -> Queries] : FillSteps(text, F)
  BY FillFold
<1>4. PICK G \in [0..(n + 1) -> Queries] : FillSteps(t, G)
  BY <1>2, FillFold
<1> DEFINE Good == {k \in 0..n : F[k] = G[k]}
<1>5. 0 \in Good
  BY <1>1, <1>3, <1>4 DEF FillSteps
<1>6. ASSUME NEW k \in 1..n, k - 1 \in Good PROVE k \in Good
  <2>1. k \in 0..n /\ k \in 1..(n + 1) /\ t[k] = text[k]
    BY <1>1, <1>2
  <2>2. F[k] = Filling(F[k - 1], text[k])
    BY <1>3 DEF FillSteps
  <2>3. G[k] = Filling(G[k - 1], t[k])
    BY <1>2, <1>4, <2>1 DEF FillSteps
  <2>4. F[k - 1] = G[k - 1]
    BY <1>6
  <2>5. F[k] = G[k]
    BY <2>1, <2>2, <2>3, <2>4
  <2> QED BY <2>1, <2>5
<1> HIDE DEF Good
<1>7. 0..n \subseteq Good
  BY <1>1, <1>5, <1>6, Upwards
<1>8. F[n] = G[n]
  BY <1>1, <1>7 DEF Good
<1>9. n + 1 \in 1..(n + 1) /\ n + 1 - 1 = n /\ n \in 0..n
  BY <1>1
<1>10. G[n + 1] = Filling(G[n], t[n + 1])
  <2>1. G[n + 1] = Filling(G[n + 1 - 1], t[n + 1])
    BY <1>2, <1>4, <1>9 DEF FillSteps
  <2> QED BY <1>9, <2>1
<1>11. Filled(text) = F[n] /\ Filled(t) = G[n + 1]
  BY <1>2, <1>3, <1>4 DEF FillSteps
<1>12. F[n] \in Queries
  BY <1>3, <1>9
<1> QED BY <1>2, <1>8, <1>10, <1>11, <1>12 DEF t

LEMMA FilledEmpty == Filled(<<>>) = NoQuery
<1>1. <<>> \in Seq(Fields) /\ Len(<<>>) = 0
  BY EmptySeq
<1>2. PICK F : FillSteps(<<>>, F)
  BY <1>1, FillFold
<1> QED BY <1>1, <1>2 DEF FillSteps

LEMMA RangeAppend ==
  ASSUME NEW X, NEW u \in Seq(X), NEW e \in X
  PROVE  Range(u) \subseteq Range(Append(u, e)) /\ e \in Range(Append(u, e))
<1> DEFINE t == Append(u, e)
<1>1. /\ Len(u) \in Nat /\ DOMAIN u = 1..Len(u) /\ DOMAIN t = 1..(Len(u) + 1)
      /\ (\A k \in 1..Len(u) : t[k] = u[k]) /\ t[Len(u) + 1] = e
  BY AppendProperties, LenProperties
<1> HIDE DEF t
<1>2. Range(u) \subseteq Range(t) /\ e \in Range(t)
  BY <1>1 DEF Range
<1> QED BY <1>2 DEF t

\* What the server makes of a query's text.
LEMMA FilledMeans ==
  ASSUME NEW text \in Seq(Fields)
  PROVE  /\ GoodQuery(Filled(text))
         /\ \A m \in KeySet : Unmistaken(text, m) =>
              OfKey(AsString(Filled(text)), m) = OfKey(text, m)
<1> DEFINE Kept(u, m) == Unmistaken(u, m) => FieldsOf(m, Filled(u).items[m]) = OfKey(u, m)
           Good == {u \in Seq(Fields) : /\ Filled(u) \in Queries
                                        /\ \A m \in KeySet : Kept(u, m)}
<1>1. <<>> \in Good
  <2>1. Filled(<<>>) = NoQuery /\ <<>> \in Seq(Fields)
    BY FilledEmpty, EmptySeq
  <2>2. \A m \in KeySet : NoQuery.items[m] = <<>>
    BY NoItemsType DEF NoQuery, Query
  <2>3. \A m : FieldsOf(m, <<>>) = <<>>
    BY DEF FieldsOf
  <2> QED BY <2>1, <2>2, <2>3, FillingType, OfEmpty
<1>2. ASSUME NEW u \in Seq(Fields), NEW f \in Fields, u \in Good
      PROVE  Append(u, f) \in Good
  <2> DEFINE t == Append(u, f)
             q == Filled(u)
  <2>1. t \in Seq(Fields)
    BY AppendProperties
  <2>2. Filled(t) = Filling(q, f)
    BY FilledAppend
  <2>3. q \in Queries /\ \A m \in KeySet : Unmistaken(u, m) => FieldsOf(m, q.items[m]) = OfKey(u, m)
    BY <1>2
  <2>8. ASSUME NEW m \in KeySet, Unmistaken(t, m)
        PROVE  Unmistaken(u, m) /\ (f \in DOMAIN Misprinted => m # f.key /\ m # AsRead(f).key)
    <3>1. Range(u) \subseteq Range(t) /\ f \in Range(t)
      BY RangeAppend
    <3> HIDE DEF t
    <3> QED BY <2>8, <3>1, AsReadType DEF Unmistaken
  <2>4. \A m : OfKey(t, m) = IF f.key = m THEN Append(OfKey(u, m), f) ELSE OfKey(u, m)
    BY OfAppend
  <2> HIDE DEF q, t
  <2>5. /\ Filling(q, f) \in Queries
        /\ \A m \in KeySet : Filling(q, f).items[m]
             = IF m = AsRead(f).key THEN Append(q.items[m], AsRead(f).value) ELSE q.items[m]
    BY <2>3, FillingType
  <2>6. f.key \in KeySet /\ f.value \in STRING /\ f = Field(f.key, f.value)
    BY DEF Fields, KeySet, Field
  <2>7. ASSUME NEW m \in KeySet, Unmistaken(t, m)
        PROVE  FieldsOf(m, Filling(q, f).items[m]) = OfKey(t, m)
    <3>0. /\ FieldsOf(m, q.items[m]) = OfKey(u, m)
          /\ m # f.key => m # AsRead(f).key
          /\ m = f.key => AsRead(f) = f
      BY <2>3, <2>7, <2>8, AsReadType
    <3>1. q.items[m] \in Seq(STRING)
      BY <2>3 DEF Queries, Items
    <3> DEFINE w == q.items[m]
    <3>2. \A v \in STRING : FieldsOf(m, Append(w, v)) = Append(FieldsOf(m, w), Field(m, v))
      <4> HIDE DEF w
      <4>1. w \in Seq(STRING)
        BY <3>1 DEF w
      <4> QED BY <4>1, KeysType, FieldsOfType
    <3>3. CASE m = f.key
      <4>1. Filling(q, f).items[m] = Append(w, f.value)
        BY <2>5, <3>0, <3>3
      <4>2. FieldsOf(m, Append(w, f.value)) = Append(OfKey(u, m), f)
        BY <2>6, <3>0, <3>2, <3>3
      <4> QED BY <2>4, <3>3, <4>1, <4>2
    <3>4. CASE m # f.key
      BY <2>4, <2>5, <3>0, <3>4
    <3> QED BY <3>3, <3>4
  <2> QED BY <2>1, <2>2, <2>5, <2>7 DEF t
<1> HIDE DEF Good
<1>3. Seq(Fields) \subseteq Good
  BY <1>1, <1>2, Longer
<1>4. text \in Good
  BY <1>3
<1> DEFINE q == Filled(text)
<1>5. q \in Queries /\ \A m \in KeySet : Unmistaken(text, m) => FieldsOf(m, q.items[m]) = OfKey(text, m)
  BY <1>4 DEF Good
<1> HIDE DEF q
<1>6. q = Query(<<>>, q.items) /\ q.items \in Items
  BY <1>5 DEF Queries, Query
<1>7. /\ GoodQuery(q)
      /\ \A m \in KeySet : OfKey(AsString(q), m) = FieldsOf(m, q.items[m])
  BY <1>6, ItemQuery
<1> QED BY <1>5, <1>7 DEF q

LEMMA ParsedQuery ==
  ASSUME NEW text \in Seq(Fields), ParseQuery(text) # <<>>
  PROVE  LET q == ParseQuery(text)[1] IN
           /\ GoodQuery(q)
           /\ \A m \in KeySet : Unmistaken(text, m) => OfKey(AsString(q), m) = OfKey(text, m)
<1> DEFINE one == <<Filled(text)>>
           two == <<NoQuery>>
           three == <<Query(text, NoItems)>>
<1>1. \/ text = <<>> /\ ParseQuery(text) = two
      \/ ParseQuery(text) = one
      \/ ParseQuery(text) = three
  <2> DEFINE A == text # <<>> /\ \A i \in DOMAIN text : IsPair(text[i]) /\ Legible(text[i])
             B == text = <<>>
             C == text # <<>> /\ ~IsPair(text[1]) /\ \A i \in DOMAIN text : Legible(text[i])
  <2>1. ParseQuery(text) = CASE A -> one [] B -> two [] C -> three [] OTHER -> <<>>
    BY DEF ParseQuery, Filled
  <2>2. A => ~B /\ ~C
    <3>1. text # <<>> => 1 \in DOMAIN text
      BY LenProperties, EmptySeq
    <3> QED BY <3>1
  <2>3. B => ~C
    OBVIOUS
  <2> HIDE DEF A, C, one, two, three
  <2> QED BY <2>1, <2>2, <2>3
<1>2. one[1] = Filled(text) /\ two[1] = NoQuery /\ three[1] = Query(text, NoItems)
  OBVIOUS
<1> HIDE DEF one, two, three
<1> QED BY <1>1, <1>2, FilledMeans, GivenQuery, BlankQuery

-----------------------------------------------------------------------------
(***************************************************************************)
(* Addresses.                                                              *)
(***************************************************************************)
GoodPath(path) == path \in Seq(STRING) /\ path # <<>> /\ path[1] = Blank

GoodAddress(u) ==
  /\ u = Url(u.host, u.path, u.query, u.fragment)
  /\ u.host \in STRING \ {"via"}
  /\ GoodPath(u.path)
  /\ GoodQuery(u.query)

LEMMA UrlParts ==
  ASSUME NEW host, NEW path, NEW query, NEW fragment
  PROVE  LET u == Url(host, path, query, fragment) IN
           u.host = host /\ u.path = path /\ u.query = query /\ u.fragment = fragment
BY DEF Url

LEMMA ReferenceParts ==
  ASSUME NEW ref, IsReference(ref)
  PROVE  /\ ref.host # <<>> => ref.host[1] \in STRING \ {"via"}
         /\ ref.path # <<>> =>
              /\ ref.path[1] \in Seq(STRING) /\ ref.path[1] # <<>> /\ ref.path[1] # NoPath
         /\ ref.query \in Seq(Fields) /\ ref.fragment \in Seq(STRING)
         /\ ref.host \o ref.path = <<>> <=> ref.host = <<>> /\ ref.path = <<>>
         /\ ref.query \o ref.fragment = <<>> <=> ref.query = <<>> /\ ref.fragment = <<>>
<1> DEFINE A == STRING \ {"via"}
           B == Seq(STRING) \ {<<>>, NoPath}
<1>1. /\ ref.host \in Seq(A) /\ ref.path \in Seq(B)
      /\ ref.query \in Seq(Fields) /\ ref.fragment \in Seq(STRING)
  BY DEF IsReference
<1> DEFINE h == ref.host
           p == ref.path
           q == ref.query
           f == ref.fragment
<1>2. h \in Seq(A) /\ p \in Seq(B) /\ q \in Seq(Fields) /\ f \in Seq(STRING)
  BY <1>1
<1>3. \A x \in A : x \in STRING /\ x # "via"
  OBVIOUS
<1>4. \A x \in B : x \in Seq(STRING) /\ x # <<>> /\ x # NoPath
  OBVIOUS
<1> HIDE DEF A, B, h, p, q, f
<1>5. h # <<>> => h[1] \in A
  <2>1. h # <<>> => Len(h) \in Nat \ {0}
    BY <1>2, EmptySeq
  <2>2. h # <<>> => 1 \in 1..Len(h)
    BY <2>1
  <2> QED BY <1>2, <2>2, ElementOfSeq
<1>6. p # <<>> => p[1] \in B
  <2>1. p # <<>> => Len(p) \in Nat \ {0}
    BY <1>2, EmptySeq
  <2>2. p # <<>> => 1 \in 1..Len(p)
    BY <2>1
  <2> QED BY <1>2, <2>2, ElementOfSeq
<1>7. h \o p = <<>> <=> h = <<>> /\ p = <<>>
  <2> DEFINE C == A \cup B
  <2>1. A \subseteq C /\ B \subseteq C
    OBVIOUS
  <2> HIDE DEF C
  <2>2. h \in Seq(C) /\ p \in Seq(C)
    BY <1>2, <2>1, SeqMonotonic
  <2> QED BY <2>2, ConcatEqualIffEmpty
<1>8. q \o f = <<>> <=> q = <<>> /\ f = <<>>
  <2> DEFINE C == Fields \cup STRING
  <2>1. Fields \subseteq C /\ STRING \subseteq C
    OBVIOUS
  <2> HIDE DEF C
  <2>2. q \in Seq(C) /\ f \in Seq(C)
    BY <1>2, <2>1, SeqMonotonic
  <2> QED BY <2>2, ConcatEqualIffEmpty
<1>9. ref.host = h /\ ref.path = p /\ ref.query = q /\ ref.fragment = f
  BY DEF h, p, q, f
<1> QED BY <1>1, <1>3, <1>4, <1>5, <1>6, <1>7, <1>8, <1>9

\* The address that a reference is joined to: its path, and the one it leads to.
Start(u, ref) == IF ref.host = <<>> THEN u.path ELSE Root
Goal(start, path) == IF Rooted(path) THEN NormalisePath(path) ELSE Pathspec(start, path)

LEMMA JoinParts ==
  ASSUME NEW u, GoodAddress(u), NEW ref, IsReference(ref)
  PROVE  LET new == Join(u, ref)
             kept == ref.host \o ref.path = <<>>
         IN /\ GoodAddress(new)
            /\ new.host = IF ref.host = <<>> THEN u.host ELSE ref.host[1]
            /\ new.path = IF ref.path = <<>> THEN Start(u, ref) ELSE Goal(Start(u, ref), ref.path[1])
            /\ new.query = IF ref.query # <<>> THEN Query(ref.query, NoItems)
                           ELSE IF kept THEN u.query ELSE NoQuery
            /\ ~kept \/ ref.query \o ref.fragment # <<>> => new.fragment = ref.fragment
<1> DEFINE a == JoinHost(u, ref)
           b == JoinPath(a, ref)
           c == JoinQuery(b, ref)
           d == JoinFragment(c, ref)
           goal == Goal(Start(u, ref), ref.path[1])
<1>1. Join(u, ref) = d
  BY DEF Join
<1>2. /\ ref.host # <<>> => ref.host[1] \in STRING \ {"via"}
      /\ ref.path # <<>> => ref.path[1] \in Seq(STRING) /\ ref.path[1] # <<>>
      /\ ref.query \in Seq(Fields)
      /\ ref.host \o ref.path = <<>> <=> ref.host = <<>> /\ ref.path = <<>>
      /\ ref.query \o ref.fragment = <<>> <=> ref.query = <<>> /\ ref.fragment = <<>>
  BY ReferenceParts
<1>3. GoodPath(Root)
  BY NoPathType DEF GoodPath
<1>4. /\ a = Url(a.host, a.path, a.query, a.fragment)
      /\ a.host = IF ref.host = <<>> THEN u.host ELSE ref.host[1]
      /\ a.path = Start(u, ref)
      /\ a.query = IF ref.host = <<>> THEN u.query ELSE NoQuery
      /\ a.fragment = IF ref.host = <<>> THEN u.fragment ELSE <<>>
  BY DEF JoinHost, Start, GoodAddress, Url
<1>5. GoodPath(a.path)
  BY <1>3, <1>4 DEF Start, GoodAddress
<1>6. ref.path # <<>> => GoodPath(goal)
  BY <1>2, <1>4, <1>5, NormaliseType, PathspecType DEF Goal, GoodPath
<1> HIDE DEF a, goal
<1>7. /\ b = Url(b.host, b.path, b.query, b.fragment)
      /\ b.host = a.host
      /\ b.path = IF ref.path = <<>> THEN a.path ELSE goal
      /\ b.query = IF ref.path = <<>> THEN a.query ELSE NoQuery
      /\ b.fragment = IF ref.path = <<>> THEN a.fragment ELSE <<>>
  <2>1. CASE ref.path = <<>>
    BY <1>4, <2>1 DEF JoinPath
  <2>2. CASE ref.path # <<>>
    <3>1. b = Url(a.host, goal, NoQuery, <<>>)
      BY <1>4, <2>2 DEF JoinPath, Goal, goal
    <3> HIDE DEF b
    <3> QED BY <2>2, <3>1 DEF Url
  <2> QED BY <2>1, <2>2
<1> HIDE DEF b
<1>8. /\ c = Url(c.host, c.path, c.query, c.fragment)
      /\ c.host = b.host /\ c.path = b.path
      /\ c.query = IF ref.query = <<>> THEN b.query ELSE Query(ref.query, NoItems)
      /\ c.fragment = IF ref.query = <<>> THEN b.fragment ELSE <<>>
  BY <1>7 DEF JoinQuery, Url
<1> HIDE DEF c
<1>9. /\ d = Url(d.host, d.path, d.query, d.fragment)
      /\ d.host = c.host /\ d.path = c.path /\ d.query = c.query
      /\ d.fragment = IF ref.fragment = <<>> THEN c.fragment ELSE ref.fragment
  BY <1>8 DEF JoinFragment, Url
<1> HIDE DEF d
<1>10. d.query = IF ref.query # <<>> THEN Query(ref.query, NoItems)
                 ELSE IF ref.host = <<>> /\ ref.path = <<>> THEN u.query ELSE NoQuery
  BY <1>4, <1>7, <1>8, <1>9
<1>11. GoodQuery(d.query)
  BY <1>2, <1>10, GivenQuery, BlankQuery DEF GoodAddress
<1>12. d.host = IF ref.host = <<>> THEN u.host ELSE ref.host[1]
  BY <1>4, <1>7, <1>8, <1>9
<1>13. d.path = IF ref.path = <<>> THEN Start(u, ref) ELSE goal
  BY <1>4, <1>7, <1>8, <1>9
<1>14. GoodPath(d.path)
  BY <1>4, <1>5, <1>6, <1>13
<1>15. GoodAddress(d)
  BY <1>2, <1>9, <1>11, <1>12, <1>14 DEF GoodAddress
<1>16. /\ ref.host # <<>> \/ ref.path # <<>> => b.fragment = <<>>
       /\ ref.query # <<>> => c.fragment = <<>>
  BY <1>4, <1>7, <1>8
<1>17. ref.host # <<>> \/ ref.path # <<>> \/ ref.query # <<>> \/ ref.fragment # <<>> =>
         d.fragment = ref.fragment
  BY <1>8, <1>9, <1>16
<1>18. d.query = IF ref.query # <<>> THEN Query(ref.query, NoItems)
                 ELSE IF ref.host \o ref.path = <<>> THEN u.query ELSE NoQuery
  BY <1>2, <1>10
<1>19. ~(ref.host \o ref.path = <<>>) \/ ref.query \o ref.fragment # <<>> => d.fragment = ref.fragment
  BY <1>2, <1>17
<1> QED BY <1>1, <1>12, <1>13, <1>15, <1>18, <1>19 DEF goal

-----------------------------------------------------------------------------
(***************************************************************************)
(* The inductive invariant.                                                *)
(***************************************************************************)

\* The request is well formed, with headers that are sorted and that no
\* intermediary has touched.
RequestInv ==
  /\ application \in DOMAIN Applications
  /\ GoodAddress(address)
  /\ CleanHeaders(headers, Len(signed))
  /\ data \in App.data /\ authentication \in App.agents

ClocksInv ==
  /\ now \in 0..App.time /\ skew \in App.skews
  /\ edits \in 0..App.edits /\ calls \in 0..App.calls /\ sent \in 0..now

IsList(s) == s \in Seq(Range(s))

GoodSignature(s, limit) ==
  /\ s.document.path[1] = Blank
  /\ s.document.time \in Nat /\ s.document.time <= limit
  /\ \A i \in DOMAIN s.document.values : s.document.values[i] # Via

\* Whatever has been signed has a path, was signed before the call was made, and
\* has no value that an intermediary would write.
SignedInv ==
  /\ IsList(signed)
  /\ \A i \in 1..Len(signed) : GoodSignature(signed[i], IF phase = "idle" THEN now ELSE sent)

Message(path, query, lines, rewritten) ==
  [path |-> path, query |-> query, lines |-> lines, rewritten |-> rewritten]

\* What is on the wire is the request, but for what an intermediary did to it.
WireInv ==
  /\ phase \in {"idle", "sent", "received", "verified"}
  /\ phase = "idle" => wire = <<>>
  /\ phase # "idle" =>
       /\ wire = <<wire[1]>>
       /\ wire[1] = Message(address.path, AsString(address.query), wire[1].lines, wire[1].rewritten)
       /\ OnWire(wire[1], headers)

ReceivedOf(message) ==
  [path |-> ParsePath(message.path, message.query)[1],
   query |-> ParseQuery(message.query)[1],
   headers |-> Arrived(message.lines)]

\* The server has what is on the wire, and its verdict is on that.
ReceivedInv ==
  /\ phase \in {"idle", "sent"} => received = <<>>
  /\ phase \in {"received", "verified"} =>
       /\ ParsePath(wire[1].path, wire[1].query) # <<>> /\ ParseQuery(wire[1].query) # <<>>
       /\ received = <<ReceivedOf(wire[1])>>
  /\ phase # "verified" => verdict = "none"
  /\ phase = "verified" =>
       verdict = Verdict("GET", received[1].path, received[1].headers, now + skew, signed)

\* What the agent signs last is the request that it sends.
AgentInv ==
  phase # "idle" /\ authentication # <<>> =>
    LET signer == authentication[1] IN
      /\ Len(signed) # 0
      /\ Carries(headers, signer.key, signer.names, sent, Len(signed))
      /\ StandsFor(signed[Len(signed)], signer.secret, address.path, headers, signer.names,
                   sent, Rest)

\* The text of the query has what the application asked for.
Means(text, fields) == \A key \in KeySet : OfKey(text, key) = OfKey(fields, key)

JoinOf(base, ref) == [base |-> base, ref |-> ref, url |-> Join(base, ref)]

HistoryInv ==
  /\ asked = [fields |-> asked.fields, mixed |-> asked.mixed]
  /\ asked.fields \in Seq(Fields) /\ asked.mixed \in BOOLEAN
  /\ ~asked.mixed => Means(AsString(address.query), asked.fields)
  /\ joined # <<>> =>
       \E base, ref : GoodAddress(base) /\ IsReference(ref) /\ joined = <<JoinOf(base, ref)>>

IInv ==
  RequestInv /\ ClocksInv /\ SignedInv /\ WireInv /\ ReceivedInv /\ AgentInv /\ HistoryInv

LEMMA AppType ==
  ASSUME NEW name \in DOMAIN Applications
  PROVE  LET app == Applications[name] IN
           /\ \A ref \in app.references : IsReference(ref)
           /\ app.fields \subseteq Fields
           /\ \A header \in app.contents : IsWritten(header)
           /\ \A sub \in app.subvalues :
                sub[1] \in Names /\ sub[2] \in ToSet(SubNames) /\ sub[3] \in STRING
           /\ \A signer \in app.signers : IsSigner(signer)
           /\ \A agent \in app.agents : agent # <<>> => IsSigner(agent[1])
           /\ app.data \subseteq Seq(STRING)
           /\ app.skews \subseteq Int
           /\ app.edits \in Nat /\ app.calls \in Nat /\ app.time \in Nat
BY RequestAssumption

LEMMA ListAppend ==
  ASSUME NEW s, IsList(s), NEW e
  PROVE  /\ IsList(Append(s, e)) /\ Len(s) \in Nat /\ Len(Append(s, e)) = Len(s) + 1
         /\ \A i \in 1..Len(s) : Append(s, e)[i] = s[i]
         /\ Append(s, e)[Len(s) + 1] = e
<1> DEFINE X == Range(s) \cup {e}
           t == Append(s, e)
<1>1. s \in Seq(Range(s)) /\ Range(s) \subseteq X /\ e \in X
  BY DEF IsList
<1> HIDE DEF X
<1>2. s \in Seq(X)
  BY <1>1, SeqMonotonic
<1>3. /\ t \in Seq(X) /\ Len(t) = Len(s) + 1 /\ \A i \in 1..Len(s) : t[i] = s[i]
      /\ t[Len(s) + 1] = e
  BY <1>1, <1>2, AppendProperties
<1>4. Len(s) \in Nat
  BY <1>2, LenProperties
<1> HIDE DEF t
<1>5. t \in Seq(Range(t))
  BY <1>3, SeqOfRange
<1> QED BY <1>3, <1>4, <1>5 DEF IsList, t

LEMMA StartsRight == Init => IInv
<1> SUFFICES ASSUME Init PROVE IInv
  OBVIOUS
<1> USE DEF Init
<1>1. application \in DOMAIN Applications
  OBVIOUS
<1>2. /\ App.data \subseteq Seq(STRING)
      /\ App.edits \in Nat /\ App.calls \in Nat /\ App.time \in Nat
  BY <1>1, AppType DEF App
<1>3. RequestInv
  <2>1. GoodAddress(address)
    <3>1. Host \in STRING \ {"via"}
      BY RequestAssumption
    <3>2. GoodPath(Root)
      BY NoPathType DEF GoodPath
    <3> QED BY <3>1, <3>2, BlankQuery, UrlParts DEF GoodAddress
  <2>2. CleanHeaders(headers, Len(signed))
    <3>1. data \in Seq(STRING)
      BY <1>2
    <3>2. Len(data) \in Nat
      BY <3>1, LenProperties
    <3>3. Len(signed) = 0
      BY EmptySeq
    <3>4. CleanHeaders(MimeHeaders(data), 0)
      BY <3>2, MimeHeadersClean
    <3> QED BY <3>3, <3>4
  <2> QED BY <1>1, <2>1, <2>2 DEF RequestInv
<1>4. ClocksInv
  BY <1>2 DEF ClocksInv
<1>5. SignedInv
  <2>1. Len(signed) = 0 /\ signed \in Seq(Range(signed))
    BY EmptySeq
  <2> QED BY <2>1 DEF SignedInv, IsList
<1>6. WireInv /\ ReceivedInv /\ AgentInv
  BY DEF WireInv, ReceivedInv, AgentInv
<1>7. HistoryInv
  <2>1. asked = Nothing /\ asked.fields = <<>> /\ asked.mixed = FALSE
    BY DEF Nothing
  <2>2. <<>> \in Seq(Fields)
    BY EmptySeq
  <2>3. AsString(address.query) = <<>>
    BY BlankQuery, UrlParts
  <2>4. Means(AsString(address.query), asked.fields)
    BY <2>1, <2>3 DEF Means
  <2> QED BY <2>1, <2>2, <2>4 DEF HistoryInv, Nothing
<1> QED BY <1>3, <1>4, <1>5, <1>6, <1>7 DEF IInv

\* An edit keeps the clocks, and there is nothing on the wire.
LEMMA Edited ==
  ASSUME IInv, Edit
  PROVE  /\ phase = "idle" /\ phase' = "idle"
         /\ ClocksInv' /\ WireInv' /\ ReceivedInv' /\ AgentInv'
         /\ application \in DOMAIN Applications /\ application' = application
         /\ data \in App.data /\ data' \in App.data'
         /\ authentication \in App.agents /\ authentication' \in App.agents'
<1> USE DEF Edit
<1>1. phase = "idle" /\ phase' = "idle" /\ wire = <<>> /\ wire' = wire
      /\ received = <<>> /\ received' = received /\ verdict = "none" /\ verdict' = verdict
  BY DEF IInv, WireInv, ReceivedInv, server
<1>2. App' = App
  BY DEF App
<1>3. ClocksInv'
  <2>1. App.edits \in Nat /\ edits \in 0..App.edits /\ edits < App.edits
    BY AppType DEF IInv, RequestInv, ClocksInv, App
  <2>2. edits' \in 0..App.edits
    BY <2>1
  <2> QED BY <1>2, <2>2 DEF IInv, ClocksInv, clocks
<1>4. WireInv' /\ ReceivedInv' /\ AgentInv'
  BY <1>1 DEF WireInv, ReceivedInv, AgentInv
<1> QED BY <1>1, <1>2, <1>3, <1>4 DEF IInv, RequestInv

LEMMA AddressEdited ==
  ASSUME IInv, EditAddress, GoodAddress(address'), HistoryInv'
  PROVE  IInv'
<1>1. Edit /\ UNCHANGED <<headers, signed>>
  BY DEF EditAddress
<1>2. RequestInv'
  BY <1>1, Edited DEF RequestInv, IInv
<1>3. SignedInv'
  <2>1. now' = now /\ phase = "idle" /\ phase' = "idle"
    BY <1>1, Edited DEF Edit, clocks
  <2> QED BY <1>1, <2>1 DEF SignedInv, IInv
<1> QED BY <1>1, <1>2, <1>3, Edited DEF IInv

LEMMA HeadersEdited ==
  ASSUME IInv, EditHeaders, CleanHeaders(headers', Len(signed))
  PROVE  IInv'
<1>1. Edit /\ UNCHANGED <<address, signed, asked, joined>>
  BY DEF EditHeaders
<1>2. RequestInv'
  BY <1>1, Edited DEF RequestInv, IInv
<1>3. SignedInv'
  <2>1. now' = now /\ phase = "idle" /\ phase' = "idle"
    BY <1>1, Edited DEF Edit, clocks
  <2> QED BY <1>1, <2>1 DEF SignedInv, IInv
<1>4. HistoryInv'
  BY <1>1 DEF HistoryInv, IInv
<1> QED BY <1>1, <1>2, <1>3, <1>4, Edited DEF IInv

LEMMA JoinStep ==
  ASSUME IInv, NEW ref \in App.references, JoinAddress(ref)
  PROVE  IInv'
<1> USE DEF JoinAddress
<1>1. GoodAddress(address) /\ HistoryInv /\ application \in DOMAIN Applications
  BY DEF IInv, RequestInv
<1>2. IsReference(ref)
  BY <1>1, AppType DEF App
<1> DEFINE new == Join(address, ref)
           kept == ref.host \o ref.path = <<>>
<1>3. /\ GoodAddress(new)
      /\ new.query = IF ref.query # <<>> THEN Query(ref.query, NoItems)
                     ELSE IF kept THEN address.query ELSE NoQuery
  BY <1>1, <1>2, JoinParts
<1>4. ref.query \in Seq(Fields)
  BY <1>2, ReferenceParts
<1>5. address' = new /\ joined' = <<JoinOf(address, ref)>>
      /\ asked' = IF ref.query # <<>> THEN [fields |-> ref.query, mixed |-> FALSE]
                  ELSE IF ~kept THEN Nothing ELSE asked
  BY DEF JoinOf
<1> HIDE DEF new, kept
<1>6. HistoryInv'
  <2> DEFINE right(a) == /\ a = [fields |-> a.fields, mixed |-> a.mixed]
                         /\ a.fields \in Seq(Fields) /\ a.mixed \in BOOLEAN
                         /\ ~a.mixed => Means(AsString(new.query), a.fields)
  <2>1. right(asked')
    <3>1. CASE ref.query # <<>>
      <4> DEFINE a == [fields |-> ref.query, mixed |-> FALSE]
      <4>1. a.fields = ref.query /\ a.mixed = FALSE /\ asked' = a /\ a = [fields |-> a.fields, mixed |-> a.mixed]
        BY <1>5, <3>1
      <4>2. AsString(new.query) = ref.query
        BY <1>3, <1>4, <3>1, GivenQuery
      <4> HIDE DEF a
      <4> QED BY <1>4, <4>1, <4>2 DEF Means
    <3>2. CASE ref.query = <<>> /\ ~kept
      <4> DEFINE a == Nothing
      <4>1. a.fields = <<>> /\ a.mixed = FALSE /\ asked' = a /\ a = [fields |-> a.fields, mixed |-> a.mixed]
        BY <1>5, <3>2 DEF Nothing
      <4>2. AsString(new.query) = <<>>
        BY <1>3, <3>2, BlankQuery
      <4>3. <<>> \in Seq(Fields)
        BY EmptySeq
      <4> HIDE DEF a
      <4> QED BY <4>1, <4>2, <4>3 DEF Means
    <3>3. CASE ref.query = <<>> /\ kept
      BY <1>1, <1>3, <1>5, <3>3 DEF HistoryInv
    <3> QED BY <3>1, <3>2, <3>3
  <2>2. joined' # <<>> => \E base, r : GoodAddress(base) /\ IsReference(r) /\ joined' = <<JoinOf(base, r)>>
    BY <1>1, <1>2, <1>5
  <2> QED BY <1>5, <2>1, <2>2 DEF HistoryInv
<1> QED BY <1>3, <1>5, <1>6, AddressEdited

LEMMA AskedParts ==
  ASSUME NEW fields
  PROVE  /\ Asked(fields) = [fields |-> Asked(fields).fields, mixed |-> Asked(fields).mixed]
         /\ Asked(fields).fields = fields
         /\ asked.mixed \in BOOLEAN =>
              /\ Asked(fields).mixed \in BOOLEAN
              /\ ~Asked(fields).mixed =>
                   ~asked.mixed /\ (asked.fields = <<>> \/ address.query.items # NoItems)
BY DEF Asked

LEMMA QueryEdited ==
  ASSUME NEW u, GoodAddress(u), NEW q, GoodQuery(q)
  PROVE  GoodAddress([u EXCEPT !.query = q]) /\ [u EXCEPT !.query = q].query = q
         /\ [u EXCEPT !.query = q].path = u.path /\ [u EXCEPT !.query = q].host = u.host
<1> DEFINE new == [u EXCEPT !.query = q]
<1>1. /\ new = Url(new.host, new.path, new.query, new.fragment)
      /\ new.host = u.host /\ new.path = u.path /\ new.query = q
  BY DEF GoodAddress, Url
<1> HIDE DEF new
<1>2. GoodAddress(new)
  BY <1>1 DEF GoodAddress
<1> QED BY <1>1, <1>2 DEF new

LEMMA AppendStep ==
  ASSUME IInv, NEW field \in App.fields, AppendQuery(field)
  PROVE  IInv'
<1> USE DEF AppendQuery
<1>1. GoodAddress(address) /\ HistoryInv /\ application \in DOMAIN Applications
  BY DEF IInv, RequestInv
<1>2. field \in Fields /\ field.key \in KeySet /\ field.value \in STRING
      /\ field = Field(field.key, field.value)
  <2>1. field \in Fields
    BY <1>1, AppType DEF App
  <2> QED BY <2>1 DEF Fields, KeySet, Field
<1> DEFINE q == address.query
           new == AppendField(q, field.key, field.value)
           fields == Append(asked.fields, field)
<1>3. GoodQuery(q)
  BY <1>1 DEF GoodAddress
<1>4. /\ GoodQuery(new)
      /\ \A m \in KeySet : OfKey(AsString(new), m)
           = IF m = field.key THEN Append(FieldsOf(m, q.items[m]), field) ELSE FieldsOf(m, q.items[m])
  <2> HIDE DEF q
  <2>1. \A m \in KeySet : OfKey(AsString(new), m)
           = IF m = field.key THEN Append(FieldsOf(m, q.items[m]), Field(field.key, field.value))
                              ELSE FieldsOf(m, q.items[m])
    BY <1>2, <1>3, AppendFieldMeans
  <2>2. GoodQuery(new)
    BY <1>2, <1>3, AppendFieldMeans
  <2> QED BY <1>2, <2>1, <2>2
<1>5. /\ address' = [address EXCEPT !.query = new]
      /\ asked' = Asked(fields) /\ joined' = joined
  OBVIOUS
<1> HIDE DEF new
<1>6. GoodAddress(address') /\ address'.query = new
  <2>1. GoodAddress([address EXCEPT !.query = new]) /\ [address EXCEPT !.query = new].query = new
    BY <1>1, <1>4, QueryEdited
  <2> QED BY <1>5, <2>1
<1>7. asked.fields \in Seq(Fields) /\ asked.mixed \in BOOLEAN
      /\ (~asked.mixed => Means(AsString(q), asked.fields))
  BY <1>1 DEF HistoryInv
<1>8. fields \in Seq(Fields)
  BY <1>2, <1>7, AppendProperties
<1>9. \A m : OfKey(fields, m) = IF field.key = m THEN Append(OfKey(asked.fields, m), field)
                                                 ELSE OfKey(asked.fields, m)
  BY <1>2, <1>7, OfAppend
<1> HIDE DEF fields
<1>10. /\ asked' = [fields |-> asked'.fields, mixed |-> asked'.mixed]
       /\ asked'.fields = fields /\ asked'.mixed \in BOOLEAN
       /\ ~asked'.mixed => ~asked.mixed /\ (asked.fields = <<>> \/ q.items # NoItems)
  BY <1>5, <1>7, AskedParts
<1>11. ASSUME ~asked'.mixed, NEW m \in KeySet
       PROVE  FieldsOf(m, q.items[m]) = OfKey(asked.fields, m)
  <2>1. OfKey(AsString(q), m) = OfKey(asked.fields, m)
    BY <1>7, <1>10, <1>11 DEF Means
  <2>2. CASE q.items # NoItems
    <3>1. AsString(q) = Printed(q.items)
      BY <1>3, <2>2, TextOfQuery
    <3>2. OfKey(Printed(q.items), m) = FieldsOf(m, q.items[m])
      BY <1>3, PrintedOf DEF GoodQuery
    <3> QED BY <2>1, <3>1, <3>2
  <2>3. CASE q.items = NoItems /\ asked.fields = <<>>
    <3>1. q.items[m] = <<>> /\ FieldsOf(m, <<>>) = <<>>
      BY <2>3, NoItemsType DEF FieldsOf
    <3> QED BY <2>3, <3>1, OfEmpty
  <2> QED BY <1>10, <1>11, <2>2, <2>3
<1>12. ~asked'.mixed => Means(AsString(new), fields)
  BY <1>4, <1>9, <1>11 DEF Means
<1>13. HistoryInv'
  <2>1. joined' # <<>> => \E base, r : GoodAddress(base) /\ IsReference(r) /\ joined' = <<JoinOf(base, r)>>
    BY <1>1, <1>5 DEF HistoryInv
  <2> QED BY <1>6, <1>8, <1>10, <1>12, <2>1 DEF HistoryInv
<1> QED BY <1>6, <1>13, AddressEdited

LEMMA RemoveStep ==
  ASSUME IInv, NEW key \in KeySet, RemoveQuery(key)
  PROVE  IInv'
<1> USE DEF RemoveQuery
<1>1. GoodAddress(address) /\ HistoryInv
  BY DEF IInv, RequestInv
<1> DEFINE q == address.query
           new == RemoveKey(q, key)
           fields == Without(asked.fields, key)
<1>2. GoodQuery(q)
  BY <1>1 DEF GoodAddress
<1>3. /\ GoodQuery(new)
      /\ q.items = NoItems => new = q
      /\ q.items # NoItems => \A m \in KeySet : OfKey(AsString(new), m)
           = IF m = key THEN <<>> ELSE FieldsOf(m, q.items[m])
  <2> HIDE DEF q
  <2> QED BY <1>2, RemoveKeyMeans
<1>4. /\ address' = [address EXCEPT !.query = new]
      /\ asked' = Asked(fields) /\ joined' = joined
  BY DEF Without
<1> HIDE DEF new
<1>5. GoodAddress(address') /\ address'.query = new
  <2>1. GoodAddress([address EXCEPT !.query = new]) /\ [address EXCEPT !.query = new].query = new
    BY <1>1, <1>3, QueryEdited
  <2> QED BY <1>4, <2>1
<1>6. asked.fields \in Seq(Fields) /\ asked.mixed \in BOOLEAN
      /\ (~asked.mixed => Means(AsString(q), asked.fields))
  BY <1>1 DEF HistoryInv
<1>7. /\ fields \in Seq(Fields)
      /\ asked.fields = <<>> => fields = <<>>
      /\ \A m : OfKey(fields, m) = IF m = key THEN <<>> ELSE OfKey(asked.fields, m)
  BY <1>6, OfWithout
<1> HIDE DEF fields
<1>8. /\ asked' = [fields |-> asked'.fields, mixed |-> asked'.mixed]
      /\ asked'.fields = fields /\ asked'.mixed \in BOOLEAN
      /\ ~asked'.mixed => ~asked.mixed /\ (asked.fields = <<>> \/ q.items # NoItems)
  BY <1>4, <1>6, AskedParts
<1>9. ASSUME ~asked'.mixed, NEW m \in KeySet
      PROVE  OfKey(AsString(new), m) = OfKey(fields, m)
  <2>1. OfKey(AsString(q), m) = OfKey(asked.fields, m)
    BY <1>6, <1>8, <1>9 DEF Means
  <2>2. CASE q.items # NoItems
    <3>1. AsString(q) = Printed(q.items)
      BY <1>2, <2>2, TextOfQuery
    <3>2. OfKey(Printed(q.items), m) = FieldsOf(m, q.items[m])
      BY <1>2, PrintedOf DEF GoodQuery
    <3> QED BY <1>3, <1>7, <2>1, <2>2, <3>1, <3>2
  <2>3. CASE q.items = NoItems /\ asked.fields = <<>>
    BY <1>3, <1>7, <2>1, <2>3
  <2> QED BY <1>8, <1>9, <2>2, <2>3
<1>10. ~asked'.mixed => Means(AsString(new), fields)
  BY <1>9 DEF Means
<1>11. HistoryInv'
  <2>1. joined' # <<>> => \E base, r : GoodAddress(base) /\ IsReference(r) /\ joined' = <<JoinOf(base, r)>>
    BY <1>1, <1>4 DEF HistoryInv
  <2> QED BY <1>5, <1>7, <1>8, <1>10, <2>1 DEF HistoryInv
<1> QED BY <1>5, <1>11, AddressEdited

\* The text of a query may be cached at any time.
LEMMA CachedAddress ==
  ASSUME NEW u, GoodAddress(u)
  PROVE  LET new == [u EXCEPT !.query = Cached(@)] IN
           /\ GoodAddress(new)
           /\ new.path = u.path /\ AsString(new.query) = AsString(u.query)
<1> DEFINE q == u.query
           c == Cached(q)
<1>1. GoodQuery(q)
  BY DEF GoodAddress
<1>2. GoodQuery(c) /\ AsString(c) = AsString(q)
  <2> HIDE DEF q
  <2> QED BY <1>1, TextOfQuery
<1> HIDE DEF c
<1>3. /\ GoodAddress([u EXCEPT !.query = c]) /\ [u EXCEPT !.query = c].query = c
      /\ [u EXCEPT !.query = c].path = u.path
  BY <1>2, QueryEdited
<1>4. [u EXCEPT !.query = Cached(@)] = [u EXCEPT !.query = c]
  BY DEF c
<1> QED BY <1>2, <1>3, <1>4

LEMMA ShowStep ==
  ASSUME IInv, ShowAddress
  PROVE  IInv'
<1>1. GoodAddress(address) /\ HistoryInv
  BY DEF IInv, RequestInv
<1>2. address' = [address EXCEPT !.query = Cached(@)] /\ UNCHANGED <<asked, joined>> /\ EditAddress
  BY DEF ShowAddress
<1>3. GoodAddress(address') /\ AsString(address'.query) = AsString(address.query)
  <2>1. /\ GoodAddress([address EXCEPT !.query = Cached(@)])
        /\ AsString([address EXCEPT !.query = Cached(@)].query) = AsString(address.query)
    BY <1>1, CachedAddress
  <2> QED BY <1>2, <2>1
<1>4. HistoryInv'
  BY <1>1, <1>2, <1>3 DEF HistoryInv
<1> QED BY <1>2, <1>3, <1>4, AddressEdited

LEMMA HeadersStep ==
  ASSUME IInv,
         \/ \E header \in App.contents : SetHeader(header) \/ AddHeader(header)
         \/ \E sub \in App.subvalues : SetHeaderSubvalue(sub[1], sub[2], sub[3])
  PROVE  IInv'
<1> DEFINE top == Len(signed)
<1>1. /\ CleanHeaders(headers, top) /\ application \in DOMAIN Applications /\ IsList(signed)
  BY DEF IInv, RequestInv, SignedInv
<1>2. top \in Nat
  BY <1>1, ListAppend
<1>3. ASSUME NEW header \in App.contents, SetHeader(header) \/ AddHeader(header)
      PROVE  IInv'
  <2> DEFINE name == header.name
             c == header.content
  <2>1. IsWritten(header)
    BY <1>1, AppType DEF App
  <2>2. /\ name \in Names /\ IsContent(c) /\ c.value # Via
        /\ \A i \in DOMAIN c.value : c.value[i].n = 0
    BY <2>1 DEF IsWritten
  <2>3. /\ EditHeaders
        /\ headers' = Set(headers, name, c) \/ headers' = Add(headers, name, c)
    BY <1>3 DEF SetHeader, AddHeader
  <2> HIDE DEF name, c, top
  <2>4. c \in Contents /\ \A i \in 1..Len(c.value) : c.value[i].n <= top
    <3>1. c \in Contents
      BY <2>2, WrittenContents
    <3>2. c.value \in Seq(PlainWord)
      BY <3>1, ContentParts
    <3>3. DOMAIN c.value = 1..Len(c.value)
      BY <3>2, LenProperties
    <3> QED BY <1>2, <2>2, <3>1, <3>3
  <2>5. CleanHeaders(Set(headers, name, c), top) /\ CleanHeaders(Add(headers, name, c), top)
    BY <1>1, <2>2, <2>4, SetClean
  <2>6. CleanHeaders(headers', top)
    BY <2>3, <2>5
  <2> QED BY <2>3, <2>6, HeadersEdited DEF top
<1>4. ASSUME NEW sub \in App.subvalues, SetHeaderSubvalue(sub[1], sub[2], sub[3])
      PROVE  IInv'
  <2> DEFINE name == sub[1]
             key == sub[2]
             text == sub[3]
  <2>1. name \in Names /\ key \in ToSet(SubNames) /\ text \in STRING
    BY <1>1, AppType DEF App
  <2>2. EditHeaders /\ headers' = SetSubvalue(headers, name, key, text)
    BY <1>4 DEF SetHeaderSubvalue
  <2> HIDE DEF name, key, text, top
  <2>3. text \in Texts
    BY <2>1 DEF Texts
  <2>4. headers \in Seq(Clean(top)) /\ Sorted(headers)
    BY <1>1 DEF CleanHeaders
  <2>5. /\ SetSubvalue(headers, name, key, text) \in Seq(Clean(top))
        /\ Sorted(SetSubvalue(headers, name, key, text))
    BY <2>1, <2>3, <2>4, SubvalueHeaders
  <2>6. CleanHeaders(headers', top)
    BY <2>2, <2>5 DEF CleanHeaders
  <2> QED BY <2>2, <2>6, HeadersEdited DEF top
<1> QED BY <1>3, <1>4

\* A signature that is made now.
LEMMA Signing ==
  ASSUME IInv, phase = "idle", NEW signer, IsSigner(signer),
         NEW given, CleanHeaders(given, Len(signed))
  PROVE  LET all == Append(signed, SignatureOf(signer, given))
             hs == Signed(given, signer.key, signer.names, now, Len(signed) + 1)
         IN /\ IsList(all) /\ Len(all) # 0
            /\ \A i \in 1..Len(all) : GoodSignature(all[i], now)
            /\ CleanHeaders(hs, Len(all))
            /\ Carries(hs, signer.key, signer.names, now, Len(all))
            /\ StandsFor(all[Len(all)], signer.secret, address.path, hs, signer.names, now, Rest)
<1> DEFINE n == Len(signed)
           top == n + 1
           s == SignatureOf(signer, given)
           all == Append(signed, s)
           hs == Signed(given, signer.key, signer.names, now, top)
           path == address.path
           rest == Rest
           key == signer.key
           names == signer.names
           secret == signer.secret
           time == now
<1>1. /\ key \in STRING /\ names \in Seq(Names) /\ IsList(signed)
      /\ \A i \in 1..n : GoodSignature(signed[i], time)
      /\ path[1] = Blank
  BY DEF IInv, RequestInv, SignedInv, IsSigner, GoodAddress, GoodPath
<1>2. time \in Nat
  <2>1. App.time \in Nat
    BY AppType DEF App, IInv, RequestInv
  <2> QED BY <2>1 DEF IInv, ClocksInv
<1>3. /\ IsList(all) /\ n \in Nat /\ Len(all) = top
      /\ \A i \in 1..n : all[i] = signed[i]
      /\ all[top] = s
  <2> HIDE DEF s
  <2> QED BY <1>1, ListAppend
<1>4. top \in Nat /\ n <= top /\ top # 0
  BY <1>3
<1>5. s = Signature(secret, SignedDocument("GET", path, given, names, time, rest))
  BY DEF SignatureOf
<1>6. CleanHeaders(given, n)
  OBVIOUS
<1> HIDE DEF s, all, key, names, secret, path, rest, time, top, n
<1>7. CleanHeaders(given, top)
  BY <1>3, <1>4, <1>6, CleanGrows
<1>8. hs = Signed(given, key, names, time, top)
  BY DEF key, names, time
<1> HIDE DEF hs
<1>9. /\ CleanHeaders(hs, top) /\ Carries(hs, key, names, time, top)
      /\ StandsFor(s, secret, path, hs, names, time, rest)
      /\ s.document.path = path /\ s.document.time = time
      /\ \A i \in DOMAIN s.document.values : s.document.values[i] # Via
  <2>1. top <= top
    BY <1>4
  <2> QED BY <1>1, <1>2, <1>4, <1>5, <1>7, <1>8, <2>1, SigningSigns
<1>10. GoodSignature(s, time)
  BY <1>1, <1>2, <1>9 DEF GoodSignature
<1>11. ASSUME NEW i \in 1..Len(all) PROVE GoodSignature(all[i], time)
  <2>1. i = top \/ i \in 1..n
    BY <1>3 DEF top
  <2> QED BY <1>1, <1>3, <1>10, <2>1
<1> QED BY <1>3, <1>4, <1>9, <1>11 DEF s, all, key, names, secret, path, rest, time, top, n, hs

LEMMA SignStep ==
  ASSUME IInv, NEW signer \in App.signers, SignDirectly(signer)
  PROVE  IInv'
<1>1. /\ GoodAddress(address) /\ HistoryInv /\ application \in DOMAIN Applications
      /\ CleanHeaders(headers, Len(signed))
  BY DEF IInv, RequestInv
<1>2. IsSigner(signer)
  BY <1>1, AppType DEF App
<1>3. /\ Edit
      /\ signed' = Append(signed, SignatureOf(signer, headers))
      /\ headers' = Signed(headers, signer.key, signer.names, now, Len(signed) + 1)
      /\ address' = IF data # <<>> THEN address ELSE [address EXCEPT !.query = Cached(@)]
      /\ UNCHANGED <<asked, joined>>
  BY DEF SignDirectly
<1>4. phase = "idle" /\ phase' = "idle" /\ now' = now
  BY <1>3, Edited DEF Edit, clocks
<1>5. /\ IsList(signed') /\ \A i \in 1..Len(signed') : GoodSignature(signed'[i], now)
      /\ CleanHeaders(headers', Len(signed'))
  BY <1>1, <1>2, <1>3, <1>4, Signing
<1>6. GoodAddress(address') /\ AsString(address'.query) = AsString(address.query)
  <2>1. /\ GoodAddress([address EXCEPT !.query = Cached(@)])
        /\ AsString([address EXCEPT !.query = Cached(@)].query) = AsString(address.query)
    BY <1>1, CachedAddress
  <2> QED BY <1>1, <1>3, <2>1
<1>7. RequestInv'
  BY <1>3, <1>5, <1>6, Edited DEF RequestInv
<1>8. SignedInv'
  BY <1>4, <1>5 DEF SignedInv
<1>9. HistoryInv'
  BY <1>1, <1>3, <1>6 DEF HistoryInv
<1> QED BY <1>3, <1>7, <1>8, <1>9, Edited DEF IInv

\* A request as it is printed.
LEMMA PrintedRequest ==
  ASSUME NEW top, NEW hs \in Seq(Clean(top)), NEW path, NEW query
  PROVE  OnWire(Message(path, query, Lines(hs), {}), hs)
<1> DEFINE lines == Lines(hs)
           n == Len(hs)
           F == [h \in Clean(top) |-> Line(h.name, Text(h.content))]
<1>1. n \in Nat /\ DOMAIN hs = 1..n /\ \A i \in 1..n : hs[i] \in Clean(top)
  BY LenProperties
<1>2. ASSUME NEW h \in Clean(top) PROVE F[h] \in LineSet
  <2>1. h.name \in Names /\ h.content \in Contents
    BY CleanParts
  <2>2. Text(h.content) \in Seq(Word)
    BY <2>1, TextType
  <2> QED BY <2>1, <2>2 DEF Line, LineSet
<1>3. lines = Image(hs, F)
  BY <1>1 DEF Lines, Image
<1>4. \A h \in Clean(top) : F[h].name = h.name /\ F[h].text = Text(h.content)
  BY DEF Line
<1> HIDE DEF F, lines, n
<1>5. Image(hs, F) \in Seq(LineSet)
  BY <1>2, ImageType
<1>6. Len(Image(hs, F)) = Len(hs) /\ \A i \in 1..Len(hs) : Image(hs, F)[i] = F[hs[i]]
  BY ImageElements
<1>7. /\ lines \in Seq(LineSet) /\ Len(lines) = n
      /\ \A i \in 1..n : lines[i].name = hs[i].name /\ lines[i].text = Text(hs[i].content)
  BY <1>1, <1>3, <1>4, <1>5, <1>6 DEF n
<1> DEFINE m == Message(path, query, lines, {})
<1>8. m.lines = lines /\ m.rewritten = {}
  BY DEF Message
<1>9. n # n + 1
  BY <1>1
<1> HIDE DEF m
<1>10. OnWire(m, hs)
  BY <1>7, <1>8, <1>9 DEF OnWire, n
<1> QED BY <1>10 DEF m, lines

LEMMA CallStep ==
  ASSUME IInv, Call
  PROVE  IInv'
<1> DEFINE n == Len(signed)
           given == Completed(headers)
           app == Applications[application]
<1>1. /\ GoodAddress(address) /\ HistoryInv /\ application \in DOMAIN Applications
      /\ CleanHeaders(headers, n) /\ IsList(signed)
      /\ \A i \in 1..n : GoodSignature(signed[i], now)
      /\ data \in App.data /\ authentication \in App.agents
      /\ phase = "idle" /\ ClocksInv /\ ReceivedInv
      /\ address.host \in STRING \ {"via"}
  BY DEF IInv, RequestInv, SignedInv, Call, GoodAddress
<1>2. /\ phase' = "sent" /\ calls < App.calls
      /\ address' = [address EXCEPT !.query = Cached(@)]
      /\ wire' = <<Message(address.path, AsString(address.query), Lines(headers'), {})>>
      /\ calls' = calls + 1 /\ sent' = now
      /\ UNCHANGED <<application, data, authentication, received, verdict, now, skew, edits,
                     asked, joined>>
  BY DEF Call, Message, server, clocks
<1>3. n \in Nat
  BY <1>1, ListAppend
<1>4. App.time \in Nat /\ App.calls \in Nat /\ now \in Nat /\ calls \in Nat
  <2>1. App.time \in Nat /\ App.calls \in Nat
    BY <1>1, AppType DEF App
  <2> QED BY <1>1, <2>1 DEF ClocksInv
<1>5. CleanHeaders(given, n)
  <2> HIDE DEF n
  <2> QED BY <1>1, <1>3, <1>4, CompletedClean
<1>6. /\ IsList(signed') /\ CleanHeaders(headers', Len(signed'))
      /\ \A i \in 1..Len(signed') : GoodSignature(signed'[i], now)
      /\ authentication # <<>> =>
           LET signer == authentication[1] IN
             /\ Len(signed') # 0
             /\ Carries(headers', signer.key, signer.names, now, Len(signed'))
             /\ StandsFor(signed'[Len(signed')], signer.secret, address.path, headers',
                          signer.names, now, Rest)
  <2>1. CASE authentication = <<>>
    <3>1. headers' = given /\ signed' = signed
      BY <2>1 DEF Call
    <3> QED BY <1>1, <1>5, <2>1, <3>1
  <2>2. CASE authentication # <<>>
    <3> DEFINE signer == authentication[1]
    <3>1. IsSigner(signer)
      BY <1>1, <2>2, AppType DEF App
    <3>2. /\ signed' = Append(signed, SignatureOf(signer, given))
          /\ headers' = Signed(given, signer.key, signer.names, now, Len(signed) + 1)
      BY <2>2 DEF Call
    <3> HIDE DEF signer, given
    <3>3. /\ IsList(signed') /\ Len(signed') # 0
          /\ \A i \in 1..Len(signed') : GoodSignature(signed'[i], now)
          /\ CleanHeaders(headers', Len(signed'))
          /\ Carries(headers', signer.key, signer.names, now, Len(signed'))
          /\ StandsFor(signed'[Len(signed')], signer.secret, address.path, headers', signer.names,
                       now, Rest)
      BY <1>1, <1>5, <3>1, <3>2, Signing
    <3> QED BY <3>3 DEF signer
  <2> QED BY <2>1, <2>2
<1> HIDE DEF given, n
<1>7. /\ GoodAddress(address') /\ address'.path = address.path
      /\ AsString(address'.query) = AsString(address.query)
  <2>1. /\ GoodAddress([address EXCEPT !.query = Cached(@)])
        /\ [address EXCEPT !.query = Cached(@)].path = address.path
        /\ AsString([address EXCEPT !.query = Cached(@)].query) = AsString(address.query)
    BY <1>1, CachedAddress
  <2> QED BY <1>2, <2>1
<1>8. App' = App
  BY <1>2 DEF App
<1>9. RequestInv'
  BY <1>1, <1>2, <1>6, <1>7, <1>8 DEF RequestInv
<1>10. ClocksInv'
  <2>1. calls' \in 0..App.calls
    BY <1>2, <1>4
  <2>2. sent' \in 0..now
    BY <1>2, <1>4
  <2> QED BY <1>1, <1>2, <1>8, <2>1, <2>2 DEF ClocksInv
<1>11. SignedInv'
  BY <1>2, <1>6 DEF SignedInv
<1>12. WireInv'
  <2> DEFINE m == Message(address.path, AsString(address.query), Lines(headers'), {})
  <2>1. headers' \in Seq(Clean(Len(signed')))
    BY <1>6 DEF CleanHeaders
  <2>2. OnWire(m, headers')
    BY <2>1, PrintedRequest
  <2>3. m.lines = Lines(headers') /\ m.rewritten = {}
    BY DEF Message
  <2>4. wire' = <<m>>
    BY <1>2
  <2>5. m = Message(address.path, AsString(address.query), m.lines, m.rewritten)
    BY <2>3
  <2> HIDE DEF m
  <2>6. wire'[1] = m
    BY <2>4
  <2> QED BY <1>2, <1>7, <2>2, <2>4, <2>5, <2>6 DEF WireInv
<1>13. ReceivedInv'
  BY <1>1, <1>2 DEF ReceivedInv
<1>14. AgentInv'
  <2>1. Rest' = Rest
    BY <1>2, <1>7 DEF Rest
  <2> QED BY <1>2, <1>6, <1>7, <2>1 DEF AgentInv
<1>15. HistoryInv'
  BY <1>1, <1>2, <1>7 DEF HistoryInv
<1> QED BY <1>9, <1>10, <1>11, <1>12, <1>13, <1>14, <1>15 DEF IInv

LEMMA WireTouched ==
  ASSUME IInv, phase = "sent", NEW m, OnWire(m, headers),
         m = Message(address.path, AsString(address.query), m.lines, m.rewritten),
         wire' = <<m>>,
         UNCHANGED <<request, phase, server, signed, clocks, edits, histories>>
  PROVE  IInv'
<1> USE DEF request, server, clocks, histories
<1>1. /\ application' = application /\ address' = address /\ headers' = headers /\ data' = data
      /\ authentication' = authentication /\ phase' = phase /\ received' = received
      /\ verdict' = verdict /\ signed' = signed /\ now' = now /\ skew' = skew /\ edits' = edits
      /\ calls' = calls /\ sent' = sent /\ asked' = asked /\ joined' = joined
  OBVIOUS
<1>2. App' = App /\ Rest' = Rest
  BY <1>1 DEF App, Rest
<1>3. RequestInv' /\ ClocksInv' /\ SignedInv' /\ AgentInv' /\ HistoryInv'
  BY <1>1, <1>2 DEF IInv, RequestInv, ClocksInv, SignedInv, AgentInv, HistoryInv
<1>4. wire'[1] = m
  OBVIOUS
<1>5. WireInv'
  BY <1>1, <1>4 DEF WireInv
<1>6. ReceivedInv'
  BY <1>1 DEF IInv, ReceivedInv
<1> QED BY <1>3, <1>5, <1>6 DEF IInv

LEMMA AppendLineStep ==
  ASSUME IInv, NEW name \in Touchable, AppendLine(name)
  PROVE  IInv'
<1> DEFINE message == wire[1]
           lines == message.lines
           e == Line(name, Via)
           m == [message EXCEPT !.lines = Append(@, e)]
           n == Len(headers)
<1>1. /\ phase = "sent" /\ Len(lines) = n /\ wire' = <<m>>
      /\ UNCHANGED <<request, phase, server, signed, clocks, edits, histories>>
  BY DEF AppendLine
<1>2. /\ message = Message(address.path, AsString(address.query), lines, message.rewritten)
      /\ OnWire(message, headers)
  BY <1>1 DEF IInv, WireInv
<1>3. /\ m = Message(address.path, AsString(address.query), m.lines, m.rewritten)
      /\ m.lines = Append(lines, e) /\ m.rewritten = message.rewritten
  BY <1>2 DEF Message
<1>4. e \in LineSet /\ e.name = name /\ e.text = Via
  BY ViaType, RequestAssumption DEF LineSet, Line
<1>5. lines \in Seq(LineSet)
  BY <1>2 DEF OnWire
<1> HIDE DEF m, message, lines, e
<1>6. /\ m.lines \in Seq(LineSet) /\ Len(m.lines) = n + 1 /\ n \in Nat
      /\ \A i \in 1..n : m.lines[i] = lines[i]
      /\ m.lines[n + 1] = e
  BY <1>1, <1>3, <1>4, <1>5, AppendProperties, LenProperties
<1> HIDE DEF n
<1>7. OnWire(m, headers)
  <2>1. /\ \A i \in 1..n :
             /\ lines[i].name = headers[i].name
             /\ \/ lines[i].text = Text(headers[i].content)
                \/ lines[i].text = Via /\ headers[i].name \in message.rewritten
        /\ \A a \in Names, b \in Names :
             Rank[a] = Rank[b] => (a \in message.rewritten <=> b \in message.rewritten)
    BY <1>2 DEF OnWire, lines, n
  <2>2. \A i \in 1..n :
          /\ m.lines[i].name = headers[i].name
          /\ \/ m.lines[i].text = Text(headers[i].content)
             \/ m.lines[i].text = Via /\ headers[i].name \in m.rewritten
    BY <1>3, <1>6, <2>1
  <2> QED BY <1>3, <1>4, <1>6, <2>1, <2>2 DEF OnWire, n
<1> QED BY <1>1, <1>3, <1>7, WireTouched

LEMMA RewriteLineStep ==
  ASSUME IInv, NEW name \in Touchable, RewriteLine(name)
  PROVE  IInv'
<1> DEFINE message == wire[1]
           lines == message.lines
           these == {k \in Names : Rank[k] = Rank[name]}
           n == Len(headers)
<1>1. /\ phase = "sent" /\ message.rewritten = {}
      /\ UNCHANGED <<request, phase, server, signed, clocks, edits, histories>>
  BY DEF RewriteLine
<1>2. PICK j \in DOMAIN lines :
        /\ Rank[lines[j].name] = Rank[name]
        /\ wire' = <<[message EXCEPT !.lines[j].text = Via, !.rewritten = these]>>
  BY DEF RewriteLine
<1> DEFINE m == [message EXCEPT !.lines[j].text = Via, !.rewritten = these]
<1>3. /\ message = Message(address.path, AsString(address.query), lines, message.rewritten)
      /\ OnWire(message, headers)
  BY <1>1 DEF IInv, WireInv
<1> DEFINE e == [lines[j] EXCEPT !.text = Via]
           after == [lines EXCEPT ![j] = e]
<1>4. /\ m = Message(address.path, AsString(address.query), m.lines, m.rewritten)
      /\ m.lines = after /\ m.rewritten = these
  <2>1. m = [[message EXCEPT !.lines = after] EXCEPT !.rewritten = these]
    OBVIOUS
  <2> HIDE DEF m, message, lines, after, these
  <2>2. [message EXCEPT !.lines = after]
          = Message(address.path, AsString(address.query), after, message.rewritten)
    BY <1>3 DEF Message
  <2>3. m = Message(address.path, AsString(address.query), after, these)
    BY <2>1, <2>2 DEF Message
  <2> QED BY <2>3 DEF Message
<1>5. lines \in Seq(LineSet) /\ j \in 1..Len(lines) /\ lines[j] \in LineSet
  <2>1. lines \in Seq(LineSet)
    BY <1>3 DEF OnWire
  <2> HIDE DEF lines
  <2> QED BY <1>2, <2>1, LenProperties
<1>6. e \in LineSet /\ e.name = lines[j].name /\ e.text = Via
  <2> DEFINE l == lines[j]
  <2>1. l \in LineSet
    BY <1>5
  <2> HIDE DEF l
  <2>2. /\ [l EXCEPT !.text = Via] \in LineSet /\ [l EXCEPT !.text = Via].name = l.name
        /\ [l EXCEPT !.text = Via].text = Via
    BY <2>1, ViaType DEF LineSet
  <2> QED BY <2>2 DEF l
<1>7. wire' = <<m>>
  BY <1>2
<1> HIDE DEF m, message, lines, e, n
<1>8. /\ after \in Seq(LineSet) /\ Len(after) = Len(lines)
      /\ \A i \in 1..Len(lines) : after[i] = IF i = j THEN e ELSE lines[i]
  BY <1>5, <1>6, ExceptSeq
<1> HIDE DEF after
<1>9. OnWire(m, headers)
  <2>1. /\ Len(lines) = n \/ Len(lines) = n + 1
        /\ n \in Nat
        /\ \A i \in 1..n :
             /\ lines[i].name = headers[i].name
             /\ lines[i].text = Text(headers[i].content)
        /\ Len(lines) = n + 1 => lines[n + 1].text = Via /\ lines[n + 1].name \in Touchable
    <3>1. headers \in Seq(Clean(Len(signed)))
      BY DEF IInv, RequestInv, CleanHeaders
    <3>2. n \in Nat
      BY <3>1, LenProperties DEF n
    <3> QED BY <1>1, <1>3, <3>2 DEF OnWire, lines, n
  <2>2. ASSUME NEW i \in 1..n
        PROVE  /\ after[i].name = headers[i].name
               /\ \/ after[i].text = Text(headers[i].content)
                  \/ after[i].text = Via /\ headers[i].name \in these
    <3>1. i \in 1..Len(lines)
      BY <2>1
    <3>2. lines[i].name \in Names
      <4>1. lines[i] \in LineSet
        BY <1>5, <3>1, ElementOfSeq
      <4> QED BY <4>1 DEF LineSet
    <3>3. CASE i = j
      BY <1>2, <1>6, <1>8, <2>1, <3>1, <3>2, <3>3
    <3>4. CASE i # j
      BY <1>8, <2>1, <3>1, <3>4
    <3> QED BY <3>3, <3>4
  <2>3. Len(lines) = n + 1 => after[n + 1].text = Via /\ after[n + 1].name \in Touchable
    <3>1. Len(lines) = n + 1 => n + 1 \in 1..Len(lines)
      BY <2>1
    <3> QED BY <1>6, <1>8, <2>1, <3>1
  <2>4. \A a \in Names, b \in Names : Rank[a] = Rank[b] => (a \in these <=> b \in these)
    OBVIOUS
  <2> HIDE DEF these
  <2> QED BY <1>4, <1>8, <2>1, <2>2, <2>3, <2>4 DEF OnWire, n
<1> QED BY <1>1, <1>4, <1>7, <1>9, WireTouched

LEMMA TickStep ==
  ASSUME IInv, Tick
  PROVE  IInv'
<1> USE DEF request, server, histories
<1>1. /\ now < App.time /\ phase # "verified" /\ now' = now + 1
      /\ application' = application /\ address' = address /\ headers' = headers /\ data' = data
      /\ authentication' = authentication /\ phase' = phase /\ wire' = wire
      /\ received' = received /\ verdict' = verdict /\ signed' = signed /\ skew' = skew
      /\ edits' = edits /\ calls' = calls /\ sent' = sent /\ asked' = asked /\ joined' = joined
  BY DEF Tick
<1>2. App' = App /\ Rest' = Rest
  BY <1>1 DEF App, Rest
<1>3. RequestInv' /\ WireInv' /\ ReceivedInv' /\ AgentInv' /\ HistoryInv'
  BY <1>1, <1>2 DEF IInv, RequestInv, WireInv, ReceivedInv, AgentInv, HistoryInv
<1>4. App.time \in Nat /\ now \in Nat /\ now <= App.time /\ sent \in 0..now
  BY AppType DEF App, IInv, RequestInv, ClocksInv
<1>5. ClocksInv'
  <2>1. now' \in 0..App.time /\ sent \in 0..now'
    BY <1>1, <1>4
  <2> QED BY <1>1, <1>2, <2>1 DEF IInv, ClocksInv
<1>6. SignedInv'
  <2>1. now <= now' /\ now \in Nat /\ now' \in Nat
    BY <1>1, <1>4
  <2>2. ASSUME NEW s, GoodSignature(s, now) PROVE GoodSignature(s, now')
    BY <2>1, <2>2 DEF GoodSignature
  <2> QED BY <1>1, <2>2 DEF IInv, SignedInv
<1> QED BY <1>3, <1>5, <1>6 DEF IInv

\* The call ends, however it does.
LEMMA EndStep ==
  ASSUME IInv, phase' = "idle", wire' = <<>>, received' = <<>>, verdict' = "none",
         UNCHANGED <<request, signed, clocks, edits, histories>>
  PROVE  IInv'
<1> USE DEF request, clocks, histories
<1>1. /\ application' = application /\ address' = address /\ headers' = headers /\ data' = data
      /\ authentication' = authentication /\ signed' = signed /\ now' = now /\ skew' = skew
      /\ edits' = edits /\ calls' = calls /\ sent' = sent /\ asked' = asked /\ joined' = joined
  OBVIOUS
<1>2. App' = App
  BY <1>1 DEF App
<1>3. RequestInv' /\ ClocksInv' /\ WireInv' /\ ReceivedInv' /\ AgentInv' /\ HistoryInv'
  BY <1>1, <1>2 DEF IInv, RequestInv, ClocksInv, WireInv, ReceivedInv, AgentInv, HistoryInv
<1>4. SignedInv'
  <2>1. sent <= now /\ now \in Nat /\ sent \in Nat
    BY AppType DEF App, IInv, RequestInv, ClocksInv
  <2>2. ASSUME NEW s, GoodSignature(s, sent) PROVE GoodSignature(s, now)
    BY <2>1, <2>2 DEF GoodSignature
  <2> QED BY <1>1, <2>2 DEF IInv, SignedInv
<1> QED BY <1>3, <1>4 DEF IInv

LEMMA ReceiveStep ==
  ASSUME IInv, Receive
  PROVE  IInv'
<1> DEFINE message == wire[1]
           path == ParsePath(message.path, message.query)
           query == ParseQuery(message.query)
<1>1. /\ phase = "sent" /\ UNCHANGED <<request, verdict, signed, clocks, edits, histories>>
      /\ verdict = "none" /\ received = <<>>
  BY DEF Receive, IInv, ReceivedInv
<1>2. CASE path = <<>> \/ query = <<>>
  <2>1. phase' = "idle" /\ wire' = <<>> /\ received' = received
    BY <1>2 DEF Receive
  <2> QED BY <1>1, <2>1, EndStep
<1>3. CASE ~(path = <<>> \/ query = <<>>)
  <2> USE DEF request, clocks, histories
  <2>1. phase' = "received" /\ wire' = wire /\ received' = <<ReceivedOf(wire[1])>>
    BY <1>3 DEF Receive, ReceivedOf, Arrived
  <2>2. /\ application' = application /\ address' = address /\ headers' = headers /\ data' = data
        /\ authentication' = authentication /\ signed' = signed /\ now' = now /\ skew' = skew
        /\ edits' = edits /\ calls' = calls /\ sent' = sent /\ asked' = asked
        /\ joined' = joined /\ verdict' = verdict
    BY <1>1
  <2>3. App' = App /\ Rest' = Rest
    BY <2>2 DEF App, Rest
  <2>4. RequestInv' /\ ClocksInv' /\ SignedInv' /\ WireInv' /\ AgentInv' /\ HistoryInv'
    BY <1>1, <2>1, <2>2, <2>3
       DEF IInv, RequestInv, ClocksInv, SignedInv, WireInv, AgentInv, HistoryInv
  <2>5. ReceivedInv'
    BY <1>1, <1>3, <2>1, <2>2 DEF ReceivedInv
  <2> QED BY <2>4, <2>5 DEF IInv
<1> QED BY <1>2, <1>3

LEMMA VerifyStep ==
  ASSUME IInv, Verify
  PROVE  IInv'
<1> USE DEF request, clocks, histories
<1>1. /\ phase = "received" /\ phase' = "verified"
      /\ verdict' = Verdict("GET", received[1].path, received[1].headers, now + skew, signed)
      /\ application' = application /\ address' = address /\ headers' = headers /\ data' = data
      /\ authentication' = authentication /\ signed' = signed /\ now' = now /\ skew' = skew
      /\ edits' = edits /\ calls' = calls /\ sent' = sent /\ asked' = asked
      /\ joined' = joined /\ wire' = wire /\ received' = received
  BY DEF Verify
<1>2. App' = App /\ Rest' = Rest
  BY <1>1 DEF App, Rest
<1>3. RequestInv' /\ ClocksInv' /\ SignedInv' /\ WireInv' /\ AgentInv' /\ HistoryInv'
  BY <1>1, <1>2 DEF IInv, RequestInv, ClocksInv, SignedInv, WireInv, AgentInv, HistoryInv
<1>4. ReceivedInv'
  BY <1>1 DEF IInv, ReceivedInv
<1> QED BY <1>3, <1>4 DEF IInv

\* IInv is inductive.
LEMMA StaysRight == IInv /\ [Next]_vars => IInv'
<1> SUFFICES ASSUME IInv, [Next]_vars PROVE IInv'
  OBVIOUS
<1>1. CASE Application
  <2>1. application \in DOMAIN Applications
    BY DEF IInv, RequestInv
  <2>2. ASSUME NEW field \in App.fields PROVE field.key \in KeySet
    <3>1. field \in Fields
      BY <2>1, AppType DEF App
    <3> QED BY <3>1 DEF Fields, KeySet
  <2>3. CASE \E ref \in App.references : JoinAddress(ref)
    BY <2>3, JoinStep
  <2>4. CASE \E field \in App.fields : AppendQuery(field) \/ RemoveQuery(field.key)
    BY <2>2, <2>4, AppendStep, RemoveStep
  <2>5. CASE ShowAddress
    BY <2>5, ShowStep
  <2>6. CASE \/ \E header \in App.contents : SetHeader(header) \/ AddHeader(header)
             \/ \E sub \in App.subvalues : SetHeaderSubvalue(sub[1], sub[2], sub[3])
    BY <2>6, HeadersStep
  <2>7. CASE \E signer \in App.signers : SignDirectly(signer)
    BY <2>7, SignStep
  <2> QED BY <1>1, <2>3, <2>4, <2>5, <2>6, <2>7 DEF Application
<1>2. CASE Call
  BY <1>2, CallStep
<1>3. CASE Intermediary
  BY <1>3, AppendLineStep, RewriteLineStep DEF Intermediary
<1>4. CASE Tick
  BY <1>4, TickStep
<1>5. CASE Receive
  BY <1>5, ReceiveStep
<1>6. CASE Verify
  BY <1>6, VerifyStep
<1>7. CASE Answered
  BY <1>7, EndStep DEF Answered
<1>8. CASE UNCHANGED vars
  <2>1. /\ application' = application /\ address' = address /\ headers' = headers /\ data' = data
        /\ authentication' = authentication /\ phase' = phase /\ wire' = wire
        /\ received' = received /\ verdict' = verdict /\ signed' = signed
        /\ now' = now /\ skew' = skew /\ edits' = edits /\ calls' = calls /\ sent' = sent
        /\ asked' = asked /\ joined' = joined
    BY <1>8 DEF vars, request, server, clocks, histories
  <2>2. App' = App /\ Rest' = Rest
    BY <2>1 DEF App, Rest
  <2> QED BY <2>1, <2>2 DEF IInv, RequestInv, ClocksInv, SignedInv, WireInv, ReceivedInv, AgentInv,
                            HistoryInv
<1> QED BY <1>1, <1>2, <1>3, <1>4, <1>5, <1>6, <1>7, <1>8 DEF Next

LEMMA AlwaysRight == Spec => []IInv
BY StartsRight, StaysRight, PTL DEF Spec

-----------------------------------------------------------------------------
(***************************************************************************)
(* Theorems.                                                               *)
(***************************************************************************)
LEMMA HeadersAreOK ==
  ASSUME NEW X, Named(X), NEW hs \in Seq(X), Sorted(hs)
  PROVE  HeadersOK(hs)
<1>1. /\ Len(hs) \in Nat /\ DOMAIN hs = 1..Len(hs)
      /\ \A i \in 1..Len(hs) : hs[i] \in X
  BY LenProperties
<1>2. \A i \in DOMAIN hs : hs[i].name \in Names
  BY <1>1 DEF Named
<1>3. ASSUME NEW i \in 1..(Len(hs) - 1) PROVE Rank[hs[i].name] <= Rank[hs[i + 1].name]
  <2>1. i \in 1..Len(hs) /\ i + 1 \in 1..Len(hs) /\ i <= i + 1
    BY <1>1
  <2> QED BY <2>1 DEF Sorted
<1> QED BY <1>2, <1>3 DEF HeadersOK

LEMMA GoodQueryIsOK == \A q : GoodQuery(q) => QueryOK(q)
BY DEF GoodQuery, QueryOK, Items, KeySet

LEMMA VerdictType ==
  \A method, path, hs, time, all : Verdict(method, path, hs, time, all) \in Outcomes
BY DEF Verdict, Outcomes

\* What the invariant says of a request that is received.
LEMMA WhenReceived ==
  ASSUME IInv, phase \in {"received", "verified"}
  PROVE  /\ wire = <<wire[1]>> /\ OnWire(wire[1], headers)
         /\ wire[1] = Message(address.path, AsString(address.query), wire[1].lines,
                              wire[1].rewritten)
         /\ wire[1].lines \in Seq(LineSet)
         /\ received = <<ReceivedOf(wire[1])>> /\ received[1] = ReceivedOf(wire[1])
         /\ received[1].headers = Arrived(wire[1].lines)
         /\ headers \in Seq(Clean(Len(signed))) /\ Sorted(headers)
         /\ Len(signed) \in Nat
<1>1. phase # "idle" /\ WireInv /\ ReceivedInv /\ RequestInv /\ SignedInv
  BY DEF IInv
<1>2. /\ wire = <<wire[1]>> /\ OnWire(wire[1], headers)
      /\ wire[1] = Message(address.path, AsString(address.query), wire[1].lines,
                              wire[1].rewritten)
  BY <1>1 DEF WireInv
<1>3. received = <<ReceivedOf(wire[1])>> /\ received[1] = ReceivedOf(wire[1])
  <2>1. received = <<ReceivedOf(wire[1])>>
    BY <1>1 DEF ReceivedInv
  <2> QED BY <2>1
<1>4. received[1].headers = Arrived(wire[1].lines)
  BY <1>3 DEF ReceivedOf
<1>5. headers \in Seq(Clean(Len(signed))) /\ Sorted(headers)
  BY <1>1 DEF RequestInv, CleanHeaders
<1>6. wire[1].lines \in Seq(LineSet)
  BY <1>2 DEF OnWire
<1>7. Len(signed) \in Nat
  BY <1>1, ListAppend DEF SignedInv
<1> QED BY <1>2, <1>3, <1>4, <1>5, <1>6, <1>7

\* Every variable has its type, headers are sorted wherever they are, and a
\* query's text that is cached is that of its items.
THEOREM TypeCorrect == Spec => []TypeOK
<1>1. IInv => TypeOK
  <2> SUFFICES ASSUME IInv PROVE TypeOK
    OBVIOUS
  <2>1. RequestInv /\ ClocksInv /\ WireInv /\ ReceivedInv
    BY DEF IInv
  <2>2. /\ GoodPath(address.path) /\ GoodQuery(address.query)
        /\ authentication \in App.agents
    BY <2>1 DEF RequestInv, GoodAddress
  <2>3. /\ address.path \in Seq(STRING) /\ address.path # <<>>
        /\ QueryOK(address.query)
        /\ address.query.cached # <<>> /\ address.query.items # NoItems =>
             address.query.cached = Printed(address.query.items)
    BY <2>2, GoodQueryIsOK DEF GoodPath, GoodQuery
  <2>4. HeadersOK(headers)
    BY <2>1, CleanNamed, HeadersAreOK DEF RequestInv, CleanHeaders
  <2>5. phase \in {"idle", "sent", "received", "verified"}
    BY <2>1 DEF WireInv
  <2>6. (wire = <<>>) = (phase = "idle")
    BY <2>1 DEF WireInv
  <2>7. (received # <<>>) = (phase \in {"received", "verified"})
    BY <2>1, <2>5 DEF ReceivedInv
  <2>8. ASSUME NEW i \in DOMAIN received
        PROVE  QueryOK(received[i].query) /\ HeadersOK(received[i].headers)
    <3>1. phase \in {"received", "verified"}
      BY <2>1, <2>5 DEF ReceivedInv
    <3>2. received = <<ReceivedOf(wire[1])>> /\ wire[1].lines \in Seq(LineSet)
      BY <3>1, WhenReceived
    <3>3. received[i] = ReceivedOf(wire[1])
      BY <3>2
    <3>4. HeadersOK(Arrived(wire[1].lines))
      BY <3>2, Arrival, LooseNamed, HeadersAreOK
    <3>5. ParseQuery(wire[1].query) # <<>>
      BY <2>1, <3>1 DEF ReceivedInv
    <3>6. wire[1].query \in Seq(Fields)
      <4>1. wire[1].query = AsString(address.query)
        BY <3>1, WhenReceived DEF Message
      <4> QED BY <2>2, <4>1, TextOfQuery
    <3>7. QueryOK(ParseQuery(wire[1].query)[1])
      BY <3>5, <3>6, ParsedQuery, GoodQueryIsOK
    <3> QED BY <3>3, <3>4, <3>7 DEF ReceivedOf
  <2>9. verdict \in Outcomes
    <3>1. CASE phase = "verified"
      BY <2>1, <3>1, VerdictType DEF ReceivedInv
    <3>2. CASE phase # "verified"
      BY <2>1, <3>2 DEF ReceivedInv, Outcomes
    <3> QED BY <3>1, <3>2
  <2> QED BY <2>1, <2>2, <2>3, <2>4, <2>5, <2>6, <2>7, <2>8, <2>9 DEF TypeOK, ClocksInv
<1> QED BY <1>1, AlwaysRight, PTL

\* A text that means the same has no other fields.
LEMMA MeansTheSame ==
  ASSUME NEW s \in Seq(Fields), NEW t \in Seq(Fields), Means(s, t),
         NEW key, Unmistaken(t, key)
  PROVE  Unmistaken(s, key)
<1> SUFFICES ASSUME NEW f \in Range(s) \cap DOMAIN Misprinted PROVE f \in Range(t)
  BY DEF Unmistaken
<1>1. PICK i \in 1..Len(s) : s[i] = f
  BY LenProperties DEF Range
<1>2. f \in Fields /\ f.key \in KeySet /\ f \in KeyFields(f.key)
  <2>1. f \in Fields
    BY <1>1, LenProperties
  <2> QED BY <2>1 DEF Fields, KeySet, KeyFields
<1> DEFINE T == KeyFields(f.key)
           p == Picked(t, T)
           X == Range(t)
<1>3. Picked(s, T) = p
  <2>1. OfKey(s, f.key) = OfKey(t, f.key)
    BY <1>2 DEF Means
  <2> QED BY <2>1, OfIsPicked
<1> HIDE DEF T
<1>4. PICK j \in 1..Len(p) : p[j] = f
  BY <1>1, <1>2, <1>3, PickedCovers DEF T
<1>5. t \in Seq(X)
  <2>1. Len(t) \in Nat /\ t = [k \in 1..Len(t) |-> t[k]] /\ \A k \in 1..Len(t) : t[k] \in X
    BY LenProperties DEF Range
  <2> HIDE DEF X
  <2>2. \A n \in Nat : (\A k \in 1..n : t[k] \in X) => [k \in 1..n |-> t[k]] \in Seq(X)
    BY IsASeq
  <2> QED BY <2>1, <2>2
<1> HIDE DEF X
<1>6. p \in Seq(X)
  BY <1>5, PickedInto
<1>7. p[j] \in X
  <2> HIDE DEF p
  <2> QED BY <1>6, ElementOfSeq
<1> QED BY <1>4, <1>7 DEF X

\* The handler sees the path of the address, and for every key the fields that
\* the application appended and did not remove, whatever edits of the query, and
\* whatever texts of it, came before; but for the keys that an '=' in the name of
\* a field disturbs.
THEOREM AddressDelivered == Spec => []AddressArrives
<1>1. IInv => AddressArrives
  <2> SUFFICES ASSUME IInv, phase = "received" PROVE AddressArrives
    BY DEF AddressArrives
  <2>1. /\ received[1] = ReceivedOf(wire[1])
        /\ wire[1].path = address.path /\ wire[1].query = AsString(address.query)
    BY WhenReceived DEF Message
  <2>2. /\ ParseQuery(wire[1].query) # <<>> /\ GoodQuery(address.query)
        /\ asked.fields \in Seq(Fields)
        /\ ~asked.mixed => Means(AsString(address.query), asked.fields)
    BY DEF IInv, ReceivedInv, RequestInv, GoodAddress, HistoryInv
  <2>3. address.path # NoPath => received[1].path = address.path
    BY <2>1 DEF ReceivedOf, ParsePath
  <2> DEFINE got == ParseQuery(wire[1].query)[1]
  <2>4. received[1].query = got
    BY <2>1 DEF ReceivedOf
  <2>5. \A m \in KeySet : Unmistaken(wire[1].query, m) =>
          OfKey(AsString(got), m) = OfKey(wire[1].query, m)
    BY <2>1, <2>2, TextOfQuery, ParsedQuery
  <2> HIDE DEF got
  <2>6. ASSUME ~asked.mixed, NEW key \in KeySet, Unmistaken(asked.fields, key)
        PROVE  OfKey(AsString(received[1].query), key) = OfKey(asked.fields, key)
    <3>1. wire[1].query \in Seq(Fields)
      BY <2>1, <2>2, TextOfQuery
    <3>2. Means(wire[1].query, asked.fields)
      BY <2>1, <2>2, <2>6
    <3>3. Unmistaken(wire[1].query, key)
      BY <2>2, <2>6, <3>1, <3>2, MeansTheSame
    <3> QED BY <2>4, <2>5, <3>2, <3>3 DEF Means
  <2> QED BY <2>3, <2>6 DEF AddressArrives, OfKey, KeySet
<1> QED BY <1>1, AlwaysRight, PTL

LEMMA PrefixOf ==
  ASSUME NEW s, NEW t, NEW n \in Nat, Len(s) = n, Len(t) \in Nat, n <= Len(t),
         \A i \in 1..n : s[i] = t[i]
  PROVE  IsPrefix(s, t)
<1> DEFINE X == {s[i] : i \in 1..n}
           a == SubSeq(s, 1, n)
           b == SubSeq(t, 1, n)
<1>1. 1 \in Int /\ n \in Int /\ (\A i \in 1..n : s[i] \in X) /\ (\A i \in 1..n : t[i] \in X)
  OBVIOUS
<1> HIDE DEF X
<1>2. /\ a \in Seq(X) /\ Len(a) = IF 1 <= n THEN n - 1 + 1 ELSE 0
      /\ \A i \in 1..(n - 1 + 1) : a[i] = s[1 + i - 1]
  BY <1>1, SubSeqProperties
<1>3. /\ b \in Seq(X) /\ Len(b) = IF 1 <= n THEN n - 1 + 1 ELSE 0
      /\ \A i \in 1..(n - 1 + 1) : b[i] = t[1 + i - 1]
  BY <1>1, SubSeqProperties
<1> HIDE DEF a, b
<1>4. ASSUME NEW i \in 1..Len(a) PROVE a[i] = b[i]
  <2>1. i \in 1..n /\ i \in 1..(n - 1 + 1) /\ 1 + i - 1 = i
    BY <1>2
  <2> QED BY <1>2, <1>3, <2>1
<1>5. a = b
  BY <1>2, <1>3, <1>4, SeqEqual
<1> QED BY <1>5 DEF IsPrefix, a, b

TextsOf(these) == [k \in DOMAIN these |-> Text(these[k].content)]

LEMMA TextsElements ==
  ASSUME NEW X, NEW these \in Seq(X)
  PROVE  /\ Len(TextsOf(these)) = Len(these) /\ Len(these) \in Nat
         /\ \A i \in 1..Len(these) : TextsOf(these)[i] = Text(these[i].content)
<1> DEFINE F == [h \in X |-> Text(h.content)]
<1>1. \A i \in DOMAIN these : these[i] \in X
  BY LenProperties
<1>2. TextsOf(these) = Image(these, F)
  BY <1>1 DEF TextsOf, Image
<1>3. \A h \in X : F[h] = Text(h.content)
  OBVIOUS
<1> HIDE DEF F
<1>4. Len(these) \in Nat /\ DOMAIN these = 1..Len(these)
  BY LenProperties
<1> QED BY <1>1, <1>2, <1>3, <1>4, ImageElements

\* Every header arrives, with its repetitions in their order before what an
\* intermediary appends and with its arguments where those are told apart; of
\* those with an underscore the server supplies its peer's address alone, once.
THEOREM HeadersDeliveredWhole == Spec => []HeadersArrive
<1>1. IInv => HeadersArrive
  <2> SUFFICES ASSUME IInv, phase = "received" PROVE HeadersArrive
    BY DEF HeadersArrive
  <2> DEFINE message == wire[1]
             got == Arrived(message.lines)
             hs == headers
             top == Len(signed)
             touched == message.rewritten
  <2>1. /\ OnWire(message, hs) /\ message.lines \in Seq(LineSet)
        /\ received[1].headers = got
        /\ hs \in Seq(Clean(top)) /\ top \in Nat
    BY WhenReceived
  <2>2. ASSUME NEW m \in Names \ (Underscored \cup touched)
        PROVE  /\ IsPrefix(TextsOf(Equal(hs, m)), TextsOf(Equal(got, m)))
               /\ Exists(hs, m) /\ Equal(hs, m)[1].name \in Divided => Get(got, m) = Get(hs, m)
    <3> DEFINE h == Equal(hs, m)
               g == Equal(got, m)
    <3>1. m \in Names \ Underscored /\ m \notin touched
      BY <2>2
    <3> HIDE DEF message, hs, top, touched
    <3>2. /\ h \in Seq(Clean(top)) /\ g \in Seq(Loose)
          /\ Len(h) \in Nat /\ Len(g) \in Nat /\ Len(h) <= Len(g)
          /\ \A i \in 1..Len(h) : Delivered(g[i], h[i], m \in message.rewritten)
      BY <2>1, <3>1, HeadersDelivered
    <3> HIDE DEF g, h, got
    <3>3. ASSUME NEW i \in 1..Len(h)
          PROVE  TextsOf(h)[i] = TextsOf(g)[i]
      <4>1. i \in 1..Len(g)
        BY <3>2
      <4>2. h[i] \in Clean(top)
        BY <3>2, ElementOfSeq
      <4> DEFINE c == h[i].content
                 name == h[i].name
      <4>3. c \in Contents
        BY <4>2, CleanParts
      <4>4. g[i] = Header(ValueName(name), Value(name, Text(c)))
        BY <3>1, <3>2 DEF Delivered, touched
      <4> HIDE DEF c, name
      <4>8. \A a, b : Header(a, b).content = b
        BY DEF Header
      <4>5. Text(Value(name, Text(c))) = Text(c)
        BY <4>3, TextOfValue
      <4>6. TextsOf(h)[i] = Text(h[i].content)
        BY <3>2, TextsElements
      <4>7. TextsOf(g)[i] = Text(g[i].content)
        BY <3>2, <4>1, TextsElements
      <4> QED BY <4>4, <4>5, <4>6, <4>7, <4>8 DEF c
    <3>4. Len(TextsOf(h)) = Len(h) /\ Len(TextsOf(g)) = Len(g)
      BY <3>2, TextsElements
    <3> DEFINE s == TextsOf(h)
               t == TextsOf(g)
    <3>5. /\ Len(s) = Len(h) /\ Len(h) \in Nat /\ Len(t) \in Nat /\ Len(h) <= Len(t)
          /\ \A i \in 1..Len(h) : s[i] = t[i]
      BY <3>2, <3>3, <3>4
    <3> HIDE DEF s, t
    <3>6. IsPrefix(s, t)
      BY <3>5, PrefixOf
    <3>7. ASSUME Exists(hs, m), Equal(hs, m)[1].name \in Divided
          PROVE  Get(got, m) = Get(hs, m)
      <4> DEFINE c == Get(hs, m)
                 name == Equal(hs, m)[1].name
      <4>1. c \in Contents
        <5>1. CleanHeaders(hs, top)
          BY <2>1, WhenReceived DEF CleanHeaders, hs
        <5> QED BY <5>1, <3>1, GetClean
      <4>2. Get(got, m) = Value(name, Text(c))
        BY <2>1, <3>1, <3>7, FirstDelivered DEF touched, got
      <4> HIDE DEF c, name
      <4>3. Value(name, Text(c)) = c
        BY <3>7, <4>1, ValueOfText DEF name
      <4> QED BY <4>2, <4>3 DEF c
    <3> QED BY <3>6, <3>7 DEF s, t, h, g
  <2>3. \A m \in Names : Equal(got, m)
          = IF Rank[m] = Rank["__remote_addr"] THEN <<Header("__remote_addr", Peer)>>
            ELSE IF m \in Underscored THEN <<>> ELSE Image(Equal(message.lines, m), ParsedLines)
    <3> HIDE DEF message
    <3> QED BY <2>1, Arrival
  <2>4. \A m \in Underscored : Rank[m] # Rank["__remote_addr"] => ~Exists(got, m)
    BY <2>3, HeadersAssumption DEF Exists
  <2>5. TextsOf(Equal(got, "__remote_addr")) = <<Text(Peer)>>
    <3> DEFINE name == "__remote_addr"
               p == Peer
    <3>1. name \in Names
      BY RequestAssumption, HeadersAssumption
    <3>2. Equal(got, name) = <<Header(name, p)>>
      BY <2>3, <3>1
    <3> HIDE DEF name, p
    <3>3. TextsOf(<<Header(name, p)>>) = <<Text(p)>>
      BY DEF TextsOf, Header
    <3> QED BY <3>2, <3>3 DEF name, p
  <2> HIDE DEF got
  <2> QED BY <2>1, <2>2, <2>4, <2>5 DEF HeadersArrive, TextsOf
<1> QED BY <1>1, AlwaysRight, PTL

LEMMA Clocks ==
  ASSUME IInv
  PROVE  /\ now \in Nat /\ skew \in Int /\ sent \in Nat /\ now + skew \in Int
         /\ authentication # <<>> =>
              /\ authentication[1].key \in STRING
              /\ authentication[1].names \in Seq(Names)
<1>1. /\ application \in DOMAIN Applications /\ authentication \in App.agents
      /\ now \in 0..App.time /\ skew \in App.skews /\ sent \in 0..now
  BY DEF IInv, RequestInv, ClocksInv
<1>2. /\ \A agent \in App.agents : agent # <<>> => IsSigner(agent[1])
      /\ App.skews \subseteq Int /\ App.time \in Nat
  BY <1>1, AppType DEF App
<1>3. authentication # <<>> => IsSigner(authentication[1])
  BY <1>1, <1>2
<1>4. now \in Nat /\ skew \in Int
  BY <1>1, <1>2
<1> QED BY <1>1, <1>3, <1>4 DEF IsSigner

\* A message with a signature that stands for it, in what has been signed.
Vouched(top, hs, message, key, names, time, then, path, s) ==
  /\ top \in Nat /\ top # 0 /\ hs \in Seq(Clean(top)) /\ Sorted(hs)
  /\ OnWire(message, hs) /\ Stamps \cap message.rewritten = {}
  /\ key \in STRING /\ key \in DOMAIN Secret
  /\ names \in Seq(Names) /\ time \in Nat /\ then \in Int
  /\ Carries(hs, key, names, time, top)
  /\ StandsFor(s, Secret[key], path, hs, names, time, <<>>)
  /\ Undisturbed(names, hs, message)

LEMMA VouchedIsAuthenticated ==
  ASSUME NEW top, NEW hs, NEW message, NEW key, NEW names, NEW time, NEW then, NEW path, NEW all,
         Vouched(top, hs, message, key, names, time, then, path, all[top])
  PROVE  Verdict("GET", path, Arrived(message.lines), then, all)
           = IF InTime(time, then) THEN "authenticated" ELSE "skew"
<1> USE DEF Vouched
<1>1. /\ top \in Nat /\ hs \in Seq(Clean(top)) /\ key \in STRING /\ names \in Seq(Names)
      /\ time \in Nat /\ then \in Int
  OBVIOUS
<1>2. /\ Sorted(hs) /\ OnWire(message, hs) /\ top # 0
      /\ Stamps \cap message.rewritten = {} /\ key \in DOMAIN Secret
  OBVIOUS
<1>3. Carries(hs, key, names, time, top) /\ Undisturbed(names, hs, message)
  OBVIOUS
<1>4. StandsFor(all[top], Secret[key], path, hs, names, time, <<>>)
  OBVIOUS
<1> HIDE DEF Vouched
<1> QED BY <1>1, <1>2, <1>3, <1>4, SignedIsAuthenticated

\* A call that the agent signs with a key of the server's is authenticated if it
\* arrives within the window of the server's clock, and else refused for its
\* time: whatever was done to the request before, and is appended to it later.
THEOREM SignedCallsVerified == Spec => []SignedIsVerified
<1>1. IInv => SignedIsVerified
  <2> SUFFICES ASSUME IInv, phase = "verified", authentication # <<>>,
                      Simply(authentication[1].names),
                      authentication[1].key \in DOMAIN Secret,
                      Secret[authentication[1].key] = authentication[1].secret
               PROVE  verdict = IF now + skew - sent \in -Window..Window
                                  THEN "authenticated" ELSE "skew"
    BY DEF SignedIsVerified
  <2> DEFINE signer == authentication[1]
             key == signer.key
             names == signer.names
             message == wire[1]
             top == Len(signed)
             path == address.path
             then == now + skew
  <2>1. /\ OnWire(message, headers)
        /\ message = Message(path, AsString(address.query), message.lines, message.rewritten)
        /\ received[1] = ReceivedOf(message)
        /\ received[1].headers = Arrived(message.lines)
        /\ headers \in Seq(Clean(top)) /\ Sorted(headers) /\ top \in Nat
    BY WhenReceived
  <2>2. now \in Nat /\ then \in Int /\ sent \in Nat /\ key \in STRING /\ names \in Seq(Names)
    BY Clocks
  <2>3. /\ top # 0 /\ Carries(headers, key, names, sent, top)
        /\ StandsFor(signed[top], signer.secret, path, headers, names, sent, Rest)
    BY DEF IInv, AgentInv
  <2>4. /\ data = <<>> /\ message.query = <<>> /\ path # NoPath
        /\ (Range(names) \cup Stamps) \cap message.rewritten = {}
        /\ \A i \in DOMAIN names :
             /\ names[i] \notin Underscored
             /\ \A late \in {"X-FOST-Headers", "Authorization"} : Rank[names[i]] # Rank[late]
             /\ Exists(headers, names[i]) \/ \A name \in Touchable : Rank[names[i]] # Rank[name]
             /\ DOMAIN Get(headers, names[i]).subvalues = {}
    BY DEF Simply
  <2>5. /\ message.path = path /\ message.query = AsString(address.query)
    BY <2>1 DEF Message
  <2>6. Rest = <<>>
    BY <2>4, <2>5 DEF Rest
  <2>7. received[1].path = path
    BY <2>1, <2>4, <2>5 DEF ReceivedOf, ParsePath
  <2>8. verdict = Verdict("GET", path, Arrived(message.lines), then, signed)
    BY <2>1, <2>7 DEF IInv, ReceivedInv
  <2>9. Undisturbed(names, headers, message)
    <3>1. DOMAIN names = 1..Len(names)
      BY <2>2, LenProperties
    <3>2. \A i \in DOMAIN names : names[i] \in Range(names)
      BY DEF Range
    <3> HIDE DEF names, message
    <3> QED BY <2>4, <3>1, <3>2 DEF Undisturbed
  <2>10. Secret[key] = signer.secret /\ key \in DOMAIN Secret
    OBVIOUS
  <2> SUFFICES verdict = IF then - sent \in -Window..Window THEN "authenticated" ELSE "skew"
    <3>1. now + skew - sent = (now + skew) - sent
      BY Clocks
    <3> QED BY <3>1
  <2> DEFINE intime == InTime(sent, then)
             close == then - sent \in -Window..Window
  <2> HIDE DEF key, names, message, path, then, top
  <2>11. Stamps \cap message.rewritten = {}
    BY <2>4
  <2>12. StandsFor(signed[top], Secret[key], path, headers, names, sent, <<>>)
    BY <2>3, <2>6, <2>10
  <2>13. Verdict("GET", path, Arrived(message.lines), then, signed)
           = IF InTime(sent, then) THEN "authenticated" ELSE "skew"
    <3>1. Carries(headers, key, names, sent, top)
      BY <2>3
    <3>2. headers \in Seq(Clean(top)) /\ Sorted(headers) /\ top \in Nat /\ top # 0
      BY <2>1, <2>3
    <3>3. OnWire(message, headers)
      BY <2>1
    <3> HIDE DEF signer
    <3>4. Vouched(top, headers, message, key, names, sent, then, path, signed[top])
      BY <2>2, <2>9, <2>10, <2>11, <2>12, <3>1, <3>2, <3>3 DEF Vouched
    <3> QED BY <3>4, VouchedIsAuthenticated
  <2>14. InTime(sent, then) <=> then - sent \in -Window..Window
    BY <2>2, AuthenticationAssumption DEF InTime
  <2> HIDE DEF intime, close
  <2>15. verdict = IF intime THEN "authenticated" ELSE "skew"
    BY <2>8, <2>13 DEF intime
  <2>16. intime <=> close
    BY <2>14 DEF intime, close
  <2>17. verdict = IF close THEN "authenticated" ELSE "skew"
    BY <2>15, <2>16
  <2> QED BY <2>17 DEF close
<1> QED BY <1>1, AlwaysRight, PTL

LEMMA NoSuchPath == "HTTP" # Blank
BY Zenon DEF Blank

LEMMA DocumentParts ==
  ASSUME NEW path, NEW got
  PROVE  LET doc == VerifiedDocument("GET", path, got)
             list == Get(got, "X-FOST-Headers").value
         IN /\ doc.path = path
            /\ doc.time = Get(got, "X-FOST-Timestamp").value[1].n
            /\ DOMAIN doc.values = DOMAIN list
            /\ \A i \in DOMAIN list : doc.values[i] = Text(Get(got, list[i].text))
BY DEF VerifiedDocument, Document

Accepted(top, hs, message, path, then, all) ==
  /\ top \in Nat /\ hs \in Seq(Clean(top)) /\ OnWire(message, hs)
  /\ Verdict("GET", path, Arrived(message.lines), then, all) = "authenticated"

LEMMA AcceptedMeans ==
  ASSUME NEW top, NEW hs, NEW message, NEW path, NEW then, NEW all,
         Accepted(top, hs, message, path, then, all)
  PROVE  LET got == Arrived(message.lines) IN
           /\ InTime(Get(got, "X-FOST-Timestamp").value[1].n, then)
           /\ SignedBy(all, top, VerifiedDocument("GET", path, got))
<1>1. top \in Nat /\ hs \in Seq(Clean(top)) /\ OnWire(message, hs)
  BY DEF Accepted
<1>2. Verdict("GET", path, Arrived(message.lines), then, all) = "authenticated"
  BY DEF Accepted
<1>3. InTime(Get(Arrived(message.lines), "X-FOST-Timestamp").value[1].n, then)
  BY <1>1, <1>2, AuthenticatedMeans
<1>4. SignedBy(all, top, VerifiedDocument("GET", path, Arrived(message.lines)))
  BY <1>1, <1>2, AuthenticatedMeans
<1> QED BY <1>3, <1>4

\* What is authenticated was meant for the path of the call, with every listed
\* header as its caller had it and none rewritten on the way, and it was signed
\* with the secret of its key, before the call was made and within the window of
\* the server's clock.
THEOREM VerifiedCallsSigned == Spec => []VerifiedWasSigned
<1>1. IInv => VerifiedWasSigned
  <2> SUFFICES ASSUME IInv, verdict = "authenticated" PROVE VerifiedWasSigned
    BY DEF VerifiedWasSigned
  <2> DEFINE message == wire[1]
             lines == message.lines
             got == Arrived(lines)
             path == received[1].path
             then == now + skew
             top == Len(signed)
             list == Get(got, "X-FOST-Headers").value
             time == Get(got, "X-FOST-Timestamp").value[1].n
             doc == VerifiedDocument("GET", path, got)
  <2>1. phase = "verified" /\ WireInv /\ ReceivedInv /\ SignedInv
    BY DEF IInv, ReceivedInv
  <2>2. /\ OnWire(message, headers)
        /\ message = Message(address.path, AsString(address.query), lines, message.rewritten)
        /\ received[1] = ReceivedOf(message)
        /\ received[1].headers = got
        /\ headers \in Seq(Clean(top)) /\ top \in Nat
    BY <2>1, WhenReceived
  <2>3. then \in Int /\ sent \in Nat /\ now \in Nat /\ skew \in Int
    BY Clocks
  <2>4. Verdict("GET", path, got, then, signed) = "authenticated"
    BY <2>1, <2>2 DEF ReceivedInv
  <2>5. /\ DOMAIN signed = 1..top
        /\ \A i \in 1..top : GoodSignature(signed[i], sent)
    BY <2>1, LenProperties DEF SignedInv, IsList
  <2>6. /\ doc.path = path /\ doc.time = time /\ DOMAIN doc.values = DOMAIN list
        /\ \A i \in DOMAIN list : doc.values[i] = Text(Get(got, list[i].text))
    BY DocumentParts
  <2>7. /\ path = ParsePath(address.path, message.query)[1]
        /\ ParsePath(address.path, message.query) # <<>>
    <3>1. message.path = address.path
      BY <2>2 DEF Message
    <3> QED BY <2>1, <2>2, <3>1 DEF ReceivedOf, ReceivedInv
  <2> HIDE DEF message, path, then, top
  <2>8. /\ InTime(time, then)
        /\ SignedBy(signed, top, doc)
    <3>1. top \in Nat /\ headers \in Seq(Clean(top)) /\ OnWire(message, headers)
      BY <2>2
    <3>2. Verdict("GET", path, Arrived(message.lines), then, signed) = "authenticated"
      BY <2>4
    <3>3. Accepted(top, headers, message, path, then, signed)
      BY <3>1, <3>2 DEF Accepted
    <3> QED BY <3>3, AcceptedMeans
  <2>9. PICK digest \in 1..top :
          \E key \in DOMAIN Secret : signed[digest] = Signature(Secret[key], doc)
    BY <2>8 DEF SignedBy
  <2>10. PICK key \in DOMAIN Secret : signed[digest] = Signature(Secret[key], doc)
    BY <2>9
  <2> DEFINE s == signed[digest]
  <2> HIDE DEF doc, list, time
  <2>11. s.document = doc /\ s.secret = Secret[key]
    BY <2>10 DEF Signature
  <2>12. GoodSignature(s, sent)
    BY <2>5
  <2>13. s \in Range(signed) /\ s.secret \in Range(Secret)
    BY <2>5, <2>11 DEF Range
  <2> HIDE DEF s
  <2>14. doc.path[1] = Blank /\ time \in Nat /\ time <= sent
         /\ \A i \in DOMAIN doc.values : doc.values[i] # Via
    BY <2>6, <2>11, <2>12 DEF GoodSignature
  <2>15. path = address.path
    <3>1. CASE address.path # NoPath
      BY <2>7, <3>1 DEF ParsePath
    <3>2. CASE address.path = NoPath
      <4>1. path = <<"HTTP", "1.0">>
        BY <2>7, <3>2 DEF ParsePath
      <4>2. path[1] = "HTTP"
        BY <4>1
      <4> QED BY <2>6, <2>14, <4>2, NoSuchPath
    <3> QED BY <3>1, <3>2
  <2>16. ASSUME NEW name \in (Names \cap {list[i].text : i \in DOMAIN list}) \ Underscored
         PROVE  Text(Get(got, name)) = Text(Get(headers, name))
    <3>1. PICK i \in DOMAIN list : name = list[i].text
      BY <2>16
    <3>2. Text(Get(got, name)) # Via
      BY <2>6, <2>14, <3>1
    <3>3. name \in Names \ Underscored
      BY <2>16
    <3>4. Text(Get(got, name)) \in {Text(Get(headers, name)), Via}
      BY <2>2, <3>3, FirstDelivered
    <3> QED BY <3>2, <3>4
  <2>17. then - time \in -Window..Window
    BY <2>3, <2>8, <2>14, AuthenticationAssumption DEF InTime
  <2>18. now + skew - time \in -Window..Window
    <3>1. now + skew - time = then - time
      BY <2>3, <2>14 DEF then
    <3> QED BY <2>17, <3>1
  <2>19. s.document.path = address.path /\ s.document.time = time
    BY <2>6, <2>11, <2>15
  <2> HIDE DEF got
  <2> QED BY <2>2, <2>13, <2>14, <2>15, <2>16, <2>18, <2>19 DEF VerifiedWasSigned, list, path
<1> QED BY <1>1, AlwaysRight, PTL

-----------------------------------------------------------------------------
(***************************************************************************)
(* Dot segments: the fold over the segments that RFC 3986 describes, and   *)
(* the loop of normalise_path.                                             *)
(***************************************************************************)
LEMMA FrontOfAppend ==
  ASSUME NEW X, NEW s \in Seq(X), NEW e \in X
  PROVE  Front(Append(s, e)) = s /\ Last(Append(s, e)) = e
<1> DEFINE t == Append(s, e)
<1>1. Len(s) \in Nat
  BY LenProperties
<1>2. /\ t \in Seq(X) /\ t # <<>> /\ Len(t) = Len(s) + 1
      /\ (\A i \in 1..Len(s) : t[i] = s[i]) /\ t[Len(s) + 1] = e
  BY AppendProperties
<1> HIDE DEF t
<1>3. /\ Front(t) \in Seq(X) /\ Len(Front(t)) = Len(t) - 1
      /\ \A i \in 1..(Len(t) - 1) : Front(t)[i] = t[i]
      /\ Last(t) = t[Len(t)]
  BY <1>2, FrontType
<1>4. Len(Front(t)) = Len(s) /\ \A i \in 1..Len(Front(t)) : Front(t)[i] = s[i]
  BY <1>1, <1>2, <1>3
<1>5. Front(t) = s
  BY <1>3, <1>4, SeqEqual
<1> QED BY <1>2, <1>3, <1>5 DEF t

LEMMA FrontAndLast ==
  ASSUME NEW X, NEW s \in Seq(X), s # <<>>
  PROVE  Front(s) \in Seq(X) /\ Last(s) \in X /\ s = Append(Front(s), Last(s))
<1>1. PICK u \in Seq(X), e \in X : s = Append(u, e)
  BY SequenceEmptyOrAppend
<1> QED BY <1>1, FrontOfAppend

LEMMA FrontOfConcat ==
  ASSUME NEW X, NEW a \in Seq(X), NEW b \in Seq(X), b # <<>>
  PROVE  Front(a \o b) = a \o Front(b) /\ Last(a \o b) = Last(b)
<1>1. PICK u \in Seq(X), e \in X : b = Append(u, e)
  BY SequenceEmptyOrAppend
<1>2. Front(b) = u /\ Last(b) = e
  BY <1>1, FrontOfAppend
<1>3. a \o b = Append(a \o u, e)
  BY <1>1, ConcatAppend
<1>4. a \o u \in Seq(X)
  BY ConcatProperties
<1>5. Front(a \o b) = a \o u /\ Last(a \o b) = e
  <2> DEFINE v == a \o u
  <2>1. v \in Seq(X) /\ a \o b = Append(v, e)
    BY <1>3, <1>4
  <2> HIDE DEF v
  <2>2. Front(Append(v, e)) = v /\ Last(Append(v, e)) = e
    BY <2>1, FrontOfAppend
  <2> QED BY <2>1, <2>2 DEF v
<1> QED BY <1>2, <1>5

LEMMA TailOfConcat ==
  ASSUME NEW X, NEW x \in X, NEW y \in Seq(X)
  PROVE  /\ <<x>> \o y \in Seq(X) /\ <<x>> \o y # <<>> /\ Len(<<x>> \o y) = 1 + Len(y)
         /\ (<<x>> \o y)[1] = x /\ Tail(<<x>> \o y) = y
<1> DEFINE h == <<x>>
           s == h \o y
<1>1. h \in Seq(X) /\ Len(h) = 1 /\ h[1] = x
  OBVIOUS
<1>2. Len(y) \in Nat
  BY LenProperties
<1> HIDE DEF h
<1>3. /\ s \in Seq(X) /\ Len(s) = Len(h) + Len(y)
      /\ \A i \in 1..(Len(h) + Len(y)) : s[i] = IF i <= Len(h) THEN h[i] ELSE y[i - Len(h)]
  BY <1>1, ConcatProperties
<1> HIDE DEF s
<1>4. s # <<>> /\ s[1] = x
  <2>1. Len(<<>>) = 0 /\ 1 \in 1..(Len(h) + Len(y))
    BY <1>1, <1>2, EmptySeq
  <2> QED BY <1>1, <1>2, <1>3, <2>1
<1>5. /\ Tail(s) \in Seq(X) /\ Len(Tail(s)) = Len(s) - 1
      /\ \A i \in 1..Len(Tail(s)) : Tail(s)[i] = s[i + 1]
  BY <1>3, <1>4, HeadTailProperties
<1>6. Len(Tail(s)) = Len(y)
  BY <1>1, <1>2, <1>3, <1>5
<1>7. ASSUME NEW i \in 1..Len(Tail(s)) PROVE Tail(s)[i] = y[i]
  <2>1. i + 1 \in 1..(Len(h) + Len(y)) /\ ~(i + 1 <= Len(h)) /\ i + 1 - Len(h) = i
    BY <1>1, <1>2, <1>6
  <2> QED BY <1>3, <1>5, <2>1
<1>8. Tail(s) = y
  BY <1>5, <1>6, <1>7, SeqEqual
<1> QED BY <1>1, <1>3, <1>4, <1>8 DEF s, h

LEMMA HeadAndTail ==
  ASSUME NEW X, NEW s \in Seq(X), s # <<>>
  PROVE  s[1] \in X /\ Tail(s) \in Seq(X) /\ s = <<s[1]>> \o Tail(s)
<1>1. Len(s) \in Nat \ {0}
  BY EmptySeq
<1>2. s[1] \in X
  <2>1. 1 \in 1..Len(s)
    BY <1>1
  <2> QED BY <2>1, ElementOfSeq
<1>3. /\ Tail(s) \in Seq(X) /\ Len(Tail(s)) = Len(s) - 1
      /\ \A i \in 1..Len(Tail(s)) : Tail(s)[i] = s[i + 1]
  BY HeadTailProperties
<1> DEFINE h == <<s[1]>>
           t == Tail(s)
<1>4. h \in Seq(X) /\ Len(h) = 1 /\ h[1] = s[1]
  BY <1>2
<1>5. t \in Seq(X) /\ Len(t) = Len(s) - 1 /\ \A i \in 1..Len(t) : t[i] = s[i + 1]
  BY <1>3
<1> HIDE DEF h, t
<1>6. /\ h \o t \in Seq(X) /\ Len(h \o t) = Len(h) + Len(t)
      /\ \A i \in 1..(Len(h) + Len(t)) : (h \o t)[i] = IF i <= Len(h) THEN h[i] ELSE t[i - Len(h)]
  <2>1. h \in Seq(X) /\ t \in Seq(X)
    BY <1>4, <1>5
  <2> QED BY <2>1, ConcatProperties
<1>7. ASSUME NEW i \in 1..Len(s) PROVE s[i] = (h \o t)[i]
  <2>1. CASE i = 1
    BY <1>1, <1>4, <1>5, <1>6, <2>1
  <2>2. CASE i # 1
    <3>1. i - 1 \in 1..Len(t) /\ ~(i <= Len(h)) /\ i - Len(h) = i - 1 /\ i - 1 + 1 = i
          /\ i \in 1..(Len(h) + Len(t))
      BY <1>1, <1>4, <1>5, <2>2
    <3> QED BY <1>5, <1>6, <3>1
  <2> QED BY <2>1, <2>2
<1>8. Len(h \o t) = Len(s)
  BY <1>1, <1>4, <1>5, <1>6
<1>9. s = h \o t
  BY <1>6, <1>7, <1>8, SeqEqual
<1> QED BY <1>2, <1>3, <1>9 DEF h, t

\* What a segment does to those that are left before it.
Stacks == Seq(STRING)
Stacked(stack, s) ==
  IF s = "." THEN stack
  ELSE IF s # ".." THEN Append(stack, s)
  ELSE IF stack = <<>> THEN stack ELSE Front(stack)

LEMMA StackedType ==
  /\ <<>> \in Stacks
  /\ \A stack \in Stacks, s \in STRING : Stacked(stack, s) \in Stacks
<1>1. <<>> \in Stacks
  BY EmptySeq DEF Stacks
<1>2. ASSUME NEW stack \in Stacks, NEW s \in STRING PROVE Stacked(stack, s) \in Stacks
  <2>1. Append(stack, s) \in Stacks
    BY AppendProperties DEF Stacks
  <2>2. stack # <<>> => Front(stack) \in Stacks
    BY FrontType DEF Stacks
  <2> QED BY <2>1, <2>2 DEF Stacked
<1> QED BY <1>1, <1>2

\* The stacks that the fold goes through.
StackSteps(path, F) ==
  /\ F[0] = <<>>
  /\ \A k \in 1..Len(path) : F[k] = Stacked(F[k - 1], path[k])
  /\ Remaining(path) = F[Len(path)]

LEMMA StackFold ==
  ASSUME NEW path \in Seq(STRING)
  PROVE  \E F \in [0..Len(path) -> Stacks] : StackSteps(path, F)
<1> DEFINE n == Len(path)
           X == Stacks
           op(q, f) == Stacked(q, f)
           step == [k \in 1..n |-> [x \in X |-> op(x, path[k])]]
           Body(g) == [s \in SUBSET DOMAIN path |->
                         IF s = {} THEN <<>> ELSE op(g[s \ {Max(s)}], path[Max(s)])]
           iter == CHOOSE g : g = Body(g)
<1>1. n \in Nat /\ DOMAIN path = 1..n /\ \A k \in 1..n : path[k] \in STRING
  BY LenProperties
<1>2. ASSUME NEW x \in X, NEW k \in 1..n PROVE op(x, path[k]) \in X
  BY <1>1, StackedType
<1>3. step \in [1..n -> [X -> X]]
  <2> HIDE DEF op, X
  <2> QED BY <1>2
<1>4. ASSUME NEW x \in X, NEW k \in 1..n PROVE step[k][x] = op(x, path[k])
  <2> HIDE DEF op
  <2> QED OBVIOUS
<1> HIDE DEF step, op, X
<1>5. PICK H : /\ H \in [SUBSET (1..n) -> X] /\ H[{}] = <<>>
               /\ \A s \in SUBSET (1..n) : s # {} => H[s] = step[Max(s)][H[s \ {Max(s)}]]
  <2>1. <<>> \in X
    BY StackedType DEF X
  <2>2. \E H : IsSetFold(H, n, X, <<>>, step)
    <3> HIDE DEF n
    <3> QED BY <1>1, <1>3, <2>1, SetFold
  <2> QED BY <2>2 DEF IsSetFold
<1>6. H = Body(H)
  <2>1. \A s \in SUBSET (1..n) : H[s] = IF s = {} THEN <<>> ELSE op(H[s \ {Max(s)}], path[Max(s)])
    <3> TAKE s \in SUBSET (1..n)
    <3>1. CASE s # {}
      <4>1. Max(s) \in 1..n
        BY <1>1, <3>1, MaxOf
      <4>2. H[s \ {Max(s)}] \in X
        BY <1>5
      <4>3. H[s] = step[Max(s)][H[s \ {Max(s)}]]
        BY <1>5, <3>1
      <4> QED BY <1>4, <3>1, <4>1, <4>2, <4>3
    <3> QED BY <1>5, <3>1
  <2> QED BY <1>1, <1>5, <2>1
<1>7. iter = Body(iter)
  <2> HIDE DEF Body
  <2> QED BY <1>6
<1>8. Remaining(path) = iter[DOMAIN path]
  BY DEF Remaining, FoldLeft, MapThenFoldSet, op, Stacked
<1> HIDE DEF iter
<1>9. iter[{}] = <<>> /\ \A k \in 1..n : iter[1..k] = op(iter[1..(k - 1)], path[k])
  <2>1. {} \in SUBSET DOMAIN path
    OBVIOUS
  <2>2. ASSUME NEW k \in 1..n PROVE iter[1..k] = op(iter[1..(k - 1)], path[k])
    <3>1. /\ 1..k \in SUBSET DOMAIN path /\ 1..k # {}
          /\ Max(1..k) = k /\ (1..k) \ {k} = 1..(k - 1)
      BY <1>1, MaxUpto
    <3> DEFINE s == 1..k
    <3>2. iter[s] = op(iter[s \ {Max(s)}], path[Max(s)])
      <4>1. s \in SUBSET DOMAIN path /\ s # {}
        BY <3>1
      <4> HIDE DEF s
      <4> QED BY <1>7, <4>1
    <3> QED BY <3>1, <3>2
  <2> QED BY <1>7, <2>1, <2>2
<1> DEFINE F == [k \in 0..n |-> iter[1..k]]
<1>10. F[0] = <<>> /\ \A k \in 1..n : F[k] = op(F[k - 1], path[k])
  <2>1. 1..0 = {} /\ 0 \in 0..n /\ \A k \in 1..n : k \in 0..n /\ k - 1 \in 0..n
    BY <1>1
  <2> QED BY <1>9, <2>1
<1>11. F[n] = Remaining(path)
  <2>1. n \in 0..n
    BY <1>1
  <2> QED BY <1>1, <1>8, <2>1
<1>12. F \in [0..n -> X]
  <2> DEFINE Good == {k \in 0..n : F[k] \in X}
  <2>1. 0 \in Good
    <3>1. <<>> \in X /\ 0 \in 0..n
      BY <1>1, StackedType DEF X
    <3> HIDE DEF F
    <3> QED BY <1>10, <3>1
  <2>2. ASSUME NEW k \in 1..n, k - 1 \in Good PROVE k \in Good
    <3>1. F[k - 1] \in X /\ k \in 0..n
      BY <2>2
    <3>2. F[k] = op(F[k - 1], path[k])
      BY <1>10
    <3> HIDE DEF F
    <3> QED BY <1>2, <3>1, <3>2
  <2> HIDE DEF Good, n
  <2>3. 0..n \subseteq Good
    BY <1>1, <2>1, <2>2, Upwards
  <2> QED BY <2>3 DEF Good
<1> HIDE DEF F
<1>13. StackSteps(path, F)
  BY <1>10, <1>11 DEF StackSteps, op
<1> QED BY <1>12, <1>13 DEF X

LEMMA RemainingAppend ==
  ASSUME NEW path \in Seq(STRING), NEW f \in STRING
  PROVE  /\ Remaining(path) \in Stacks
         /\ Remaining(Append(path, f)) = Stacked(Remaining(path), f)
<1> DEFINE n == Len(path)
           t == Append(path, f)
<1>1. n \in Nat
  BY LenProperties
<1>2. /\ t \in Seq(STRING) /\ Len(t) = n + 1
      /\ (\A i \in 1..n : t[i] = path[i]) /\ t[n + 1] = f
  BY AppendParts
<1> HIDE DEF t
<1>3. PICK F \in [0..n -> Stacks] : StackSteps(path, F)
  BY StackFold
<1>4. PICK G \in [0..(n + 1) -> Stacks] : StackSteps(t, G)
  BY <1>2, StackFold
<1> DEFINE Good == {k \in 0..n : F[k] = G[k]}
<1>5. 0 \in Good
  BY <1>1, <1>3, <1>4 DEF StackSteps
<1>6. ASSUME NEW k \in 1..n, k - 1 \in Good PROVE k \in Good
  <2>1. k \in 0..n /\ k \in 1..(n + 1) /\ t[k] = path[k]
    BY <1>1, <1>2
  <2>2. F[k] = Stacked(F[k - 1], path[k])
    BY <1>3 DEF StackSteps
  <2>3. G[k] = Stacked(G[k - 1], t[k])
    BY <1>2, <1>4, <2>1 DEF StackSteps
  <2>4. F[k - 1] = G[k - 1]
    BY <1>6
  <2>5. F[k] = G[k]
    BY <2>1, <2>2, <2>3, <2>4
  <2> QED BY <2>1, <2>5
<1> HIDE DEF Good
<1>7. 0..n \subseteq Good
  BY <1>1, <1>5, <1>6, Upwards
<1>8. F[n] = G[n]
  BY <1>1, <1>7 DEF Good
<1>9. n + 1 \in 1..(n + 1) /\ n + 1 - 1 = n /\ n \in 0..n
  BY <1>1
<1>10. G[n + 1] = Stacked(G[n], t[n + 1])
  <2>1. G[n + 1] = Stacked(G[n + 1 - 1], t[n + 1])
    BY <1>2, <1>4, <1>9 DEF StackSteps
  <2> QED BY <1>9, <2>1
<1>11. Remaining(path) = F[n] /\ Remaining(t) = G[n + 1]
  BY <1>2, <1>3, <1>4 DEF StackSteps
<1>12. F[n] \in Stacks
  BY <1>3, <1>9
<1> QED BY <1>2, <1>8, <1>10, <1>11, <1>12 DEF t

LEMMA RemainingEmpty == Remaining(<<>>) = <<>>
<1>1. <<>> \in Seq(STRING) /\ Len(<<>>) = 0
  BY EmptySeq
<1>2. PICK F : StackSteps(<<>>, F)
  BY <1>1, StackFold
<1> QED BY <1>1, <1>2 DEF StackSteps

\* No segment that is left is a dot segment, or another than there were.
LEMMA RemainingNames ==
  ASSUME NEW T, T \subseteq STRING, NEW path \in Seq(T)
  PROVE  Remaining(path) \in Seq(T \ Dots)
<1> DEFINE U == T \ Dots
           Good == {u \in Seq(T) : Remaining(u) \in Seq(U)}
<1>1. <<>> \in Good
  <2> HIDE DEF U
  <2> QED BY RemainingEmpty, EmptySeq
<1>2. ASSUME NEW u \in Seq(T), NEW e \in T, u \in Good PROVE Append(u, e) \in Good
  <2>1. Append(u, e) \in Seq(T)
    BY AppendProperties
  <2>2. u \in Seq(STRING) /\ e \in STRING
    BY SeqMonotonic
  <2> DEFINE R == Remaining(u)
  <2>3. Remaining(Append(u, e)) = Stacked(R, e)
    BY <2>2, RemainingAppend
  <2>4. R \in Seq(U)
    BY <1>2
  <2>5. e # "." /\ e # ".." => e \in U
    BY DEF Dots
  <2> HIDE DEF R, U
  <2>6. e \in U => Append(R, e) \in Seq(U)
    BY <2>4, AppendProperties
  <2>7. R # <<>> => Front(R) \in Seq(U)
    BY <2>4, FrontType
  <2>8. Stacked(R, e) \in Seq(U)
    BY <2>4, <2>5, <2>6, <2>7 DEF Stacked
  <2> QED BY <2>1, <2>3, <2>8
<1> HIDE DEF Good
<1>3. Seq(T) \subseteq Good
  BY <1>1, <1>2, Longer
<1> QED BY <1>3 DEF Good

\* The loop passes over what is no dot segment.
LEMMA PassesOver ==
  ASSUME NEW list \in Seq(STRING), NEW from \in Nat \ {0}, NEW n \in Nat,
         from + n <= Len(list) + 1, \A i \in from..(from + n - 1) : list[i] \notin Dots
  PROVE  RemoveDots[<<list, from>>] = RemoveDots[<<list, from + n>>]
<1> DEFINE Good == {k \in 0..n : RemoveDots[<<list, from>>] = RemoveDots[<<list, from + k>>]}
<1>1. 0 \in Good
  OBVIOUS
<1>2. ASSUME NEW k \in 1..n, k - 1 \in Good PROVE k \in Good
  <2> DEFINE at == from + (k - 1)
  <2>1. /\ at \in Nat \ {0} /\ at <= Len(list) /\ at \in from..(from + n - 1)
        /\ at + 1 = from + k /\ k \in 0..n
    BY LenProperties
  <2>2. RemoveDots[<<list, from>>] = RemoveDots[<<list, at>>]
    BY <1>2
  <2> HIDE DEF at
  <2>3. RemoveDots[<<list, at>>] = RemoveDots[Onward(list, at)]
    BY <2>1, RemoveDotsSteps
  <2>4. Onward(list, at) = <<list, at + 1>>
    <3>1. list[at] \notin Dots
      BY <2>1
    <3>2. list[at] # "." /\ list[at] # ".."
      BY <3>1 DEF Dots
    <3> QED BY <3>2 DEF Onward
  <2> QED BY <2>1, <2>2, <2>3, <2>4
<1> HIDE DEF Good
<1>3. 0..n \subseteq Good
  BY <1>1, <1>2, Upwards
<1>4. n \in Good
  BY <1>3
<1> QED BY <1>4 DEF Good

\* Erasing what is between two parts of a list.
LEMMA EraseMiddle ==
  ASSUME NEW a \in Seq(STRING), NEW m \in Seq(STRING), NEW b \in Seq(STRING), m # <<>>
  PROVE  Erase(a \o m \o b, Len(a) + 1, Len(a) + Len(m)) = a \o b
<1> DEFINE list == a \o m \o b
           am == a \o m
           X == STRING
<1>1. /\ a \in Seq(X) /\ m \in Seq(X) /\ b \in Seq(X)
      /\ Len(a) \in Nat /\ Len(m) \in Nat \ {0} /\ Len(b) \in Nat
  BY LenProperties, EmptySeq
<1> HIDE DEF X
<1>2. /\ am \in Seq(X) /\ Len(am) = Len(a) + Len(m)
      /\ \A i \in 1..(Len(a) + Len(m)) : am[i] = IF i <= Len(a) THEN a[i] ELSE m[i - Len(a)]
  BY <1>1, ConcatProperties
<1> HIDE DEF am
<1>3. /\ am \o b \in Seq(X) /\ Len(am \o b) = Len(am) + Len(b)
      /\ \A i \in 1..(Len(am) + Len(b)) : (am \o b)[i] = IF i <= Len(am) THEN am[i] ELSE b[i - Len(am)]
  BY <1>1, <1>2, ConcatProperties
<1> DEFINE l == am \o b
           n == Len(a)
           k == Len(am)
           e == Len(l)
<1>4. /\ l \in Seq(X) /\ e = k + Len(b) /\ k = n + Len(m) /\ n \in Nat /\ k \in Nat /\ e \in Nat
      /\ n <= k /\ k <= e
  BY <1>1, <1>2, <1>3
<1>5. \A i \in 1..n : l[i] = a[i]
  <2>1. ASSUME NEW i \in 1..n PROVE l[i] = a[i]
    <3>1. i \in 1..(Len(a) + Len(m)) /\ i <= Len(a) /\ i \in 1..(Len(am) + Len(b)) /\ i <= Len(am)
      BY <1>1, <1>2
    <3> QED BY <1>2, <1>3, <3>1
  <2> QED BY <2>1
<1>6. \A i \in 1..Len(b) : l[k + i] = b[i]
  <2>1. ASSUME NEW i \in 1..Len(b) PROVE l[k + i] = b[i]
    <3>1. k + i \in 1..(Len(am) + Len(b)) /\ ~(k + i <= Len(am)) /\ k + i - Len(am) = i
      BY <1>1, <1>2
    <3> QED BY <1>3, <3>1
  <2> QED BY <2>1
<1> HIDE DEF l, n, k, e
<1>7. SubSeq(l, 1, n) = a
  <2> DEFINE s == SubSeq(l, 1, n)
  <2>1. \A i \in 1..n : l[i] \in X
    BY <1>1, <1>5, ElementOfSeq DEF n
  <2>2. s \in Seq(X) /\ Len(s) = (IF 1 <= n THEN n - 1 + 1 ELSE 0)
        /\ \A i \in 1..(n - 1 + 1) : s[i] = l[1 + i - 1]
    BY <1>4, <2>1, SubSeqProperties
  <2> HIDE DEF s
  <2>3. Len(s) = n
    BY <1>4, <2>2
  <2>4. \A i \in 1..Len(s) : s[i] = a[i]
    <3>1. ASSUME NEW i \in 1..Len(s) PROVE s[i] = a[i]
      <4>1. i \in 1..(n - 1 + 1) /\ 1 + i - 1 = i /\ i \in 1..n
        BY <1>4, <2>3
      <4> QED BY <1>5, <2>2, <4>1
    <3> QED BY <3>1
  <2>5. Len(s) = Len(a)
    BY <2>3 DEF n
  <2>6. s = a
    BY <1>1, <2>2, <2>4, <2>5, SeqEqual
  <2> QED BY <2>6 DEF s
<1>8. SubSeq(l, k + 1, e) = b
  <2> DEFINE s == SubSeq(l, k + 1, e)
  <2>0. Len(b) \in Nat /\ e - (k + 1) + 1 = Len(b)
    BY <1>1, <1>4
  <2>1. \A i \in (k + 1)..e : l[i] \in X
    <3>1. ASSUME NEW i \in (k + 1)..e PROVE l[i] \in X
      <4>1. i \in 1..Len(l)
        BY <1>4 DEF e
      <4> QED BY <1>4, <4>1, ElementOfSeq
    <3> QED BY <3>1
  <2>2. /\ s \in Seq(X) /\ Len(s) = (IF k + 1 <= e THEN e - (k + 1) + 1 ELSE 0)
        /\ \A i \in 1..(e - (k + 1) + 1) : s[i] = l[(k + 1) + i - 1]
    <3> DEFINE f == k + 1
    <3>1. f \in Int /\ e \in Int /\ \A i \in f..e : l[i] \in X
      BY <1>4, <2>1
    <3> HIDE DEF f
    <3>2. /\ SubSeq(l, f, e) \in Seq(X) /\ Len(SubSeq(l, f, e)) = (IF f <= e THEN e - f + 1 ELSE 0)
          /\ \A i \in 1..(e - f + 1) : SubSeq(l, f, e)[i] = l[f + i - 1]
      BY <3>1, SubSeqProperties
    <3> QED BY <3>2 DEF f
  <2> HIDE DEF s
  <2>3. Len(s) = Len(b)
    BY <1>4, <2>0, <2>2
  <2>4. \A i \in 1..Len(s) : s[i] = b[i]
    <3>1. ASSUME NEW i \in 1..Len(s) PROVE s[i] = b[i]
      <4>1. i \in 1..(e - (k + 1) + 1) /\ (k + 1) + i - 1 = k + i /\ i \in 1..Len(b)
        BY <1>4, <2>0, <2>3
      <4> QED BY <1>6, <2>2, <4>1
    <3> QED BY <3>1
  <2>5. s = b
    BY <1>1, <2>2, <2>3, <2>4, SeqEqual
  <2> QED BY <2>5 DEF s
<1>9. (n + 1) - 1 = n
  BY <1>4
<1>10. Erase(l, n + 1, k) = a \o b
  <2>1. Erase(l, n + 1, k) = SubSeq(l, 1, (n + 1) - 1) \o SubSeq(l, k + 1, e)
    BY DEF Erase, e
  <2>2. SubSeq(l, 1, (n + 1) - 1) = a
    BY <1>7, <1>9, Zenon
  <2> QED BY <1>8, <2>1, <2>2, Zenon
<1> QED BY <1>4, <1>10 DEF l, am, n, k

\* Every dot segment is met below the root.
Descends(segments) ==
  \A i \in DOMAIN segments : segments[i] \in Dots => Remaining(SubSeq(segments, 1, i - 1)) # <<>>

LEMMA DescendsAt ==
  ASSUME NEW u \in Seq(STRING), NEW e \in STRING, NEW v \in Seq(STRING),
         Descends(u \o (<<e>> \o v)), e \in Dots
  PROVE  Remaining(u) # <<>>
<1> DEFINE X == STRING
           w == <<e>> \o v
           L == u \o w
           k == Len(u) + 1
<1>1. u \in Seq(X) /\ e \in X /\ v \in Seq(X)
  OBVIOUS
<1> HIDE DEF X
<1>2. w \in Seq(X) /\ Len(w) = 1 + Len(v) /\ w[1] = e
  BY <1>1, TailOfConcat
<1>3. Len(u) \in Nat /\ Len(v) \in Nat
  BY <1>1, LenProperties
<1> HIDE DEF w
<1>4. /\ L \in Seq(X) /\ Len(L) = Len(u) + Len(w)
      /\ \A i \in 1..(Len(u) + Len(w)) : L[i] = IF i <= Len(u) THEN u[i] ELSE w[i - Len(u)]
  <2>1. w \in Seq(STRING)
    BY <1>2 DEF X
  <2> HIDE DEF X
  <2>2. /\ L \in Seq(STRING) /\ Len(L) = Len(u) + Len(w)
        /\ \A i \in 1..(Len(u) + Len(w)) : L[i] = IF i <= Len(u) THEN u[i] ELSE w[i - Len(u)]
    BY <2>1, ConcatParts
  <2> QED BY <2>2 DEF X
<1>5. k \in 1..(Len(u) + Len(w)) /\ ~(k <= Len(u)) /\ k - Len(u) = 1 /\ k - 1 = Len(u)
  BY <1>2, <1>3
<1>6. L[k] = e
  BY <1>2, <1>4, <1>5
<1>7. k \in DOMAIN L
  BY <1>4, <1>5, LenProperties
<1>8. SubSeq(L, 1, Len(u)) = u
  <2> DEFINE n == Len(u)
             s == SubSeq(L, 1, n)
  <2>1. \A i \in 1..n : L[i] = u[i] /\ L[i] \in X
    <3>1. ASSUME NEW i \in 1..n PROVE L[i] = u[i] /\ L[i] \in X
      <4>1. i \in 1..(Len(u) + Len(w)) /\ i <= Len(u)
        BY <1>2, <1>3
      <4> QED BY <1>1, <1>4, <4>1, ElementOfSeq
    <3> QED BY <3>1
  <2> HIDE DEF L, n
  <2>2. n \in Int /\ 1 \in Int
    BY <1>3 DEF n
  <2>3. s \in Seq(X) /\ Len(s) = (IF 1 <= n THEN n - 1 + 1 ELSE 0)
        /\ \A i \in 1..(n - 1 + 1) : s[i] = L[1 + i - 1]
    BY <2>1, <2>2, SubSeqProperties
  <2> HIDE DEF s
  <2>4. Len(s) = n /\ n \in Nat
    BY <1>3, <2>3 DEF n
  <2>5. \A i \in 1..Len(s) : s[i] = u[i]
    <3>1. ASSUME NEW i \in 1..Len(s) PROVE s[i] = u[i]
      <4>1. i \in 1..(n - 1 + 1) /\ 1 + i - 1 = i /\ i \in 1..n
        BY <2>4
      <4> QED BY <2>1, <2>3, <4>1
    <3> QED BY <3>1
  <2>6. Len(s) = Len(u)
    BY <2>4 DEF n
  <2>7. s = u
    BY <1>1, <2>3, <2>5, <2>6, SeqEqual
  <2> QED BY <2>7 DEF s, n
<1>9. Descends(L)
  BY DEF w
<1> HIDE DEF L
<1>10. Remaining(SubSeq(L, 1, k - 1)) # <<>>
  BY <1>6, <1>7, <1>9 DEF Descends
<1> QED BY <1>5, <1>8, <1>10

LEMMA Single ==
  ASSUME NEW X, NEW e \in X
  PROVE  <<e>> \in Seq(X) /\ Len(<<e>>) = 1 /\ <<e>>[1] = e /\ <<e>> # <<>>
OBVIOUS

LEMMA Pair ==
  ASSUME NEW X, NEW x \in X, NEW y \in X
  PROVE  <<x, y>> \in Seq(X) /\ Len(<<x, y>>) = 2 /\ <<x, y>> # <<>> /\ <<x, y>> = <<x>> \o <<y>>
<1> DEFINE a == <<x>>
           b == <<y>>
           p == <<x, y>>
<1>1. a \in Seq(X) /\ Len(a) = 1 /\ a[1] = x /\ b \in Seq(X) /\ Len(b) = 1 /\ b[1] = y
  BY Single
<1>2. p \in Seq(X) /\ Len(p) = 2 /\ p # <<>> /\ p[1] = x /\ p[2] = y
  OBVIOUS
<1> HIDE DEF a, b, p
<1>3. /\ a \o b \in Seq(X) /\ Len(a \o b) = Len(a) + Len(b)
      /\ \A i \in 1..(Len(a) + Len(b)) : (a \o b)[i] = IF i <= Len(a) THEN a[i] ELSE b[i - Len(a)]
  BY <1>1, ConcatProperties
<1>4. \A i \in 1..Len(p) : p[i] = (a \o b)[i]
  BY <1>1, <1>2, <1>3
<1>5. p = a \o b
  BY <1>1, <1>2, <1>3, <1>4, SeqEqual
<1> QED BY <1>2, <1>5 DEF a, b, p

LEMMA AppendOne ==
  ASSUME NEW X, NEW s \in Seq(X), NEW e \in X
  PROVE  <<e>> \in Seq(X) /\ Append(s, e) = s \o <<e>> /\ Len(Append(s, e)) = Len(s) + 1
BY Single, AppendIsConcat, AppendProperties

\* After an erasure the loop goes on from the second element, whatever is first.
LEMMA GoesOn ==
  ASSUME NEW a \in Seq(STRING \ Dots), NEW v \in Seq(STRING),
         a = <<>> /\ v # <<>> => v[1] \notin Dots
  PROVE  RemoveDots[<<a \o v, 2>>] = RemoveDots[<<a \o v, Len(a) + 1>>]
<1> DEFINE list == a \o v
<1>1. a \in Seq(STRING) /\ \A i \in 1..Len(a) : a[i] \notin Dots
  <2> DEFINE U == STRING \ Dots
  <2>1. a \in Seq(U) /\ U \subseteq STRING /\ \A x \in U : x \notin Dots
    OBVIOUS
  <2> HIDE DEF U
  <2> QED BY <2>1, SeqMonotonic, ElementOfSeq
<1>2. /\ list \in Seq(STRING) /\ Len(list) = Len(a) + Len(v)
      /\ \A i \in 1..(Len(a) + Len(v)) : list[i] = IF i <= Len(a) THEN a[i] ELSE v[i - Len(a)]
  BY <1>1, ConcatProperties
<1>3. Len(a) \in Nat /\ Len(v) \in Nat
  BY <1>1, LenProperties
<1>4. \A i \in 1..Len(a) : list[i] \notin Dots
  <2>1. \A i \in 1..Len(a) : i \in 1..(Len(a) + Len(v)) /\ i <= Len(a)
    BY <1>3
  <2> QED BY <1>1, <1>2, <2>1
<1>5. CASE a # <<>>
  <2> DEFINE n == Len(a) - 1
  <2>1. Len(a) # 0
    BY <1>1, <1>5, EmptySeq
  <2>2. n \in Nat /\ 2 + n = Len(a) + 1 /\ 2 + n <= Len(list) + 1
    BY <1>2, <1>3, <2>1
  <2>3. \A i \in 2..(2 + n - 1) : list[i] \notin Dots
    <3>1. \A i \in 2..(2 + n - 1) : i \in 1..Len(a)
      BY <1>3
    <3> QED BY <1>4, <3>1
  <2> HIDE DEF n, list
  <2>4. RemoveDots[<<list, 2>>] = RemoveDots[<<list, 2 + n>>]
    BY <1>2, <2>2, <2>3, PassesOver
  <2> QED BY <2>2, <2>4 DEF list
<1>6. CASE a = <<>> /\ v = <<>>
  <2>1. Len(a) = 0 /\ Len(list) = 0
    BY <1>2, <1>6, EmptySeq
  <2>2. 1 \in Nat \ {0} /\ 2 \in Nat \ {0} /\ 1 > Len(list) /\ 2 > Len(list) /\ Len(a) + 1 = 1
    BY <2>1
  <2> HIDE DEF list
  <2>3. RemoveDots[<<list, 1>>] = list /\ RemoveDots[<<list, 2>>] = list
    BY <1>2, <2>2, RemoveDotsSteps
  <2> QED BY <2>2, <2>3 DEF list
<1>7. CASE a = <<>> /\ v # <<>>
  <2>1. Len(a) = 0 /\ Len(v) # 0
    BY <1>7, EmptySeq
  <2>2. list[1] = v[1] /\ 1 <= Len(list)
    <3>1. 1 \in 1..(Len(a) + Len(v)) /\ ~(1 <= Len(a)) /\ 1 - Len(a) = 1
      BY <1>3, <2>1
    <3> QED BY <1>2, <3>1
  <2>3. v[1] \notin Dots
    BY <1>7
  <2> HIDE DEF list
  <2>4. 1 \in Nat \ {0} /\ 1 \in Nat /\ 1 + 1 <= Len(list) + 1
        /\ \A i \in 1..(1 + 1 - 1) : list[i] \notin Dots
    BY <1>2, <1>3, <2>2, <2>3
  <2>5. RemoveDots[<<list, 1>>] = RemoveDots[<<list, 1 + 1>>]
    BY <1>2, <2>4, PassesOver
  <2>6. Len(a) + 1 = 1 /\ 1 + 1 = 2
    BY <2>1
  <2> QED BY <2>5, <2>6 DEF list
<1> QED BY <1>5, <1>6, <1>7

\* One turn of the loop is one step of the fold.
LEMMA Turn ==
  ASSUME NEW u \in Seq(STRING), NEW e \in STRING, NEW v \in Seq(STRING),
         Descends(u \o (<<e>> \o v))
  PROVE  LET R == Remaining(u)
             S == Stacked(R, e)
         IN RemoveDots[<<R \o (<<e>> \o v), Len(R) + 1>>] = RemoveDots[<<S \o v, Len(S) + 1>>]
<1> DEFINE R == Remaining(u)
           h == <<e>>
           w == h \o v
           list == R \o w
           at == Len(R) + 1
           S == Stacked(R, e)
<1>1. R \in Seq(STRING \ Dots) /\ R \in Seq(STRING)
  BY RemainingNames, RemainingAppend DEF Stacks
<1>2. h \in Seq(STRING) /\ Len(h) = 1 /\ h[1] = e /\ h # <<>>
  BY Single
<1>3. w \in Seq(STRING) /\ Len(w) = 1 + Len(v) /\ w[1] = e
  BY TailOfConcat
<1>4. e \in Dots => R # <<>>
  BY DescendsAt
<1>5. e \in Dots /\ S = <<>> /\ v # <<>> => v[1] \notin Dots
  <2> SUFFICES ASSUME v # <<>>, v[1] \in Dots PROVE S # <<>>
    OBVIOUS
  <2> DEFINE x == v[1]
             y == Tail(v)
             t == Append(u, e)
  <2>1. x \in STRING /\ y \in Seq(STRING) /\ v = <<x>> \o y
    BY HeadAndTail
  <2>2. t \in Seq(STRING) /\ t = u \o h
    BY AppendProperties, AppendIsConcat
  <2>3. u \o (h \o v) = t \o v
    <3> HIDE DEF h, t
    <3>1. h \in Seq(STRING)
      BY <1>2
    <3>2. (u \o h) \o v = u \o (h \o v)
      BY <3>1, ConcatThrice
    <3> QED BY <2>2, <3>2
  <2>4. Descends(t \o (<<x>> \o y)) /\ x \in Dots
    BY <2>1, <2>3
  <2> HIDE DEF x, y, t
  <2>5. Remaining(t) # <<>>
    BY <2>1, <2>2, <2>4, DescendsAt
  <2>6. Remaining(t) = S
    BY RemainingAppend DEF t
  <2> QED BY <2>5, <2>6
<1>6. Len(R) \in Nat /\ Len(v) \in Nat
  BY <1>1, LenProperties
<1> HIDE DEF R, h, w, S
<1>7. /\ list \in Seq(STRING) /\ Len(list) = Len(R) + Len(w)
      /\ \A i \in 1..(Len(R) + Len(w)) : list[i] = IF i <= Len(R) THEN R[i] ELSE w[i - Len(R)]
  <2>1. R \in Seq(STRING) /\ w \in Seq(STRING)
    BY <1>1, <1>3
  <2> QED BY <2>1, ConcatParts
<1>8. list = R \o h \o v
  <2>1. R \in Seq(STRING) /\ h \in Seq(STRING)
    BY <1>1, <1>2
  <2>2. (R \o h) \o v = R \o (h \o v)
    BY <2>1, ConcatThrice
  <2> QED BY <2>2 DEF w
<1>9. list[at] = e /\ at \in Nat \ {0} /\ at <= Len(list)
  <2>1. /\ at \in 1..(Len(R) + Len(w)) /\ ~(at <= Len(R)) /\ at - Len(R) = 1
        /\ at \in Nat \ {0}
    BY <1>3, <1>6
  <2> HIDE DEF at, list
  <2>2. list[at] = w[at - Len(R)]
    BY <1>7, <2>1
  <2>3. list[at] = e
    BY <1>3, <2>1, <2>2, Zenon
  <2>4. at <= Len(list)
    BY <1>7, <2>1
  <2> QED BY <2>1, <2>3, <2>4
<1>10. RemoveDots[<<list, at>>] = RemoveDots[Onward(list, at)]
  <2> HIDE DEF list, at
  <2> QED BY <1>7, <1>9, RemoveDotsSteps
<1>11. CASE e \notin Dots
  <2>1. e # "." /\ e # ".."
    BY <1>11 DEF Dots
  <2>2. S = Append(R, e)
    BY <2>1 DEF S, Stacked
  <2>3. S = R \o h /\ Len(S) = at
    BY <1>1, <2>2, AppendIsConcat, AppendProperties DEF h
  <2>4. Onward(list, at) = <<list, at + 1>>
    BY <1>9, <2>1 DEF Onward
  <2>5. S \o v = list
    BY <1>8, <2>3
  <2> HIDE DEF at
  <2>6. RemoveDots[Onward(list, at)] = RemoveDots[<<S \o v, Len(S) + 1>>]
    BY <2>3, <2>4, <2>5
  <2> QED BY <1>10, <2>6 DEF w, at, R, h, S
<1>12. CASE e = "."
  <2>1. e \in Dots /\ S = R
    BY <1>12 DEF Dots, S, Stacked
  <2>2. Onward(list, at) = <<Erase(list, at, at), 2>>
    BY <1>9, <1>12 DEF Onward
  <2>3. Erase(R \o h \o v, Len(R) + 1, Len(R) + Len(h)) = R \o v
    BY <1>1, <1>2, EraseMiddle
  <2>4. Erase(list, at, at) = R \o v
    BY <1>2, <1>8, <2>3
  <2>5. RemoveDots[<<R \o v, 2>>] = RemoveDots[<<R \o v, Len(R) + 1>>]
    BY <1>1, <1>4, <2>1, GoesOn
  <2> HIDE DEF list, at
  <2>6. RemoveDots[Onward(list, at)] = RemoveDots[<<S \o v, Len(S) + 1>>]
    BY <2>1, <2>2, <2>4, <2>5
  <2> QED BY <1>10, <2>6 DEF w, at, R, h, S, list
<1>13. CASE e = ".."
  <2>1. e \in Dots /\ R # <<>> /\ e # "."
    BY <1>4, <1>13 DEF Dots
  <2>2. S = Front(R)
    BY <1>13, <2>1 DEF S, Stacked
  <2> DEFINE x == Last(R)
             m == <<x, e>>
  <2>3. S \in Seq(STRING \ Dots) /\ S \in Seq(STRING) /\ x \in STRING /\ R = Append(S, x)
    <3>1. Front(R) \in Seq(STRING \ Dots)
      <4> DEFINE U == STRING \ Dots
      <4>1. R \in Seq(U)
        BY <1>1
      <4> HIDE DEF U
      <4>2. Front(R) \in Seq(U)
        BY <2>1, <4>1, FrontAndLast
      <4> QED BY <4>2 DEF U
    <3> QED BY <1>1, <2>1, <2>2, <3>1, FrontAndLast
  <2> HIDE DEF x
  <2>4. m \in Seq(STRING) /\ Len(m) = 2 /\ m # <<>> /\ m = <<x>> \o h
    BY <2>3, Pair DEF h
  <2>5. <<x>> \in Seq(STRING) /\ R = S \o <<x>> /\ Len(R) = Len(S) + 1
    BY <2>3, AppendOne
  <2> HIDE DEF m
  <2>6. R \o h = S \o m
    BY <1>2, <2>3, <2>4, <2>5, ConcatAssociative
  <2>7. list = S \o m \o v
    BY <1>8, <2>6
  <2>8. Len(S) \in Nat
    BY <2>3, LenProperties
  <2>9. at - 1 = Len(S) + 1 /\ at = Len(S) + Len(m) /\ at # 1
    BY <2>4, <2>5, <2>8
  <2>10. Onward(list, at) = <<Erase(list, at - 1, at), 2>>
    BY <1>9, <1>13, <2>1, <2>9 DEF Onward
  <2>11. Erase(S \o m \o v, Len(S) + 1, Len(S) + Len(m)) = S \o v
    BY <2>3, <2>4, EraseMiddle
  <2>12. Erase(list, at - 1, at) = S \o v
    BY <2>7, <2>9, <2>11
  <2>13. RemoveDots[<<S \o v, 2>>] = RemoveDots[<<S \o v, Len(S) + 1>>]
    BY <1>5, <2>1, <2>3, GoesOn
  <2> HIDE DEF list, at
  <2>14. RemoveDots[Onward(list, at)] = RemoveDots[<<S \o v, Len(S) + 1>>]
    BY <2>10, <2>12, <2>13
  <2> QED BY <1>10, <2>14 DEF w, at, R, h, S, list
<1> QED BY <1>11, <1>12, <1>13 DEF Dots

\* Where every dot segment is met below the root, the loop leaves what the fold
\* does.
LEMMA LoopIsFold ==
  ASSUME NEW L \in Seq(STRING), Descends(L)
  PROVE  RemoveDots[<<L, 1>>] = Remaining(L)
<1> DEFINE At(u, v) == RemoveDots[<<Remaining(u) \o v, Len(Remaining(u)) + 1>>]
           Good == {u \in Seq(STRING) :
                      \A v \in Seq(STRING) : L = u \o v => RemoveDots[<<L, 1>>] = At(u, v)}
<1>1. <<>> \in Good
  <2>1. ASSUME NEW v \in Seq(STRING), L = <<>> \o v PROVE RemoveDots[<<L, 1>>] = At(<<>>, v)
    <3>1. Remaining(<<>>) = <<>> /\ Len(<<>>) = 0 /\ <<>> \o v = v
      BY RemainingEmpty, EmptySeq, ConcatEmptySeq
    <3>2. At(<<>>, v) = RemoveDots[<<v, 0 + 1>>]
      BY <3>1
    <3> QED BY <2>1, <3>1, <3>2
  <2> HIDE DEF At
  <2> QED BY <2>1, EmptySeq
<1>2. ASSUME NEW u \in Seq(STRING), NEW e \in STRING, u \in Good PROVE Append(u, e) \in Good
  <2>1. Append(u, e) \in Seq(STRING)
    BY AppendProperties
  <2>2. ASSUME NEW v \in Seq(STRING), L = Append(u, e) \o v
        PROVE  RemoveDots[<<L, 1>>] = At(Append(u, e), v)
    <3> DEFINE h == <<e>>
               w == h \o v
    <3>1. h \in Seq(STRING) /\ Append(u, e) = u \o h
      BY AppendOne
    <3>2. w \in Seq(STRING)
      BY <3>1, ConcatProperties
    <3>3. L = u \o w
      <4> HIDE DEF h
      <4> QED BY <2>2, <3>1, ConcatThrice
    <3>4. RemoveDots[<<L, 1>>] = At(u, w)
      <4> HIDE DEF At, w
      <4> QED BY <1>2, <3>2, <3>3
    <3>5. At(u, w) = At(Append(u, e), v)
      <4>1. Remaining(Append(u, e)) = Stacked(Remaining(u), e)
        BY RemainingAppend
      <4>2. Descends(u \o (<<e>> \o v))
        BY <3>3
      <4>3. LET R == Remaining(u)
                S == Stacked(R, e)
            IN RemoveDots[<<R \o (<<e>> \o v), Len(R) + 1>>] = RemoveDots[<<S \o v, Len(S) + 1>>]
        BY <4>2, Turn
      <4> QED BY <4>1, <4>3, Zenon
    <3> QED BY <3>4, <3>5
  <2> HIDE DEF At
  <2> QED BY <2>1, <2>2
<1> HIDE DEF Good
<1>3. Seq(STRING) \subseteq Good
  BY <1>1, <1>2, Longer
<1> DEFINE R == Remaining(L)
<1>4. R \in Seq(STRING)
  BY RemainingNames, RemainingAppend DEF Stacks
<1>5. <<>> \in Seq(STRING) /\ L \o <<>> = L /\ R \o <<>> = R
  BY <1>4, EmptySeq, ConcatEmptySeq
<1>6. RemoveDots[<<L, 1>>] = At(L, <<>>)
  <2> HIDE DEF At
  <2> QED BY <1>3, <1>5 DEF Good
<1>7. At(L, <<>>) = RemoveDots[<<R, Len(R) + 1>>]
  BY <1>5
<1> HIDE DEF R
<1>8. RemoveDots[<<R, Len(R) + 1>>] = R
  <2>1. Len(R) + 1 \in Nat \ {0} /\ Len(R) + 1 > Len(R)
    BY <1>4, LenProperties
  <2> QED BY <1>4, <2>1, RemoveDotsSteps
<1> QED BY <1>6, <1>7, <1>8 DEF R

-----------------------------------------------------------------------------
(***************************************************************************)
(* A path without its doubled slashes.                                     *)
(***************************************************************************)
Visible == STRING \ {Blank}

\* What is after the first slash.
Squeezed(y) == Picked(Front(y), Visible) \o <<Last(y)>>

LEMMA BlankIsNoDots == Blank \notin Dots
<1>1. "" # "." /\ "" # ".."
  BY Zenon
<1> QED BY <1>1, Zenon DEF Blank, Dots

LEMMA SqueezedType ==
  ASSUME NEW y \in Seq(STRING), y # <<>>
  PROVE  /\ Picked(Front(y), Visible) \in Seq(Visible) /\ Last(y) \in STRING
         /\ Squeezed(y) = Append(Picked(Front(y), Visible), Last(y))
         /\ Squeezed(y) \in Seq(STRING) /\ Squeezed(y) # <<>>
         /\ Last(Squeezed(y)) = Last(y)
<1> DEFINE f == Front(y)
           P == Picked(f, Visible)
           e == Last(y)
<1>1. f \in Seq(STRING) /\ e \in STRING
  BY FrontAndLast
<1> HIDE DEF f, e
<1>2. P \in Seq(Visible) /\ P \in Seq(STRING)
  <2>1. STRING \cap Visible = Visible
    BY DEF Visible
  <2>2. P \in Seq(STRING \cap Visible)
    BY <1>1, PickedType
  <2> QED BY <1>1, <2>1, <2>2, PickedInto
<1> HIDE DEF P
<1>3. /\ Append(P, e) \in Seq(STRING) /\ Append(P, e) # <<>> /\ Append(P, e) = P \o <<e>>
      /\ Last(Append(P, e)) = e
  <2>1. Append(P, e) \in Seq(STRING) /\ Append(P, e) # <<>>
    <3>1. P \in Seq(STRING) /\ e \in STRING
      BY <1>1, <1>2
    <3> QED BY <3>1, AppendParts
  <2>2. Append(P, e) = P \o <<e>>
    BY <1>1, <1>2, AppendOne
  <2>3. Last(Append(P, e)) = e
    BY <1>1, <1>2, FrontOfAppend
  <2> QED BY <2>1, <2>2, <2>3
<1>4. Squeezed(y) = P \o <<e>>
  BY DEF Squeezed, P, f, e
<1>5. Squeezed(y) = Append(P, e)
  BY <1>3, <1>4
<1> QED BY <1>1, <1>2, <1>3, <1>5 DEF P, f, e

LEMMA SlashslashSqueezes ==
  ASSUME NEW y \in Seq(STRING), y # <<>>
  PROVE  Slashslash(NoPath \o y) = NoPath \o Squeezed(y)
<1> DEFINE p == NoPath \o y
           b == Blank
<1>1. b \in STRING /\ NoPath = <<b>> /\ NoPath \in Seq(STRING)
  BY NoPathType, UrlAssumption DEF NoPath
<1> HIDE DEF b
<1>2. p \in Seq(STRING) /\ p # <<>> /\ Len(p) = 1 + Len(y) /\ p[1] = b
  BY <1>1, TailOfConcat
<1>3. Front(p) = NoPath \o Front(y) /\ Last(p) = Last(y)
  BY <1>1, FrontOfConcat
<1>4. Front(y) \in Seq(STRING) /\ Last(y) \in STRING
  BY FrontAndLast
<1>5. Tail(Front(p)) = Front(y)
  <2> DEFINE f == Front(y)
  <2>1. f \in Seq(STRING) /\ Front(p) = <<b>> \o f
    BY <1>1, <1>3, <1>4
  <2> HIDE DEF f, p
  <2> QED BY <1>1, <2>1, TailOfConcat DEF f
<1> HIDE DEF p
<1>6. Len(p) >= 2
  <2>1. Len(y) \in Nat \ {0}
    BY EmptySeq
  <2> QED BY <1>2, <2>1
<1>7. Slashslash(p) = <<p[1]>> \o Picked(Tail(Front(p)), STRING \ {Blank}) \o <<Last(p)>>
  BY <1>2, <1>6, SlashslashParts
<1>8. Slashslash(p) = NoPath \o Picked(Front(y), Visible) \o <<Last(y)>>
  <2>1. <<p[1]>> = NoPath
    BY <1>1, <1>2
  <2> QED BY <1>3, <1>5, <1>7, <2>1 DEF Visible
<1>9. Picked(Front(y), Visible) \in Seq(STRING) /\ <<Last(y)>> \in Seq(STRING)
  BY <1>4, PickedInto, Single
<1> DEFINE P == Picked(Front(y), Visible)
           l == <<Last(y)>>
<1> HIDE DEF P, l
<1>10. NoPath \o P \o l = NoPath \o (P \o l)
  BY <1>1, <1>9, ConcatAssociative DEF P, l
<1>11. Squeezed(y) = P \o l
  BY DEF Squeezed, P, l
<1> QED BY <1>8, <1>10, <1>11 DEF P, l, p

LEMMA SqueezedConcat ==
  ASSUME NEW a \in Seq(STRING), NEW y \in Seq(STRING), y # <<>>
  PROVE  Squeezed(a \o y) = Picked(a, Visible) \o Squeezed(y)
<1> DEFINE f == Front(y)
           l == <<Last(y)>>
           A == Picked(a, Visible)
           F == Picked(f, Visible)
<1>1. f \in Seq(STRING) /\ l \in Seq(STRING)
  BY FrontAndLast, Single
<1>2. Front(a \o y) = a \o f /\ Last(a \o y) = Last(y)
  BY FrontOfConcat
<1> HIDE DEF f
<1>3. Picked(a \o f, Visible) = A \o F
  BY <1>1, PickedConcat
<1>4. A \in Seq(STRING) /\ F \in Seq(STRING)
  BY <1>1, PickedInto
<1>5. Squeezed(a \o y) = Picked(a \o f, Visible) \o l
  BY <1>2 DEF Squeezed
<1>6. Squeezed(y) = F \o l
  BY DEF Squeezed, f
<1> HIDE DEF A, F, l
<1>7. (A \o F) \o l = A \o (F \o l)
  BY <1>1, <1>4, ConcatThrice
<1> QED BY <1>3, <1>5, <1>6, <1>7 DEF A

LEMMA SqueezedSlash ==
  ASSUME NEW y \in Seq(STRING), y # <<>>, Last(y) # Blank
  PROVE  Squeezed(Append(y, Blank)) = Append(Squeezed(y), Blank)
<1> DEFINE f == Front(y)
           e == Last(y)
           b == Blank
<1>1. f \in Seq(STRING) /\ e \in STRING /\ y = Append(f, e) /\ e # b
  BY FrontAndLast
<1>2. e \in Visible
  BY <1>1 DEF Visible
<1>3. b \in STRING
  BY UrlAssumption
<1>4. Squeezed(y) = Append(Picked(f, Visible), e)
  BY SqueezedType
<1> HIDE DEF f, e, b
<1>5. Picked(Append(f, e), Visible) = Append(Picked(f, Visible), e)
  BY <1>1, <1>2, PickedAppend
<1>6. Picked(y, Visible) = Squeezed(y)
  BY <1>1, <1>4, <1>5
<1>7. Append(y, b) \in Seq(STRING) /\ Append(y, b) # <<>>
  BY <1>3, AppendProperties
<1>8. Front(Append(y, b)) = y /\ Last(Append(y, b)) = b
  BY <1>3, FrontOfAppend
<1> DEFINE t == Append(y, b)
<1>9. Squeezed(t) = Append(Picked(Front(t), Visible), Last(t))
  <2> HIDE DEF t
  <2>1. t \in Seq(STRING) /\ t # <<>>
    BY <1>7 DEF t
  <2> QED BY <2>1, SqueezedType
<1> QED BY <1>6, <1>8, <1>9 DEF b

\* What is left of such a path has no doubled slashes either.
LEMMA RemainingIsSqueezed ==
  ASSUME NEW y \in Seq(STRING), y # <<>>
  PROVE  LET R == Remaining(Squeezed(y)) IN
           R \in Seq(STRING) /\ Slashslash(NoPath \o R) = NoPath \o R
<1> DEFINE P == Picked(Front(y), Visible)
           e == Last(y)
           S == Remaining(P)
           R == Stacked(S, e)
<1>1. P \in Seq(Visible) /\ e \in STRING /\ Squeezed(y) = Append(P, e)
  BY SqueezedType
<1> HIDE DEF P, e
<1>2. Visible \subseteq STRING /\ P \in Seq(STRING)
  <2>1. Visible \subseteq STRING
    BY DEF Visible
  <2> QED BY <1>1, <2>1, SeqMonotonic
<1>3. S \in Seq(Visible) /\ S \in Seq(STRING)
  <2> DEFINE U == Visible \ Dots
  <2>1. S \in Seq(Visible \ Dots)
    BY <1>1, <1>2, RemainingNames
  <2>2. S \in Seq(U) /\ U \subseteq Visible
    BY <2>1
  <2> HIDE DEF U, S
  <2>3. S \in Seq(Visible)
    BY <2>2, SeqMonotonic
  <2> QED BY <1>2, <2>3, SeqMonotonic
<1>4. Remaining(Squeezed(y)) = R
  BY <1>1, <1>2, RemainingAppend
<1> HIDE DEF S
<1>5. R \in Seq(STRING)
  BY <1>1, <1>3, StackedType DEF Stacks
<1>6. R # <<>> => Front(R) \in Seq(Visible)
  <2>1. S # <<>> => Front(S) \in Seq(Visible)
    BY <1>3, FrontType
  <2>2. CASE e = "."
    BY <2>1, <2>2 DEF Stacked
  <2>3. CASE e # "." /\ e # ".."
    <3>1. R = Append(S, e)
      BY <2>3 DEF Stacked
    <3>2. Front(Append(S, e)) = S
      BY <1>1, <1>3, FrontOfAppend
    <3> HIDE DEF R
    <3> QED BY <1>3, <3>1, <3>2
  <2>4. CASE e = ".."
    <3>1. S # <<>> => R = Front(S)
      BY <2>4 DEF Stacked
    <3>2. S = <<>> => R = <<>>
      BY <2>4 DEF Stacked
    <3> DEFINE f == Front(S)
    <3>3. S # <<>> => f \in Seq(Visible) /\ R = f
      BY <2>1, <3>1
    <3> HIDE DEF f, R
    <3>4. f \in Seq(Visible) /\ f # <<>> => Front(f) \in Seq(Visible)
      BY FrontType
    <3> QED BY <3>2, <3>3, <3>4
  <2> QED BY <2>2, <2>3, <2>4
<1> HIDE DEF R
<1>7. CASE R = <<>>
  <2>1. NoPath \o R = NoPath
    BY <1>7, NoPathType, ConcatEmptySeq
  <2>2. Slashslash(NoPath) = NoPath
    <3> DEFINE p == NoPath
    <3>1. p \in Seq(STRING) /\ p # <<>> /\ Len(p) < 2
      BY NoPathType
    <3> HIDE DEF p
    <3>2. Len(p) < 2 => Slashslash(p) = p
      BY <3>1, SlashslashParts, Zenon
    <3> QED BY <3>1, <3>2 DEF p
  <2> QED BY <1>4, <1>5, <2>1, <2>2
<1>8. CASE R # <<>>
  <2>1. Slashslash(NoPath \o R) = NoPath \o Squeezed(R)
    BY <1>5, <1>8, SlashslashSqueezes
  <2>2. Squeezed(R) = Append(Picked(Front(R), Visible), Last(R))
    BY <1>5, <1>8, SqueezedType
  <2>3. Picked(Front(R), Visible) = Front(R)
    BY <1>6, <1>8, PickedAll
  <2>4. R = Append(Front(R), Last(R))
    BY <1>5, <1>8, FrontAndLast
  <2> QED BY <1>4, <1>5, <2>1, <2>2, <2>3, <2>4
<1> QED BY <1>7, <1>8

LEMMA RootedList ==
  ASSUME NEW y \in Seq(STRING), y # <<>>
  PROVE  /\ NoPath \o y \in Seq(STRING) /\ NoPath \o y # <<>>
         /\ Rooted(NoPath \o y) /\ Tail(NoPath \o y) = y
<1> DEFINE b == Blank
           p == <<b>> \o y
<1>1. b \in STRING /\ NoPath = <<b>>
  BY UrlAssumption DEF NoPath
<1> HIDE DEF b
<1>2. p \in Seq(STRING) /\ p # <<>> /\ Len(p) = 1 + Len(y) /\ p[1] = b /\ Tail(p) = y
  BY <1>1, TailOfConcat
<1>3. Len(y) \in Nat /\ Len(y) # 0
  BY LenProperties, EmptySeq
<1> HIDE DEF p
<1>4. Rooted(p)
  <2>1. Len(p) > 1
    BY <1>2, <1>3
  <2> QED BY <1>2, <2>1 DEF Rooted, b
<1>5. NoPath \o y = p
  BY <1>1 DEF p
<1> QED BY <1>2, <1>4, <1>5

\* Whatever the loop leaves of a path, if that is what the fold leaves of another.
LEMMA Reduced ==
  ASSUME NEW z \in Seq(STRING), z # <<>>, NEW y \in Seq(STRING), y # <<>>,
         RemoveDots[<<Squeezed(z), 1>>] = Remaining(Squeezed(y))
  PROVE  NormalisePath(NoPath \o z) = NoPath \o Remaining(Squeezed(y))
<1> DEFINE q == Squeezed(z)
           R == Remaining(Squeezed(y))
           p == NoPath \o z
<1>1. q \in Seq(STRING) /\ q # <<>>
  BY SqueezedType
<1>2. Slashslash(p) = NoPath \o q
  BY SlashslashSqueezes
<1>3. Slashslash(NoPath \o R) = NoPath \o R
  BY RemainingIsSqueezed
<1>4. RemoveDots[<<q, 1>>] = R
  OBVIOUS
<1> HIDE DEF q, R, p
<1>5. Rooted(NoPath \o q) /\ Tail(NoPath \o q) = q
  BY <1>1, RootedList
<1>6. NormalisePath(p) = Slashslash(NoPath \o RemoveDots[<<q, 1>>])
  BY <1>2, <1>5 DEF NormalisePath
<1> QED BY <1>3, <1>4, <1>6 DEF p, R

\* After its first erasure the loop goes on from the second element.
LEMMA FromSecond ==
  ASSUME NEW L \in Seq(STRING), Descends(L)
  PROVE  RemoveDots[<<L, 2>>] = Remaining(L)
<1> DEFINE a == <<>>
           U == STRING \ Dots
<1>1. a \in Seq(U) /\ a \in Seq(STRING) /\ Len(a) = 0 /\ a \o L = L
  <2> HIDE DEF U
  <2> QED BY EmptySeq, ConcatEmptySeq
<1>2. L # <<>> => L[1] \notin Dots
  <2> SUFFICES ASSUME L # <<>>, L[1] \in Dots PROVE FALSE
    OBVIOUS
  <2> DEFINE e == L[1]
             v == Tail(L)
  <2>1. e \in STRING /\ v \in Seq(STRING) /\ L = <<e>> \o v
    BY HeadAndTail
  <2> DEFINE w == <<e>> \o v
  <2>2. Descends(a \o w) /\ e \in Dots
    BY <1>1, <2>1
  <2> HIDE DEF a, e, v
  <2>3. Remaining(a) # <<>>
    BY <1>1, <2>1, <2>2, DescendsAt
  <2> QED BY <2>3, RemainingEmpty DEF a
<1>3. RemoveDots[<<a \o L, 2>>] = RemoveDots[<<a \o L, Len(a) + 1>>]
  <2> HIDE DEF a
  <2> QED BY <1>1, <1>2, GoesOn DEF U
<1>4. RemoveDots[<<L, 1>>] = Remaining(L)
  BY LoopIsFold
<1>5. RemoveDots[<<L, 2>>] = RemoveDots[<<L, 0 + 1>>]
  <2> HIDE DEF a
  <2> QED BY <1>1, <1>3
<1> QED BY <1>4, <1>5

\* A relative path under a directory,
LEMMA InDirectory ==
  ASSUME NEW y \in Seq(STRING), y # <<>>, Descends(Squeezed(y))
  PROVE  NormalisePath(NoPath \o y) = NoPath \o Remaining(Squeezed(y))
<1> DEFINE q == Squeezed(y)
<1>1. q \in Seq(STRING) /\ Descends(q)
  BY SqueezedType
<1> HIDE DEF q
<1>2. RemoveDots[<<q, 1>>] = Remaining(q)
  BY <1>1, LoopIsFold
<1>3. RemoveDots[<<Squeezed(y), 1>>] = Remaining(Squeezed(y))
  BY <1>2 DEF q
<1> QED BY <1>3, Reduced

\* after the ".." that stands for a file name, with the name before it
LEMMA AfterFile ==
  ASSUME NEW d \in Seq(STRING), Range(d) \cap Dots = {},
         NEW f \in STRING \ (Dots \cup {Blank}),
         NEW new \in Seq(STRING), new # <<>>, Descends(Squeezed(d \o new))
  PROVE  NormalisePath(NoPath \o (d \o <<f, "..">> \o new)) = NoPath \o Remaining(Squeezed(d \o new))
<1> DEFINE u == ".."
           m == <<f, u>>
           D == Picked(d, Visible)
           N == Squeezed(new)
           dm == d \o m
           z == dm \o new
           y == d \o new
           L == D \o N
           list == D \o m \o N
<1>1. u \in Dots /\ u \in STRING /\ f \in STRING /\ f # Blank /\ f \notin Dots /\ u # Blank
  BY UrlAssumption, BlankIsNoDots DEF Dots
<1>2. u = ".." /\ u # "."
  BY Zenon
<1> HIDE DEF u
<1>3. m \in Seq(STRING) /\ Len(m) = 2 /\ m # <<>> /\ m = <<f>> \o <<u>> /\ m[1] = f /\ m[2] = u
  BY <1>1, Pair
<1>4. m \in Seq(Visible)
  <2>1. f \in Visible /\ u \in Visible
    BY <1>1 DEF Visible
  <2> HIDE DEF m
  <2> QED BY <2>1, Pair DEF m
<1> HIDE DEF m
<1>5. D \in Seq(STRING) /\ N \in Seq(STRING)
  BY PickedInto, SqueezedType
<1>6. dm \in Seq(STRING) /\ z \in Seq(STRING) /\ z # <<>> /\ y \in Seq(STRING) /\ y # <<>>
  <2>1. dm \in Seq(STRING)
    BY <1>3, ConcatProperties
  <2>2. y \in Seq(STRING) /\ y # <<>>
    BY ConcatProperties, ConcatEqualIffEmpty
  <2> HIDE DEF dm, y
  <2>3. z \in Seq(STRING) /\ z # <<>>
    BY <2>1, ConcatProperties, ConcatEqualIffEmpty
  <2> QED BY <2>1, <2>2, <2>3
<1>7. Squeezed(y) = L
  BY SqueezedConcat
<1>8. Squeezed(z) = list
  <2>1. Squeezed(z) = Picked(dm, Visible) \o N
    <3> HIDE DEF dm
    <3> QED BY <1>6, SqueezedConcat
  <2>2. Picked(dm, Visible) = D \o Picked(m, Visible)
    <3> DEFINE X == STRING
    <3>1. d \in Seq(X) /\ m \in Seq(X)
      BY <1>3
    <3> HIDE DEF X
    <3>2. \A T : Picked(d \o m, T) = Picked(d, T) \o Picked(m, T)
      BY <3>1, PickedConcat
    <3> QED BY <3>2
  <2>3. Picked(m, Visible) = m
    BY <1>4, PickedAll
  <2> HIDE DEF D, N, dm, z
  <2> QED BY <2>1, <2>2, <2>3
<1>9. \A i \in 1..Len(D) : D[i] \notin Dots
  <2> DEFINE U == STRING \ Dots
  <2>1. d \in Seq(U)
    <3>1. \A i \in 1..Len(d) : d[i] \in STRING /\ d[i] \in Range(d)
      BY LenProperties DEF Range
    <3>2. \A i \in 1..Len(d) : d[i] \in U
      BY <3>1
    <3> HIDE DEF U
    <3> QED BY <3>2, LenProperties
  <2>2. \A x \in U : x \notin Dots
    OBVIOUS
  <2> HIDE DEF U
  <2>3. D \in Seq(U)
    BY <2>1, PickedInto
  <2> QED BY <2>2, <2>3, ElementOfSeq
<1> HIDE DEF D, N, z, y
<1>10. /\ list \in Seq(STRING)
       /\ Len(list) = Len(D) + 2 + Len(N)
       /\ \A i \in 1..Len(D) : list[i] = D[i]
       /\ list[Len(D) + 1] = f /\ list[Len(D) + 2] = u
  <2> DEFINE Dm == D \o m
  <2>1. D \in Seq(STRING) /\ N \in Seq(STRING) /\ m \in Seq(STRING)
    BY <1>3, <1>5
  <2>2. /\ Dm \in Seq(STRING) /\ Len(Dm) = Len(D) + Len(m)
        /\ \A i \in 1..(Len(D) + Len(m)) : Dm[i] = IF i <= Len(D) THEN D[i] ELSE m[i - Len(D)]
    BY <2>1, ConcatParts
  <2> HIDE DEF Dm
  <2>3. /\ Dm \o N \in Seq(STRING) /\ Len(Dm \o N) = Len(Dm) + Len(N)
        /\ \A i \in 1..(Len(Dm) + Len(N)) : (Dm \o N)[i] = IF i <= Len(Dm) THEN Dm[i] ELSE N[i - Len(Dm)]
    BY <2>1, <2>2, ConcatParts
  <2>4. list = Dm \o N
    BY DEF Dm
  <2> HIDE DEF list
  <2>5. Len(D) \in Nat /\ Len(N) \in Nat /\ Len(m) = 2
    BY <1>3, <2>1, LenProperties
  <2>6. list \in Seq(STRING) /\ Len(list) = Len(D) + 2 + Len(N)
    BY <2>2, <2>3, <2>4, <2>5
  <2>7. ASSUME NEW i \in 1..(Len(D) + 2)
        PROVE  list[i] = IF i <= Len(D) THEN D[i] ELSE m[i - Len(D)]
    <3>1. i \in 1..(Len(Dm) + Len(N)) /\ i <= Len(Dm) /\ i \in 1..(Len(D) + Len(m))
      BY <2>2, <2>5
    <3> QED BY <2>2, <2>3, <2>4, <3>1
  <2>8. \A i \in 1..Len(D) : list[i] = D[i]
    BY <2>5, <2>7
  <2>9. list[Len(D) + 1] = m[1]
    BY <2>5, <2>7
  <2>10. list[Len(D) + 2] = m[2]
    BY <2>5, <2>7
  <2> QED BY <1>3, <2>6, <2>8, <2>9, <2>10
<1>11. Len(D) \in Nat /\ Len(N) \in Nat
  BY <1>5, LenProperties
<1> DEFINE at == Len(D) + 2
<1>12. RemoveDots[<<list, 1>>] = RemoveDots[<<list, at>>]
  <2> DEFINE n == Len(D) + 1
  <2>1. n \in Nat /\ 1 + n = at /\ 1 + n <= Len(list) + 1 /\ 1 \in Nat \ {0}
    BY <1>10, <1>11
  <2>2. \A i \in 1..(1 + n - 1) : list[i] \notin Dots
    <3>1. ASSUME NEW i \in 1..(1 + n - 1) PROVE list[i] \notin Dots
      <4>1. i \in 1..Len(D) \/ i = Len(D) + 1
        BY <1>11
      <4> QED BY <1>1, <1>9, <1>10, <4>1
    <3> QED BY <3>1
  <2> HIDE DEF n, at, list
  <2>3. RemoveDots[<<list, 1>>] = RemoveDots[<<list, 1 + n>>]
    BY <1>10, <2>1, <2>2, PassesOver
  <2> QED BY <2>1, <2>3
<1>13. RemoveDots[<<list, at>>] = RemoveDots[Onward(list, at)]
  <2>1. at \in Nat \ {0} /\ at <= Len(list)
    BY <1>10, <1>11
  <2> HIDE DEF at, list
  <2> QED BY <1>10, <2>1, RemoveDotsSteps
<1>14. Onward(list, at) = <<Erase(list, at - 1, at), 2>>
  <2>1. list[at] = u /\ at > 1 /\ at # 1
    BY <1>10, <1>11
  <2> HIDE DEF at, list
  <2> QED BY <1>2, <2>1 DEF Onward
<1>15. Erase(list, at - 1, at) = L
  <2>1. Erase(D \o m \o N, Len(D) + 1, Len(D) + Len(m)) = D \o N
    BY <1>3, <1>5, EraseMiddle
  <2>2. at - 1 = Len(D) + 1 /\ at = Len(D) + Len(m)
    BY <1>3, <1>11
  <2> HIDE DEF at
  <2> QED BY <2>1, <2>2
<1>16. L \in Seq(STRING) /\ Descends(L)
  <2>1. L \in Seq(STRING)
    BY <1>5, ConcatProperties
  <2> QED BY <1>7, <2>1 DEF y
<1> HIDE DEF list, at, L
<1>17. RemoveDots[<<L, 2>>] = Remaining(L)
  BY <1>16, FromSecond
<1>18. RemoveDots[<<Squeezed(z), 1>>] = Remaining(Squeezed(y))
  BY <1>7, <1>8, <1>12, <1>13, <1>14, <1>15, <1>17
<1>19. NormalisePath(NoPath \o z) = NoPath \o Remaining(Squeezed(y))
  BY <1>6, <1>18, Reduced
<1> QED BY <1>19 DEF z, y, dm, m, u

\* or without one.
LEMMA AfterNothing ==
  ASSUME NEW new \in Seq(STRING), new # <<>>, Descends(Squeezed(new))
  PROVE  NormalisePath(NoPath \o (<<"..">> \o new)) = NoPath \o Remaining(Squeezed(new))
<1> DEFINE u == ".."
           m == <<u>>
           N == Squeezed(new)
           z == m \o new
           list == m \o N
<1>1. u \in Dots /\ u \in STRING /\ u # Blank
  BY UrlAssumption, BlankIsNoDots DEF Dots
<1>2. u = ".." /\ u # "."
  BY Zenon
<1> HIDE DEF u
<1>3. m \in Seq(STRING) /\ Len(m) = 1 /\ m[1] = u /\ m # <<>> /\ m \in Seq(Visible)
  <2>1. u \in Visible
    BY <1>1 DEF Visible
  <2> HIDE DEF m
  <2> QED BY <1>1, <2>1, Single DEF m
<1>4. N \in Seq(STRING) /\ Descends(N)
  BY SqueezedType
<1>5. z \in Seq(STRING) /\ z # <<>>
  <2> HIDE DEF m
  <2> QED BY <1>3, ConcatProperties, ConcatEqualIffEmpty
<1>6. /\ list \in Seq(STRING) /\ Len(list) = 1 + Len(N) /\ list[1] = u
  <2> HIDE DEF N
  <2> QED BY <1>1, <1>4, TailOfConcat
<1>7. Squeezed(z) = list
  <2> HIDE DEF m
  <2>1. Squeezed(z) = Picked(m, Visible) \o N
    BY <1>3, SqueezedConcat
  <2>2. Picked(m, Visible) = m
    BY <1>3, PickedAll
  <2> QED BY <2>1, <2>2
<1>8. Len(N) \in Nat
  BY <1>4, LenProperties
<1> HIDE DEF m, N, z
<1>9. Erase(list, 1, 1) = N
  <2> DEFINE a == <<>>
  <2>1. a \in Seq(STRING) /\ Len(a) = 0 /\ a \o m = m /\ a \o N = N
    BY <1>3, <1>4, EmptySeq, ConcatEmptySeq
  <2> HIDE DEF a
  <2>2. Erase(a \o m \o N, Len(a) + 1, Len(a) + Len(m)) = a \o N
    BY <1>3, <1>4, <2>1, EraseMiddle
  <2>3. Len(a) + 1 = 1 /\ Len(a) + Len(m) = 1
    BY <1>3, <2>1
  <2> QED BY <2>1, <2>2, <2>3
<1> HIDE DEF list
<1>10. RemoveDots[<<list, 1>>] = RemoveDots[Onward(list, 1)]
  <2>1. 1 \in Nat \ {0} /\ 1 <= Len(list)
    BY <1>6, <1>8
  <2> QED BY <1>6, <2>1, RemoveDotsSteps
<1>11. Onward(list, 1) = <<Erase(list, 1, 1), 2>>
  BY <1>2, <1>6 DEF Onward
<1>12. RemoveDots[<<N, 2>>] = Remaining(N)
  BY <1>4, FromSecond
<1>13. RemoveDots[<<Squeezed(z), 1>>] = Remaining(Squeezed(new))
  BY <1>7, <1>9, <1>10, <1>11, <1>12 DEF N
<1>14. NormalisePath(NoPath \o z) = NoPath \o Remaining(Squeezed(new))
  BY <1>5, <1>13, Reduced
<1> QED BY <1>14 DEF z, m, u

LEMMA DescendsAppend ==
  ASSUME NEW s \in Seq(STRING), Descends(s), NEW e \in STRING, e \notin Dots
  PROVE  Descends(Append(s, e))
<1> DEFINE X == STRING
           t == Append(s, e)
           n == Len(s)
<1>1. s \in Seq(X)
  OBVIOUS
<1>2. t \in Seq(X) /\ Len(t) = n + 1 /\ (\A i \in 1..n : t[i] = s[i]) /\ t[n + 1] = e
  BY AppendParts
<1> HIDE DEF X
<1>3. n \in Nat /\ DOMAIN s = 1..n /\ DOMAIN t = 1..(n + 1)
  BY <1>1, <1>2, LenProperties
<1> HIDE DEF t, n
<1>4. ASSUME NEW i \in DOMAIN t, t[i] \in Dots PROVE Remaining(SubSeq(t, 1, i - 1)) # <<>>
  <2>1. i \in 1..n /\ s[i] \in Dots
    <3>1. i \in 1..n \/ i = n + 1
      BY <1>3
    <3>2. i # n + 1
      BY <1>2, <1>4
    <3>3. t[i] = s[i]
      BY <1>2, <3>1, <3>2
    <3> QED BY <1>4, <3>1, <3>2, <3>3
  <2> DEFINE k == i - 1
             a == SubSeq(t, 1, k)
             b == SubSeq(s, 1, k)
  <2>2. 1 \in Int /\ k \in Int /\ k \in Nat
        /\ \A j \in 1..k : s[j] \in X /\ t[j] \in X /\ s[j] = t[j]
    <3>1. k \in Nat /\ \A j \in 1..k : j \in 1..n
      BY <1>3, <2>1
    <3> HIDE DEF k
    <3>2. \A j \in 1..n : s[j] \in X
      BY <1>1, <1>3, LenProperties
    <3> QED BY <1>2, <3>1, <3>2
  <2> HIDE DEF k
  <2>3. /\ a \in Seq(X) /\ Len(a) = (IF 1 <= k THEN k - 1 + 1 ELSE 0)
        /\ \A j \in 1..(k - 1 + 1) : a[j] = t[1 + j - 1]
    BY <2>2, SubSeqProperties
  <2>4. /\ b \in Seq(X) /\ Len(b) = (IF 1 <= k THEN k - 1 + 1 ELSE 0)
        /\ \A j \in 1..(k - 1 + 1) : b[j] = s[1 + j - 1]
    BY <2>2, SubSeqProperties
  <2> HIDE DEF a, b
  <2>5. Len(a) = k /\ Len(b) = k
    BY <2>2, <2>3, <2>4
  <2>6. ASSUME NEW j \in 1..Len(a) PROVE a[j] = b[j]
    <3>1. j \in 1..k /\ j \in 1..(k - 1 + 1) /\ 1 + j - 1 = j
      BY <2>2, <2>5
    <3> QED BY <2>2, <2>3, <2>4, <3>1
  <2>7. a = b
    BY <2>3, <2>4, <2>5, <2>6, SeqEqual
  <2>8. Remaining(b) # <<>>
    BY <1>3, <2>1 DEF Descends, b, k
  <2> QED BY <2>7, <2>8 DEF a, k
<1> QED BY <1>4 DEF Descends, t

\* What pathspec() makes of a relative path: one that ends in dots gets a slash.
LEMMA FormalisedMeans ==
  ASSUME NEW path \in Seq(STRING), path # <<>>, path # NoPath, ~Rooted(path),
         Last(path) \in Dots => Range(Front(path)) \cap Dots = {}
  PROVE  /\ ~Rooted(Formalised(path))
         /\ Formalised(path) = IF Last(path) \in Dots THEN Append(path, Blank) ELSE path
<1> DEFINE f == Front(path)
           e == Last(path)
<1>1. Len(path) \in Nat \ {0}
  BY EmptySeq
<1>2. /\ f \in Seq(STRING) /\ Len(f) = Len(path) - 1
      /\ \A i \in 1..(Len(path) - 1) : f[i] = path[i]
      /\ e = path[Len(path)] /\ e \in STRING
  BY FrontType
<1> HIDE DEF f
<1>3. CASE e \in Dots
  <2>1. ASSUME NEW i \in 2..(Len(path) - 1) PROVE path[i] \notin Dots
    <3>1. i \in DOMAIN f /\ path[i] = f[i]
      BY <1>1, <1>2, LenProperties
    <3>2. path[i] \in Range(f)
      BY <3>1 DEF Range
    <3> QED BY <1>3, <3>2 DEF f
  <2>2. ".." \in Dots
    BY DEF Dots
  <2>3. Len(path) > 1 => path[1] # Blank
    BY DEF Rooted
  <2>4. path # <<Blank, e>>
    <3> SUFFICES ASSUME path = <<Blank, e>> PROVE FALSE
      OBVIOUS
    <3> DEFINE b == Blank
    <3>1. path = <<b, e>> /\ path[1] = b /\ Len(path) = 2
      OBVIOUS
    <3> HIDE DEF b
    <3>2. Len(path) > 1
      BY <3>1
    <3> QED BY <2>3, <3>1, <3>2 DEF b
  <2>5. Len(path) > 1 => FirstAtEnd(path, Dots) /\ FirstAtEnd(path, {".."})
    BY <2>1, <2>2, <2>4 DEF FirstAtEnd
  <2>6. ~(Len(path) > 1) => path = <<e>>
    <3> SUFFICES ASSUME ~(Len(path) > 1) PROVE path = <<e>>
      OBVIOUS
    <3> DEFINE q == <<e>>
    <3>1. q \in Seq(STRING) /\ Len(q) = 1 /\ q[1] = e
      BY <1>2, Single
    <3> HIDE DEF q
    <3>2. Len(path) = 1 /\ \A i \in 1..Len(path) : path[i] = q[i]
      BY <1>1, <1>2, <3>1
    <3>3. path = q
      BY <3>1, <3>2, SeqEqual
    <3> QED BY <3>3 DEF q
  <2>7. Formalised(path) = Append(path, Blank)
    <3>1. \/ Last(path) = "." /\ FirstAtEnd(path, Dots)
          \/ Last(path) = ".." /\ FirstAtEnd(path, {".."})
          \/ path \in {<<".">>, <<"..">>}
      BY <1>3, <2>5, <2>6 DEF Dots
    <3> QED BY <3>1 DEF Formalised
  <2>8. ~Rooted(Append(path, Blank))
    <3> DEFINE t == Append(path, Blank)
    <3>1. t[1] = path[1]
      <4> DEFINE b == Blank
      <4>1. b \in STRING
        BY UrlAssumption
      <4>2. 1 \in 1..Len(path)
        BY <1>1
      <4> HIDE DEF b
      <4>3. \A i \in 1..Len(path) : Append(path, b)[i] = path[i]
        BY <4>1, AppendProperties
      <4> QED BY <4>2, <4>3 DEF b
    <3>2. path[1] # Blank
      <4>1. CASE Len(path) > 1
        BY <2>3, <4>1
      <4>2. CASE ~(Len(path) > 1)
        <5>1. Len(path) = 1 /\ path[1] \in Dots
          BY <1>1, <1>2, <1>3, <4>2
        <5> QED BY <5>1, BlankIsNoDots
      <4> QED BY <4>1, <4>2
    <3> HIDE DEF t
    <3>3. ~Rooted(t)
      BY <3>1, <3>2 DEF Rooted
    <3> QED BY <3>3 DEF t
  <2> QED BY <1>3, <2>7, <2>8
<1>4. CASE e \notin Dots
  <2>1. e # "." /\ e # ".."
    BY <1>4 DEF Dots
  <2>2. path \notin {<<".">>, <<"..">>}
    <3> SUFFICES ASSUME NEW u \in Dots, path = <<u>> PROVE FALSE
      BY DEF Dots
    <3>1. Len(path) = 1 /\ path[1] = u
      OBVIOUS
    <3> QED BY <1>2, <1>4, <3>1
  <2>3. Formalised(path) = path
    BY <2>1, <2>2 DEF Formalised
  <2> QED BY <1>4, <2>3
<1> QED BY <1>3, <1>4

\* The slash that it gets stays at the end of what is left.
LEMMA Slashed ==
  ASSUME NEW d \in Seq(STRING), NEW path \in Seq(STRING), path # <<>>,
         Descends(Squeezed(d \o path)), NEW new,
         new = IF Last(path) \in Dots THEN Append(path, Blank) ELSE path
  PROVE  /\ new \in Seq(STRING) /\ new # <<>>
         /\ Descends(Squeezed(d \o new))
         /\ Last(Squeezed(d \o path)) = Last(path)
         /\ Remaining(Squeezed(d \o path)) \in Seq(STRING)
         /\ Remaining(Squeezed(d \o new))
              = Remaining(Squeezed(d \o path)) \o IF Last(path) \in Dots THEN NoPath ELSE <<>>
<1> DEFINE b == Blank
           y == d \o path
           s == Squeezed(y)
<1>1. b \in STRING /\ b \notin Dots
  BY UrlAssumption, BlankIsNoDots
<1>2. y \in Seq(STRING) /\ y # <<>>
  BY ConcatProperties, ConcatEqualIffEmpty
<1>3. Last(y) = Last(path)
  BY FrontOfConcat
<1> HIDE DEF y
<1>4. s \in Seq(STRING) /\ Last(s) = Last(path) /\ Descends(s)
  BY <1>2, <1>3, SqueezedType DEF y
<1>5. Remaining(s) \in Seq(STRING)
  BY <1>1, <1>4, RemainingAppend DEF Stacks
<1>6. CASE Last(path) \notin Dots
  <2>1. new = path
    BY <1>6
  <2> DEFINE R == Remaining(s)
  <2>2. R \o <<>> = R
    <3> HIDE DEF R
    <3> QED BY <1>5, ConcatEmptySeq DEF R
  <2> QED BY <1>4, <1>5, <1>6, <2>1, <2>2 DEF y
<1>7. CASE Last(path) \in Dots
  <2>1. new = Append(path, b)
    BY <1>7
  <2>2. d \o Append(path, b) = Append(y, b)
    <3> DEFINE X == STRING
    <3>1. d \in Seq(X) /\ path \in Seq(X) /\ b \in X
      BY <1>1
    <3> HIDE DEF b, X
    <3>2. d \o Append(path, b) = Append(d \o path, b)
      BY <3>1, ConcatAppend
    <3> QED BY <3>2 DEF y
  <2>3. Last(y) # Blank
    BY <1>3, <1>7, BlankIsNoDots
  <2>4. Squeezed(Append(y, Blank)) = Append(s, Blank)
    BY <1>2, <2>3, SqueezedSlash
  <2>5. Squeezed(d \o new) = Append(s, b)
    BY <2>1, <2>2, <2>4
  <2>6. new \in Seq(STRING) /\ new # <<>>
    <3> HIDE DEF b
    <3>1. Append(path, b) \in Seq(STRING) /\ Append(path, b) # <<>>
      BY <1>1, AppendParts
    <3> QED BY <2>1, <3>1
  <2> HIDE DEF s
  <2>7. NoPath = <<b>>
    BY DEF NoPath
  <2> HIDE DEF b
  <2>8. Descends(Append(s, b))
    BY <1>1, <1>4, DescendsAppend
  <2>9. Remaining(Append(s, b)) = Remaining(s) \o <<b>>
    <3>1. Remaining(Append(s, b)) = Stacked(Remaining(s), b)
      BY <1>1, <1>4, RemainingAppend
    <3>2. Stacked(Remaining(s), b) = Append(Remaining(s), b)
      BY <1>1 DEF Stacked, Dots
    <3> DEFINE R == Remaining(s)
    <3> HIDE DEF R
    <3>3. Append(R, b) = R \o <<b>>
      BY <1>1, <1>5, AppendOne DEF R
    <3> QED BY <3>1, <3>2, <3>3 DEF R
  <2> QED BY <1>4, <1>5, <1>7, <2>5, <2>6, <2>7, <2>8, <2>9 DEF s, y
<1> QED BY <1>6, <1>7

\* A base is no path, or a directory and a last segment.
LEMMA StartParts ==
  ASSUME NEW start, GoodPath(start), Range(start) \cap Dots = {}
  PROVE  IF Len(start) > 1
           THEN \E d \in Seq(STRING), f \in STRING \ Dots :
                  /\ Range(d) \cap Dots = {} /\ Front(start) = NoPath \o d
                  /\ start = NoPath \o (d \o <<f>>) /\ Last(start) = f
           ELSE start = NoPath
<1>1. start \in Seq(STRING) /\ start # <<>> /\ start[1] = Blank /\ Len(start) \in Nat \ {0}
  BY EmptySeq DEF GoodPath
<1>2. \A i \in 1..Len(start) : start[i] \notin Dots
  <2>1. \A i \in 1..Len(start) : start[i] \in Range(start)
    BY <1>1, LenProperties DEF Range
  <2> QED BY <2>1
<1>3. CASE ~(Len(start) > 1)
  <2>1. Len(start) = 1 /\ Len(NoPath) = 1 /\ NoPath[1] = Blank /\ NoPath \in Seq(STRING)
    BY <1>1, <1>3, NoPathType
  <2>2. \A i \in 1..Len(start) : start[i] = NoPath[i]
    BY <1>1, <2>1
  <2>3. start = NoPath
    BY <1>1, <2>1, <2>2, SeqEqual
  <2> QED BY <1>3, <2>3
<1>4. CASE Len(start) > 1
  <2> DEFINE f == Last(start)
             a == Front(start)
             d == Tail(a)
             h == <<f>>
  <2>1. /\ a \in Seq(STRING) /\ Len(a) = Len(start) - 1
        /\ \A i \in 1..(Len(start) - 1) : a[i] = start[i]
        /\ f = start[Len(start)] /\ f \in STRING
    BY <1>1, FrontType
  <2>2. start = Append(a, f)
    BY <1>1, FrontAndLast
  <2> HIDE DEF f, a
  <2>3. a # <<>> /\ a[1] = Blank
    <3>1. Len(a) # 0 /\ 1 \in 1..(Len(start) - 1)
      BY <1>1, <1>4, <2>1
    <3> QED BY <1>1, <2>1, <3>1, EmptySeq
  <2>4. d \in Seq(STRING) /\ a = NoPath \o d
    <3>1. d \in Seq(STRING) /\ a = <<a[1]>> \o d
      BY <2>1, <2>3, HeadAndTail
    <3> QED BY <2>3, <3>1 DEF NoPath
  <2>5. Range(d) \cap Dots = {}
    <3>1. Len(d) = Len(a) - 1 /\ \A i \in 1..Len(d) : d[i] = a[i + 1]
      BY <2>1, <2>3, HeadTailProperties
    <3>2. DOMAIN d = 1..Len(d) /\ Len(d) \in Nat
      BY <2>4, LenProperties
    <3> HIDE DEF d
    <3>3. ASSUME NEW i \in 1..Len(d) PROVE d[i] \notin Dots
      <4>1. i + 1 \in 1..(Len(start) - 1) /\ i + 1 \in 1..Len(start)
        BY <1>1, <2>1, <3>1, <3>2
      <4> QED BY <1>2, <2>1, <3>1, <4>1
    <3> QED BY <3>2, <3>3 DEF Range
  <2>6. f \in STRING \ Dots
    <3>1. Len(start) \in 1..Len(start)
      BY <1>1
    <3> QED BY <1>2, <2>1, <3>1
  <2>7. h \in Seq(STRING) /\ Append(a, f) = a \o h
    BY <2>1, AppendOne
  <2>8. start = NoPath \o (d \o h)
    <3> DEFINE b == NoPath
    <3>1. b \in Seq(STRING)
      BY NoPathType
    <3>2. d \in Seq(STRING) /\ h \in Seq(STRING)
      BY <2>4, <2>7
    <3> HIDE DEF b, d, h
    <3>3. (b \o d) \o h = b \o (d \o h)
      BY <3>1, <3>2, ConcatAssociative
    <3> QED BY <2>2, <2>4, <2>7, <3>3 DEF b
  <2>9. a = Front(start) /\ f = Last(start)
    BY DEF a, f
  <2>10. Range(d) \cap Dots = {} /\ Front(start) = NoPath \o d /\ Last(start) = f
         /\ start = NoPath \o (d \o <<f>>)
    BY <2>4, <2>5, <2>8, <2>9
  <2> HIDE DEF d
  <2> QED BY <1>4, <2>4, <2>6, <2>10
<1> QED BY <1>3, <1>4

\* What a relative path is put under.
LEMMA Placed ==
  ASSUME NEW start, GoodPath(start), NEW d \in Seq(STRING), Range(d) \cap Dots = {},
         NEW new \in Seq(STRING), new # <<>>, Descends(Squeezed(d \o new)),
         \/ start = NoPath /\ d = <<>>
         \/ \E f \in STRING \ Dots :
              /\ Len(start) > 1 /\ Front(start) = NoPath \o d
              /\ start = NoPath \o (d \o <<f>>) /\ Last(start) = f
  PROVE  NormalisePath(Under(Directory(start), new)) = NoPath \o Remaining(Squeezed(d \o new))
<1> DEFINE b == NoPath
           u == ".."
           e == Blank
           slash == <<u, e>>
           R == Remaining(Squeezed(d \o new))
<1>1. b \in Seq(STRING) /\ u \in STRING /\ e \in STRING /\ start \in Seq(STRING)
  BY NoPathType, UrlAssumption DEF Dots, GoodPath
<1>2. slash \in Seq(STRING) /\ slash # <<>> /\ slash = <<u>> \o <<e>> /\ <<u>> \in Seq(STRING)
      /\ <<e>> \in Seq(STRING)
  <2> HIDE DEF u, e
  <2> QED BY <1>1, Pair, Single
<1>3. Front(start \o slash) = start \o <<u>>
  <2>1. Front(start \o slash) = start \o Front(slash)
    <3> HIDE DEF slash
    <3> QED BY <1>1, <1>2, FrontOfConcat
  <2>2. slash = Append(<<u>>, e)
    <3> HIDE DEF u, e
    <3>1. Append(<<u>>, e) = <<u>> \o <<e>>
      BY <1>1, <1>2, AppendOne
    <3> QED BY <1>2, <3>1
  <2>3. Front(Append(<<u>>, e)) = <<u>>
    <3> DEFINE h == <<u>>
    <3> HIDE DEF e, h
    <3>1. Front(Append(h, e)) = h
      BY <1>1, <1>2, FrontOfAppend DEF h
    <3> QED BY <3>1 DEF h
  <2> QED BY <2>1, <2>2, <2>3
<1>4. CASE start = NoPath /\ d = <<>>
  <2>1. ~EndsInSlash(start)
    BY <1>4, NoPathType DEF EndsInSlash
  <2>2. Directory(start) = start \o slash
    BY <2>1 DEF Directory
  <2>3. Under(Directory(start), new) = b \o <<u>> \o new
    BY <1>3, <1>4, <2>2 DEF Under
  <2>4. d \o new = new
    BY <1>4, ConcatEmptySeq
  <2>5. NormalisePath(NoPath \o (<<"..">> \o new)) = NoPath \o Remaining(Squeezed(new))
    BY <2>4, AfterNothing
  <2>6. b \o <<u>> \o new = b \o (<<u>> \o new)
    <3> DEFINE h == <<u>>
    <3> HIDE DEF b, h
    <3>1. b \o h \o new = b \o (h \o new)
      BY <1>1, <1>2, ConcatAssociative DEF h
    <3> QED BY <3>1 DEF h
  <2> QED BY <2>3, <2>4, <2>5, <2>6
<1>5. ASSUME NEW f \in STRING \ Dots,
             Len(start) > 1, Front(start) = NoPath \o d,
             start = NoPath \o (d \o <<f>>), Last(start) = f
      PROVE  NormalisePath(Under(Directory(start), new)) = NoPath \o R
  <2>1. CASE f = Blank
    <3>1. Directory(start) = start
      BY <1>5, <2>1 DEF Directory, EndsInSlash
    <3>2. Under(Directory(start), new) = (NoPath \o d) \o new
      BY <1>5, <3>1 DEF Under
    <3>3. (b \o d) \o new = b \o (d \o new)
      <4> HIDE DEF b
      <4> QED BY <1>1, ConcatAssociative
    <3> DEFINE y == d \o new
    <3>4. y \in Seq(STRING) /\ y # <<>> /\ Descends(Squeezed(y))
      BY ConcatProperties, ConcatEqualIffEmpty
    <3> HIDE DEF y
    <3>5. NormalisePath(NoPath \o y) = NoPath \o Remaining(Squeezed(y))
      BY <3>4, InDirectory
    <3> QED BY <3>2, <3>3, <3>5 DEF y
  <2>2. CASE f # Blank
    <3>1. Directory(start) = start \o slash
      BY <1>5, <2>2 DEF Directory, EndsInSlash
    <3>2. Under(Directory(start), new) = (start \o <<u>>) \o new
      BY <1>3, <3>1 DEF Under
    <3>3. f \in STRING \ (Dots \cup {Blank})
      BY <2>2
    <3>4. NormalisePath(NoPath \o (d \o <<f, "..">> \o new)) = NoPath \o R
      BY <3>3, AfterFile
    <3>5. (start \o <<u>>) \o new = NoPath \o (d \o <<f, u>> \o new)
      <4> DEFINE g == <<f>>
                 h == <<u>>
                 m == <<f, u>>
      <4>0. b \in Seq(STRING)
        BY <1>1
      <4>1. g \in Seq(STRING) /\ h \in Seq(STRING) /\ m = g \o h /\ m \in Seq(STRING)
        <5> HIDE DEF u
        <5> QED BY <1>1, <3>3, Pair, Single
      <4>2. start = b \o (d \o g)
        BY <1>5
      <4> HIDE DEF g, h, m, b
      <4>3. /\ d \o g \in Seq(STRING) /\ (d \o g) \o h \in Seq(STRING)
            /\ (d \o g) \o h = d \o m
        <5>1. d \o g \in Seq(STRING)
          BY <4>1, ConcatProperties
        <5>2. d \o m \in Seq(STRING)
          BY <4>1, ConcatProperties
        <5>3. (d \o g) \o h = d \o (g \o h)
          BY <4>1, ConcatThrice
        <5> QED BY <4>1, <5>1, <5>2, <5>3
      <4> DEFINE dg == d \o g
                 dm == d \o m
      <4>4. dg \in Seq(STRING) /\ dm \in Seq(STRING) /\ dg \o h = dm /\ start = b \o dg
        BY <4>2, <4>3
      <4> HIDE DEF dg, dm
      <4>5. (b \o dg) \o h = b \o (dg \o h)
        <5>1. dg \in Seq(STRING) /\ h \in Seq(STRING)
          BY <4>1, <4>4
        <5> QED BY <4>0, <5>1, ConcatThrice
      <4>6. (b \o dm) \o new = b \o (dm \o new)
        <5>1. dm \in Seq(STRING)
          BY <4>4
        <5> QED BY <4>0, <5>1, ConcatThrice
      <4>7. (start \o h) \o new = b \o (dm \o new)
        BY <4>4, <4>5, <4>6
      <4> QED BY <4>7 DEF b, dm, m, h
    <3> HIDE DEF R
    <3> QED BY <3>2, <3>4, <3>5
  <2> QED BY <2>1, <2>2
<1> QED BY <1>4, <1>5

\* The goal of a reference's path is what RFC 3986 resolves it to.
LEMMA GoalResolves ==
  ASSUME NEW start, GoodPath(start),
         NEW path \in Seq(STRING), path # <<>>, path # NoPath, Manageable(start, path)
  PROVE  Goal(start, path) = Resolved(start, path)
<1> DEFINE segments == Tail(Merged(start, path))
           Ending == IF Last(path) \in Dots THEN NoPath ELSE <<>>
<1>1. /\ ~Rooted(path) => Range(start) \cap Dots = {}
      /\ Descends(segments)
      /\ Last(path) \in Dots => ~Rooted(path) /\ Range(Front(path)) \cap Dots = {}
  BY DEF Manageable, Descends
<1>2. Resolved(start, path)
        = NoPath \o Remaining(segments) \o IF Last(segments) \in Dots THEN NoPath ELSE <<>>
  BY DEF Resolved
<1> HIDE DEF segments
<1>3. CASE Rooted(path)
  <2> DEFINE y == Tail(path)
  <2>1. path[1] = Blank /\ Len(path) > 1
    BY <1>3 DEF Rooted
  <2>2. y \in Seq(STRING) /\ path = NoPath \o y /\ Len(y) = Len(path) - 1
    <3>1. y \in Seq(STRING) /\ path = <<path[1]>> \o y
      BY HeadAndTail
    <3>2. Len(y) = Len(path) - 1
      BY HeadTailProperties
    <3> QED BY <2>1, <3>1, <3>2 DEF NoPath
  <2>3. y # <<>>
    <3>1. Len(y) # 0
      BY <2>1, <2>2, LenProperties
    <3> QED BY <3>1, EmptySeq
  <2> HIDE DEF y
  <2>4. Last(y) = Last(path) /\ Last(path) \notin Dots
    <3>1. Last(NoPath \o y) = Last(y)
      BY <2>2, <2>3, NoPathType, FrontOfConcat
    <3> QED BY <1>1, <1>3, <2>2, <3>1
  <2>5. segments = Squeezed(y) /\ Last(segments) = Last(path)
    <3> DEFINE q == Squeezed(y)
    <3>1. q \in Seq(STRING) /\ q # <<>> /\ Last(q) = Last(y)
      BY <2>2, <2>3, SqueezedType
    <3>2. Merged(start, path) = NoPath \o q
      BY <1>3, <2>2, <2>3, SlashslashSqueezes DEF Merged
    <3> HIDE DEF q
    <3>3. Tail(NoPath \o q) = q
      BY <3>1, RootedList
    <3> QED BY <2>4, <3>1, <3>2, <3>3 DEF segments, q
  <2>6. Goal(start, path) = NoPath \o Remaining(segments)
    <3>1. Goal(start, path) = NormalisePath(NoPath \o y)
      BY <1>3, <2>2 DEF Goal
    <3> QED BY <1>1, <2>2, <2>3, <2>5, <3>1, InDirectory
  <2>7. Remaining(segments) \in Seq(STRING)
    BY <2>2, <2>3, <2>5, RemainingIsSqueezed
  <2> DEFINE p == NoPath \o Remaining(segments)
  <2>8. p \in Seq(STRING)
    BY <2>7, NoPathType, ConcatProperties
  <2>9. Resolved(start, path) = p \o <<>>
    BY <1>2, <2>4, <2>5
  <2> HIDE DEF p
  <2>10. Resolved(start, path) = p
    BY <2>8, <2>9, ConcatEmptySeq
  <2> QED BY <2>6, <2>10 DEF p
<1>4. CASE ~Rooted(path)
  <2> DEFINE new == Formalised(path)
  <2>1. /\ ~Rooted(new)
        /\ new = IF Last(path) \in Dots THEN Append(path, Blank) ELSE path
    BY <1>1, <1>4, FormalisedMeans
  <2>2. \E d \in Seq(STRING) :
          /\ Range(d) \cap Dots = {} /\ DirectoryOf(start) = NoPath \o d
          /\ \/ start = NoPath /\ d = <<>>
             \/ \E f \in STRING \ Dots :
                  /\ Len(start) > 1 /\ Front(start) = NoPath \o d
                  /\ start = NoPath \o (d \o <<f>>) /\ Last(start) = f
    <3>1. CASE Len(start) > 1
      <4>1. PICK d \in Seq(STRING), f \in STRING \ Dots :
              /\ Range(d) \cap Dots = {} /\ Front(start) = NoPath \o d
              /\ start = NoPath \o (d \o <<f>>) /\ Last(start) = f
        BY <1>1, <1>4, <3>1, StartParts
      <4>2. DirectoryOf(start) = NoPath \o d
        BY <3>1, <4>1 DEF DirectoryOf
      <4> QED BY <3>1, <4>1, <4>2
    <3>2. CASE ~(Len(start) > 1)
      <4> DEFINE d == <<>>
      <4>1. d \in Seq(STRING) /\ Range(d) \cap Dots = {}
        BY EmptySeq DEF Range
      <4>2. start = NoPath
        BY <1>1, <1>4, <3>2, StartParts
      <4>3. DirectoryOf(start) = NoPath
        BY <3>2 DEF DirectoryOf
      <4>4. NoPath \o d = NoPath
        BY NoPathType, ConcatEmptySeq
      <4> QED BY <4>1, <4>2, <4>3, <4>4
    <3> QED BY <3>1, <3>2
  <2>3. PICK d \in Seq(STRING) :
          /\ Range(d) \cap Dots = {} /\ DirectoryOf(start) = NoPath \o d
          /\ \/ start = NoPath /\ d = <<>>
             \/ \E f \in STRING \ Dots :
                  /\ Len(start) > 1 /\ Front(start) = NoPath \o d
                  /\ start = NoPath \o (d \o <<f>>) /\ Last(start) = f
    BY <2>2
  <2> HIDE DEF new
  <2>4. segments = Squeezed(d \o path)
    <3> DEFINE b == NoPath
               y == d \o path
               q == Squeezed(y)
    <3>1. y \in Seq(STRING) /\ y # <<>>
      BY ConcatProperties, ConcatEqualIffEmpty
    <3>2. (b \o d) \o path = b \o y
      <4>1. b \in Seq(STRING)
        BY NoPathType
      <4> HIDE DEF b
      <4> QED BY <4>1, ConcatAssociative
    <3> HIDE DEF y
    <3>3. q \in Seq(STRING) /\ q # <<>>
      BY <3>1, SqueezedType
    <3>4. Merged(start, path) = NoPath \o q
      BY <1>4, <2>3, <3>1, <3>2, SlashslashSqueezes DEF Merged
    <3> HIDE DEF q
    <3>5. Tail(NoPath \o q) = q
      BY <3>3, RootedList
    <3> QED BY <3>4, <3>5 DEF segments, q, y
  <2> DEFINE R == Remaining(segments)
             L == Squeezed(d \o new)
  <2>5. /\ new \in Seq(STRING) /\ new # <<>> /\ Descends(L)
        /\ Last(segments) = Last(path) /\ R \in Seq(STRING)
        /\ Remaining(L) = R \o Ending
    BY <1>1, <2>1, <2>4, Slashed
  <2>6. Goal(start, path) = NormalisePath(Under(Directory(start), new))
    BY <1>4, <2>1 DEF Goal, Pathspec, new
  <2>7. NormalisePath(Under(Directory(start), new)) = NoPath \o Remaining(L)
    BY <2>3, <2>5, Placed
  <2> HIDE DEF R, L
  <2>8. Ending \in Seq(STRING)
    BY NoPathType, EmptySeq
  <2>9. Resolved(start, path) = (NoPath \o R) \o Ending
    BY <1>2, <2>5 DEF R
  <2> DEFINE b == NoPath
  <2>10. b \in Seq(STRING)
    BY NoPathType
  <2> HIDE DEF b, Ending
  <2>11. (b \o R) \o Ending = b \o (R \o Ending)
    <3>1. R \in Seq(STRING)
      BY <2>5
    <3> QED BY <2>8, <2>10, <3>1, ConcatAssociative
  <2> QED BY <2>5, <2>6, <2>7, <2>9, <2>11 DEF b
<1> QED BY <1>3, <1>4

\* Joining a reference resolves it as RFC 3986 does, whatever the base, but for
\* dot segments at the root and those at an end that Manageable leaves out: the
\* loop of normalise_path() and the fold over the segments agree on every other
\* path.
THEOREM JoinsResolve == Spec => []JoinResolves
<1>1. IInv => JoinResolves
  <2> SUFFICES ASSUME IInv, joined # <<>> PROVE JoinResolves
    BY DEF JoinResolves
  <2>1. PICK base, ref : GoodAddress(base) /\ IsReference(ref) /\ joined = <<JoinOf(base, ref)>>
    BY DEF IInv, HistoryInv
  <2> DEFINE url == Join(base, ref)
             start == Start(base, ref)
             kept == ref.host \o ref.path = <<>>
  <2>2. joined[1].base = base /\ joined[1].ref = ref /\ joined[1].url = url
    BY <2>1 DEF JoinOf
  <2>3. /\ url.host = IF ref.host = <<>> THEN base.host ELSE ref.host[1]
        /\ url.path = IF ref.path = <<>> THEN start ELSE Goal(start, ref.path[1])
        /\ url.query = IF ref.query # <<>> THEN Query(ref.query, NoItems)
                       ELSE IF kept THEN base.query ELSE NoQuery
        /\ ~kept \/ ref.query \o ref.fragment # <<>> => url.fragment = ref.fragment
    BY <2>1, JoinParts
  <2>4. /\ ref.path # <<>> => ref.path[1] \in Seq(STRING) /\ ref.path[1] # <<>> /\ ref.path[1] # NoPath
        /\ ref.query \in Seq(Fields)
    BY <2>1, ReferenceParts
  <2>5. GoodPath(start)
    BY <2>1, NoPathType DEF Start, GoodAddress, GoodPath
  <2> HIDE DEF url
  <2>6. AsString(url.query) = IF ref.query = <<>> /\ kept THEN AsString(base.query) ELSE ref.query
    <3>1. CASE ref.query # <<>>
      BY <2>3, <2>4, <3>1, GivenQuery
    <3>2. CASE ref.query = <<>>
      BY <2>3, <3>2, BlankQuery
    <3> QED BY <3>1, <3>2
  <2>7. start = IF ref.host = <<>> THEN base.path ELSE Root
    BY DEF Start
  <2> HIDE DEF start
  <2>8. ref.path # <<>> /\ Manageable(start, ref.path[1]) =>
          url.path = Resolved(start, ref.path[1])
    BY <2>3, <2>4, <2>5, GoalResolves
  <2> HIDE DEF kept
  <2> QED BY <2>2, <2>3, <2>6, <2>7, <2>8 DEF JoinResolves, kept
<1> QED BY <1>1, AlwaysRight, PTL
=============================================================================
