------------------------------ MODULE Pop3Proofs ------------------------------
(***************************************************************************)
(* Proofs about Pop3, for mailboxes and batches of any size, whatever      *)
(* happens between the logins: only what the application approved is gone  *)
(* because of it, and once the last QUIT has arrived all of that is; the   *)
(* messages of the first session are read newest first, each once.         *)
(***************************************************************************)
EXTENDS Pop3, WellFoundedInduction, SequenceTheorems, TLAPS

\* Each session, the current one and those that quit, has deleted only approved
\* messages, by the numbers that it has given them itself.
Approved ==
  /\ mailbox = [list |-> mailbox.list, deleted |-> mailbox.deleted]
  /\ mailbox.deleted \subseteq approved
  /\ \A deleted \in closing : deleted \subseteq approved
  /\ at = "delete" => Target \in approved

IInv == Approved /\ OnlyApprovedRemoved

-----------------------------------------------------------------------------
\* Nothing is deleted.
LEMMA InitIInv == Init => IInv
BY DEF Init, IInv, Approved, OnlyApprovedRemoved, NoSession

\* The message that the callback approves is the one that DELE will name: the
\* session and the loop's number stay until then.
LEMMA RetrieveIInv ==
  ASSUME IInv, Retrieve
  PROVE  IInv'
<1>1. CASE approved' = approved \cup {mailbox.list[i]} /\ at' = "delete" /\ UNCHANGED i
  BY <1>1 DEF IInv, Approved, OnlyApprovedRemoved, Retrieve, Target, server
<1>2. CASE Advance /\ UNCHANGED approved
  BY <1>2 DEF IInv, Approved, OnlyApprovedRemoved, Retrieve, Advance, server
<1>3. QED
  BY <1>1, <1>2 DEF Retrieve

LEMMA DeleteIInv ==
  ASSUME IInv, Delete
  PROVE  IInv'
<1>1. /\ Target \in approved /\ at' # "delete"
      /\ UNCHANGED <<approved, closing, removed>>
  BY DEF IInv, Approved, Delete, Advance, server
<1>2. mailbox' = [list |-> mailbox.list, deleted |-> mailbox.deleted \cup {Target}]
  BY DEF IInv, Approved, Delete
<1>3. QED
  BY <1>1, <1>2 DEF IInv, Approved, OnlyApprovedRemoved

\* A session that ends hands over what it has deleted, and the last DELE with it
\* when that may have been received.
LEMMA FailIInv ==
  ASSUME IInv, Fail
  PROVE  IInv'
<1>1. \A deleted \in closing' : deleted \subseteq approved
  BY DEF IInv, Approved, Fail, QuitSession
<1>2. QED
  BY <1>1 DEF IInv, Approved, OnlyApprovedRemoved, Fail, NoSession, server

\* Every step of the client, the server and the world keeps the invariant.
LEMMA NextIInv == IInv /\ [Next]_vars => IInv'
<1> SUFFICES ASSUME IInv, [Next]_vars PROVE IInv'
  OBVIOUS
<1>1. CASE Login
  BY <1>1 DEF IInv, Approved, OnlyApprovedRemoved, Login, Session, server
<1>2. CASE Retrieve
  BY <1>2, RetrieveIInv
<1>3. CASE Delete
  BY <1>3, DeleteIInv
<1>4. CASE Relogin
  BY <1>4 DEF IInv, Approved, OnlyApprovedRemoved, Relogin, QuitSession, Session, server
<1>5. CASE ReloginShrunk
  BY <1>5 DEF IInv, Approved, OnlyApprovedRemoved, ReloginShrunk, NoSession, server
<1>6. CASE Done
  BY <1>6 DEF IInv, Approved, OnlyApprovedRemoved, Done, QuitSession, NoSession, server
<1>7. CASE Fail
  BY <1>7, FailIInv
<1>8. ASSUME NEW deleted \in closing, Update(deleted) PROVE IInv'
  BY <1>8 DEF IInv, Approved, OnlyApprovedRemoved, Update, Target, client
<1>9. ASSUME NEW deleted \in closing, LoseQuit(deleted) PROVE IInv'
  BY <1>9 DEF IInv, Approved, OnlyApprovedRemoved, LoseQuit, Target, client
<1>10. CASE Arrive
  BY <1>10 DEF IInv, Approved, OnlyApprovedRemoved, Arrive, Target, client
<1>11. ASSUME NEW m \in ToSet(maildrop), DeletedElsewhere(m) PROVE IInv'
  BY <1>11 DEF IInv, Approved, OnlyApprovedRemoved, DeletedElsewhere, Target, client
<1>12. CASE UNCHANGED vars
  BY <1>12 DEF IInv, Approved, OnlyApprovedRemoved, Target, vars, client, server
<1>13. QED
  BY <1>1, <1>2, <1>3, <1>4, <1>5, <1>6, <1>7, <1>8, <1>9, <1>10, <1>11, <1>12
  DEF Next, Client

\* Whatever arrives, is deleted elsewhere, is lost or fails between the logins,
\* no message goes that the application has not approved, although each session
\* numbers the mailbox afresh.
THEOREM ApprovedOnly == Spec => []OnlyApprovedRemoved
<1>1. IInv => OnlyApprovedRemoved
  BY DEF IInv
<1>2. QED
  BY <1>1, InitIInv, NextIInv, PTL DEF Spec

-----------------------------------------------------------------------------
(***************************************************************************)
(* What is left of a list.  A statement about each place in a list is shown *)
(* of the least place where it could be false.                             *)
(***************************************************************************)

LEMMA Least ==
  ASSUME NEW T, T \subseteq Nat, T # {}
  PROVE  \E x \in T : \A y \in T : x <= y
<1> DEFINE R == OpToRel(<, Nat)
<1>0. R = {ss \in Nat \X Nat : ss[1] < ss[2]}
  BY Zenon DEF OpToRel
<1>1. IsWellFoundedOn(R, Nat)
  BY NatLessThanWellFounded, Zenon
<1> HIDE DEF R
<1>2. PICK x \in T : \A y \in T : ~(<<y, x>> \in R)
  BY <1>1, WFMin, Zenon
<1>3. ASSUME NEW y \in T PROVE x <= y
  <2>1. x \in Nat /\ y \in Nat /\ <<y, x>> \notin R
    BY <1>2
  <2>2. <<y, x>> \in Nat \X Nat /\ <<y, x>>[1] = y /\ <<y, x>>[2] = x
    BY <2>1
  <2>3. ~(y < x)
    BY <1>0, <2>1, <2>2
  <2> QED BY <2>1, <2>3
<1> QED BY <1>3

\* One step of the recursion.
Turn(list, gone, left, n) ==
  IF n = 0 THEN <<>>
  ELSE IF list[n] \in gone THEN left[n - 1]
  ELSE Append(left[n - 1], list[n])

\* There is a function that the recursive definition describes.
LEMMA TurnsExist ==
  ASSUME NEW list \in Seq(Mail), NEW gone
  PROVE  \A n \in 0..Len(list) : \E f : f = [k \in 0..n |-> Turn(list, gone, f, k)]
<1> DEFINE has(n) == \E f : f = [k \in 0..n |-> Turn(list, gone, f, k)]
           bad == {n \in 0..Len(list) : ~has(n)}
<1> SUFFICES ASSUME bad # {} PROVE FALSE
  OBVIOUS
<1>1. PICK n \in bad : \A m \in bad : n <= m
  <2>1. bad \subseteq Nat
    OBVIOUS
  <2> HIDE DEF bad
  <2> QED BY <2>1, Least
<1>2. CASE n = 0
  <2> DEFINE f == [k \in 0..0 |-> <<>>]
  <2>1. f = [k \in 0..0 |-> Turn(list, gone, f, k)]
    BY DEF Turn
  <2> QED BY <1>1, <1>2, <2>1
<1>3. CASE n > 0
  <2>1. n - 1 \in 0..Len(list) /\ n - 1 \notin bad
    BY <1>1, <1>3
  <2>2. PICK f : f = [k \in 0..(n - 1) |-> Turn(list, gone, f, k)]
    BY <2>1
  <2> DEFINE g == [k \in 0..n |-> IF k < n THEN f[k] ELSE Turn(list, gone, f, k)]
  <2>3. \A k \in 0..n : g[k] = Turn(list, gone, g, k)
    <3> SUFFICES ASSUME NEW k \in 0..n PROVE g[k] = Turn(list, gone, g, k)
      OBVIOUS
    <3>0. n \in Nat
      BY <1>1
    <3>1. CASE k = 0
      <4>1. g[k] = f[k] /\ f[k] = Turn(list, gone, f, k)
        BY <1>3, <2>2, <3>0, <3>1
      <4> QED BY <3>1, <4>1 DEF Turn
    <3>2. CASE k > 0
      <4>1. k - 1 \in 0..n /\ k - 1 < n
        BY <3>0, <3>2
      <4>2. g[k - 1] = f[k - 1]
        BY <4>1
      <4>3. Turn(list, gone, g, k) = Turn(list, gone, f, k)
        BY <3>2, <4>2 DEF Turn
      <4>4. g[k] = Turn(list, gone, f, k)
        <5>1. CASE k < n
          <6>1. k \in 0..(n - 1)
            BY <3>0, <5>1
          <6> QED BY <2>2, <5>1, <6>1
        <5>2. CASE k = n
          BY <5>2
        <5> QED BY <3>0, <5>1, <5>2
      <4> QED BY <4>3, <4>4
    <3> QED BY <3>0, <3>1, <3>2
  <2>4. g = [k \in 0..n |-> Turn(list, gone, g, k)]
    BY <2>3
  <2> QED BY <1>1, <2>4
<1> QED BY <1>1, <1>2, <1>3

\* So what is left is reached by that many steps.
LEMMA RemainingIs ==
  ASSUME NEW list \in Seq(Mail), NEW gone
  PROVE  \E left :
           /\ left[0] = <<>>
           /\ \A n \in 1..Len(list) :
                left[n] = IF list[n] \in gone THEN left[n - 1]
                          ELSE Append(left[n - 1], list[n])
           /\ Remaining(list, gone) = left[Len(list)]
<1> DEFINE f == CHOOSE g : g = [n \in 0..Len(list) |-> Turn(list, gone, g, n)]
<1>1. Remaining(list, gone) = f[Len(list)]
  BY DEF Remaining, Turn
<1>2. Len(list) \in 0..Len(list)
  OBVIOUS
<1>3. f = [n \in 0..Len(list) |-> Turn(list, gone, f, n)]
  BY <1>2, TurnsExist
<1> HIDE DEF f
<1>4. 0 \in 0..Len(list) /\ \A n \in 1..Len(list) : n \in 0..Len(list) /\ n # 0
  BY <1>2
<1>5. f[0] = <<>>
  BY <1>3, <1>4 DEF Turn
<1>6. \A n \in 1..Len(list) : f[n] = Turn(list, gone, f, n)
  BY <1>3, <1>4
<1>7. \A n \in 1..Len(list) :
        f[n] = IF list[n] \in gone THEN f[n - 1] ELSE Append(f[n - 1], list[n])
  BY <1>4, <1>6 DEF Turn
<1> QED BY <1>1, <1>5, <1>7

\* An item of a list that has one more.
LEMMA Appended ==
  \A s \in Seq(Mail) : \A m \in Mail :
    /\ Append(s, m) \in Seq(Mail)
    /\ Len(Append(s, m)) = Len(s) + 1
    /\ \A k \in 1..Len(s) : Append(s, m)[k] = s[k]
    /\ Append(s, m)[Len(s) + 1] = m
OBVIOUS

\* What is left are the messages that are not gone, each once if each was
\* there once; and of the first ones all, in their places, if none of them is
\* gone.
LEMMA RemainingProps ==
  ASSUME NEW list \in Seq(Mail), NEW gone, IsInjective(list)
  PROVE  /\ Remaining(list, gone) \in Seq(Mail)
         /\ IsInjective(Remaining(list, gone))
         /\ Len(Remaining(list, gone)) <= Len(list)
         /\ \A k \in DOMAIN Remaining(list, gone) :
              /\ Remaining(list, gone)[k] \notin gone
              /\ \E j \in DOMAIN list : Remaining(list, gone)[k] = list[j]
         /\ \A p \in 0..Len(list) :
              (\A k \in 1..p : list[k] \notin gone) =>
                /\ p <= Len(Remaining(list, gone))
                /\ \A k \in 1..p : Remaining(list, gone)[k] = list[k]
<1>1. PICK left :
        /\ left[0] = <<>>
        /\ \A n \in 1..Len(list) :
             left[n] = IF list[n] \in gone THEN left[n - 1]
                       ELSE Append(left[n - 1], list[n])
        /\ Remaining(list, gone) = left[Len(list)]
  BY RemainingIs
<1> DEFINE typed(n) == left[n] \in Seq(Mail) /\ Len(left[n]) <= n
           from(n) == \A k \in 1..Len(left[n]) :
                        /\ left[n][k] \notin gone
                        /\ \E j \in 1..n : left[n][k] = list[j]
           once(n) == \A a, b \in 1..Len(left[n]) : left[n][a] = left[n][b] => a = b
           firsts(n) == \A p \in 0..n : (\A k \in 1..p : list[k] \notin gone) =>
                          /\ p <= Len(left[n])
                          /\ \A k \in 1..p : left[n][k] = list[k]
           good(n) == typed(n) /\ from(n) /\ once(n) /\ firsts(n)
           bad == {n \in 0..Len(list) : ~good(n)}
<1>2. bad = {}
  <2> SUFFICES ASSUME bad # {} PROVE FALSE
    OBVIOUS
  <2>1. PICK n \in bad : \A m \in bad : n <= m
    <3>1. bad \subseteq Nat
      OBVIOUS
    <3> HIDE DEF bad
    <3> QED BY <3>1, Least
  <2>2. n \in 0..Len(list) /\ ~good(n)
    BY <2>1
  <2>3. CASE n = 0
    <3>0. left[n] = <<>>
      BY <1>1, <2>3
    <3>1. left[n] = <<>> /\ Len(left[n]) = 0 /\ left[n] \in Seq(Mail)
      BY <3>0
    <3> QED BY <2>2, <2>3, <3>1
  <2>4. CASE n > 0
    <3>1. n \in 1..Len(list) /\ n - 1 \in 0..Len(list) /\ n - 1 \notin bad
      <4> HIDE DEF bad
      <4>1. n \in 1..Len(list) /\ n - 1 \in 0..Len(list) /\ ~(n <= n - 1)
        BY <2>2, <2>4
      <4> QED BY <2>1, <4>1
    <3>2. good(n - 1)
      BY <3>1
    <3> DEFINE s == left[n - 1]
               m == list[n]
    <3>3. s \in Seq(Mail) /\ m \in Mail /\ Len(s) \in Nat /\ Len(s) <= n - 1 /\ n \in Nat
      BY <2>2, <3>1, <3>2
    <3>4. CASE m \in gone
      <4>1. left[n] = s
        BY <1>1, <3>1, <3>4
      <4>2. typed(n) /\ once(n)
        BY <3>2, <3>3, <4>1
      <4>3. from(n)
        BY <3>2, <3>3, <4>1
      <4>4. firsts(n)
        <5> SUFFICES ASSUME NEW p \in 0..n, \A k \in 1..p : list[k] \notin gone
                     PROVE  p <= Len(left[n]) /\ \A k \in 1..p : left[n][k] = list[k]
          OBVIOUS
        <5>1. p \in 0..(n - 1)
          BY <3>3, <3>4
        <5> QED BY <3>2, <4>1, <5>1
      <4> QED BY <2>2, <4>2, <4>3, <4>4
    <3>5. CASE m \notin gone
      <4>1. left[n] = Append(s, m)
        BY <1>1, <3>1, <3>5
      <4> HIDE DEF s, m
      <4> DEFINE l == Len(s)
      <4>2. /\ left[n] \in Seq(Mail)
            /\ Len(left[n]) = l + 1
            /\ \A k \in 1..l : left[n][k] = s[k]
            /\ left[n][l + 1] = m
        BY <3>3, <4>1, Appended
      <4>3. l \in Nat /\ l <= n - 1 /\ n \in Nat
        BY <3>3
      <4>4. /\ \A k \in 1..l : s[k] \notin gone /\ \E j \in 1..(n - 1) : s[k] = list[j]
            /\ \A a, b \in 1..l : s[a] = s[b] => a = b
            /\ \A p \in 0..(n - 1) : (\A k \in 1..p : list[k] \notin gone) =>
                 p <= l /\ \A k \in 1..p : s[k] = list[k]
        BY <3>2 DEF s
      <4> HIDE DEF l
      <4>5. typed(n)
        BY <4>2, <4>3
      <4>6. from(n)
        <5> SUFFICES ASSUME NEW k \in 1..Len(left[n])
                     PROVE  /\ left[n][k] \notin gone
                            /\ \E j \in 1..n : left[n][k] = list[j]
          OBVIOUS
        <5>1. CASE k = l + 1
          BY <3>5, <4>2, <4>3, <5>1 DEF m
        <5>2. CASE k # l + 1
          <6>1. k \in 1..l
            BY <4>2, <4>3, <5>2
          <6>2. PICK j \in 1..(n - 1) : s[k] = list[j]
            BY <4>4, <6>1
          <6>3. j \in 1..n
            BY <4>3
          <6> QED BY <4>2, <4>4, <6>1, <6>2, <6>3
        <5> QED BY <5>1, <5>2
      <4>7. \A k \in 1..l : s[k] # m
        <5> SUFFICES ASSUME NEW k \in 1..l PROVE s[k] # m
          OBVIOUS
        <5>1. PICK j \in 1..(n - 1) : s[k] = list[j]
          BY <4>4
        <5>2. j \in DOMAIN list /\ n \in DOMAIN list /\ j # n
          BY <3>1, <4>3
        <5> QED BY <5>1, <5>2 DEF m, IsInjective
      <4>8. once(n)
        <5> SUFFICES ASSUME NEW a \in 1..(l + 1), NEW b \in 1..(l + 1),
                            left[n][a] = left[n][b]
                     PROVE  a = b
          BY <4>2
        <5>1. CASE a = l + 1 /\ b # l + 1
          <6>1. b \in 1..l
            BY <4>3, <5>1
          <6> QED BY <4>2, <4>7, <5>1, <6>1
        <5>2. CASE a # l + 1 /\ b = l + 1
          <6>1. a \in 1..l
            BY <4>3, <5>2
          <6> QED BY <4>2, <4>7, <5>2, <6>1
        <5>3. CASE a # l + 1 /\ b # l + 1
          <6>1. a \in 1..l /\ b \in 1..l
            BY <4>3, <5>3
          <6> QED BY <4>2, <4>4, <6>1
        <5> QED BY <5>1, <5>2, <5>3
      <4>9. firsts(n)
        <5> SUFFICES ASSUME NEW p \in 0..n, \A k \in 1..p : list[k] \notin gone
                     PROVE  p <= Len(left[n]) /\ \A k \in 1..p : left[n][k] = list[k]
          OBVIOUS
        <5>1. CASE p \in 0..(n - 1)
          <6>1. p <= l /\ \A k \in 1..p : s[k] = list[k]
            BY <4>4, <5>1
          <6>2. \A k \in 1..p : k \in 1..l
            BY <4>3, <5>1, <6>1
          <6> QED BY <4>2, <4>3, <5>1, <6>1, <6>2
        <5>2. CASE p = n
          <6>1. n - 1 \in 0..(n - 1) /\ \A k \in 1..(n - 1) : k \in 1..p
            BY <4>3, <5>2
          <6>2. n - 1 <= l /\ \A k \in 1..(n - 1) : s[k] = list[k]
            BY <4>4, <6>1
          <6>3. l = n - 1
            BY <4>3, <6>2
          <6>4. \A k \in 1..n : k = n \/ k \in 1..(n - 1)
            BY <4>3
          <6>5. left[n][n] = list[n]
            BY <4>2, <4>3, <6>3 DEF m
          <6> QED BY <4>2, <4>3, <5>2, <6>2, <6>3, <6>4, <6>5
        <5> QED BY <4>3, <5>1, <5>2
      <4> QED BY <2>2, <4>5, <4>6, <4>8, <4>9
    <3> QED BY <3>4, <3>5
  <2> QED BY <2>2, <2>3, <2>4
<1>3. good(Len(list))
  <2>1. Len(list) \in 0..Len(list)
    OBVIOUS
  <2> QED BY <1>2, <2>1
<1> DEFINE r == Remaining(list, gone)
<1>4. r = left[Len(list)] /\ r \in Seq(Mail) /\ DOMAIN r = 1..Len(r)
  BY <1>1, <1>3
<1> HIDE DEF r
<1>5. IsInjective(r)
  BY <1>3, <1>4 DEF IsInjective
<1>6. Len(r) <= Len(list)
  BY <1>3, <1>4
<1>7. \A k \in DOMAIN r : r[k] \notin gone /\ \E j \in DOMAIN list : r[k] = list[j]
  BY <1>3, <1>4
<1>8. \A p \in 0..Len(list) : (\A k \in 1..p : list[k] \notin gone) =>
        p <= Len(r) /\ \A k \in 1..p : r[k] = list[k]
  BY <1>3, <1>4
<1> QED BY <1>4, <1>5, <1>6, <1>7, <1>8 DEF r

-----------------------------------------------------------------------------
(***************************************************************************)
(* Types.                                                                  *)
(***************************************************************************)

\* No message is known that has not arrived, and the mailbox has no more of them.
Numbers ==
  /\ \A k \in 1..Len(maildrop) : maildrop[k] <= arrived
  /\ Len(maildrop) <= arrived
  /\ \A k \in 1..Len(mailbox.list) : mailbox.list[k] <= arrived
  /\ \A m \in approved : m <= arrived

\* The client is in the loop, and the loop's number is one of its session.
Active == at \in {"loop", "delete", "relogin"}
Place ==
  /\ messages = Len(first) \/ (misread /\ messages = 0)
  /\ at \in {"delete", "relogin"} => i >= 1
  /\ Active => i <= Len(mailbox.list)

TypeInv == TypeOK /\ Numbers /\ Place

\* The parts of a session.
LEMMA SessionParts ==
  ASSUME TypeOK
  PROVE  /\ mailbox = [list |-> mailbox.list, deleted |-> mailbox.deleted]
         /\ mailbox.list \in Seq(Mail)
         /\ mailbox.deleted \subseteq Mail
BY DEF TypeOK

LEMMA InitTypeInv == Init => TypeInv
<1> SUFFICES ASSUME Init PROVE TypeInv
  OBVIOUS
<1> USE DEF Init
<1>0. MaxMail \in Nat /\ MaxForeign \in Nat /\ arrived \in Nat
  BY Pop3Assumption
<1>1. maildrop \in Seq(Mail) /\ Len(maildrop) = arrived
  BY <1>0 DEF Mail
<1>2. \A k \in 1..Len(maildrop) : maildrop[k] = k
  BY <1>0, <1>1
<1>3. IsInjective(maildrop)
  BY <1>1, <1>2 DEF IsInjective
<1>4. mailbox \in [list : Seq(Mail), deleted : SUBSET Mail] /\ mailbox.list = <<>>
  BY DEF NoSession
<1>5. TypeOK
  <2>1. messages \in 0..MaxMail /\ i \in 0..messages /\ foreign \in 0..MaxForeign
    BY <1>0
  <2>2. first \in Seq(Mail) /\ read \in Seq(Mail)
    OBVIOUS
  <2>3. /\ arrived \in 0..MaxMail /\ exclusive \in BOOLEAN /\ lost \in BOOLEAN
        /\ misread \in BOOLEAN
    OBVIOUS
  <2>4. /\ closing \in SUBSET (SUBSET Mail) /\ approved \in SUBSET Mail
        /\ removed \in SUBSET Mail
        /\ at \in {"login", "loop", "delete", "relogin", "done", "failed", "shrunk"}
    OBVIOUS
  <2> QED BY <1>1, <1>3, <1>4, <2>1, <2>2, <2>3, <2>4, Zenon DEF TypeOK
<1>6. Numbers
  BY <1>0, <1>1, <1>2, <1>4 DEF Numbers
<1>7. Place
  BY DEF Place, Active
<1> QED BY <1>5, <1>6, <1>7 DEF TypeInv

\* What is counted is the mailbox, or nothing.
LEMMA Counted ==
  ASSUME Login
  PROVE  /\ messages' = i'
         /\ i' = Len(maildrop) \/ (misread' /\ i' = 0)
         /\ misread' \in BOOLEAN
<1>1. PICK ok \in BOOLEAN :
        messages' = MessageCount(ok) /\ i' = MessageCount(ok) /\ misread' = ~ok
  BY DEF Login
<1>2. MessageCount(ok) = Len(maildrop) \/ (~ok /\ MessageCount(ok) = 0)
  BY DEF MessageCount
<1> QED BY <1>1, <1>2, Zenon

LEMMA LoginTypes ==
  ASSUME TypeInv, Login
  PROVE  TypeInv'
<1>0. MaxMail \in Nat /\ arrived \in 0..MaxMail /\ Len(maildrop) \in Nat /\ Len(maildrop) <= arrived
  BY Pop3Assumption DEF TypeInv, TypeOK, Numbers
<1>1. mailbox' = [list |-> maildrop, deleted |-> {}] /\ mailbox'.list = maildrop
  BY DEF Login, Session
<1>2. mailbox' \in [list : Seq(Mail), deleted : SUBSET Mail]
  BY <1>1 DEF TypeInv, TypeOK
<1>3. /\ messages' \in 0..MaxMail /\ i' \in 0..messages' /\ i' <= Len(maildrop)
      /\ messages' = Len(maildrop) \/ (misread' /\ messages' = 0)
      /\ misread' \in BOOLEAN
  <2>1. messages' = i' /\ (i' = Len(maildrop) \/ (misread' /\ i' = 0))
    BY Counted
  <2>2. i' = Len(maildrop) \/ i' = 0
    BY <2>1
  <2>3. messages' \in 0..MaxMail /\ i' \in 0..messages' /\ i' <= Len(maildrop)
    BY <1>0, <2>1, <2>2
  <2> QED BY <2>1, <2>3, Counted, Zenon
<1>4. /\ at' = "loop" /\ first' = maildrop
      /\ UNCHANGED <<server, closing, read, approved>>
  BY DEF Login
<1>5. TypeOK'
  BY <1>2, <1>3, <1>4 DEF TypeInv, TypeOK, server
<1>6. Numbers'
  BY <1>1, <1>4 DEF TypeInv, Numbers, server
<1>7. Place'
  BY <1>1, <1>3, <1>4 DEF Place, Active
<1> QED BY <1>5, <1>6, <1>7 DEF TypeInv

LEMMA RetrieveTypes ==
  ASSUME TypeInv, Retrieve
  PROVE  TypeInv'
<1>0. /\ mailbox.list \in Seq(Mail) /\ Len(mailbox.list) \in Nat
      /\ messages \in Nat /\ i \in 0..messages
  BY SessionParts, Pop3Assumption DEF TypeInv, TypeOK
<1>1. i \in 1..Len(mailbox.list) /\ mailbox.list[i] \in Mail /\ mailbox.list[i] <= arrived
  BY <1>0 DEF Retrieve, TypeInv, Numbers
<1>2. approved' \subseteq approved \cup {mailbox.list[i]} /\ read' \in Seq(Mail)
  BY <1>1 DEF Retrieve, TypeInv, TypeOK
<1>3. /\ \/ at' \in {"delete", "relogin"} /\ i' = i
         \/ at' = "loop" /\ i' = i - 1
      /\ i' \in 0..messages
  BY <1>0, <1>1 DEF Retrieve, Advance
<1>4. TypeOK'
  <2>1. at' \in {"login", "loop", "delete", "relogin", "done", "failed", "shrunk"}
    BY <1>3
  <2>2. approved' \subseteq Mail
    BY <1>1, <1>2 DEF TypeInv, TypeOK
  <2> QED BY <1>2, <1>3, <2>1, <2>2 DEF TypeInv, TypeOK, Retrieve, server
<1>5. Numbers'
  BY <1>1, <1>2 DEF TypeInv, Numbers, Retrieve, server
<1>6. Place'
  BY <1>0, <1>1, <1>3 DEF TypeInv, Place, Active, Retrieve
<1> QED BY <1>4, <1>5, <1>6 DEF TypeInv

LEMMA DeleteTypes ==
  ASSUME TypeInv, Delete
  PROVE  TypeInv'
<1>0. /\ mailbox.list \in Seq(Mail) /\ Len(mailbox.list) \in Nat
      /\ messages \in Nat /\ i \in 0..messages
  BY SessionParts, Pop3Assumption DEF TypeInv, TypeOK
<1>1. i \in 1..Len(mailbox.list) /\ Target \in Mail
  BY <1>0 DEF Delete, TypeInv, Place, Active, Target
<1>2. mailbox' = [list |-> mailbox.list, deleted |-> mailbox.deleted \cup {Target}]
  BY SessionParts DEF Delete, TypeInv
<1>3. mailbox' \in [list : Seq(Mail), deleted : SUBSET Mail] /\ mailbox'.list = mailbox.list
  BY <1>1, <1>2, SessionParts DEF TypeInv
<1>4. /\ \/ at' = "relogin" /\ i' = i
         \/ at' = "loop" /\ i' = i - 1
      /\ i' \in 0..messages
  BY <1>0, <1>1 DEF Delete, Advance
<1>5. TypeOK'
  <2>1. at' \in {"login", "loop", "delete", "relogin", "done", "failed", "shrunk"}
    BY <1>4
  <2> QED BY <1>3, <1>4, <2>1 DEF TypeInv, TypeOK, Delete, server
<1>6. Numbers'
  BY <1>3 DEF TypeInv, Numbers, Delete, server
<1>7. Place'
  BY <1>0, <1>1, <1>3, <1>4 DEF TypeInv, Place, Active, Delete
<1> QED BY <1>5, <1>6, <1>7 DEF TypeInv

LEMMA ReloginTypes ==
  ASSUME TypeInv, Relogin
  PROVE  TypeInv'
<1>0. /\ maildrop \in Seq(Mail) /\ Len(maildrop) \in Nat /\ Len(maildrop) >= i
      /\ messages \in Nat /\ i \in 0..messages /\ i >= 1
  BY Pop3Assumption DEF TypeInv, TypeOK, Place, Relogin, MessageCount
<1>1. mailbox' = [list |-> maildrop, deleted |-> {}] /\ mailbox'.list = maildrop
  BY DEF Relogin, Session
<1>2. mailbox' \in [list : Seq(Mail), deleted : SUBSET Mail]
  BY <1>0, <1>1
<1>3. closing' \in SUBSET (SUBSET Mail)
  BY SessionParts DEF TypeInv, TypeOK, Relogin, QuitSession
<1>4. i' \in 0..messages
  BY <1>0 DEF Relogin
<1>5. TypeOK'
  BY <1>2, <1>3, <1>4 DEF TypeInv, TypeOK, Relogin, server
<1>6. Numbers'
  BY <1>1 DEF TypeInv, Numbers, Relogin, server
<1>7. Place'
  BY <1>0, <1>1 DEF TypeInv, Place, Active, Relogin
<1> QED BY <1>5, <1>6, <1>7 DEF TypeInv

\* The session ends and no other starts.
LEMMA EndTypes ==
  ASSUME TypeInv, ReloginShrunk \/ Done \/ Fail
  PROVE  TypeInv'
<1>1. mailbox' = NoSession /\ at' \in {"shrunk", "done", "failed"}
  BY DEF ReloginShrunk, Done, Fail
<1>2. /\ mailbox' \in [list : Seq(Mail), deleted : SUBSET Mail]
      /\ mailbox'.list = <<>>
  BY <1>1 DEF NoSession
<1>3. closing' \in SUBSET (SUBSET Mail)
  <2>1. mailbox.deleted \subseteq Mail /\ closing \in SUBSET (SUBSET Mail)
    BY SessionParts DEF TypeInv, TypeOK
  <2>2. CASE ReloginShrunk
    BY <2>1, <2>2 DEF ReloginShrunk
  <2>3. CASE Done
    BY <2>1, <2>3 DEF Done, QuitSession
  <2>4. CASE Fail
    <3>1. at = "delete" => Target \in Mail
      <4>1. i \in Nat /\ Len(mailbox.list) \in Nat /\ mailbox.list \in Seq(Mail)
        BY SessionParts, Pop3Assumption DEF TypeInv, TypeOK
      <4> QED BY <4>1 DEF TypeInv, Place, Active, Target
    <3> QED BY <2>1, <2>4, <3>1 DEF Fail, QuitSession
  <2> QED BY <2>2, <2>3, <2>4
<1>4. UNCHANGED <<server, messages, i, first, read, approved>>
  BY DEF ReloginShrunk, Done, Fail
<1>5. misread' \in BOOLEAN /\ (misread => misread')
  <2>1. ReloginShrunk => \E ok \in BOOLEAN : misread' = (misread \/ ~ok)
    BY DEF ReloginShrunk
  <2>2. Done \/ Fail => misread' = misread
    BY DEF Done, Fail
  <2>3. misread \in BOOLEAN
    BY DEF TypeInv, TypeOK
  <2>4. CASE ReloginShrunk
    <3>1. PICK ok \in BOOLEAN : misread' = (misread \/ ~ok)
      BY <2>1, <2>4
    <3> QED BY <3>1, Zenon
  <2>5. CASE Done \/ Fail
    <3>1. misread' = misread
      BY <2>2, <2>5, Zenon
    <3> QED BY <2>3, <3>1
  <2> QED BY <2>4, <2>5, Zenon
<1>6. TypeOK'
  BY <1>1, <1>2, <1>3, <1>4, <1>5 DEF TypeInv, TypeOK, server
<1>7. Numbers'
  BY <1>2, <1>4 DEF TypeInv, Numbers, server
<1>8. Place'
  BY <1>1, <1>4, <1>5 DEF TypeInv, Place, Active
<1> QED BY <1>6, <1>7, <1>8 DEF TypeInv

\* The mailbox without some of its messages.
LEMMA RemovalTypes ==
  ASSUME TypeInv, NEW gone, maildrop' = Remaining(maildrop, gone),
         UNCHANGED <<exclusive, arrived, client>>,
         closing' \subseteq closing, removed' \subseteq Mail,
         foreign' \in 0..MaxForeign, lost' \in BOOLEAN
  PROVE  TypeInv'
<1>0. /\ maildrop \in Seq(Mail) /\ IsInjective(maildrop)
      /\ arrived \in Nat /\ Len(maildrop) \in Nat /\ Len(maildrop) <= arrived
  BY Pop3Assumption DEF TypeInv, TypeOK, Numbers
<1>1. /\ maildrop' \in Seq(Mail) /\ IsInjective(maildrop')
      /\ Len(maildrop') <= Len(maildrop)
      /\ \A k \in DOMAIN maildrop' : \E j \in DOMAIN maildrop : maildrop'[k] = maildrop[j]
  BY <1>0, RemainingProps
<1>2. TypeOK'
  BY <1>1 DEF TypeInv, TypeOK, client
<1>3. \A k \in 1..Len(maildrop') : maildrop'[k] <= arrived
  BY <1>0, <1>1 DEF TypeInv, Numbers
<1>4. Len(maildrop') <= arrived
  BY <1>0, <1>1
<1>5. Numbers'
  BY <1>3, <1>4 DEF TypeInv, Numbers, client
<1>6. Place'
  BY DEF TypeInv, Place, Active, client
<1> QED BY <1>2, <1>5, <1>6 DEF TypeInv

LEMMA ArriveTypes ==
  ASSUME TypeInv, Arrive
  PROVE  TypeInv'
<1>0. /\ maildrop \in Seq(Mail) /\ IsInjective(maildrop) /\ MaxMail \in Nat
      /\ arrived \in 0..MaxMail /\ Len(maildrop) \in Nat /\ Len(maildrop) <= arrived
      /\ \A k \in 1..Len(maildrop) : maildrop[k] <= arrived
  BY Pop3Assumption DEF TypeInv, TypeOK, Numbers
<1>1. /\ arrived' = arrived + 1 /\ arrived' \in Mail /\ arrived' \in 0..MaxMail
      /\ maildrop' = Append(maildrop, arrived')
  BY <1>0 DEF Arrive, Mail
<1>2. /\ maildrop' \in Seq(Mail) /\ Len(maildrop') = Len(maildrop) + 1
      /\ \A k \in 1..Len(maildrop) : maildrop'[k] = maildrop[k]
      /\ maildrop'[Len(maildrop) + 1] = arrived + 1
  BY <1>0, <1>1, Appended
<1> DEFINE l == Len(maildrop)
<1>3. \A k \in 1..(l + 1) :
        \/ k \in 1..l /\ maildrop'[k] = maildrop[k] /\ maildrop[k] \in Nat
        \/ k = l + 1 /\ maildrop'[k] = arrived + 1
  <2>1. \A k \in 1..l : maildrop[k] \in Nat
    BY <1>0 DEF Mail
  <2>2. \A k \in 1..(l + 1) : k \in 1..l \/ k = l + 1
    BY <1>0
  <2> QED BY <1>2, <2>1, <2>2
<1>4. IsInjective(maildrop')
  <2>1. DOMAIN maildrop' = 1..(l + 1)
    BY <1>2
  <2> SUFFICES ASSUME NEW a \in 1..(l + 1), NEW b \in 1..(l + 1), maildrop'[a] = maildrop'[b]
               PROVE  a = b
    BY <2>1 DEF IsInjective
  <2>2. CASE a \in 1..l /\ b \in 1..l
    BY <1>0, <1>2, <2>2 DEF IsInjective
  <2>3. ~(a \in 1..l /\ b = l + 1) /\ ~(b \in 1..l /\ a = l + 1)
    <3> HIDE DEF l
    <3>1. arrived + 1 > arrived
      BY <1>0
    <3> QED BY <1>0, <1>2, <1>3, <3>1 DEF l
  <2> QED BY <1>3, <2>2, <2>3
<1>5. TypeOK'
  BY <1>1, <1>2, <1>4 DEF TypeInv, TypeOK, Arrive, client
<1>6. Numbers'
  <2>1. \A k \in 1..Len(maildrop') : maildrop'[k] <= arrived'
    BY <1>0, <1>1, <1>2, <1>3
  <2>2. Len(maildrop') <= arrived'
    BY <1>0, <1>1, <1>2
  <2>3. \A k \in 1..Len(mailbox.list) : mailbox.list[k] <= arrived'
    <3>1. \A s \in Seq(Mail) : \A k \in 1..Len(s) : s[k] \in Nat
      <4>1. Mail \subseteq Nat
        BY <1>0 DEF Mail
      <4> SUFFICES ASSUME NEW s \in Seq(Mail), NEW k \in 1..Len(s) PROVE s[k] \in Mail
        BY <4>1
      <4> QED OBVIOUS
    <3>2. \A k \in 1..Len(mailbox.list) : mailbox.list[k] \in Nat
      BY <3>1, SessionParts DEF TypeInv
    <3> QED BY <1>0, <1>1, <3>2 DEF TypeInv, Numbers
  <2>4. \A m \in approved : m <= arrived'
    <3>1. \A m \in approved : m \in Nat
      BY <1>0 DEF TypeInv, TypeOK, Mail
    <3> QED BY <1>0, <1>1, <3>1 DEF TypeInv, Numbers
  <2> QED BY <2>1, <2>2, <2>3, <2>4 DEF Numbers, Arrive, client
<1>7. Place'
  BY DEF TypeInv, Place, Active, Arrive, client
<1> QED BY <1>5, <1>6, <1>7 DEF TypeInv

LEMMA NextTypeInv == TypeInv /\ [Next]_vars => TypeInv'
<1> SUFFICES ASSUME TypeInv, [Next]_vars PROVE TypeInv'
  OBVIOUS
<1>0. /\ removed \subseteq Mail /\ maildrop \in Seq(Mail)
      /\ foreign \in 0..MaxForeign /\ lost \in BOOLEAN /\ MaxForeign \in Nat
  BY Pop3Assumption DEF TypeInv, TypeOK
<1>1. ToSet(maildrop) \subseteq Mail
  BY <1>0 DEF ToSet
<1>2. CASE Client
  BY <1>2, LoginTypes, RetrieveTypes, DeleteTypes, ReloginTypes, EndTypes DEF Client
<1>3. ASSUME NEW deleted \in closing, Update(deleted) PROVE TypeInv'
  BY <1>0, <1>1, <1>3, RemovalTypes DEF Update
<1>4. ASSUME NEW deleted \in closing, LoseQuit(deleted) PROVE TypeInv'
  BY <1>4 DEF LoseQuit, client, TypeInv, TypeOK, Numbers, Place, Active
<1>5. CASE Arrive
  BY <1>5, ArriveTypes
<1>6. ASSUME NEW m \in ToSet(maildrop), DeletedElsewhere(m) PROVE TypeInv'
  BY <1>0, <1>6, RemovalTypes DEF DeletedElsewhere
<1>7. CASE UNCHANGED vars
  BY <1>7 DEF vars, server, client, TypeInv, TypeOK, Numbers, Place, Active
<1> QED BY <1>2, <1>3, <1>4, <1>5, <1>6, <1>7 DEF Next

\* Every variable keeps its type: the mailbox never shows a message twice, and
\* the loop's number stays one of the first session, however the mailbox has
\* grown or shrunk between the logins.
THEOREM TypeCorrect == Spec => []TypeOK
<1>1. TypeInv => TypeOK
  BY DEF TypeInv
<1> QED BY <1>1, InitTypeInv, NextTypeInv, PTL DEF Spec

-----------------------------------------------------------------------------
(***************************************************************************)
(* The order of reading.                                                   *)
(***************************************************************************)

\* If no other program deletes any, the messages that are still to be read have
\* the numbers that they had in the first session, in the mailbox as in the
\* current session, and no session that could still remove one has deleted it.
Unread ==
  foreign = 0 /\ Active =>
    /\ i <= Len(maildrop)
    /\ \A k \in 1..i : maildrop[k] = first[k] /\ mailbox.list[k] = first[k]
    /\ \A deleted \in closing : \A k \in 1..i : first[k] \notin deleted
    /\ \A k \in 1..i : (at = "relogin" => k # i) => first[k] \notin mailbox.deleted

\* The loop's number counts what has been read.
Progress ==
  /\ at = "login" => read = <<>> /\ closing = {}
  /\ at = "loop" => Len(read) = messages - i
  /\ at \in {"delete", "relogin"} => Len(read) = (messages - i) + 1
  /\ IsInjective(first)

OrderInv == TypeInv /\ Unread /\ Progress /\ NewestFirstOnce

LEMMA InitOrderInv == Init => OrderInv
<1> SUFFICES ASSUME Init PROVE OrderInv
  OBVIOUS
<1>1. TypeInv
  BY InitTypeInv
<1>2. Unread
  BY DEF Unread, Active, Init
<1>3. Progress
  BY DEF Progress, Init, IsInjective
<1>4. NewestFirstOnce
  BY DEF NewestFirstOnce, Init
<1> QED BY <1>1, <1>2, <1>3, <1>4 DEF OrderInv

LEMMA LoginOrder ==
  ASSUME OrderInv, Login
  PROVE  Unread' /\ Progress' /\ NewestFirstOnce'
<1>0. /\ maildrop \in Seq(Mail) /\ IsInjective(maildrop) /\ Len(maildrop) \in Nat
      /\ read = <<>> /\ closing = {} /\ at = "login"
  BY DEF OrderInv, TypeInv, TypeOK, Progress, Login
<1>1. /\ mailbox'.list = maildrop /\ mailbox'.deleted = {} /\ first' = maildrop
      /\ at' = "loop" /\ read' = <<>> /\ closing' = {} /\ maildrop' = maildrop
      /\ messages' = i' /\ i' \in 0..Len(maildrop)
  <2>1. i' = Len(maildrop) \/ i' = 0
    BY Counted
  <2>2. i' \in 0..Len(maildrop)
    BY <1>0, <2>1
  <2>3. messages' = i'
    BY Counted
  <2> QED BY <1>0, <2>2, <2>3 DEF Login, Session, server
<1>2. Unread'
  BY <1>0, <1>1 DEF Unread
<1>3. Progress'
  <2>1. i' \in Nat /\ Len(read') = 0
    BY <1>0, <1>1
  <2>2. Len(read') = messages' - i'
    BY <1>1, <2>1
  <2>3. at' = "loop" /\ IsInjective(first')
    BY <1>0, <1>1
  <2> QED BY <2>2, <2>3 DEF Progress
<1>4. NewestFirstOnce'
  BY <1>1 DEF NewestFirstOnce
<1> QED BY <1>2, <1>3, <1>4

\* The message that is read is the next of the first session.
LEMMA RetrieveOrder ==
  ASSUME OrderInv, Retrieve
  PROVE  Unread' /\ Progress' /\ NewestFirstOnce'
<1>0. /\ mailbox.list \in Seq(Mail) /\ messages \in Nat /\ i \in 0..messages
      /\ read \in Seq(Mail) /\ Len(read) \in Nat /\ Len(read) = messages - i
      /\ at = "loop" /\ i >= 1 /\ i <= Len(mailbox.list) /\ messages = Len(first)
  BY SessionParts, Pop3Assumption DEF OrderInv, TypeInv, TypeOK, Place, Progress, Retrieve
<1>1. mailbox.list[i] \in Mail
  BY <1>0
<1>2. /\ \/ at' \in {"delete", "relogin"} /\ i' = i
         \/ at' = "loop" /\ i' = i - 1
      /\ read' = Append(read, mailbox.list[i])
      /\ UNCHANGED <<maildrop, foreign, closing, messages, mailbox, first>>
  BY DEF Retrieve, Advance, server
<1>3. /\ read' \in Seq(Mail) /\ Len(read') = Len(read) + 1
      /\ \A n \in 1..Len(read) : read'[n] = read[n]
      /\ read'[Len(read) + 1] = mailbox.list[i]
  BY <1>0, <1>1, <1>2, Appended
<1>4. Unread'
  <2> SUFFICES ASSUME foreign = 0
               PROVE  /\ i' <= Len(maildrop)
                      /\ \A k \in 1..i' : maildrop[k] = first[k] /\ mailbox.list[k] = first[k]
                      /\ \A deleted \in closing : \A k \in 1..i' : first[k] \notin deleted
                      /\ \A k \in 1..i' : first[k] \notin mailbox.deleted
    BY <1>2 DEF Unread
  <2>1. /\ i <= Len(maildrop)
        /\ \A k \in 1..i : maildrop[k] = first[k] /\ mailbox.list[k] = first[k]
        /\ \A deleted \in closing : \A k \in 1..i : first[k] \notin deleted
        /\ \A k \in 1..i : first[k] \notin mailbox.deleted
    BY <1>0 DEF OrderInv, Unread, Active
  <2>2. i' <= i /\ \A k \in 1..i' : k \in 1..i
    BY <1>0, <1>2
  <2>3. maildrop \in Seq(Mail) /\ Len(maildrop) \in Nat
    BY DEF OrderInv, TypeInv, TypeOK
  <2>4. i' <= Len(maildrop)
    BY <1>0, <1>2, <2>1, <2>3
  <2> QED BY <2>1, <2>2, <2>4
<1>5. Progress'
  BY <1>0, <1>2, <1>3 DEF OrderInv, Progress
<1>6. NewestFirstOnce'
  <2> SUFFICES ASSUME foreign = 0, NEW n \in 1..Len(read')
               PROVE  read'[n] = first[(Len(first) - n) + 1]
    BY <1>2, <1>3 DEF NewestFirstOnce
  <2>1. CASE n \in 1..Len(read)
    <3>1. n \in DOMAIN read
      BY <1>0, <2>1
    <3> QED BY <1>3, <2>1, <3>1 DEF OrderInv, NewestFirstOnce
  <2>2. CASE n = Len(read) + 1
    <3>1. (Len(first) - n) + 1 = i /\ i \in 1..i
      BY <1>0, <2>2
    <3>2. mailbox.list[i] = first[i]
      BY <1>0, <3>1 DEF OrderInv, Unread, Active
    <3> QED BY <1>3, <2>2, <3>1, <3>2
  <2>3. n \in 1..Len(read) \/ n = Len(read) + 1
    <3>1. Len(read) \in Nat /\ Len(read') = Len(read) + 1
      BY <1>0, <1>3
    <3> QED BY <3>1
  <2> QED BY <2>1, <2>2, <2>3
<1> QED BY <1>4, <1>5, <1>6

\* DELE names the message that was read last, none that is still to be read.
LEMMA DeleteOrder ==
  ASSUME OrderInv, Delete
  PROVE  Unread' /\ Progress' /\ NewestFirstOnce'
<1>0. /\ messages \in Nat /\ i \in 1..messages /\ i \in Nat /\ at = "delete"
      /\ messages = Len(first) /\ first \in Seq(Mail) /\ IsInjective(first)
      /\ maildrop \in Seq(Mail) /\ Len(maildrop) \in Nat
      /\ Len(read) = (messages - i) + 1
  BY Pop3Assumption DEF OrderInv, TypeInv, TypeOK, Place, Progress, Delete
<1>1. /\ mailbox'.list = mailbox.list
      /\ mailbox'.deleted = mailbox.deleted \cup {Target}
  BY SessionParts DEF Delete, OrderInv, TypeInv
<1>2. /\ \/ at' = "relogin" /\ i' = i
         \/ at' = "loop" /\ i' = i - 1
      /\ UNCHANGED <<maildrop, foreign, closing, messages, first, read>>
  BY DEF Delete, Advance, server
<1>3. Unread'
  <2> SUFFICES ASSUME foreign = 0
               PROVE  /\ i' <= Len(maildrop)
                      /\ \A k \in 1..i' : maildrop[k] = first[k] /\ mailbox.list[k] = first[k]
                      /\ \A deleted \in closing : \A k \in 1..i' : first[k] \notin deleted
                      /\ \A k \in 1..i' : (at' = "relogin" => k # i') =>
                           first[k] \notin mailbox'.deleted
    BY <1>1, <1>2 DEF Unread
  <2>1. /\ i <= Len(maildrop)
        /\ \A k \in 1..i : maildrop[k] = first[k] /\ mailbox.list[k] = first[k]
        /\ \A deleted \in closing : \A k \in 1..i : first[k] \notin deleted
        /\ \A k \in 1..i : first[k] \notin mailbox.deleted
    BY <1>0 DEF OrderInv, Unread, Active
  <2>2. \A k \in 1..i' : k \in 1..i /\ ((at' = "relogin" => k # i') => k # i)
    BY <1>0, <1>2
  <2>3. i' <= Len(maildrop)
    BY <1>0, <1>2, <2>1
  <2>4. Target = first[i]
    BY <1>0, <2>1 DEF Target
  <2>5. \A k \in 1..i : k # i => first[k] # first[i]
    BY <1>0 DEF IsInjective
  <2> QED BY <1>1, <2>1, <2>2, <2>3, <2>4, <2>5
<1>4. Progress'
  BY <1>0, <1>2 DEF OrderInv, Progress
<1>5. NewestFirstOnce'
  BY <1>2 DEF OrderInv, NewestFirstOnce
<1> QED BY <1>3, <1>4, <1>5

\* The new session numbers what is left to read as the first one did.
LEMMA ReloginOrder ==
  ASSUME OrderInv, Relogin
  PROVE  Unread' /\ Progress' /\ NewestFirstOnce'
<1>0. /\ messages \in Nat /\ i \in 1..messages /\ at = "relogin"
      /\ maildrop \in Seq(Mail) /\ Len(maildrop) \in Nat
      /\ Len(read) = (messages - i) + 1 /\ i <= Len(maildrop)
  BY Pop3Assumption DEF OrderInv, TypeInv, TypeOK, Place, Progress, Relogin, MessageCount
<1>1. mailbox'.list = maildrop /\ mailbox'.deleted = {}
  BY DEF Relogin, Session
<1>2. /\ at' = "loop" /\ i' = i - 1 /\ closing' = closing \cup {mailbox.deleted}
      /\ UNCHANGED <<maildrop, foreign, messages, first, read>>
  BY DEF Relogin, QuitSession, server
<1>3. Unread'
  <2> SUFFICES ASSUME foreign = 0
               PROVE  /\ i' <= Len(maildrop)
                      /\ \A k \in 1..i' : maildrop[k] = first[k]
                      /\ \A deleted \in closing' : \A k \in 1..i' : first[k] \notin deleted
    BY <1>1, <1>2 DEF Unread
  <2>1. /\ \A k \in 1..i : maildrop[k] = first[k]
        /\ \A deleted \in closing : \A k \in 1..i : first[k] \notin deleted
        /\ \A k \in 1..i : k # i => first[k] \notin mailbox.deleted
    BY <1>0 DEF OrderInv, Unread, Active
  <2>2. \A k \in 1..i' : k \in 1..i /\ k # i
    BY <1>0, <1>2
  <2>3. i' <= Len(maildrop)
    BY <1>0, <1>2
  <2> QED BY <1>2, <2>1, <2>2, <2>3
<1>4. Progress'
  BY <1>0, <1>2 DEF OrderInv, Progress
<1>5. NewestFirstOnce'
  BY <1>2 DEF OrderInv, NewestFirstOnce
<1> QED BY <1>3, <1>4, <1>5

\* The loop ends with everything read, unless a command fails or nothing was
\* counted; the mailbox cannot have gone below the loop's number.
LEMMA EndOrder ==
  ASSUME OrderInv, ReloginShrunk \/ Done \/ Fail
  PROVE  Unread' /\ Progress' /\ NewestFirstOnce'
<1>0. messages \in Nat /\ i \in Nat /\ maildrop \in Seq(Mail) /\ Len(maildrop) \in Nat
  BY Pop3Assumption DEF OrderInv, TypeInv, TypeOK
<1>1. /\ at' \in {"shrunk", "done", "failed"}
      /\ UNCHANGED <<maildrop, foreign, messages, i, first, read>>
  BY DEF ReloginShrunk, Done, Fail, server
<1>2. Unread' /\ Progress'
  BY <1>1 DEF OrderInv, Unread, Active, Progress
<1>3. at' = "done" => Len(read) = Len(first) \/ (misread' /\ read = <<>>)
  <2> SUFFICES ASSUME at' = "done"
               PROVE  Len(read) = Len(first) \/ (misread' /\ read = <<>>)
    OBVIOUS
  <2>1. Done /\ misread' = misread /\ i = 0 /\ at = "loop"
    BY DEF ReloginShrunk, Done, Fail
  <2>2. Len(read) = messages /\ read \in Seq(Mail)
    BY <1>0, <2>1 DEF OrderInv, TypeInv, TypeOK, Progress
  <2>3. Len(read) = 0 => read = <<>>
    BY <2>2
  <2> QED BY <2>1, <2>2, <2>3 DEF OrderInv, TypeInv, Place
<1>4. foreign = 0 => (at' = "shrunk" => misread')
  <2> SUFFICES ASSUME foreign = 0, at' = "shrunk" PROVE misread'
    OBVIOUS
  <2>1. ReloginShrunk
    BY DEF ReloginShrunk, Done, Fail
  <2>2. PICK ok \in BOOLEAN : MessageCount(ok) < i /\ misread' = (misread \/ ~ok)
    BY <2>1 DEF ReloginShrunk
  <2>3. i <= Len(maildrop)
    BY <2>1 DEF ReloginShrunk, OrderInv, Unread, Active
  <2>4. ~ok
    BY <1>0, <2>2, <2>3 DEF MessageCount
  <2> QED BY <2>2, <2>4
<1>5. NewestFirstOnce'
  BY <1>1, <1>3, <1>4 DEF OrderInv, NewestFirstOnce
<1> QED BY <1>2, <1>5

\* What is removed is none of what is still to be read.
LEMMA UpdateOrder ==
  ASSUME OrderInv, NEW deleted \in closing, Update(deleted)
  PROVE  Unread' /\ Progress' /\ NewestFirstOnce'
<1>0. /\ maildrop \in Seq(Mail) /\ IsInjective(maildrop) /\ Len(maildrop) \in Nat
      /\ messages \in Nat /\ i \in Nat
  BY Pop3Assumption DEF OrderInv, TypeInv, TypeOK
<1>1. maildrop' = Remaining(maildrop, deleted) /\ closing' \subseteq closing
  BY DEF Update
<1>2. UNCHANGED <<foreign, client>>
  BY DEF Update
<1>3. Unread'
  <2> SUFFICES ASSUME foreign = 0, Active
               PROVE  /\ i <= Len(maildrop')
                      /\ \A k \in 1..i : maildrop'[k] = first[k]
    BY <1>1, <1>2 DEF OrderInv, Unread, Active, client
  <2>1. /\ i <= Len(maildrop)
        /\ \A k \in 1..i : maildrop[k] = first[k] /\ first[k] \notin deleted
    BY DEF OrderInv, Unread
  <2>2. i \in 0..Len(maildrop) /\ \A k \in 1..i : maildrop[k] \notin deleted
    BY <1>0, <2>1
  <2>3. i <= Len(maildrop') /\ \A k \in 1..i : maildrop'[k] = maildrop[k]
    BY <1>0, <1>1, <2>2, RemainingProps
  <2> QED BY <2>1, <2>3
<1>4. Progress' /\ NewestFirstOnce'
  BY <1>1, <1>2 DEF OrderInv, Progress, NewestFirstOnce, client
<1> QED BY <1>3, <1>4

LEMMA ArriveOrder ==
  ASSUME OrderInv, Arrive
  PROVE  Unread' /\ Progress' /\ NewestFirstOnce'
<1>0. /\ maildrop \in Seq(Mail) /\ Len(maildrop) \in Nat /\ i \in Nat /\ messages \in Nat
      /\ arrived \in Nat /\ MaxMail \in Nat /\ arrived < MaxMail
  BY Pop3Assumption DEF OrderInv, TypeInv, TypeOK, Arrive
<1>1. arrived' = arrived + 1 /\ arrived' \in Mail /\ maildrop' = Append(maildrop, arrived')
  BY <1>0 DEF Arrive, Mail
<1>2. /\ Len(maildrop') = Len(maildrop) + 1
      /\ \A k \in 1..Len(maildrop) : maildrop'[k] = maildrop[k]
  BY <1>0, <1>1, Appended
<1>3. UNCHANGED <<foreign, client, closing>>
  BY DEF Arrive
<1>4. Unread'
  <2> SUFFICES ASSUME foreign = 0, Active
               PROVE  /\ i <= Len(maildrop')
                      /\ \A k \in 1..i : maildrop'[k] = first[k]
    BY <1>3 DEF OrderInv, Unread, Active, client
  <2>1. i <= Len(maildrop) /\ \A k \in 1..i : maildrop[k] = first[k]
    BY DEF OrderInv, Unread
  <2>2. \A k \in 1..i : k \in 1..Len(maildrop)
    BY <1>0, <2>1
  <2> QED BY <1>0, <1>2, <2>1, <2>2
<1>5. Progress' /\ NewestFirstOnce'
  BY <1>3 DEF OrderInv, Progress, NewestFirstOnce, client
<1> QED BY <1>4, <1>5

LEMMA NextOrderInv == OrderInv /\ [Next]_vars => OrderInv'
<1> SUFFICES ASSUME OrderInv, [Next]_vars PROVE OrderInv'
  OBVIOUS
<1>0. TypeInv'
  BY NextTypeInv DEF OrderInv
<1> SUFFICES Unread' /\ Progress' /\ NewestFirstOnce'
  BY <1>0 DEF OrderInv
<1>1. CASE Client
  BY <1>1, LoginOrder, RetrieveOrder, DeleteOrder, ReloginOrder, EndOrder DEF Client
<1>2. ASSUME NEW deleted \in closing, Update(deleted)
      PROVE  Unread' /\ Progress' /\ NewestFirstOnce'
  BY <1>2, UpdateOrder
<1>3. ASSUME NEW deleted \in closing, LoseQuit(deleted)
      PROVE  Unread' /\ Progress' /\ NewestFirstOnce'
  BY <1>3 DEF LoseQuit, client, OrderInv, Unread, Active, Progress, NewestFirstOnce
<1>4. CASE Arrive
  BY <1>4, ArriveOrder
<1>5. ASSUME NEW m \in ToSet(maildrop), DeletedElsewhere(m)
      PROVE  Unread' /\ Progress' /\ NewestFirstOnce'
  <2>1. foreign' # 0
    BY <1>5, Pop3Assumption DEF DeletedElsewhere, OrderInv, TypeInv, TypeOK
  <2> QED BY <1>5, <2>1 DEF DeletedElsewhere, client, OrderInv, Unread, Progress, NewestFirstOnce
<1>6. CASE UNCHANGED vars
  BY <1>6 DEF vars, server, client, OrderInv, Unread, Active, Progress, NewestFirstOnce
<1> QED BY <1>1, <1>2, <1>3, <1>4, <1>5, <1>6 DEF Next

\* The messages that were there at the start are read newest first, each once, for
\* a mailbox and batches of any size, whatever arrives and whatever the
\* sessions before have removed, unless a STAT that was refused is taken for a
\* count of none; out_of_range is not thrown unless that happens or another program
\* deletes messages (iterate_mailbox).
THEOREM EachReadOnce == Spec => []NewestFirstOnce
<1>1. OrderInv => NewestFirstOnce
  BY DEF OrderInv
<1> QED BY <1>1, InitOrderInv, NextOrderInv, PTL DEF Spec

-----------------------------------------------------------------------------
(***************************************************************************)
(* Removing.                                                               *)
(***************************************************************************)

\* What is approved and still there will go with the QUIT of a session, unless
\* one was lost or a command failed.
Pending ==
  ~lost /\ at # "failed" =>
    \A m \in approved \cap ToSet(maildrop) :
      \/ \E deleted \in closing : m \in deleted
      \/ m \in mailbox.deleted
      \/ at = "delete" /\ m = Target

\* Outside of the loop there is no session that has something to hand over.
Over == ~Active => mailbox = NoSession

GoneInv == TypeInv /\ Pending /\ Over

LEMMA InitGoneInv == Init => GoneInv
<1> SUFFICES ASSUME Init PROVE GoneInv
  OBVIOUS
<1>1. TypeInv
  BY InitTypeInv
<1>2. Pending /\ Over
  BY DEF Pending, Over, Active, Init
<1> QED BY <1>1, <1>2 DEF GoneInv

\* The mailbox without what is gone.
LEMMA RemovalKeeps ==
  ASSUME TypeOK, NEW gone
  PROVE  /\ ToSet(Remaining(maildrop, gone)) \subseteq ToSet(maildrop)
         /\ \A m \in ToSet(Remaining(maildrop, gone)) : m \notin gone
<1>1. maildrop \in Seq(Mail) /\ IsInjective(maildrop)
  BY DEF TypeOK
<1>2. \A k \in DOMAIN Remaining(maildrop, gone) :
         /\ Remaining(maildrop, gone)[k] \notin gone
         /\ \E j \in DOMAIN maildrop : Remaining(maildrop, gone)[k] = maildrop[j]
  BY <1>1, RemainingProps
<1> QED BY <1>2 DEF ToSet

LEMMA NextGoneInv == GoneInv /\ [Next]_vars => GoneInv'
<1> SUFFICES ASSUME GoneInv, [Next]_vars PROVE GoneInv'
  OBVIOUS
<1>0. TypeInv' /\ TypeOK
  BY NextTypeInv DEF GoneInv, TypeInv
<1> SUFFICES Pending' /\ Over'
  BY <1>0 DEF GoneInv
<1>1. CASE Login
  <2>1. mailbox.deleted = {} /\ at = "login" /\ at' = "loop"
    BY <1>1 DEF Login, GoneInv, Over, Active, NoSession
  <2>2. UNCHANGED <<maildrop, lost, closing, approved>>
    BY <1>1 DEF Login, server
  <2> QED BY <2>1, <2>2 DEF GoneInv, Pending, Over, Active
<1>2. CASE Retrieve
  <2>1. UNCHANGED <<maildrop, lost, closing, mailbox>> /\ at = "loop"
    BY <1>2 DEF Retrieve, server
  <2>2. CASE approved' = approved \cup {mailbox.list[i]} /\ at' = "delete" /\ UNCHANGED i
    BY <2>1, <2>2 DEF GoneInv, Pending, Over, Active, Target
  <2>3. CASE Advance /\ UNCHANGED approved
    BY <2>1, <2>3 DEF Advance, GoneInv, Pending, Over, Active
  <2> QED BY <1>2, <2>2, <2>3 DEF Retrieve
<1>3. CASE Delete
  <2>1. /\ UNCHANGED <<maildrop, lost, closing, approved>>
        /\ at' \in {"loop", "relogin"} /\ at = "delete"
    BY <1>3 DEF Delete, Advance, server
  <2>2. mailbox'.deleted = mailbox.deleted \cup {Target}
    BY <1>0, <1>3, SessionParts DEF Delete
  <2> QED BY <2>1, <2>2 DEF GoneInv, Pending, Over, Active
<1>4. CASE Relogin
  BY <1>4 DEF Relogin, QuitSession, Session, server, GoneInv, Pending, Over, Active
<1>5. CASE ReloginShrunk
  BY <1>5 DEF ReloginShrunk, server, GoneInv, Pending, Over, Active
<1>6. CASE Done
  BY <1>6 DEF Done, QuitSession, server, GoneInv, Pending, Over, Active
<1>7. CASE Fail
  BY <1>7 DEF Fail, Pending, Over, Active
<1>8. ASSUME NEW deleted \in closing, Update(deleted) PROVE Pending' /\ Over'
  <2>1. /\ UNCHANGED <<lost, client>> /\ closing' = closing \ {deleted}
        /\ maildrop' = Remaining(maildrop, deleted)
    BY <1>8 DEF Update
  <2>2. \A m \in ToSet(maildrop') : m \in ToSet(maildrop) /\ m \notin deleted
    BY <1>0, <2>1, RemovalKeeps
  <2> QED BY <2>1, <2>2 DEF client, GoneInv, Pending, Over, Active, Target
<1>9. ASSUME NEW deleted \in closing, LoseQuit(deleted) PROVE Pending' /\ Over'
  BY <1>9 DEF LoseQuit, client, GoneInv, Pending, Over, Active
<1>10. CASE Arrive
  <2>1. /\ maildrop \in Seq(Mail) /\ arrived \in Nat /\ Len(maildrop) \in Nat
        /\ arrived < MaxMail /\ MaxMail \in Nat
    BY <1>0, <1>10, Pop3Assumption DEF TypeOK, Arrive
  <2>2. arrived' = arrived + 1 /\ arrived' \in Mail /\ maildrop' = Append(maildrop, arrived')
    BY <1>10, <2>1 DEF Arrive, Mail
  <2>3. /\ Len(maildrop') = Len(maildrop) + 1 /\ maildrop' \in Seq(Mail)
        /\ \A k \in 1..Len(maildrop) : maildrop'[k] = maildrop[k]
        /\ maildrop'[Len(maildrop) + 1] = arrived'
    BY <2>1, <2>2, Appended
  <2>4. \A k \in 1..Len(maildrop') : k \in 1..Len(maildrop) \/ k = Len(maildrop) + 1
    BY <2>1, <2>3
  <2>5. \A m \in ToSet(maildrop') : m \in ToSet(maildrop) \/ m = arrived'
    BY <2>1, <2>3, <2>4 DEF ToSet
  <2>6. arrived' \notin approved
    <3>1. ~(arrived' <= arrived)
      BY <2>1, <2>2
    <3> QED BY <3>1 DEF GoneInv, TypeInv, Numbers
  <2>7. UNCHANGED <<lost, client, closing>>
    BY <1>10 DEF Arrive
  <2> QED BY <2>5, <2>6, <2>7 DEF client, GoneInv, Pending, Over, Active, Target
<1>11. ASSUME NEW m \in ToSet(maildrop), DeletedElsewhere(m) PROVE Pending' /\ Over'
  <2>1. /\ UNCHANGED <<lost, client, closing>> /\ maildrop' = Remaining(maildrop, {m})
    BY <1>11 DEF DeletedElsewhere
  <2>2. ToSet(maildrop') \subseteq ToSet(maildrop)
    BY <1>0, <2>1, RemovalKeeps
  <2> QED BY <2>1, <2>2 DEF client, GoneInv, Pending, Over, Active, Target
<1>12. CASE UNCHANGED vars
  BY <1>12 DEF vars, server, client, GoneInv, Pending, Over, Active, Target
<1> QED BY <1>1, <1>2, <1>3, <1>4, <1>5, <1>6, <1>7, <1>8, <1>9, <1>10, <1>11, <1>12
  DEF Next, Client

\* When iterate_mailbox has returned, and the QUIT of each of its sessions has
\* arrived, every message that the application wanted removed is gone.
THEOREM ApprovedAreGone == Spec => []ApprovedGoes
<1>1. GoneInv => ApprovedGoes
  BY DEF GoneInv, Pending, Over, Active, ApprovedGoes, NoSession
<1> QED BY <1>1, InitGoneInv, NextGoneInv, PTL DEF Spec
=============================================================================
