------------------------- MODULE FostAuthentication -------------------------
(***************************************************************************)
(* FOST authentication (http.authentication.cpp): what the signer writes   *)
(* into a request's headers, and the checks of the verifier.               *)
(*                                                                         *)
(* HMAC is external: a digest stands for the secret and the document it    *)
(* was made from, so digests are positions in the sequence of all that has *)
(* been signed.  A document is what goes into the digest, part by part.    *)
(***************************************************************************)
EXTENDS Headers, Integers

CONSTANTS
  Secret,     \* what the server's key mapping knows: a function of keys
  Window      \* the five minutes of either clock

\* The headers that carry a signature.
Stamps == {"X-FOST-Headers", "X-FOST-Timestamp", "Authorization"}

ASSUME AuthenticationAssumption ==
  /\ Window \in Nat
  /\ Stamps \subseteq Names \ Underscored
  /\ \A m \in Stamps, n \in Stamps : Rank[m] = Rank[n] => m = n

Document(method, path, time, values, rest) ==
  [method |-> method, path |-> path, time |-> time, values |-> values, rest |-> rest]

Signature(secret, document) == [secret |-> secret, document |-> document]

Listed(names) == Simple([i \in DOMAIN names |-> Plain(names[i])])

-----------------------------------------------------------------------------
(***************************************************************************)
(* do_authn().  The caller's names come in the order of std::set.          *)
(***************************************************************************)

ListedNames(names) == <<"X-FOST-Headers">> \o names

Stamped(headers, now) == Set(headers, "X-FOST-Timestamp", Simple(<<Number("time", now)>>))

\* Of each header to sign it is the value, without its arguments; rest is the
\* body, or the text of the query when there is none.
SignedDocument(method, path, headers, names, now, rest) ==
  Document(method, path, now,
           <<Listed(ListedNames(names)).value>>
             \o [i \in DOMAIN names |-> Get(Stamped(headers, now), names[i]).value],
           rest)

\* The headers of the request once it has been signed with the digest.
Signed(headers, key, names, now, digest) ==
  Set(Set(Stamped(headers, now), "X-FOST-Headers", Listed(ListedNames(names))),
      "Authorization", Simple(<<Plain("FOST"), Number(key, digest)>>))

-----------------------------------------------------------------------------
(***************************************************************************)
(* The verifier, for a request as the server has it.                       *)
(***************************************************************************)

ListsItself(headers) ==
  \E i \in DOMAIN Get(headers, "X-FOST-Headers").value :
    Get(headers, "X-FOST-Headers").value[i].text = "X-FOST-Headers"

\* Mutant: the first listed header, which is the list itself, is taken as read.
VerifiedDocument_noList(method, path, headers) ==
  LET listed == Get(headers, "X-FOST-Headers").value IN
    Document(method, path, Get(headers, "X-FOST-Timestamp").value[1].n,
             <<listed>> \o Tail([i \in DOMAIN listed |-> <<>>]), <<>>)

\* Each listed header as it is printed; neither the body nor the query.
VerifiedDocument(method, path, headers) ==
  LET listed == Get(headers, "X-FOST-Headers").value IN
    Document(method, path, Get(headers, "X-FOST-Timestamp").value[1].n,
             [i \in DOMAIN listed |-> Text(Get(headers, listed[i].text))], <<>>)

\* Mutant: a request is never too old.
InTime_future(time, now) == time <= now + Window

InTime(time, now) == now - Window <= time /\ time <= now + Window

\* The outcome of fost_authentication(), given all that has been signed.
Outcomes == {"none", "not FOST", "no headers", "no list", "no timestamp", "throws",
             "skew", "no signature", "no key", "mismatch", "authenticated"}

\* A timestamp that does not parse throws.
IsTime(value) == value # <<>> /\ value[1].text = "time"

Verdict(method, path, headers, now, signed) ==
  LET authorization == Get(headers, "Authorization").value
      stamp == Get(headers, "X-FOST-Timestamp").value
      key == authorization[2].text
      digest == authorization[2].n
  IN IF ~Exists(headers, "Authorization") THEN "none"
     ELSE IF Len(authorization) < 2 \/ authorization[1].text # "FOST" THEN "not FOST"
     ELSE IF ~Exists(headers, "X-FOST-Headers") THEN "no headers"
     ELSE IF ~ListsItself(headers) THEN "no list"
     ELSE IF ~Exists(headers, "X-FOST-Timestamp") THEN "no timestamp"
     ELSE IF ~IsTime(stamp) THEN "throws"
     ELSE IF ~InTime(stamp[1].n, now) THEN "skew"
     ELSE IF digest = 0 THEN "no signature"
     ELSE IF key \notin DOMAIN Secret THEN "no key"
     ELSE IF signed[digest] # Signature(Secret[key], VerifiedDocument(method, path, headers))
       THEN "mismatch"
       ELSE "authenticated"
=============================================================================
