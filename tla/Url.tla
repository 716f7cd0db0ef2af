--------------------------------- MODULE Url ---------------------------------
(***************************************************************************)
(* URLs (url.cpp, url.hpp): how a path is normalised, how a reference is   *)
(* joined to a URL, and the query string with the text that it caches      *)
(* (url-query_string.cpp).                                                 *)
(*                                                                         *)
(* A path is its text split at the slashes: "" is <<"">>, "/" is <<"", "">> *)
(* and "/a/" is <<"", "a", "">>.  A segment is a name, "." or ".."; names  *)
(* do not begin with a dot.  What is optional is a sequence of at most one. *)
(* A query's text is the sequence of its fields, as they are once decoded: *)
(* how a text encodes them is left out, and a query that is parsed and     *)
(* printed again may be encoded otherwise.                                 *)
(***************************************************************************)
EXTENDS Naturals, Sequences, SequencesExt, Sublists

CONSTANTS
  Keys,       \* the names of query fields, in the order of std::map
  Mangled,    \* names and values with a '~' or a '\': the encoder leaves these
              \* as they are and the parsers do not know them
  Misprinted  \* fields with an '=' in their names, which the encoder leaves as
              \* it is, too: a function that says what the parser takes each for

\* The segment before the first slash, after the last, and between two.
Blank == ""
Dots == {".", ".."}

\* A field of a query: its name and value before they are encoded.
Fields == [key : ToSet(Keys), value : STRING]

ASSUME UrlAssumption ==
  /\ Keys \in Seq(STRING) /\ IsInjective(Keys)
  /\ DOMAIN Misprinted \subseteq Fields
  /\ \A field \in DOMAIN Misprinted : Misprinted[field] \in Fields
  /\ Blank \in STRING /\ Dots \subseteq STRING

Root == <<Blank, Blank>>
NoPath == <<Blank>>

Rooted(path) == Len(path) > 1 /\ path[1] = Blank
EndsInSlash(path) == Len(path) > 1 /\ Last(path) = Blank

\* Two texts, the first of which ends in a slash.
Under(dir, path) == Front(dir) \o path

-----------------------------------------------------------------------------
(***************************************************************************)
(* normalise_path().                                                       *)
(***************************************************************************)

\* slashslash
Slashslash(path) ==
  LET inside == Tail(Front(path)) IN
    IF Len(path) < 2
      THEN path
      ELSE <<path[1]>> \o Those(inside, {i \in DOMAIN inside : inside[i] # Blank})
                      \o <<Last(path)>>

\* The list without its elements from first to last.
Erase(list, first, last) ==
  SubSeq(list, 1, first - 1) \o SubSeq(list, last + 1, Len(list))

\* The loop over the list, from the element at: after an erasure it goes back to
\* begin(), which the loop's increment skips.  (On a list that has become empty
\* libstdc++ increments end() to end().)
RemoveDots[place \in Seq(STRING) \X (Nat \ {0})] ==
  LET list == place[1]
      at == place[2]
  IN IF at > Len(list)
       THEN list
       ELSE CASE list[at] = "."             -> RemoveDots[<<Erase(list, at, at), 2>>]
              [] list[at] = ".." /\ at = 1  -> RemoveDots[<<Erase(list, 1, 1), 2>>]
              [] list[at] = ".." /\ at > 1  -> RemoveDots[<<Erase(list, at - 1, at), 2>>]
              [] OTHER                      -> RemoveDots[<<list, at + 1>>]

\* Mutant: the blank entry that stands for a slash at the end is lost.
NormalisePath_short(path) ==
  LET collapsed == Slashslash(path)
      list == IF Rooted(collapsed) THEN Tail(collapsed) ELSE collapsed
      left == RemoveDots[<<list, 1>>]
  IN Slashslash(NoPath \o Those(left, {i \in DOMAIN left : left[i] # Blank}))

\* Every element of the list gets a slash before it; no element, no path.
NormalisePath(path) ==
  LET collapsed == Slashslash(path)
      list == IF Rooted(collapsed) THEN Tail(collapsed) ELSE collapsed
  IN Slashslash(NoPath \o RemoveDots[<<list, 1>>])

-----------------------------------------------------------------------------
(***************************************************************************)
(* url::pathspec(), which sets the path.                                   *)
(***************************************************************************)

\* Of the segments after a slash, the last is the first of these; a path of two
\* segments is long enough only if the first has a name.
FirstAtEnd(path, dots) ==
  /\ Len(path) > 1 /\ path # <<Blank, Last(path)>>
  /\ \A i \in 2..(Len(path) - 1) : path[i] \notin dots

\* The "obvious directory fixes".
Formalised(path) ==
  IF path = NoPath
    THEN Root
    ELSE IF \/ Last(path) = "." /\ FirstAtEnd(path, Dots)
            \/ Last(path) = ".." /\ FirstAtEnd(path, {".."})
            \/ path \in {<<".">>, <<"..">>}
           THEN Append(path, Blank)
           ELSE path

\* The directory that a relative path is put under: the path itself, or the path
\* with a ".." in place of its file name.
Directory(path) == IF EndsInSlash(path) THEN path ELSE path \o <<"..", Blank>>

Pathspec(old, path) ==
  LET new == Formalised(path) IN
    NormalisePath(IF Rooted(new) THEN new ELSE Under(Directory(old), new))

-----------------------------------------------------------------------------
(***************************************************************************)
(* Query strings.  items is m_query; cached is m_string, no field at all   *)
(* when that is null.                                                      *)
(***************************************************************************)

NoValue == "null"
Field(key, value) == [key |-> key, value |-> value]

Query(cached, items) == [cached |-> cached, items |-> items]
NoItems == [key \in ToSet(Keys) |-> <<>>]
NoQuery == Query(<<>>, NoItems)

\* Mutant: the text that has been cached is kept.
AppendField_cached(query, key, value) ==
  Query(query.cached, [query.items EXCEPT ![key] = Append(@, value)])

AppendField(query, key, value) ==
  Query(<<>>, [query.items EXCEPT ![key] = Append(@, value)])

\* Only what has been appended can be removed, not what the text says.
RemoveKey(query, key) ==
  IF query.items[key] = <<>> THEN query ELSE Query(<<>>, [query.items EXCEPT ![key] = <<>>])

\* The fields in the order of their keys; a null value is printed like an empty
\* one.
Printed(items) ==
  FlattenSeq([k \in DOMAIN Keys |->
    [i \in DOMAIN items[Keys[k]] |-> Field(Keys[k], items[Keys[k]][i])]])

\* as_string() fills the cache.
Cached(query) ==
  IF query.cached = <<>> THEN Query(Printed(query.items), query.items) ELSE query
AsString(query) == Cached(query).cached

\* A field that is a name without an equals sign.
Bare == "bare"
IsPair(field) == field.value # Bare
Legible(field) == field.key \notin Mangled /\ field.value \notin Mangled

\* The first '=' ends the name: {"a=b": "1"} is printed as a=b=1 and read as
\* {"a": "b=1"}.
AsRead(field) == IF field \in DOMAIN Misprinted THEN Misprinted[field] ELSE field

\* query_string_parser: pairs, or any text if it does not begin with one.  The
\* result is none when the parse ends before the text does.
ParseQuery(text) ==
  CASE text # <<>> /\ \A i \in DOMAIN text : IsPair(text[i]) /\ Legible(text[i]) ->
         <<FoldLeft(LAMBDA query, field :
                      AppendField(query, AsRead(field).key, AsRead(field).value),
                    NoQuery, text)>>
    [] text = <<>> -> <<NoQuery>>
    [] text # <<>> /\ ~IsPair(text[1]) /\ \A i \in DOMAIN text : Legible(text[i]) ->
         <<Query(text, NoItems)>>
    [] OTHER -> <<>>

-----------------------------------------------------------------------------
(***************************************************************************)
(* A URL, and a reference, which the grammar iri_parts_parser splits into  *)
(* parts that may each be missing.                                         *)
(***************************************************************************)

Url(host, path, query, fragment) ==
  [host |-> host, path |-> path, query |-> query, fragment |-> fragment]
Reference(host, path, query, fragment) ==
  [host |-> host, path |-> path, query |-> query, fragment |-> fragment]

\* url(url, u8view): each part that is there clears those after it.
JoinHost(url, ref) ==
  IF ref.host = <<>> THEN url ELSE Url(ref.host[1], Root, NoQuery, <<>>)

JoinPath(url, ref) ==
  IF ref.path = <<>>
    THEN url
    ELSE Url(url.host,
             IF Rooted(ref.path[1]) THEN NormalisePath(ref.path[1])
                                    ELSE Pathspec(url.path, ref.path[1]),
             NoQuery, <<>>)

JoinQuery(url, ref) ==
  IF ref.query = <<>> THEN url ELSE Url(url.host, url.path, Query(ref.query, NoItems), <<>>)

JoinFragment(url, ref) ==
  IF ref.fragment = <<>> THEN url ELSE [url EXCEPT !.fragment = ref.fragment]

Join(url, ref) ==
  JoinFragment(JoinQuery(JoinPath(JoinHost(url, ref), ref), ref), ref)
=============================================================================
