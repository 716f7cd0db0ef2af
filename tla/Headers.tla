------------------------------- MODULE Headers -------------------------------
(***************************************************************************)
(* headers_base (headers.cpp, headers.hpp) and the contents of MIME        *)
(* headers (mime.cpp): a multimap that is sorted by name without regard to *)
(* case, what it prints for each header, and what it makes of a line.      *)
(*                                                                         *)
(* The text of a content is a sequence of words: a plain one, or an        *)
(* argument that is printed as  ; name="value"  after the content's value. *)
(* A word may carry a number (a time, a length or a digest).               *)
(***************************************************************************)
EXTENDS Naturals, Sequences, SequencesExt, Sublists

CONSTANTS
  Rank,         \* for every name, its place in the order of ascii_iless
  Underscored,  \* the names with an underscore in them
  SubNames      \* the names of arguments, in their order

Names == DOMAIN Rank

\* The names of headers whose text is divided.
Divided == {"Content-Disposition", "content-disposition", "Content-Type"}

\* The name of a word that is not an argument.
Unnamed == ""

\* Names of one rank differ by case alone, and so have underscores together.
ASSUME HeadersAssumption ==
  /\ Rank \in [Names -> Nat]
  /\ Underscored \subseteq Names /\ Divided \subseteq Names \ Underscored
  /\ \A m \in Names, n \in Names :
       Rank[m] = Rank[n] => (m \in Underscored <=> n \in Underscored)
  /\ Rank["Content-Disposition"] = Rank["content-disposition"]
  /\ SubNames \in Seq(STRING \ {Unnamed}) /\ Unnamed \in STRING

Plain(text) == [text |-> text, name |-> Unnamed, n |-> 0]
Number(text, n) == [text |-> text, name |-> Unnamed, n |-> n]
Argument(name, text) == [text |-> text, name |-> name, n |-> 0]
IsArgument(word) == word.name # Unnamed

\* content: value() and the sub-values, a function of their names.
Content(value, subvalues) == [value |-> value, subvalues |-> subvalues]
Simple(value) == Content(value, <<>>)
NoContent == Simple(<<>>)

IsContent(content) ==
  /\ content = Content(content.value, content.subvalues)
  /\ content.value \in Seq([text : STRING, name : {Unnamed}, n : Nat])
  /\ DOMAIN content.subvalues \subseteq ToSet(SubNames)
  /\ content.subvalues \in [DOMAIN content.subvalues -> STRING]

Subvalue(content, name, text) ==
  [content EXCEPT !.subvalues =
     [k \in DOMAIN @ \cup {name} |-> IF k = name THEN text ELSE @[k]]]

-----------------------------------------------------------------------------
(***************************************************************************)
(* The multimap.                                                           *)
(***************************************************************************)

Header(name, content) == [name |-> name, content |-> content]

\* The headers whose names have these ranks.
Ranked(headers, ranks) ==
  Those(headers, {i \in DOMAIN headers : Rank[headers[i].name] \in ranks})

Before(headers, name) == Ranked(headers, {r \in Range(Rank) : r < Rank[name]})
Equal(headers, name) == Ranked(headers, {Rank[name]})
After(headers, name) == Ranked(headers, {r \in Range(Rank) : r > Rank[name]})

Exists(headers, name) == Equal(headers, name) # <<>>

\* operator[]: the first of that name, or an empty content.
Get(headers, name) ==
  IF Exists(headers, name) THEN Equal(headers, name)[1].content ELSE NoContent

\* Mutant: the header goes to the lower bound.
Add_lower(headers, name, content) ==
  Before(headers, name) \o <<Header(name, content)>>
    \o Equal(headers, name) \o After(headers, name)

\* A header is inserted at the upper bound of its name.
Add(headers, name, content) ==
  Before(headers, name) \o Equal(headers, name)
    \o <<Header(name, content)>> \o After(headers, name)

\* Mutant: the headers of that name stay.
Set_adds(headers, name, content) == Add(headers, name, content)

Set(headers, name, content) ==
  Before(headers, name) \o <<Header(name, content)>> \o After(headers, name)

\* Every header of that name has its sub-value set.  One is made only if no name
\* sorts at or after it: the lower bound is compared with the end.
SetSubvalue(headers, name, sub, text) ==
  LET these == IF Equal(headers, name) \o After(headers, name) = <<>>
                 THEN <<Header(name, NoContent)>>
                 ELSE Equal(headers, name)
  IN Before(headers, name)
       \o [i \in DOMAIN these |-> [these[i] EXCEPT !.content = Subvalue(@, sub, text)]]
       \o After(headers, name)

-----------------------------------------------------------------------------
(***************************************************************************)
(* Printing and parsing.                                                   *)
(***************************************************************************)

\* operator<< of a content: the value, and the arguments in the order of their
\* names.
Text(content) ==
  LET args == Those(SubNames, {i \in DOMAIN SubNames : SubNames[i] \in DOMAIN content.subvalues})
  IN content.value \o [i \in DOMAIN args |-> Argument(args[i], content.subvalues[args[i]])]

\* operator<< of headers that are not folded: a line each.
Line(name, text) == [name |-> name, text |-> text]
Lines(headers) ==
  [i \in DOMAIN headers |-> Line(headers[i].name, Text(headers[i].content))]

\* mime_headers::value(): the text of some headers is divided into a value and
\* arguments, of which the last of a name counts; the rest is a value as it is.
Value(name, text) ==
  IF name \in Divided
    THEN FoldLeft(LAMBDA content, word : Subvalue(content, word.name, word.text),
                  Simple(Those(text, {i \in DOMAIN text : ~IsArgument(text[i])})),
                  Those(text, {i \in DOMAIN text : IsArgument(text[i])}))
    ELSE Simple(text)

ValueName(name) == IF name = "Content-Disposition" THEN "content-disposition" ELSE name

\* Mutant: names with an underscore are taken as well.
ParseLine_any(headers, line) ==
  Add(headers, ValueName(line.name), Value(line.name, line.text))

\* headers_base::parse() of one line.
ParseLine(headers, line) ==
  IF line.name \in Underscored
    THEN headers
    ELSE Add(headers, ValueName(line.name), Value(line.name, line.text))

Parse(lines) == FoldLeft(ParseLine, <<>>, lines)
=============================================================================
