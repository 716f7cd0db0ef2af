------------------------------ MODULE MCRequest ------------------------------
(* One application works on the address, one on the headers, and one lets its *)
(* agent sign, or signs itself.  Names are in the order of their text without *)
(* regard to case.                                                            *)
EXTENDS Request, TLC

MCOrder ==
  <<{"__remote_addr"}, {"Accept", "accept"}, {"Authorization"},
    {"Content-Disposition", "content-disposition"}, {"Content-Length"},
    {"Content-Transfer-Encoding"}, {"Content-Type"}, {"Date"}, {"Host"}, {"TE"},
    {"User-Agent"}, {"X-FOST-Headers"}, {"X-FOST-Timestamp"}, {"x_app"}>>
MCRank == [name \in UNION Range(MCOrder) |->
             CHOOSE i \in DOMAIN MCOrder : name \in MCOrder[i]]
MCUnderscored == {"__remote_addr", "x_app"}
MCSubNames == <<"charset", "name">>

MCKeys == <<"a", "a=b", "b">>
MCMangled == {"~"}
MCMisprinted == Field("a=b", "1") :> Field("a", "b=1")

Path(p) == Reference(<<>>, <<p>>, <<>>, <<>>)
MCReferences ==
  {Path(p) : p \in {<<"", "p", "q", "r">>, <<"", "p", "">>, <<"", "p", "..">>,
                    <<"", "p", "q", ".">>, <<"x">>,
                    <<".", "x">>, <<"..", "x">>, <<"..">>, <<".">>, <<"x", "">>,
                    <<"x", "", ".", "..", "..", "y">>, <<"..", "..", "x">>}}
  \cup {Reference(<<"other">>, <<>>, <<>>, <<>>),
        Reference(<<"other">>, <<(<<"", "x", ".", "y">>)>>, <<Field("b", "2")>>, <<>>),
        Reference(<<>>, <<>>, <<Field("b", Bare)>>, <<>>),
        Reference(<<>>, <<>>, <<Field("b", "2"), Field("a", "1")>>, <<"top">>),
        Reference(<<>>, <<>>, <<>>, <<"top">>)}

MCContents ==
  {Header("Accept", Simple(<<Plain("one")>>)), Header("accept", Simple(<<Plain("two")>>)),
   Header("__remote_addr", Simple(<<Plain("forged")>>)),
   Header("Authorization", Simple(<<Plain("Basic")>>)),
   Header("Content-Disposition", Content(<<Plain("form")>>, [name |-> "n"])),
   Header("x_app", Simple(<<Plain("app")>>))}
MCSubValues == {<<"Content-Type", "name", "n">>, <<"Accept", "name", "n">>,
                <<"x_app", "name", "n">>}

Signer(key, secret, names) == [key |-> key, secret |-> secret, names |-> names]
MCSecret == "key" :> "secret"
MCSigners == {Signer("key", "secret", <<"Accept", "Date">>), Signer("key", "other", <<"accept">>)}
MCAgents ==
  {<<Signer("key", "secret", <<"Accept", "Date">>)>>, <<Signer("stranger", "secret", <<>>)>>,
   <<Signer("key", "secret", <<"Content-Type", "x_app">>)>>}

MCApplications ==
  "address" :> [references |-> MCReferences,
                fields |-> {Field("b", "1"), Field("a", NoValue), Field("a", "~"),
                           Field("a=b", "1")},
                contents |-> {}, subvalues |-> {}, signers |-> {}, agents |-> {<<>>},
                data |-> {<<>>}, skews |-> {0}, edits |-> 3, calls |-> 1, time |-> 0] @@
  "headers" :> [references |-> {Reference(<<"other">>, <<>>, <<>>, <<>>)}, fields |-> {},
                contents |-> MCContents, subvalues |-> MCSubValues,
                signers |-> {}, agents |-> {<<>>},
                data |-> {<<>>, <<"text">>}, skews |-> {0}, edits |-> 2, calls |-> 2, time |-> 0] @@
  "signing" :> [references |-> {Path(<<"x">>)}, fields |-> {Field("a", "1")},
                contents |-> {Header("Accept", Simple(<<Plain("one")>>)),
                              Header("Authorization", Simple(<<Plain("Basic")>>))},
                subvalues |-> {},
                signers |-> MCSigners, agents |-> MCAgents \cup {<<>>},
                data |-> {<<>>}, skews |-> {0, 1}, edits |-> 2, calls |-> 2, time |-> 2]

MCTouchable == {"Accept"}
=============================================================================
