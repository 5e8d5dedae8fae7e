------------------------------ MODULE MCScreen ------------------------------
(***************************************************************************)
(* An instance of Screen for TLC.                                          *)
(***************************************************************************)
EXTENDS Screen

Words == {<<w>> : w \in {0, 9, 10, 15, 16, 31}}
LongLongs == {<<5, 0>>, <<0, 7>>, <<0, 9>>, <<1, 10>>, <<0, 15>>, <<0, 16>>, <<0, 25>>, <<31, 31>>}

Numbers ==
  {Number(k, l, w) : k \in {"d", "u", "x", "o"}, l \in {<<>>, <<"h">>, <<"h", "h">>, <<"l">>},
                     w \in Words}
  \union {Number(k, <<"l", "l">>, w) : k \in {"d", "u", "x", "o"}, w \in LongLongs}

Others == {Literal(NL), Percent, Char("a"), String(<<"a", "b">>)}

\* Pairs that begin with a conversion of each length, and with none.
Leading ==
  Others \union {Number("d", l, <<31>>) : l \in {<<>>, <<"h">>, <<"h", "h">>, <<"l">>}}
         \union {Number("x", <<"l", "l">>, <<5, 0>>)}
Trailing == {Literal("a"), Number("d", <<>>, <<10>>), Number("u", <<"l", "l">>, <<5, 1>>)}

OneOrTwo == {<<d>> : d \in Numbers \union Others} \union (Leading \X Trailing)

Letters == {"a", NL}
Halted == <<"S", NL, "R", NL>>
Panicked == <<"K", "P", NL>>
=============================================================================
