------------------------------ MODULE MCResp3 ------------------------------
(***************************************************************************)
(* Scalars of every type, with texts that look like protocol, and          *)
(* aggregates of them, some nested.                                        *)
(***************************************************************************)
EXTENDS Replies

MCTexts == {<<>>, <<"a">>, <<"CR", "LF">>, <<"$", "1", "CR", "LF">>}

Scalars ==
  {<<"$", t>> : t \in MCTexts} \cup {<<":", 2>>, <<",", -1>>, <<"+", <<"a">>>>, <<"-", <<>>>>, <<"(", <<"9">>>>}

Unframed ==
  {<<"_">>, <<"#", TRUE>>, <<"#", FALSE>>, <<"!", <<"a">>>>, <<"=", <<"t", "x", "t">>, <<"a">>>>}

Two == <<":", 2>>
A   == <<"$", <<"a">>>>

Aggregates ==
  {<<type, <<>>>> : type \in {"*", "~", ">", "%"}}
    \cup {<<type, <<v>>>> : type \in {"*", "~", ">"}, v \in {A, <<"%", <<Two, A>>>>, <<"*", <<Two, A>>>>, <<"_">>}}
    \cup {<<"%", <<A, v>>>> : v \in {Two, <<"~", <<>>>>}}
    \cup {<<"%", <<A, Two, A, A>>>>, <<"%", <<Two, A, A, Two>>>>}   \* a key twice, two keys
    \cup {<<"%", <<<<"*", <<>>>>, A>>>>}                             \* a key that is an array
    \cup {<<"|", <<A, Two>>, v>> : v \in {Two, <<"*", <<A>>>>}}

AllValues   == Scalars \cup Unframed \cup Aggregates
AllShared   == DOMAIN Shared

\* A rune of two bytes.
ReplyTexts  == {<<"a">>, <<"$", "1", "CR", "LF">>, <<"C3", "A9">>}
ReplyErrors == {<<>>, <<"a">>, <<"-", "a">>}
AllCommands == {<<<<"a">>>>, <<<<"a">>, <<"CR", "LF">>>>, <<<<"a">>, <<>>, <<"2">>>>}
=============================================================================
