----------------------------- MODULE MC_ValuePaths -----------------------------
(* Small strings and messages of up to three fields, for ValuePaths.        *)
EXTENDS ValuePaths

CONSTANTS x, nul

Digits == {1}
Letters == {x}

\* An INT32, a STRING, a declaration that is refused, and an INT32 whose size
\* passes for a type.
Declarations == {<<1, 4>>, <<2, 4>>, <<0, 4>>, <<1, 2>>}

Chars == {"a", "b", "c", "1", "id", Comma, Word}
Strings == {<<>>, <<"a">>, <<Word>>, <<"a", Comma>>, <<"a", "b", "c">>}
Fields == [key : {Word, "id"}, quoted : {TRUE}, text : Strings] \cup
          [key : {Word, "id"}, quoted : {FALSE}, text : {<<"1">>}]
Short == UNION {[1..n -> Fields] : n \in 1..2}
Before == {f \in Fields : f.key = "id" /\ f.text \in {<<"1">>, <<Word>>}}
Messages == Short \cup {<<f>> \o fs : f \in Before, fs \in [1..2 -> Fields]}
=============================================================================
