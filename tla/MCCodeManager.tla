--------------------------- MODULE MCCodeManager ---------------------------
EXTENDS CodeManager

MCName == <<"n">>
MCSignature == {<<2, 1>>}

(* A short string, one with a NUL inside, and one longer than its length   *)
(* field can say.                                                          *)
MCText == {<<"a">>, <<"a", "0", "b">>, [i \in 1 .. ImmSize |-> "a"]}
MCShortText == {<<"a">>}
=============================================================================
