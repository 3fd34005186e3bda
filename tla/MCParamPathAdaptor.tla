------------------------- MODULE MCParamPathAdaptor -------------------------
(* All strings up to a length, over the two separators and one other       *)
(* character.                                                              *)
EXTENDS ParamPathAdaptor

CONSTANT MaxLength        \* bound: characters in a string

Strings == UNION {[1..n -> {"/", "?", "c"}] : n \in 0..MaxLength}

=============================================================================
