-------------------------- MODULE MCKeyValueAdaptor --------------------------
(* All strings up to a length, over the two separators and one other       *)
(* character.                                                              *)
EXTENDS KeyValueAdaptor

CONSTANT MaxLength        \* bound: characters in a string

Strings == UNION {[1..n -> {"&", "=", "c"}] : n \in 0..MaxLength}

=============================================================================
