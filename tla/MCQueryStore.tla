---------------------------- MODULE MCQueryStore ----------------------------
(* QueryStore with a table of one or two columns that has every type, an   *)
(* int of three bits and an integer too wide for it.                       *)
EXTENDS QueryStore

Integer(n) == [type |-> "integer", value |-> n]
Wide == Integer(5)
Text == [type |-> "text", value |-> 1]

MCCells == {Integer(-3), Wide, Text, Null,
            [type |-> "float", value |-> 1], [type |-> "blob", value |-> 1]}

MCRows == {<<Integer(-3)>>, <<Wide>>, <<Text, Wide>>,
           <<[type |-> "blob", value |-> 1], [type |-> "float", value |-> 1]>>,
           <<Null, Text>>}

=============================================================================
