---------------------------- MODULE MCTypeChain ----------------------------
(* Every rank of the numeric families, three lengths of varchar, unbounded  *)
(* varchar, text and two unknown spellings; values up to one size more.     *)
EXTENDS TypeChain

MCTypes ==
    {Type("integer", r) : r \in 1 .. 3} \cup {Type("float", r) : r \in 1 .. 2}
        \cup {Type("varchar", n) : n \in {0, 2, 4, Unbounded}}
        \cup {Type("text", 0), Type("other", 1), Type("other", 2)}
MCSizes == 0 .. 5
=============================================================================
