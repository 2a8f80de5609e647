------------------------------- MODULE MCHash -------------------------------
(***************************************************************************)
(* The walker on trees of every shape up to a bound.                       *)
(***************************************************************************)
EXTENDS Walker, Trees

LOCAL INSTANCE Bitwise

CONSTANT MaxDepth   \* bound: how deep a value is nested

MCXor(a, b) == a ^^ b

Atoms == {Nil, Func, Number(0), Number(1), String(0), String(1), String(2)}

Beside == {Func, Number(1), String(1)}

\* Values with an item of S, alone or with another beside it.
Larger(S) ==
  {Map(<<>>), Slice(<<>>)} \cup
  {Slice(<<v>>) : v \in S} \cup {Slice(<<v, a>>) : v \in S, a \in Beside} \cup
  {Struct(<<v>>) : v \in S} \cup {Struct(<<a, v>>) : v \in S, a \in Beside} \cup
  {Map(<<<<a, v>>, <<v, a>>>>) : v \in S, a \in Beside}

Nested[d \in 0 .. MaxDepth] ==
  IF d = 0 THEN Atoms ELSE Nested[d - 1] \cup Larger(Nested[d - 1])

MCValue == Nested[MaxDepth]

\* It ends: no value nests without end.
WalkEnds == <>Done
=============================================================================
