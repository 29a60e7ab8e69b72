------------------------------ MODULE MCArchive ------------------------------
(* Small instances of Archive for TLC. *)
EXTENDS Archive

Int2 == Prim(2)
Str == [k |-> "string", depth |-> 0]
VectorOf(t) == [k |-> "vector", of |-> t, depth |-> t.depth + 1]
SetOfType(t) == [k |-> "set", of |-> t, depth |-> t.depth + 1]
Map(t, u) == [k |-> "map", key |-> t, of |-> u,
              depth |-> (IF t.depth < u.depth THEN u.depth ELSE t.depth) + 1]

MCBodies ==
    {<<Str, Int2>>, <<VectorOf(Str)>>, <<SetOfType(Int2), Str>>, <<Map(Int2, Str)>>,
     <<VectorOf(SetOfType(Int2))>>, <<Int2, VectorOf(Int2), Int2>>}

MCType == {Prim(4)} \cup UNION {{body[n] : n \in DOMAIN body} : body \in MCBodies}
                    \cup {Str, Int2, SetOfType(Int2)}

\* The values a field of a type takes: two of each plain one, and containers of
\* no, one and two elements.
RECURSIVE ValuesOf(_)
ValuesOf(t) ==
    CASE t.k = "prim" -> {1, 2}
      [] t.k = "string" -> {<<>>, <<1>>, <<2, 1>>}
      [] t.k = "vector" ->
           LET V == ValuesOf(t.of) IN {<<>>} \cup {<<v>> : v \in V} \cup (V \X V)
      [] t.k = "set" -> {S \in SUBSET ValuesOf(t.of) : Cardinality(S) <= 2}
      [] t.k = "map" ->
           LET K == ValuesOf(t.key)
               V == ValuesOf(t.of)
           IN  {{}} \cup {{<<a, v>>} : a \in K, v \in V}
                    \cup {{<<1, v>>, <<2, w>>} : v \in V, w \in V}

MCValues(body) ==
    LET V(n) == ValuesOf(body[n]) IN
    CASE Len(body) = 1 -> {<<v>> : v \in V(1)}
      [] Len(body) = 2 -> V(1) \X V(2)
      [] Len(body) = 3 -> V(1) \X V(2) \X V(3)
============================================================================
