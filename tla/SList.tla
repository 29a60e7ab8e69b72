------------------------------- MODULE SList -------------------------------
(***************************************************************************)
(* The intrusive lists of ven (util/slist.h) that every pool is built of.  *)
(* A node has one field next_, shared by all lists: `next` is that field   *)
(* of every node.  A list is its own three members; an operation returns   *)
(* the new list (and the nodes it took) with the new `next`.               *)
(***************************************************************************)
EXTENDS Naturals, Sequences

CONSTANTS Node, Null

Empty == [cnt |-> 0, start |-> Null, end |-> Null]

\* T* pop(): cnt_ decides which members change.
Pop(l, next) ==
    IF l.cnt = 0 THEN [node |-> Null, list |-> l, next |-> next]
    ELSE [node |-> l.start,
          list |-> [cnt   |-> l.cnt - 1,
                    start |-> IF l.cnt = 1 THEN Null ELSE next[l.start],
                    end   |-> CASE l.cnt = 1 -> Null
                                [] l.cnt = 2 -> next[l.start]
                                [] OTHER -> l.end],
          next |-> [next EXCEPT ![l.start] = Null]]

\* void push(T*).
Push(l, next, n) ==
    IF l.cnt = 0
    THEN [list |-> [cnt |-> 1, start |-> n, end |-> n],
          next |-> [next EXCEPT ![n] = Null]]
    ELSE [list |-> [l EXCEPT !.cnt = l.cnt + 1, !.start = n],
          next |-> [next EXCEPT ![n] = l.start]]

\* n different nodes of S, in the order they are created and pushed.
Orders(n, S) == {f \in [1..n -> S] : \A i, j \in 1..n : f[i] = f[j] => i = j}

\* The list those pushes make of an empty one,
Chain(f, n) == [cnt |-> n, start |-> IF n = 0 THEN Null ELSE f[n],
                end |-> IF n = 0 THEN Null ELSE f[1]]

\* in which each node points to the one pushed before it.
Linked(next, f, n) ==
    [m \in Node |-> IF \E i \in 2..n : f[i] = m
                   THEN f[(CHOOSE i \in 2..n : f[i] = m) - 1]
                   ELSE IF \E i \in 1..n : f[i] = m THEN Null ELSE next[m]]

\* The node k steps after l.start, as the loop of pop(cnt, s) walks.
Walk(l, next, k) ==
    LET at[i \in 0..k] == IF i = 0 THEN l.start
                          ELSE IF at[i - 1] = Null THEN Null ELSE next[at[i - 1]]
    IN  at[k]

\* void pop(uint32_t, SList&), with cnt > 0: the first nodes, at most cnt,
\* move to the other list; whether a node is the last is read from next_.
PopMany(l, next, cnt) ==
    IF l.cnt = 0 THEN [taken |-> Empty, list |-> l, next |-> next]
    ELSE LET c == CHOOSE k \in 1..cnt :
                      /\ k = cnt \/ next[Walk(l, next, k - 1)] = Null
                      /\ \A j \in 1..(k - 1) : next[Walk(l, next, j - 1)] # Null
             e == Walk(l, next, c - 1)
         IN  [taken |-> [cnt |-> c, start |-> l.start, end |-> e],
              list  |-> [cnt |-> l.cnt - c, start |-> next[e],
                         end |-> IF next[e] = Null THEN Null ELSE l.end],
              next  |-> [next EXCEPT ![e] = Null]]

\* void push(SList&): the whole of s goes in front; s is emptied.
PushList(l, next, s) ==
    IF s.cnt = 0 THEN [list |-> l, next |-> next]
    ELSE IF l.cnt = 0 THEN [list |-> s, next |-> next]
    ELSE [list |-> [cnt |-> l.cnt + s.cnt, start |-> s.start, end |-> l.end],
          next |-> [next EXCEPT ![s.end] = l.start]]
----------------------------------------------------------------------------
\* What a list is meant to be: seq is its nodes from start_ to end_.
Holds(l, next, seq) ==
    /\ l.cnt = Len(seq)
    /\ l.start = IF seq = <<>> THEN Null ELSE seq[1]
    /\ l.end = IF seq = <<>> THEN Null ELSE seq[Len(seq)]
    /\ \A i, j \in 1..Len(seq) : seq[i] = seq[j] => i = j
    /\ \A i \in 1..(Len(seq) - 1) : next[seq[i]] = seq[i + 1]
    /\ seq # <<>> => next[seq[Len(seq)]] = Null

\* The nodes of a list, found as its user finds them, one pop after another.
Nodes(l, next) == [i \in 1..l.cnt |-> Walk(l, next, i - 1)]
============================================================================
