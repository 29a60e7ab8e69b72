------------------------------ MODULE Archive ------------------------------
(***************************************************************************)
(* A packet on its way through Archive (mem/archive.h, buf_conv.h): one    *)
(* serialize() of the program, `ar << field` for each field, measures the  *)
(* packet, writes it to a block of that size and reads it back into an     *)
(* object of the receiver.  Fields nest: strings, vectors, sets and maps   *)
(* of anything, the unordered ones in any order (mem/sizer.h, mem/buf.h).  *)
(*                                                                         *)
(* Size, Set and Get are templates of the code, instantiated for a type by *)
(* way of the types it is made of: here recursive functions on the types,  *)
(* f being what they are for those.                                        *)
(* A buffer is a set of cells, [at, size, val], as memcpy left them; a     *)
(* plain value, a character and a count are numbers.                       *)
(***************************************************************************)
EXTENDS Integers, Sequences, SequencesExt, FiniteSets

CONSTANTS
    Type,      \* the types of the program's fields, and what those are made of
    Nesting,   \* how deep they nest
    Bodies,    \* packets: the types of the fields after len_ and type_
    Values(_), \* the values of such a sequence of fields
    CntSize,   \* Sizer::cnt_size()
    LenSize, TypeSize, PacketType,  \* the header of the examples' packets
    Fail       \* whether the pool may be out of memory

\* A type is [k |-> "prim", size |-> .., depth |-> 0], a string, or a container
\* of others, each less deep.
Prim(size) == [k |-> "prim", size |-> size, depth |-> 0]
Container == {"vector", "set", "map"}

ASSUME TypeAssumption ==
    /\ Nesting \in Nat
    /\ {Prim(LenSize), Prim(TypeSize)} \subseteq Type
    /\ \A t \in Type :
          /\ t.k \in Container \cup {"prim", "string"}
          /\ t.depth \in 0..Nesting
          /\ t.k = "prim" => t.size \in Nat \ {0}
          /\ t.k \in Container => t.of \in Type /\ t.of.depth < t.depth
          /\ t.k = "map" => t.key \in Type /\ t.key.depth < t.depth

\* The types that t may be made of.
Below(t) == {u \in Type : u.depth < t.depth}

\* The values of a type.
ValOf(f, t) ==
    CASE t.k = "prim" -> Nat
      [] t.k = "string" -> Seq(Nat)
      [] t.k = "vector" -> Seq(f[t.of])
      [] t.k = "set" -> {v \in SUBSET f[t.of] : IsFiniteSet(v)}
      [] t.k = "map" -> {v \in SUBSET (f[t.key] \X f[t.of]) :
                            /\ IsFiniteSet(v)
                            /\ \A a, b \in v : a[1] = b[1] => a = b}
Val[t \in Type] == ValOf([u \in Below(t) |-> Val[u]], t)

ASSUME ArchiveAssumption ==
    /\ CntSize \in Nat \ {0} /\ PacketType \in Nat /\ Fail \in BOOLEAN
    /\ \A body \in Bodies :
          /\ body \in Seq(Type)
          /\ \A v \in Values(body) :
                /\ v = [n \in 1..Len(body) |-> v[n]]
                /\ \A n \in 1..Len(body) : v[n] \in Val[body[n]]

VARIABLES
    types,   \* the types of the fields, in the order of serialize
    packet,  \* the fields of the sender's object
    old,     \* the fields of the receiver's before it reads
    target,  \* and since
    pass,    \* Archive::mode_, or what happens in between
    field,   \* the next field
    pos,     \* pos_
    block    \* the Buf

archiveVars == <<types, packet, old, target, pass, field, pos, block>>

Header == <<Prim(LenSize), Prim(TypeSize)>>
----------------------------------------------------------------------------
\* What a container writes after its count, each with its type, in the order
\* it is walked.
VectorItems(t, v) == [n \in 1..Len(v) |-> <<t.of, v[n]>>]

SetItems(t, v) == VectorItems(t, SetToSeq(v))

MapItems(t, v) ==
    LET s == SetToSeq(v)
    IN  [n \in 1..(2 * Len(s)) |-> IF n % 2 = 1 THEN <<t.key, s[(n + 1) \div 2][1]>>
                                               ELSE <<t.of, s[n \div 2][2]>>]

Items(t, v) ==
    CASE t.k = "vector" -> VectorItems(t, v)
      [] t.k = "set" -> SetItems(t, v)
      [] t.k = "map" -> MapItems(t, v)

Count(t, v) == IF t.k \in {"set", "map"} THEN Cardinality(v) ELSE Len(v)

\* Sizer::size.  What has been measured after n items of a container,
Measured(f, items) ==
    LET size[n \in 0..Len(items)] ==
            IF n = 0 THEN CntSize ELSE size[n - 1] + f[items[n][1]][items[n][2]]
    IN  size

SizeWith(f, t, v) ==
    CASE t.k = "prim" -> t.size
      [] t.k = "string" -> CntSize + Len(v)
      [] OTHER -> LET items == Items(t, v) IN Measured(f, items)[Len(items)]

\* and the size of a value, by way of the sizes of its parts.
Size[t \in Type] ==
    [v \in Val[t] |-> SizeWith([u \in Below(t) |-> Size[u]], t, v)]

\* memcpy to and from the buffer.
Buffer == [len : Nat, cells : SUBSET [at : Nat, size : Nat, val : Nat]]
Copy(b, at, size, new) ==
    [b EXCEPT !.cells = {c \in @ : c.at + c.size <= at \/ at + size <= c.at} \cup new]
Put(b, at, size, val) == Copy(b, at, size, {[at |-> at, size |-> size, val |-> val]})
Cell(b, at, size) ==
    LET S == {c \in b.cells : c.at = at /\ c.size = size}
    IN  IF S = {} THEN 0 ELSE (CHOOSE c \in S : TRUE).val

PutString(b, at, v) ==
    Copy(b, at, Len(v), {[at |-> at + n - 1, size |-> 1, val |-> v[n]] : n \in 1..Len(v)})

\* Buf::set.  The buffer, and how far the position moved, after n items.
Written(f, b, at, items) ==
    LET SetItem(a, item) ==
            LET s == f[item[1]][item[2]][a.b][at + a.n]
            IN  [b |-> s.b, n |-> a.n + s.n]
        done[n \in 0..Len(items)] ==
            IF n = 0 THEN [b |-> b, n |-> CntSize] ELSE SetItem(done[n - 1], items[n])
    IN  done

\* A value that does not fit is left out.
SetWith(f, t, v, b, at) ==
    LET counted == Put(b, at, CntSize, Count(t, v))
        items == Items(t, v)
    IN  IF at + Size[t][v] > b.len THEN [b |-> b, n |-> 0]
        ELSE [n |-> Size[t][v],
              b |-> CASE t.k = "prim" -> Put(b, at, t.size, v)
                      [] t.k = "string" -> PutString(counted, at + CntSize, v)
                      [] OTHER -> Written(f, counted, at, items)[Len(items)].b]

Set[t \in Type] ==
    [v \in Val[t] |-> [b \in Buffer |-> [at \in Nat |->
        SetWith([u \in Below(t) |-> Set[u]], t, v, b, at)]]]

GetCnt(b, at) ==
    IF at + CntSize > b.len THEN [v |-> 0, n |-> 0]
    ELSE [v |-> Cell(b, at, CntSize), n |-> CntSize]

\* Mutant of GetString: it skips a terminating zero.
GetStringZero(was, b, at) ==
    LET cnt == GetCnt(b, at) IN
    [v |-> IF cnt.v = 0 THEN was ELSE [n \in 1..cnt.v |-> Cell(b, at + cnt.n + n - 1, 1)],
     n |-> cnt.n + cnt.v + 1]

\* An empty string leaves the old one.
GetString(was, b, at) ==
    LET cnt == GetCnt(b, at) IN
    [v |-> IF cnt.v = 0 THEN was ELSE [n \in 1..cnt.v |-> Cell(b, at + cnt.n + n - 1, 1)],
     n |-> cnt.n + cnt.v]

\* Elements go to the end of the vector and into the set; a key that the map
\* has keeps its value.
Insert(t, was, vals) ==
    CASE t.k = "vector" -> Append(was, vals[1])
      [] t.k = "set" -> was \cup {vals[1]}
      [] t.k = "map" ->
           IF \E kv \in was : kv[1] = vals[1] THEN was ELSE was \cup {<<vals[1], vals[2]>>}

Fresh(t) ==
    CASE t.k = "prim" -> 0
      [] t.k \in {"string", "vector"} -> <<>>
      [] OTHER -> {}

\* Buf::get.  The value, and how far the position moved, after n elements.
Fetched(f, t, was, b, at, cnt) ==
    LET One(u, n) == f[u][Fresh(u)][b][at + n]
        GetItem(a) ==
            IF t.k = "map"
            THEN LET key == One(t.key, a.n)
                     val == One(t.of, a.n + key.n)
                 IN  [v |-> Insert(t, a.v, <<key.v, val.v>>), n |-> a.n + key.n + val.n]
            ELSE LET e == One(t.of, a.n)
                 IN  [v |-> Insert(t, a.v, <<e.v>>), n |-> a.n + e.n]
        got[n \in 0..cnt.v] ==
            IF n = 0 THEN [v |-> was, n |-> cnt.n] ELSE GetItem(got[n - 1])
    IN  got

GetWith(f, t, was, b, at) ==
    LET cnt == GetCnt(b, at) IN
    CASE t.k = "prim" ->
           IF at + t.size > b.len THEN [v |-> was, n |-> 0]
           ELSE [v |-> Cell(b, at, t.size), n |-> t.size]
      [] t.k = "string" -> GetString(was, b, at)
      [] OTHER -> Fetched(f, t, was, b, at, cnt)[cnt.v]

Get[t \in Type] ==
    [was \in Val[t] |-> [b \in Buffer |-> [at \in Nat |->
        GetWith([u \in Below(t) |-> Get[u]], t, was, b, at)]]]
----------------------------------------------------------------------------
NoBuf == [len |-> 0, cells |-> {}]

ArchiveInit ==
    /\ \E body \in Bodies :
          /\ types = Header \o body
          /\ \E v, w \in Values(body) :
                /\ packet = <<0, PacketType>> \o v
                /\ old \in {<<0, PacketType>> \o w,
                            <<0, PacketType>> \o [n \in 1..Len(body) |-> Fresh(body[n])]}
    /\ target = old
    /\ pass = "Size" /\ field = 1 /\ pos = 0 /\ block = NoBuf

Field(p) == pass = p /\ field <= Len(types) /\ field' = field + 1

\* operator<< in each of the three modes.
SizeField ==
    /\ Field("Size")
    /\ pos' = pos + Size[types[field]][packet[field]]
    /\ UNCHANGED <<types, packet, old, target, pass, block>>

WriteField ==
    /\ Field("Write")
    /\ LET s == Set[types[field]][packet[field]][block][pos]
       IN  block' = s.b /\ pos' = pos + s.n
    /\ UNCHANGED <<types, packet, old, target, pass>>

ReadField ==
    /\ Field("Read")
    /\ LET g == Get[types[field]][target[field]][block][pos]
       IN  target' = [target EXCEPT ![field] = g.v] /\ pos' = pos + g.n
    /\ UNCHANGED <<types, packet, old, pass, block>>

Pass(p) == field = Len(types) + 1 /\ pass' = p /\ field' = 1 /\ pos' = 0

\* Mutant of Alloc: the packet is not told its size.
AllocNoSize ==
    /\ pass = "Size"
    /\ \/ Pass("Write") /\ block' = [len |-> pos, cells |-> {}]
       \/ Fail /\ Pass("none") /\ UNCHANGED block
    /\ UNCHANGED <<types, packet, old, target>>

\* make_buf between its two passes: set_size, and a block of the pool, which is
\* cut to the size asked for.
Alloc ==
    /\ pass = "Size"
    /\ packet' = [packet EXCEPT ![1] = pos]
    /\ \/ Pass("Write") /\ block' = [len |-> pos, cells |-> {}]
       \/ Fail /\ Pass("none") /\ UNCHANGED block
    /\ UNCHANGED <<types, old, target>>

\* make_from, in the receiver.
MakeFrom ==
    /\ pass = "Write"
    /\ Pass("Read")
    /\ UNCHANGED <<types, packet, old, target, block>>

ArchiveNext == SizeField \/ Alloc \/ WriteField \/ MakeFrom \/ ReadField

ArchiveSpec == ArchiveInit /\ [][ArchiveNext]_archiveVars
----------------------------------------------------------------------------
\* What make_from leaves of the old value.
Keeps(t, was, v) ==
    CASE t.k = "prim" -> FALSE
      [] t.k = "string" -> v = <<>> /\ was # <<>>
      [] OTHER -> Count(t, was) > 0

(* What was measured, written and read is the same: the receiver's object  *)
(* becomes the sender's, but for a string, vector, set or map that was not *)
(* empty before in an object used again.                                   *)
RoundTrip ==
    pass = "Read" =>
        \A n \in 1..(field - 1) :
            Keeps(types[n], old[n], packet[n]) \/ target[n] = packet[n]

(* make_buf fills the block it asks for to the last byte, and its first    *)
(* field says so: the receiver cuts its stream by it (rbuf.h).             *)
Framed ==
    pass = "Write" /\ field = Len(types) + 1 =>
        pos = block.len /\ Cell(block, 0, LenSize) = block.len
============================================================================
