----------------------------- MODULE BufProofs -----------------------------
(***************************************************************************)
(* Proofs about what goes through a Buf.                                   *)
(*                                                                         *)
(* RecvBuffer, for any number of memory blocks, any size classes, header   *)
(* size, packet sizes and default size, and a stream of any length:        *)
(* RecvInv is inductive.  Sizes says that the receive buffer never has     *)
(* fewer than DefaultSize bytes, which is what makes room for a header;    *)
(* Room follows the loop of _on_recv from one call to the next; HeldBelow  *)
(* keeps every slice held below the head of the block it shares with the   *)
(* receive buffer, and older than the bytes that wait there.               *)
(*                                                                         *)
(* Archive, for fields of any types, nested to any depth, with any values: *)
(* Codec says of a type that Set and Get keep to the bytes that Size       *)
(* measured and that Get reads what Set wrote, and is proved by induction  *)
(* on the depth of the type.  ArchiveInv carries it through the three      *)
(* passes over a packet.                                                   *)
(***************************************************************************)
EXTENDS RecvBuffer, Archive, FiniteSetTheorems, SequenceTheorems,
        WellFoundedInduction, TLAPS

\* The receive buffer has a block of at least DefaultSize bytes, or none.
Sizes == /\ phase # "down" => buf \in Mem /\ DefaultSize <= unit[buf]
         /\ phase = "down" => buf = NoMem /\ head = 0 /\ tail = 0

\* A block somebody refers to is allocated.
Alive == \A m \in Mem : ref[m] # 0 => unit[m] # 0

\* What the end of a round of _on_recv leaves for the next WSARecv.
Room == /\ phase = "arrange" => DataLen < unit[buf]
        /\ phase \in {"recv", "posted"} => tail < unit[buf]

\* Slices held are older than the unread window, and below it in its block.
HeldBelow == \A h \in held : /\ h.pos + h.len + DataLen <= got + 1
                             /\ h.mem = buf => h.off + h.len <= head

BlockInv == TypeOK /\ Sizes /\ Alive /\ RefExact /\ IsFiniteSet(held)
DataInv == WindowInBlock /\ HeldBelow /\ PendingIntact /\ HeldIntact

RecvInv == BlockInv /\ DataInv /\ Room
----------------------------------------------------------------------------
\* A set of natural numbers that is not empty has a least element.
LEMMA LeastNat ==
  ASSUME NEW S \in SUBSET Nat, S # {}
  PROVE  \E x \in S : \A y \in S : x <= y
<1>1. PICK x \in S : \A y \in S : ~(<<y, x>> \in OpToRel(<, Nat))
  <2>1. S \subseteq Nat
    OBVIOUS
  <2> QED
    BY <2>1, NatLessThanWellFounded, WFMin
<1>2. \A y \in S : ~(y < x)
  BY <1>1 DEF OpToRel
<1> QED
  BY <1>2

\* map_.lower_bound(size) finds a class that is large enough, and the size of
\* a block never exceeds MaxSize.
LEMMA ClassLarge ==
  ASSUME NEW size \in 0..MaxSize
  PROVE  ClassOf(size) \in size..MaxSize
<1>1. /\ size \in Nat /\ MaxSize \in Nat /\ size <= MaxSize
      /\ MaxUnit \in Units /\ MaxUnit \in Nat /\ Units \subseteq Nat
      /\ MaxUnit <= MaxSize
  BY SizeAssumption, UnitsAssumption
<1>2. CASE size > MaxUnit
  BY <1>1, <1>2 DEF ClassOf
<1>3. CASE ~(size > MaxUnit)
  <2> DEFINE Larger == {u \in Units : u >= size}
  <2>1. MaxUnit >= size
    BY <1>1, <1>3
  <2>2. PICK u \in Larger : \A v \in Larger : u <= v
    <3>1. MaxUnit \in Larger /\ Larger \subseteq Nat
      BY <1>1, <2>1
    <3> QED
      BY <3>1, LeastNat
  <2>3. \E w \in Units : w >= size /\ \A v \in Units : v >= size => w <= v
    BY <2>2
  <2>4. ClassOf(size) \in Units /\ ClassOf(size) >= size
    BY <1>3, <2>3 DEF ClassOf
  <2>5. ClassOf(size) \in Nat /\ ClassOf(size) <= MaxUnit
    BY <1>1, <2>4, UnitsAssumption
  <2>6. ClassOf(size) <= MaxSize
    BY <1>1, <2>5
  <2> QED
    BY <1>1, <2>4, <2>5, <2>6
<1> QED
  BY <1>2, <1>3

\* Refs(m) is a natural number.
LEMMA RefsNat ==
  ASSUME IsFiniteSet(held), NEW m
  PROVE  Refs(m) \in Nat /\ (Refs(m) = 0 => \A h \in held : h.mem # m)
<1>1. IsFiniteSet({h \in held : h.mem = m})
  BY FS_Subset, {h \in held : h.mem = m} \in SUBSET held
<1>2. Refs(m) \in Nat
  BY <1>1, FS_CardinalityType DEF Refs
<1>3. Refs(m) = 0 => {h \in held : h.mem = m} = {}
  BY <1>1, FS_EmptySet DEF Refs
<1> QED
  BY <1>2, <1>3

\* A slice more, or a slice fewer, counts for its own block only.
LEMMA RefsAdd ==
  ASSUME IsFiniteSet(held), NEW g, g \notin held, held' = held \cup {g}, NEW m
  PROVE  Refs(m)' = IF m = g.mem THEN Refs(m) + 1 ELSE Refs(m)
<1>1. IsFiniteSet({h \in held : h.mem = m})
  BY FS_Subset, {h \in held : h.mem = m} \in SUBSET held
<1>2. CASE m = g.mem
  <2>1. {h \in held' : h.mem = m} = {h \in held : h.mem = m} \cup {g}
    BY <1>2
  <2> QED
    BY <1>1, <1>2, <2>1, FS_AddElement DEF Refs
<1>3. CASE m # g.mem
  <2>1. {h \in held' : h.mem = m} = {h \in held : h.mem = m}
    BY <1>3
  <2> QED
    BY <1>3, <2>1 DEF Refs
<1> QED
  BY <1>2, <1>3

LEMMA RefsRemove ==
  ASSUME IsFiniteSet(held), NEW g \in held, held' = held \ {g}, NEW m
  PROVE  Refs(m)' = IF m = g.mem THEN Refs(m) - 1 ELSE Refs(m)
<1>1. IsFiniteSet({h \in held : h.mem = m})
  BY FS_Subset, {h \in held : h.mem = m} \in SUBSET held
<1>2. CASE m = g.mem
  <2>1. {h \in held' : h.mem = m} = {h \in held : h.mem = m} \ {g}
    BY <1>2
  <2> QED
    BY <1>1, <1>2, <2>1, FS_RemoveElement DEF Refs
<1>3. CASE m # g.mem
  <2>1. {h \in held' : h.mem = m} = {h \in held : h.mem = m}
    BY <1>3
  <2> QED
    BY <1>3, <2>1 DEF Refs
<1> QED
  BY <1>2, <1>3
----------------------------------------------------------------------------
\* The first state: RBuf::init has just taken a block.
LEMMA InitInv == Init => RecvInv
<1> SUFFICES ASSUME Init PROVE RecvInv
  OBVIOUS
<1>1. ClassOf(DefaultSize) \in DefaultSize..MaxSize
  BY ClassLarge, SizeAssumption
<1>2. TypeOK
  BY <1>1, SizeAssumption DEF Init, TypeOK, Phase
<1>3. Sizes /\ Room
  BY <1>1, SizeAssumption DEF Init, Sizes, Room, DataLen
<1>4. Alive
  BY <1>1, SizeAssumption DEF Init, Alive
<1>5. IsFiniteSet(held) /\ \A m \in Mem : Refs(m) = 0
  <2>1. held = {} /\ \A m \in Mem : {h \in held : h.mem = m} = {}
    BY DEF Init
  <2> QED
    BY <2>1, FS_EmptySet DEF Refs
<1>6. RefExact
  BY <1>5 DEF Init, RefExact
<1>7. DataInv
  BY <1>1, SizeAssumption
  DEF Init, DataInv, WindowInBlock, HeldBelow, PendingIntact, HeldIntact, DataLen
<1> QED
  BY <1>2, <1>3, <1>4, <1>5, <1>6, <1>7 DEF RecvInv, BlockInv
----------------------------------------------------------------------------
\* Steps that leave the buffer, the slices and the memory alone.
LEMMA QuietStep ==
  ASSUME RecvInv,
         UNCHANGED <<buf, head, tail, got, held, unit, ref, free, cell>>,
         phase' \in Phase, connected' \in BOOLEAN, psize' \in 0..MaxPacket,
         phase' = "down" <=> phase = "down",
         Room'
  PROVE  RecvInv'
<1>1. TypeOK' /\ Sizes' /\ Alive' /\ IsFiniteSet(held)'
  BY DEF RecvInv, BlockInv, TypeOK, Sizes, Alive
<1>2. RefExact'
  BY DEF RecvInv, BlockInv, RefExact, Refs
<1>3. DataInv'
  BY DEF RecvInv, DataInv, WindowInBlock, HeldBelow, PendingIntact, HeldIntact,
         DataLen
<1> QED
  BY <1>1, <1>2, <1>3 DEF RecvInv, BlockInv

LEMMA QuietSteps ==
  ASSUME RecvInv, RecvEnd \/ Reject \/ NoHeader \/ Recv \/ Drop \/ UNCHANGED vars
  PROVE  RecvInv'
<1>1. /\ UNCHANGED <<buf, head, tail, got, held, unit, ref, free, cell>>
      /\ psize' = psize
  BY DEF RecvEnd, Reject, NoHeader, Recv, Drop, vars, rbufvars, memvars
<1>2. /\ phase' \in Phase /\ connected' \in BOOLEAN
      /\ phase' = "down" <=> phase = "down"
  BY DEF RecvEnd, Reject, NoHeader, Recv, Drop, Announces, vars, Phase, RecvInv,
         BlockInv, TypeOK
<1>3. Room'
  <2>1. CASE NoHeader
    <3>1. DataLen < HeaderSize /\ HeaderSize <= DefaultSize /\ DefaultSize <= unit[buf]
      BY <2>1, SizeAssumption DEF NoHeader, RecvInv, BlockInv, Sizes
    <3>2. DataLen \in Int /\ unit[buf] \in Int
      BY <2>1 DEF NoHeader, RecvInv, BlockInv, TypeOK, Sizes, DataLen
    <3> QED
      BY <1>1, <2>1, <3>1, <3>2, SizeAssumption DEF NoHeader, Room, DataLen
  <2>2. CASE RecvEnd \/ Reject \/ Recv \/ Drop \/ UNCHANGED vars
    BY <1>1, <2>2 DEF RecvEnd, Reject, Recv, Drop, vars, Room, RecvInv, DataLen
  <2> QED
    BY <2>1, <2>2
<1>4. psize' \in 0..MaxPacket
  BY <1>1 DEF RecvInv, BlockInv, TypeOK
<1> QED
  BY <1>1, <1>2, <1>3, <1>4, QuietStep

\* Bytes arrive at the tail, above every slice of the block.
LEMMA RecvDataStep ==
  ASSUME RecvInv, NEW n \in 1..MaxSize, RecvData(n)
  PROVE  RecvInv'
<1>0. /\ TypeOK /\ Sizes /\ Alive /\ RefExact /\ IsFiniteSet(held)
      /\ WindowInBlock /\ HeldBelow /\ PendingIntact /\ HeldIntact
  BY DEF RecvInv, BlockInv, DataInv
<1>1. /\ phase = "posted" /\ phase' = "parse"
      /\ got' = got + n /\ tail' = tail + n
      /\ UNCHANGED <<connected, buf, head, psize, held, unit, ref, free>>
  BY DEF RecvData
<1>2. /\ buf \in Mem /\ unit[buf] \in 0..MaxSize
      /\ head \in Nat /\ tail \in Nat /\ got \in Nat /\ n \in Nat /\ MaxSize \in Nat
      /\ head <= tail /\ tail <= unit[buf] /\ tail - head <= got
      /\ n <= unit[buf] - tail
  BY <1>0, <1>1, SizeAssumption
  DEF RecvData, Sizes, TypeOK, WindowInBlock, RemainLen, DataLen
<1>3. /\ cell' \in [Mem -> [Offset -> Nat]]
      /\ \A m \in Mem \ {buf} : cell'[m] = cell[m]
      /\ \A o \in Offset : cell'[buf][o] =
            IF o >= tail /\ o < tail + n THEN got + 1 + (o - tail) ELSE cell[buf][o]
  <2> DEFINE new == [o \in Offset |-> IF o >= tail /\ o < tail + n
                                      THEN got + 1 + (o - tail) ELSE cell[buf][o]]
  <2>1. cell' = [cell EXCEPT ![buf] = new]
    BY DEF RecvData
  <2>2. new \in [Offset -> Nat]
    <3> SUFFICES ASSUME NEW o \in Offset
                 PROVE  (IF o >= tail /\ o < tail + n
                         THEN got + 1 + (o - tail) ELSE cell[buf][o]) \in Nat
      OBVIOUS
    <3>1. o \in Nat /\ cell[buf][o] \in Nat
      BY <1>0, <1>2 DEF Offset, TypeOK
    <3> QED
      BY <1>2, <3>1
  <2>3. \A o \in Offset : new[o] =
            IF o >= tail /\ o < tail + n THEN got + 1 + (o - tail) ELSE cell[buf][o]
    OBVIOUS
  <2> HIDE DEF new
  <2>4. cell' \in [Mem -> [Offset -> Nat]] /\ cell'[buf] = new
    BY <1>0, <1>2, <2>1, <2>2 DEF TypeOK
  <2>5. \A m \in Mem \ {buf} : cell'[m] = cell[m]
    BY <1>0, <2>1 DEF TypeOK
  <2> QED
    BY <2>3, <2>4, <2>5
<1>4. TypeOK'
  BY <1>0, <1>1, <1>2, <1>3 DEF TypeOK, Phase
<1>5. Sizes' /\ Alive' /\ RefExact' /\ IsFiniteSet(held)'
  BY <1>0, <1>1 DEF Sizes, Alive, RefExact, Refs
<1>6. WindowInBlock' /\ Room'
  BY <1>1, <1>2 DEF WindowInBlock, Room, DataLen
<1>7. HeldBelow'
  <2>1. DataLen' = DataLen + n /\ DataLen \in Nat
    BY <1>1, <1>2 DEF DataLen
  <2>2. ASSUME NEW h \in held
        PROVE  h.pos + h.len + DataLen' <= got' + 1
    <3>1. h.pos \in Nat /\ h.len \in Nat
      BY <1>0 DEF TypeOK, Slice
    <3>2. h.pos + h.len + DataLen <= got + 1
      BY <1>0 DEF HeldBelow
    <3> QED
      BY <1>1, <1>2, <2>1, <3>1, <3>2
  <2> QED
    BY <1>0, <1>1, <2>2 DEF HeldBelow
<1>8. PendingIntact'
  <2>1. DataLen' = tail + n - head /\ DataLen = tail - head
    BY <1>1, <1>2 DEF DataLen
  <2> SUFFICES ASSUME NEW i \in 0..(DataLen' - 1)
               PROVE  cell'[buf'][head' + i] = got' - DataLen' + 1 + i
    BY DEF PendingIntact
  <2>2. i \in Nat /\ i < tail + n - head /\ head + i \in Offset
    BY <1>2, <2>1 DEF Offset
  <2>3. CASE head + i >= tail
    BY <1>1, <1>2, <1>3, <2>1, <2>2, <2>3
  <2>4. CASE ~(head + i >= tail)
    <3>1. i \in 0..(DataLen - 1)
      BY <1>2, <2>1, <2>2, <2>4
    <3>2. cell[buf][head + i] = got - DataLen + 1 + i
      BY <1>0, <1>1, <3>1 DEF PendingIntact
    <3> QED
      BY <1>1, <1>2, <1>3, <2>1, <2>2, <2>4, <3>2
  <2> QED
    BY <2>3, <2>4
<1>9. HeldIntact'
  <2> SUFFICES ASSUME NEW h \in held, NEW i \in 0..(h.len - 1)
               PROVE  cell'[h.mem][h.off + i] = h.pos + i
    BY <1>1 DEF HeldIntact
  <2>1. h.mem \in Mem /\ h.off \in Nat /\ h.len \in Nat /\ i \in Nat /\ i < h.len
    BY <1>0 DEF TypeOK, Slice
  <2>2. cell[h.mem][h.off + i] = h.pos + i
    BY <1>0 DEF HeldIntact
  <2>3. CASE h.mem # buf
    BY <1>3, <2>1, <2>2, <2>3
  <2>4. CASE h.mem = buf
    <3>1. h.off + h.len <= head
      BY <1>0, <2>4 DEF HeldBelow
    <3>2. h.off + i \in Offset /\ ~(h.off + i >= tail)
      BY <1>2, <2>1, <3>1 DEF Offset
    <3> QED
      BY <1>3, <2>2, <2>4, <3>2
  <2> QED
    BY <2>3, <2>4
<1> QED
  BY <1>4, <1>5, <1>6, <1>7, <1>8, <1>9 DEF RecvInv, BlockInv, DataInv

\* A packet leaves the window; the slice of it that is kept lies below the
\* new head.
LEMMA DeliverStep ==
  ASSUME RecvInv, NEW n \in 1..MaxPacket, NEW keep \in BOOLEAN, Deliver(n, keep)
  PROVE  RecvInv'
<1>0. /\ TypeOK /\ Sizes /\ Alive /\ RefExact /\ IsFiniteSet(held)
      /\ WindowInBlock /\ HeldBelow /\ PendingIntact /\ HeldIntact
  BY DEF RecvInv, BlockInv, DataInv
<1> DEFINE g == [mem |-> buf, off |-> head, len |-> n, pos |-> got - DataLen + 1]
<1>1. /\ phase = "parse" /\ phase' = "parse" /\ head' = head + n /\ psize' = 0
      /\ UNCHANGED <<connected, buf, tail, got, unit, free, cell>>
      /\ \/ held' = held /\ ref' = ref
         \/ held' = held \cup {g} /\ ref' = [ref EXCEPT ![buf] = ref[buf] + 1]
  BY DEF Deliver, Announces, CopiedRef
<1>2. /\ buf \in Mem /\ unit[buf] \in 0..MaxSize
      /\ head \in Nat /\ tail \in Nat /\ got \in Nat /\ n \in Nat /\ n > 0
      /\ DataLen = tail - head /\ DataLen \in Nat /\ n <= DataLen
      /\ tail <= unit[buf] /\ DataLen <= got
  BY <1>0, <1>1, SizeAssumption
  DEF Deliver, Sizes, TypeOK, WindowInBlock, DataLen
<1>3. DataLen' = DataLen - n
  BY <1>1, <1>2 DEF DataLen
<1>4. /\ g \in Slice /\ g.mem = buf /\ g.off = head /\ g.len = n
      /\ g.pos = got - DataLen + 1
  BY <1>2 DEF Slice
<1>5. g \notin held
  <2> SUFFICES ASSUME g \in held PROVE FALSE
    OBVIOUS
  <2>1. g.pos + g.len + DataLen <= got + 1
    BY <1>0 DEF HeldBelow
  <2> QED
    BY <1>2, <1>4, <2>1
<1> HIDE DEF g
<1>6. TypeOK'
  <2>1. held' \subseteq Slice /\ ref' \in [Mem -> Nat]
    BY <1>0, <1>1, <1>2, <1>4 DEF TypeOK
  <2>2. psize' \in 0..MaxPacket /\ head' \in Nat
    BY <1>1, <1>2, SizeAssumption
  <2> QED
    BY <1>0, <1>1, <2>1, <2>2 DEF TypeOK
<1>7. Sizes' /\ Room'
  BY <1>0, <1>1 DEF Sizes, Room
<1>8. RefExact' /\ Alive' /\ IsFiniteSet(held')
  <2>1. CASE held' = held /\ ref' = ref
    BY <1>0, <1>1, <2>1 DEF RefExact, Refs, Alive
  <2>2. CASE held' = held \cup {g} /\ ref' = [ref EXCEPT ![buf] = ref[buf] + 1]
    <3>1. IsFiniteSet(held')
      BY <1>0, <2>2, FS_AddElement
    <3>2. \A m \in Mem : Refs(m)' = IF m = buf THEN Refs(m) + 1 ELSE Refs(m)
      BY <1>0, <1>4, <1>5, <2>2, RefsAdd
    <3>3. \A m \in Mem : Refs(m) \in Nat
      BY <1>0, RefsNat
    <3>4. ref[buf] = Refs(buf) + 1 /\ unit[buf] # 0 /\ buf \notin free
      BY <1>0, <1>2, <3>3 DEF RefExact, Alive
    <3>5. \A m \in Mem : ref'[m] = IF m = buf THEN ref[m] + 1 ELSE ref[m]
      BY <1>0, <1>2, <2>2 DEF TypeOK
    <3>6. RefExact'
      BY <1>0, <1>1, <3>2, <3>3, <3>4, <3>5 DEF RefExact
    <3>7. Alive'
      BY <1>0, <1>1, <3>4, <3>5 DEF Alive
    <3> QED
      BY <3>1, <3>6, <3>7
  <2> QED
    BY <1>1, <2>1, <2>2
<1>9. WindowInBlock'
  BY <1>1, <1>2, <1>3 DEF WindowInBlock
<1>10. HeldBelow'
  <2>1. ASSUME NEW h \in held
        PROVE  /\ h.pos + h.len + DataLen' <= got' + 1
               /\ h.mem = buf' => h.off + h.len <= head'
    <3>1. h.pos \in Nat /\ h.len \in Nat /\ h.off \in Nat
      BY <1>0 DEF TypeOK, Slice
    <3>2. /\ h.pos + h.len + DataLen <= got + 1
          /\ h.mem = buf => h.off + h.len <= head
      BY <1>0 DEF HeldBelow
    <3> QED
      BY <1>1, <1>2, <1>3, <3>1, <3>2
  <2>2. /\ g.pos + g.len + DataLen' <= got' + 1
        /\ g.off + g.len <= head'
    BY <1>1, <1>2, <1>3, <1>4
  <2> QED
    BY <1>1, <2>1, <2>2 DEF HeldBelow
<1>11. PendingIntact'
  <2> SUFFICES ASSUME NEW i \in 0..(DataLen' - 1)
               PROVE  cell'[buf'][head' + i] = got' - DataLen' + 1 + i
    BY DEF PendingIntact
  <2>1. i \in Nat /\ n + i \in 0..(DataLen - 1)
    BY <1>2, <1>3
  <2>2. cell[buf][head + (n + i)] = got - DataLen + 1 + (n + i)
    BY <1>0, <1>1, <2>1 DEF PendingIntact
  <2>3. head' + i = head + (n + i)
    BY <1>1, <1>2, <2>1
  <2> QED
    BY <1>1, <1>2, <1>3, <2>1, <2>2, <2>3
<1>12. HeldIntact'
  <2>1. ASSUME NEW i \in 0..(n - 1)
        PROVE  cell[buf][head + i] = g.pos + i
    <3>1. i \in 0..(DataLen - 1)
      BY <1>2
    <3> QED
      BY <1>0, <1>1, <1>4, <3>1 DEF PendingIntact
  <2> QED
    BY <1>0, <1>1, <1>4, <2>1 DEF HeldIntact
<1> QED
  BY <1>6, <1>7, <1>8, <1>9, <1>10, <1>11, <1>12 DEF RecvInv, BlockInv, DataInv
----------------------------------------------------------------------------
\* RBuf::change to a block that holds the unread bytes: they are the same
\* bytes, the window starts at 0, and the old block keeps the slices' references.
LEMMA ChangeStep ==
  ASSUME RecvInv, phase # "down", phase' # "down",
         NEW size \in 0..MaxSize, DefaultSize <= size, DataLen <= size,
         Change(size), UNCHANGED <<got, held>>,
         phase' \in Phase, connected' \in BOOLEAN, psize' \in 0..MaxPacket
  PROVE  /\ BlockInv' /\ DataInv'
         /\ head' = 0 /\ tail' = DataLen /\ size <= unit'[buf'] /\ unit'[buf'] \in Nat
<1>0. /\ TypeOK /\ Sizes /\ Alive /\ RefExact /\ IsFiniteSet(held)
      /\ WindowInBlock /\ HeldBelow /\ PendingIntact /\ HeldIntact
  BY DEF RecvInv, BlockInv, DataInv
<1>1. /\ buf \in Mem /\ unit[buf] \in 0..MaxSize
      /\ head \in Nat /\ tail \in Nat /\ got \in Nat
      /\ DataLen = tail - head /\ DataLen \in Nat
      /\ tail <= unit[buf] /\ DataLen <= got /\ MaxSize \in Nat /\ size \in Nat
  BY <1>0, SizeAssumption DEF Sizes, TypeOK, WindowInBlock, DataLen
<1>2. ClassOf(size) \in size..MaxSize /\ ClassOf(size) \in Nat /\ ClassOf(size) # 0
  BY <1>1, ClassLarge, SizeAssumption
<1>3. PICK m \in Mem \ {buf} :
       /\ CanGet(m, size)
       /\ cell' = [cell EXCEPT ![m] = Moved(m)]
       /\ ref' = [ref EXCEPT ![m] = 1, ![buf] = @ - 1]
       /\ unit' = [unit EXCEPT ![m] = ClassOf(size),
                               ![buf] = IF Drops(buf) /\ ~Pooled(buf) THEN 0 ELSE @]
       /\ free' = IF Drops(buf) /\ Pooled(buf) THEN (free \ {m}) \cup {buf}
                                               ELSE free \ {m}
       /\ buf' = m
       /\ head' = 0
       /\ tail' = MovedTail
  BY DEF Change
<1>4. \A k \in Mem : Refs(k) \in Nat
  BY <1>0, RefsNat
<1>5. ref[m] = 0 /\ Refs(m) = 0 /\ \A h \in held : h.mem # m
  <2>1. ref[m] = 0
    BY <1>0, <1>3 DEF CanGet, RefExact, Alive
  <2>2. Refs(m) = 0
    BY <1>0, <1>3, <1>4, <2>1 DEF RefExact
  <2> QED
    BY <1>0, <2>1, <2>2, RefsNat
<1>6. ref[buf] = Refs(buf) + 1 /\ ref[buf] \in Nat \ {0}
  BY <1>0, <1>1, <1>4 DEF RefExact
<1>7. /\ ref' \in [Mem -> Nat] /\ ref'[m] = 1 /\ ref'[buf] = ref[buf] - 1
      /\ \A k \in Mem \ {m, buf} : ref'[k] = ref[k]
  <2>1. ref \in [Mem -> Nat] /\ ref[buf] - 1 \in Nat
    BY <1>0, <1>6 DEF TypeOK
  <2>2. ref' = [ref EXCEPT ![m] = 1, ![buf] = ref[buf] - 1]
    BY <1>1, <1>3, <2>1
  <2> QED
    BY <1>1, <1>3, <2>1, <2>2
<1>8. /\ unit' \in [Mem -> 0..MaxSize] /\ unit'[m] = ClassOf(size)
      /\ unit'[buf] = IF ref[buf] = 1 /\ ~Pooled(buf) THEN 0 ELSE unit[buf]
      /\ \A k \in Mem \ {m, buf} : unit'[k] = unit[k]
  BY <1>0, <1>1, <1>2, <1>3 DEF TypeOK, Drops
<1>9. /\ free' \subseteq Mem /\ m \notin free'
      /\ buf \in free' <=> ref[buf] = 1 /\ Pooled(buf)
      /\ \A k \in Mem \ {m, buf} : k \in free' <=> k \in free
  <2>1. buf \notin free
    BY <1>0, <1>1, <1>6 DEF RefExact
  <2> QED
    BY <1>0, <1>1, <1>3, <2>1 DEF TypeOK, Drops
<1>10. /\ head' = 0 /\ tail' = DataLen /\ size <= unit'[buf'] /\ unit'[buf'] \in Nat
       /\ buf' = m /\ DataLen' = DataLen
  BY <1>1, <1>2, <1>3, <1>8 DEF MovedTail, DataLen
<1>11. /\ cell' \in [Mem -> [Offset -> Nat]]
       /\ \A k \in Mem \ {m} : cell'[k] = cell[k]
       /\ \A i \in 0..(DataLen - 1) : cell'[m][i] = cell[buf][head + i]
  <2>1. Moved(m) \in [Offset -> Nat]
    <3> SUFFICES ASSUME NEW o \in Offset
                 PROVE  (IF o < DataLen THEN cell[buf][head + o] ELSE cell[m][o]) \in Nat
      BY DEF Moved
    <3>1. o \in Nat /\ (o < DataLen => head + o \in Offset)
      BY <1>1 DEF Offset
    <3> QED
      BY <1>0, <1>1, <1>3, <3>1 DEF TypeOK
  <2>2. \A i \in 0..(DataLen - 1) : i \in Offset /\ i < DataLen
    BY <1>1 DEF Offset
  <2>3. \A i \in 0..(DataLen - 1) : Moved(m)[i] = cell[buf][head + i]
    BY <2>2 DEF Moved
  <2>4. cell' \in [Mem -> [Offset -> Nat]] /\ cell'[m] = Moved(m)
    BY <1>0, <1>3, <2>1 DEF TypeOK
  <2>5. \A k \in Mem \ {m} : cell'[k] = cell[k]
    BY <1>0, <1>3 DEF TypeOK
  <2> QED
    BY <2>3, <2>4, <2>5
<1>12. TypeOK'
  BY <1>0, <1>1, <1>7, <1>8, <1>9, <1>10, <1>11 DEF TypeOK
<1>13. Sizes'
  <2>1. DefaultSize <= unit'[buf']
    BY <1>1, <1>10, SizeAssumption
  <2> QED
    BY <1>3, <1>10, <2>1 DEF Sizes
<1>14. RefExact'
  <2>1. \A k \in Mem : Refs(k)' = Refs(k)
    BY DEF Refs
  <2>2. ASSUME NEW k \in Mem
        PROVE  /\ ref'[k] = Refs(k) + (IF k = m THEN 1 ELSE 0)
               /\ k \in free' <=> (ref'[k] = 0 /\ unit'[k] # 0)
    <3>1. CASE k = m
      BY <1>2, <1>5, <1>7, <1>8, <1>9, <3>1
    <3>2. CASE k = buf
      <4>1. unit[buf] # 0
        BY <1>0, <1>1, <1>6 DEF Alive
      <4> QED
        BY <1>3, <1>4, <1>6, <1>7, <1>8, <1>9, <3>2, <4>1
    <3>3. CASE k \notin {m, buf}
      BY <1>0, <1>7, <1>8, <1>9, <3>3 DEF RefExact
    <3> QED
      BY <3>1, <3>2, <3>3
  <2> QED
    BY <1>10, <2>1, <2>2 DEF RefExact
<1>15. Alive'
  BY <1>0, <1>2, <1>6, <1>7, <1>8 DEF Alive
<1>16. WindowInBlock'
  BY <1>1, <1>10 DEF WindowInBlock
<1>17. HeldBelow'
  BY <1>0, <1>5, <1>10 DEF HeldBelow
<1>18. PendingIntact'
  <2> SUFFICES ASSUME NEW i \in 0..(DataLen' - 1)
               PROVE  cell'[buf'][head' + i] = got' - DataLen' + 1 + i
    BY DEF PendingIntact
  <2>1. i \in 0..(DataLen - 1) /\ head' + i = i
    BY <1>10
  <2> QED
    BY <1>0, <1>10, <1>11, <2>1 DEF PendingIntact
<1>19. HeldIntact'
  <2>1. \A h \in held : h.mem \in Mem \ {m}
    BY <1>0, <1>5 DEF TypeOK, Slice
  <2> QED
    BY <1>0, <1>11, <2>1 DEF HeldIntact
<1> QED
  BY <1>0, <1>10, <1>12, <1>13, <1>14, <1>15, <1>16, <1>17, <1>18, <1>19
  DEF BlockInv, DataInv

\* check_size: a larger block, or none, before the rest of the packet.
LEMMA NeedMoreStep ==
  ASSUME RecvInv, NEW n \in 1..MaxPacket, NeedMore(n)
  PROVE  RecvInv'
<1>1. /\ phase = "parse" /\ phase' = "arrange" /\ psize' = n /\ DataLen < n
      /\ UNCHANGED <<connected, got, held>>
      /\ phase' \in Phase /\ connected' \in BOOLEAN /\ psize' \in 0..MaxPacket
  BY SizeAssumption DEF NeedMore, Announces, Phase, RecvInv, BlockInv, TypeOK,
     DataInv, WindowInBlock, DataLen
<1>2. /\ buf \in Mem /\ unit[buf] \in Nat /\ DefaultSize <= unit[buf]
      /\ DefaultSize \in Nat /\ n \in Nat /\ MaxSize \in Nat /\ 2 * n <= MaxSize
      /\ DataLen \in Nat
  BY <1>1, SizeAssumption DEF RecvInv, BlockInv, TypeOK, Sizes, DataInv,
     WindowInBlock, DataLen
<1>3. CASE unit[buf] < n
  <2>1. GrowTo(n) \in 0..MaxSize /\ DefaultSize <= GrowTo(n) /\ n <= GrowTo(n)
    BY <1>2, <1>3 DEF GrowTo
  <2>2. Change(GrowTo(n))
    BY <1>3 DEF NeedMore
  <2>3. DataLen <= GrowTo(n)
    BY <1>1, <1>2, <2>1
  <2>4. phase # "down" /\ phase' # "down" /\ UNCHANGED <<got, held>>
    BY <1>1
  <2> HIDE DEF GrowTo
  <2>5. /\ BlockInv' /\ DataInv'
        /\ head' = 0 /\ tail' = DataLen
        /\ GrowTo(n) <= unit'[buf'] /\ unit'[buf'] \in Nat
    BY <1>1, <2>1, <2>2, <2>3, <2>4, ChangeStep
  <2>6. DataLen' = DataLen
    BY <1>2, <2>5 DEF DataLen
  <2>7. Room'
    BY <1>1, <1>2, <2>1, <2>5, <2>6 DEF Room
  <2> QED
    BY <2>5, <2>7 DEF RecvInv
<1>4. CASE ~(unit[buf] < n)
  <2>1. UNCHANGED <<buf, head, tail, got, held, unit, ref, free, cell>>
    BY <1>1, <1>4 DEF NeedMore, rbufvars, memvars
  <2>2. Room'
    BY <1>1, <1>2, <1>4, <2>1 DEF Room, DataLen
  <2> QED
    BY <1>1, <2>1, <2>2, QuietStep
<1> QED
  BY <1>3, <1>4

\* check_arrange: whichever way it goes, there is room for the next receive.
LEMMA CheckArrangeStep ==
  ASSUME RecvInv, CheckArrange
  PROVE  RecvInv'
<1>1. /\ phase = "arrange" /\ phase' = "recv"
      /\ UNCHANGED <<connected, psize, got, held>>
      /\ phase' \in Phase /\ connected' \in BOOLEAN /\ psize' \in 0..MaxPacket
  BY DEF CheckArrange, Phase, RecvInv, BlockInv, TypeOK
<1>2. /\ buf \in Mem /\ unit[buf] \in 0..MaxSize /\ DefaultSize <= unit[buf]
      /\ DataLen \in Nat /\ DataLen < unit[buf] /\ tail \in Nat
      /\ tail <= unit[buf]
      /\ MaxSize \in Nat /\ DefaultSize \in 0..MaxSize /\ HeaderSize \in Nat
      /\ HeaderSize > 0
  BY <1>1, SizeAssumption DEF RecvInv, BlockInv, TypeOK, Sizes, DataInv,
     WindowInBlock, DataLen, Room
<1>3. ASSUME NEW size \in 0..MaxSize, DefaultSize <= size, DataLen < size,
             Change(size)
      PROVE  RecvInv'
  <2>1. phase # "down" /\ phase' # "down" /\ DataLen <= size
    BY <1>1, <1>2, <1>3
  <2>2. /\ BlockInv' /\ DataInv'
        /\ head' = 0 /\ tail' = DataLen
        /\ size <= unit'[buf'] /\ unit'[buf'] \in Nat
    BY <1>1, <1>3, <2>1, ChangeStep
  <2>3. Room'
    BY <1>1, <1>2, <1>3, <2>2 DEF Room
  <2> QED
    BY <2>2, <2>3 DEF RecvInv
<1>4. CASE Shrinks
  BY <1>2, <1>3, <1>4 DEF CheckArrange, Shrinks
<1>5. CASE ~Shrinks /\ NearlyUsed
  BY <1>2, <1>3, <1>5 DEF CheckArrange
<1>6. CASE ~Shrinks /\ ~NearlyUsed
  <2>1. UNCHANGED <<buf, head, tail, got, held, unit, ref, free, cell>>
    BY <1>1, <1>6 DEF CheckArrange, rbufvars, memvars
  <2>2. tail < unit[buf]
    BY <1>2, <1>6 DEF NearlyUsed, RemainLen
  <2>3. Room'
    BY <1>1, <2>1, <2>2 DEF Room
  <2> QED
    BY <1>1, <2>1, <2>3, QuietStep
<1> QED
  BY <1>4, <1>5, <1>6
----------------------------------------------------------------------------
\* rel_ref on a block somebody refers to: the last reference sends it back to
\* the pool, or frees it.
LEMMA RelRefStep ==
  ASSUME BlockInv, NEW m \in Mem, ref[m] # 0, RelRef(m)
  PROVE  /\ ref' \in [Mem -> Nat] /\ unit' \in [Mem -> 0..MaxSize]
         /\ free' \subseteq Mem /\ cell' = cell
         /\ ref'[m] = ref[m] - 1
         /\ ref[m] # 1 => unit'[m] = unit[m]
         /\ m \in free' <=> (ref'[m] = 0 /\ unit'[m] # 0)
         /\ ref'[m] # 0 => unit'[m] # 0
         /\ \A k \in Mem \ {m} : /\ ref'[k] = ref[k] /\ unit'[k] = unit[k]
                                 /\ k \in free' <=> k \in free
<1>1. /\ ref \in [Mem -> Nat] /\ unit \in [Mem -> 0..MaxSize] /\ free \subseteq Mem
      /\ m \notin free /\ unit[m] # 0 /\ MaxSize \in Nat
  BY SizeAssumption DEF BlockInv, TypeOK, RefExact, Alive
<1>2. ref' = [ref EXCEPT ![m] = ref[m] - 1] /\ ref[m] - 1 \in Nat
  BY <1>1 DEF RelRef
<1>3. /\ unit' = [unit EXCEPT ![m] = IF ref[m] = 1 /\ ~Pooled(m) THEN 0 ELSE unit[m]]
      /\ free' = IF ref[m] = 1 /\ Pooled(m) THEN free \cup {m} ELSE free
      /\ cell' = cell
  BY <1>1 DEF RelRef, Drops
<1>4. /\ ref' \in [Mem -> Nat] /\ unit' \in [Mem -> 0..MaxSize] /\ free' \subseteq Mem
      /\ ref'[m] = ref[m] - 1
      /\ unit'[m] = IF ref[m] = 1 /\ ~Pooled(m) THEN 0 ELSE unit[m]
      /\ \A k \in Mem \ {m} : ref'[k] = ref[k] /\ unit'[k] = unit[k]
      /\ \A k \in Mem \ {m} : k \in free' <=> k \in free
  BY <1>1, <1>2, <1>3
<1>5. ref'[m] = 0 <=> ref[m] = 1
  BY <1>1, <1>4
<1>6. m \in free' <=> ref[m] = 1 /\ Pooled(m)
  BY <1>1, <1>3
<1> QED
  BY <1>1, <1>3, <1>4, <1>5, <1>6

\* The application lets a slice go; the receive buffer keeps its own block.
LEMMA ReleaseStep ==
  ASSUME RecvInv, NEW h \in held, Release(h)
  PROVE  RecvInv'
<1>0. /\ TypeOK /\ Sizes /\ Alive /\ RefExact /\ IsFiniteSet(held) /\ BlockInv
      /\ WindowInBlock /\ HeldBelow /\ PendingIntact /\ HeldIntact /\ Room
  BY DEF RecvInv, BlockInv, DataInv
<1>1. /\ UNCHANGED <<phase, connected, buf, head, tail, psize, got>>
      /\ held' = held \ {h} /\ RelRef(h.mem)
  BY DEF Release, rbufvars
<1>2. h.mem \in Mem
  BY <1>0 DEF TypeOK, Slice
<1>3. \A m \in Mem : Refs(m) \in Nat
  BY <1>0, RefsNat
<1>4. Refs(h.mem) # 0
  BY <1>0, <1>2, RefsNat
<1>5. ref[h.mem] # 0 /\ (h.mem = buf => ref[h.mem] # 1)
  BY <1>0, <1>2, <1>3, <1>4 DEF RefExact
<1>6. /\ ref' \in [Mem -> Nat] /\ unit' \in [Mem -> 0..MaxSize]
      /\ free' \subseteq Mem /\ cell' = cell
      /\ ref'[h.mem] = ref[h.mem] - 1
      /\ ref[h.mem] # 1 => unit'[h.mem] = unit[h.mem]
      /\ h.mem \in free' <=> (ref'[h.mem] = 0 /\ unit'[h.mem] # 0)
      /\ ref'[h.mem] # 0 => unit'[h.mem] # 0
      /\ \A k \in Mem \ {h.mem} : /\ ref'[k] = ref[k] /\ unit'[k] = unit[k]
                                  /\ k \in free' <=> k \in free
  BY <1>0, <1>1, <1>2, <1>5, RelRefStep
<1>7. TypeOK'
  BY <1>0, <1>1, <1>6 DEF TypeOK
<1>8. buf \in Mem => unit'[buf] = unit[buf]
  BY <1>2, <1>5, <1>6
<1>9. Sizes' /\ WindowInBlock' /\ Room'
  BY <1>0, <1>1, <1>8 DEF Sizes, WindowInBlock, Room, DataLen
<1>10. Alive'
  BY <1>0, <1>2, <1>6 DEF Alive
<1>11. IsFiniteSet(held')
  BY <1>0, <1>1, FS_RemoveElement
<1>12. RefExact'
  <2>1. \A m \in Mem : Refs(m)' = IF m = h.mem THEN Refs(m) - 1 ELSE Refs(m)
    BY <1>0, <1>1, RefsRemove
  <2>2. ASSUME NEW m \in Mem
        PROVE  /\ ref'[m] = Refs(m)' + (IF m = buf THEN 1 ELSE 0)
               /\ m \in free' <=> (ref'[m] = 0 /\ unit'[m] # 0)
    <3>1. CASE m = h.mem
      BY <1>0, <1>2, <1>3, <1>6, <2>1, <3>1 DEF RefExact
    <3>2. CASE m # h.mem
      BY <1>0, <1>6, <2>1, <3>2 DEF RefExact
    <3> QED
      BY <3>1, <3>2
  <2> QED
    BY <1>1, <2>2 DEF RefExact
<1>13. HeldBelow' /\ PendingIntact' /\ HeldIntact'
  BY <1>0, <1>1, <1>6 DEF HeldBelow, PendingIntact, HeldIntact, DataLen
<1> QED
  BY <1>7, <1>9, <1>10, <1>11, <1>12, <1>13 DEF RecvInv, BlockInv, DataInv

\* RBuf::uninit drops the buffer's own reference; slices keep theirs.
LEMMA UninitStep ==
  ASSUME RecvInv, Uninit
  PROVE  RecvInv'
<1>0. /\ TypeOK /\ Sizes /\ Alive /\ RefExact /\ IsFiniteSet(held) /\ BlockInv
      /\ WindowInBlock /\ HeldBelow /\ HeldIntact
  BY DEF RecvInv, BlockInv, DataInv
<1>1. /\ phase = "closed" /\ phase' = "down" /\ RelRef(buf)
      /\ buf' = NoMem /\ head' = 0 /\ tail' = 0 /\ psize' = 0
      /\ UNCHANGED <<connected, got, held>>
  BY DEF Uninit
<1>2. buf \in Mem /\ NoMem \notin Mem
  BY <1>0, <1>1, MemAssumption DEF Sizes
<1>3. \A m \in Mem : Refs(m) \in Nat
  BY <1>0, RefsNat
<1>4. ref[buf] = Refs(buf) + 1
  BY <1>0, <1>2 DEF RefExact
<1>5. ref[buf] # 0
  BY <1>2, <1>3, <1>4
<1>6. /\ ref' \in [Mem -> Nat] /\ unit' \in [Mem -> 0..MaxSize]
      /\ free' \subseteq Mem /\ cell' = cell
      /\ ref'[buf] = ref[buf] - 1
      /\ buf \in free' <=> (ref'[buf] = 0 /\ unit'[buf] # 0)
      /\ ref'[buf] # 0 => unit'[buf] # 0
      /\ \A k \in Mem \ {buf} : /\ ref'[k] = ref[k] /\ unit'[k] = unit[k]
                                /\ k \in free' <=> k \in free
  BY <1>0, <1>1, <1>2, <1>5, RelRefStep
<1>7. TypeOK'
  BY <1>0, <1>1, <1>6, SizeAssumption DEF TypeOK, Phase
<1>8. Sizes' /\ Room' /\ WindowInBlock' /\ PendingIntact'
  BY <1>1 DEF Sizes, Room, WindowInBlock, PendingIntact
<1>9. Alive'
  BY <1>0, <1>2, <1>6 DEF Alive
<1>10. RefExact'
  <2>1. \A m \in Mem : Refs(m)' = Refs(m)
    BY <1>1 DEF Refs
  <2>2. ASSUME NEW m \in Mem
        PROVE  /\ ref'[m] = Refs(m) + 0
               /\ m \in free' <=> (ref'[m] = 0 /\ unit'[m] # 0)
    <3>1. CASE m = buf
      BY <1>3, <1>4, <1>6, <3>1
    <3>2. CASE m # buf
      BY <1>0, <1>6, <3>2 DEF RefExact
    <3> QED
      BY <3>1, <3>2
  <2> QED
    BY <1>1, <1>2, <2>1, <2>2 DEF RefExact
<1>11. HeldBelow'
  <2>1. DataLen' = 0
    BY <1>1 DEF DataLen
  <2>2. ASSUME NEW h \in held
        PROVE  h.pos + h.len + 0 <= got + 1 /\ h.mem # NoMem
    <3>1. h.mem \in Mem /\ h.pos \in Nat /\ h.len \in Nat
      BY <1>0 DEF TypeOK, Slice
    <3>2. h.pos + h.len + DataLen <= got + 1
      BY <1>0 DEF HeldBelow
    <3>3. DataLen \in Nat /\ got \in Nat
      BY <1>0, <1>1 DEF TypeOK, WindowInBlock, DataLen
    <3> QED
      BY <1>2, <3>1, <3>2, <3>3
  <2> QED
    BY <1>1, <2>1, <2>2 DEF HeldBelow
<1>12. HeldIntact'
  BY <1>0, <1>1, <1>6 DEF HeldIntact
<1> QED
  BY <1>0, <1>1, <1>7, <1>8, <1>9, <1>10, <1>11, <1>12 DEF RecvInv, BlockInv, DataInv

\* RBuf::init takes a block nobody refers to.
LEMMA ConnInitStep ==
  ASSUME RecvInv, ConnInit
  PROVE  RecvInv'
<1>0. /\ TypeOK /\ Sizes /\ Alive /\ RefExact /\ IsFiniteSet(held)
      /\ HeldBelow /\ HeldIntact
  BY DEF RecvInv, BlockInv, DataInv
<1>1. PICK m \in Mem :
          /\ CanGet(m, DefaultSize)
          /\ buf' = m
          /\ unit' = [unit EXCEPT ![m] = ClassOf(DefaultSize)]
          /\ ref' = [ref EXCEPT ![m] = 1]
          /\ free' = free \ {m}
  BY DEF ConnInit
<1>2. /\ phase = "down" /\ phase' = "recv" /\ connected' = TRUE
      /\ UNCHANGED <<head, tail, psize, got, held, cell>>
      /\ buf = NoMem /\ head = 0 /\ tail = 0 /\ NoMem \notin Mem
  BY <1>0, MemAssumption DEF ConnInit, Sizes
<1>3. /\ ClassOf(DefaultSize) \in DefaultSize..MaxSize
      /\ ClassOf(DefaultSize) \in 1..MaxSize
      /\ DefaultSize \in Nat /\ DefaultSize > 0
  BY ClassLarge, SizeAssumption
<1>4. \A k \in Mem : Refs(k) \in Nat
  BY <1>0, RefsNat
<1>5. ref[m] = 0 /\ Refs(m) = 0 /\ \A h \in held : h.mem # m
  <2>1. ref[m] = 0
    BY <1>0, <1>1 DEF CanGet, RefExact, Alive
  <2>2. Refs(m) = 0
    BY <1>0, <1>2, <1>4, <2>1 DEF RefExact
  <2> QED
    BY <1>0, <2>1, <2>2, RefsNat
<1>6. TypeOK'
  BY <1>0, <1>1, <1>2, <1>3 DEF TypeOK, Phase
<1>7. unit'[m] = ClassOf(DefaultSize) /\ ref'[m] = 1
  BY <1>0, <1>1 DEF TypeOK
<1>8. Sizes' /\ Room' /\ WindowInBlock'
  BY <1>0, <1>1, <1>2, <1>3, <1>7 DEF Sizes, Room, WindowInBlock, DataLen, TypeOK
<1>9. Alive'
  BY <1>0, <1>1, <1>3, <1>7 DEF Alive, TypeOK
<1>10. RefExact'
  <2>1. \A k \in Mem : Refs(k)' = Refs(k)
    BY <1>2 DEF Refs
  <2>2. ASSUME NEW k \in Mem
        PROVE  /\ ref'[k] = Refs(k) + (IF k = m THEN 1 ELSE 0)
               /\ k \in free' <=> (ref'[k] = 0 /\ unit'[k] # 0)
    <3>1. CASE k = m
      BY <1>1, <1>5, <1>7, <3>1
    <3>2. CASE k # m
      BY <1>0, <1>1, <1>2, <3>2 DEF RefExact, TypeOK
    <3> QED
      BY <3>1, <3>2
  <2> QED
    BY <1>1, <2>1, <2>2 DEF RefExact
<1>11. HeldBelow'
  BY <1>0, <1>1, <1>2, <1>5 DEF HeldBelow, DataLen
<1>12. PendingIntact' /\ HeldIntact'
  BY <1>0, <1>2 DEF PendingIntact, HeldIntact, DataLen
<1> QED
  BY <1>0, <1>2, <1>6, <1>8, <1>9, <1>10, <1>11, <1>12
  DEF RecvInv, BlockInv, DataInv
----------------------------------------------------------------------------
\* Every step of RecvBuffer preserves RecvInv.
LEMMA StepInv == RecvInv /\ [Next]_vars => RecvInv'
<1> SUFFICES ASSUME RecvInv, [Next]_vars PROVE RecvInv'
  OBVIOUS
<1>1. CASE RecvEnd \/ Reject \/ NoHeader \/ Recv \/ Drop \/ UNCHANGED vars
  BY <1>1, QuietSteps
<1>2. CASE \E n \in 1..MaxSize : RecvData(n)
  BY <1>2, RecvDataStep
<1>3. CASE \E n \in 1..MaxPacket, keep \in BOOLEAN : Deliver(n, keep)
  BY <1>3, DeliverStep
<1>4. CASE \E n \in 1..MaxPacket : NeedMore(n)
  BY <1>4, NeedMoreStep
<1>5. CASE CheckArrange
  BY <1>5, CheckArrangeStep
<1>6. CASE \E h \in held : Release(h)
  BY <1>6, ReleaseStep
<1>7. CASE Uninit
  BY <1>7, UninitStep
<1>8. CASE ConnInit
  BY <1>8, ConnInitStep
<1> QED
  BY <1>1, <1>2, <1>3, <1>4, <1>5, <1>6, <1>7, <1>8 DEF Next

\* RecvInv holds in every state of every behaviour of RecvBuffer.
THEOREM RecvInvariant == Spec => []RecvInv
BY InitInv, StepInv, PTL DEF Spec

\* The variables keep their types: no count goes below zero, and the window
\* never leaves the blocks there are.
THEOREM TypeCorrect == Spec => []TypeOK
<1>1. RecvInv => TypeOK
  BY DEF RecvInv, BlockInv
<1> QED
  BY <1>1, RecvInvariant, PTL

\* _on_recv never posts a WSARecv of no bytes, whatever check_size and
\* check_arrange did to the buffer.
THEOREM RoomToReceive == Spec => []RecvHasRoom
<1>1. RecvInv => RecvHasRoom
  BY DEF RecvInv, Room, RecvHasRoom
<1> QED
  BY <1>1, RecvInvariant, PTL

\* head_ and tail_ stay inside the block.
THEOREM WindowCorrect == Spec => []WindowInBlock
<1>1. RecvInv => WindowInBlock
  BY DEF RecvInv, DataInv
<1> QED
  BY <1>1, RecvInvariant, PTL

\* The bytes that wait for their packet survive every move of the buffer.
THEOREM PendingKept == Spec => []PendingIntact
<1>1. RecvInv => PendingIntact
  BY DEF RecvInv, DataInv
<1> QED
  BY <1>1, RecvInvariant, PTL

\* A slice handed to on_recv keeps its bytes until it is released.
THEOREM SlicesKept == Spec => []HeldIntact
<1>1. RecvInv => HeldIntact
  BY DEF RecvInv, DataInv
<1> QED
  BY <1>1, RecvInvariant, PTL

\* Mem::ref_ is exact, and a block is pooled exactly when nobody refers to it.
THEOREM CountsExact == Spec => []RefExact
<1>1. RecvInv => RefExact
  BY DEF RecvInv, BlockInv
<1> QED
  BY <1>1, RecvInvariant, PTL

----------------------------------------------------------------------------
\* A type is made of types that are less deep.
LEMMA Parts ==
  ASSUME NEW t \in Type
  PROVE  /\ t.depth \in 0..Nesting /\ Nesting \in Nat
         /\ t.k \in {"prim", "string", "vector", "set", "map"}
         /\ t.k \in Container => t.of \in Type /\ t.of.depth < t.depth
         /\ t.k = "map" => t.key \in Type /\ t.key.depth < t.depth
  BY TypeAssumption DEF Container

LEMMA Depths == \A t \in Type : t.depth \in Nat /\ ~(t.depth < 0) /\ t.depth < Nesting + 1
<1> SUFFICES ASSUME NEW t \in Type
             PROVE  t.depth \in Nat /\ ~(t.depth < 0) /\ t.depth < Nesting + 1
  OBVIOUS
<1> QED
  BY Parts

\* What holds for 0 and, when it holds for a number, for the next, leaves no
\* exceptions.
LEMMA NoneBad ==
  ASSUME NEW Bad \in SUBSET Nat, 0 \notin Bad,
         \A n \in Nat : n \notin Bad => n + 1 \notin Bad
  PROVE  \A n \in Nat : n \notin Bad
<1> SUFFICES ASSUME Bad # {} PROVE FALSE
  OBVIOUS
<1>1. PICK n \in Bad : \A m \in Bad : n <= m
  BY LeastNat
<1>2. n \in Nat /\ n # 0 /\ n - 1 \in Nat /\ (n - 1) + 1 = n /\ ~(n <= n - 1)
  OBVIOUS
<1> QED
  BY <1>1, <1>2

\* Recursion on the types is sound: Val, Size, Set and Get are what their
\* definitions say, of a type by way of the types it is made of.
ValBy(f, t) == ValOf([u \in Below(t) |-> f[u]], t)

LEMMA ValIs == Val = [t \in Type |-> ValBy(Val, t)]
<1> DEFINE Good(f, n) == \A t \in Type : t.depth < n => f[t] = ValBy(f, t)
           More(f) == [t \in Type |-> ValBy(f, t)]
           Bad == {n \in Nat : ~\E f : Good(f, n)}
<1>1. \A f : Good(f, 0)
  BY Depths
<1>2. ASSUME NEW n \in Nat, NEW f, Good(f, n) PROVE Good(More(f), n + 1)
  <2> SUFFICES ASSUME NEW t \in Type, t.depth < n + 1 PROVE ValBy(f, t) = ValBy(More(f), t)
    OBVIOUS
  <2>1. \A u \in Below(t) : f[u] = More(f)[u]
    BY <1>2, Depths DEF Below
  <2>2. [u \in Below(t) |-> f[u]] = [u \in Below(t) |-> More(f)[u]]
    BY <2>1
  <2> HIDE DEF More
  <2> QED
    BY <2>2, Zenon DEF ValBy
<1> HIDE DEF Good, More
<1>3. \A n \in Nat : n \notin Bad
  <2>1. 0 \notin Bad
    BY <1>1
  <2>2. \A n \in Nat : n \notin Bad => n + 1 \notin Bad
    BY <1>2
  <2>3. Bad \in SUBSET Nat
    OBVIOUS
  <2> HIDE DEF Bad
  <2> QED
    BY <2>1, <2>2, <2>3, NoneBad
<1>4. PICK f : Good(f, Nesting + 1)
  <2>1. Nesting + 1 \in Nat
    BY TypeAssumption
  <2> QED
    BY <1>3, <2>1
<1>5. \A t \in Type : f[t] = ValBy(f, t)
  BY <1>4, Depths DEF Good
<1>6. More(f) = [t \in Type |-> ValBy(More(f), t)]
  <2>1. \A t \in Type : f[t] = More(f)[t]
    BY <1>5 DEF More
  <2>2. ASSUME NEW t \in Type PROVE ValBy(f, t) = ValBy(More(f), t)
    <3>1. \A u \in Below(t) : f[u] = More(f)[u]
      BY <2>1 DEF Below
    <3>2. [u \in Below(t) |-> f[u]] = [u \in Below(t) |-> More(f)[u]]
      BY <3>1
    <3> QED
      BY <3>2, Zenon DEF ValBy
  <2> QED
    BY <2>2, Zenon DEF More
<1> QED
  BY <1>6, Zenon DEF Val, ValBy

SizeBy(f, t) == [v \in Val[t] |-> SizeWith([u \in Below(t) |-> f[u]], t, v)]

LEMMA SizeIs == Size = [t \in Type |-> SizeBy(Size, t)]
<1> DEFINE Good(f, n) == \A t \in Type : t.depth < n => f[t] = SizeBy(f, t)
           More(f) == [t \in Type |-> SizeBy(f, t)]
           Bad == {n \in Nat : ~\E f : Good(f, n)}
<1>1. \A f : Good(f, 0)
  BY Depths
<1>2. ASSUME NEW n \in Nat, NEW f, Good(f, n) PROVE Good(More(f), n + 1)
  <2> SUFFICES ASSUME NEW t \in Type, t.depth < n + 1 PROVE SizeBy(f, t) = SizeBy(More(f), t)
    OBVIOUS
  <2>1. \A u \in Below(t) : f[u] = More(f)[u]
    BY <1>2, Depths DEF Below
  <2>2. [u \in Below(t) |-> f[u]] = [u \in Below(t) |-> More(f)[u]]
    BY <2>1
  <2> HIDE DEF More
  <2> QED
    BY <2>2, Zenon DEF SizeBy
<1> HIDE DEF Good, More
<1>3. \A n \in Nat : n \notin Bad
  <2>1. 0 \notin Bad
    BY <1>1
  <2>2. \A n \in Nat : n \notin Bad => n + 1 \notin Bad
    BY <1>2
  <2>3. Bad \in SUBSET Nat
    OBVIOUS
  <2> HIDE DEF Bad
  <2> QED
    BY <2>1, <2>2, <2>3, NoneBad
<1>4. PICK f : Good(f, Nesting + 1)
  <2>1. Nesting + 1 \in Nat
    BY TypeAssumption
  <2> QED
    BY <1>3, <2>1
<1>5. \A t \in Type : f[t] = SizeBy(f, t)
  BY <1>4, Depths DEF Good
<1>6. More(f) = [t \in Type |-> SizeBy(More(f), t)]
  <2>1. \A t \in Type : f[t] = More(f)[t]
    BY <1>5 DEF More
  <2>2. ASSUME NEW t \in Type PROVE SizeBy(f, t) = SizeBy(More(f), t)
    <3>1. \A u \in Below(t) : f[u] = More(f)[u]
      BY <2>1 DEF Below
    <3>2. [u \in Below(t) |-> f[u]] = [u \in Below(t) |-> More(f)[u]]
      BY <3>1
    <3> QED
      BY <3>2, Zenon DEF SizeBy
  <2> QED
    BY <2>2, Zenon DEF More
<1> QED
  BY <1>6, Zenon DEF Size, SizeBy

SetBy(f, t) ==
  [v \in Val[t] |-> [b \in Buffer |-> [at \in Nat |->
      SetWith([u \in Below(t) |-> f[u]], t, v, b, at)]]]

LEMMA SetIs == Set = [t \in Type |-> SetBy(Set, t)]
<1> DEFINE Good(f, n) == \A t \in Type : t.depth < n => f[t] = SetBy(f, t)
           More(f) == [t \in Type |-> SetBy(f, t)]
           Bad == {n \in Nat : ~\E f : Good(f, n)}
<1>1. \A f : Good(f, 0)
  BY Depths
<1>2. ASSUME NEW n \in Nat, NEW f, Good(f, n) PROVE Good(More(f), n + 1)
  <2> SUFFICES ASSUME NEW t \in Type, t.depth < n + 1 PROVE SetBy(f, t) = SetBy(More(f), t)
    OBVIOUS
  <2>1. \A u \in Below(t) : f[u] = More(f)[u]
    BY <1>2, Depths DEF Below
  <2>2. [u \in Below(t) |-> f[u]] = [u \in Below(t) |-> More(f)[u]]
    BY <2>1
  <2> HIDE DEF More
  <2> QED
    BY <2>2, Zenon DEF SetBy
<1> HIDE DEF Good, More
<1>3. \A n \in Nat : n \notin Bad
  <2>1. 0 \notin Bad
    BY <1>1
  <2>2. \A n \in Nat : n \notin Bad => n + 1 \notin Bad
    BY <1>2
  <2>3. Bad \in SUBSET Nat
    OBVIOUS
  <2> HIDE DEF Bad
  <2> QED
    BY <2>1, <2>2, <2>3, NoneBad
<1>4. PICK f : Good(f, Nesting + 1)
  <2>1. Nesting + 1 \in Nat
    BY TypeAssumption
  <2> QED
    BY <1>3, <2>1
<1>5. \A t \in Type : f[t] = SetBy(f, t)
  BY <1>4, Depths DEF Good
<1>6. More(f) = [t \in Type |-> SetBy(More(f), t)]
  <2>1. \A t \in Type : f[t] = More(f)[t]
    BY <1>5 DEF More
  <2>2. ASSUME NEW t \in Type PROVE SetBy(f, t) = SetBy(More(f), t)
    <3>1. \A u \in Below(t) : f[u] = More(f)[u]
      BY <2>1 DEF Below
    <3>2. [u \in Below(t) |-> f[u]] = [u \in Below(t) |-> More(f)[u]]
      BY <3>1
    <3> QED
      BY <3>2, Zenon DEF SetBy
  <2> QED
    BY <2>2, Zenon DEF More
<1> QED
  BY <1>6, Zenon DEF Set, SetBy

GetBy(f, t) ==
  [was \in Val[t] |-> [b \in Buffer |-> [at \in Nat |->
      GetWith([u \in Below(t) |-> f[u]], t, was, b, at)]]]

LEMMA GetIs == Get = [t \in Type |-> GetBy(Get, t)]
<1> DEFINE Good(f, n) == \A t \in Type : t.depth < n => f[t] = GetBy(f, t)
           More(f) == [t \in Type |-> GetBy(f, t)]
           Bad == {n \in Nat : ~\E f : Good(f, n)}
<1>1. \A f : Good(f, 0)
  BY Depths
<1>2. ASSUME NEW n \in Nat, NEW f, Good(f, n) PROVE Good(More(f), n + 1)
  <2> SUFFICES ASSUME NEW t \in Type, t.depth < n + 1 PROVE GetBy(f, t) = GetBy(More(f), t)
    OBVIOUS
  <2>1. \A u \in Below(t) : f[u] = More(f)[u]
    BY <1>2, Depths DEF Below
  <2>2. [u \in Below(t) |-> f[u]] = [u \in Below(t) |-> More(f)[u]]
    BY <2>1
  <2> HIDE DEF More
  <2> QED
    BY <2>2, Zenon DEF GetBy
<1> HIDE DEF Good, More
<1>3. \A n \in Nat : n \notin Bad
  <2>1. 0 \notin Bad
    BY <1>1
  <2>2. \A n \in Nat : n \notin Bad => n + 1 \notin Bad
    BY <1>2
  <2>3. Bad \in SUBSET Nat
    OBVIOUS
  <2> HIDE DEF Bad
  <2> QED
    BY <2>1, <2>2, <2>3, NoneBad
<1>4. PICK f : Good(f, Nesting + 1)
  <2>1. Nesting + 1 \in Nat
    BY TypeAssumption
  <2> QED
    BY <1>3, <2>1
<1>5. \A t \in Type : f[t] = GetBy(f, t)
  BY <1>4, Depths DEF Good
<1>6. More(f) = [t \in Type |-> GetBy(More(f), t)]
  <2>1. \A t \in Type : f[t] = More(f)[t]
    BY <1>5 DEF More
  <2>2. ASSUME NEW t \in Type PROVE GetBy(f, t) = GetBy(More(f), t)
    <3>1. \A u \in Below(t) : f[u] = More(f)[u]
      BY <2>1 DEF Below
    <3>2. [u \in Below(t) |-> f[u]] = [u \in Below(t) |-> More(f)[u]]
      BY <3>1
    <3> QED
      BY <3>2, Zenon DEF GetBy
  <2> QED
    BY <2>2, Zenon DEF More
<1> QED
  BY <1>6, Zenon DEF Get, GetBy

----------------------------------------------------------------------------
\* What holds of a type when it holds of those it is made of, holds of all.
LEMMA TypeInduction ==
  ASSUME NEW Good, \A t \in Type : Below(t) \subseteq Good => t \in Good
  PROVE  Type \subseteq Good
<1> DEFINE Bad == {n \in Nat : \E t \in Type : t.depth < n /\ t \notin Good}
<1>1. Bad \in SUBSET Nat /\ 0 \notin Bad
  BY Depths
<1>2. \A n \in Nat : n \notin Bad => n + 1 \notin Bad
  <2> SUFFICES ASSUME NEW n \in Nat, n \notin Bad, NEW t \in Type, t.depth < n + 1
               PROVE  t \in Good
    OBVIOUS
  <2>1. \A u \in Below(t) : u \in Good
    BY Depths DEF Below
  <2> QED
    BY <2>1
<1> HIDE DEF Bad
<1>3. \A n \in Nat : n \notin Bad
  BY <1>1, <1>2, NoneBad
<1>4. \A t \in Type : t.depth + 1 \in Nat /\ t.depth < t.depth + 1
  BY Depths
<1> QED
  BY <1>3, <1>4 DEF Bad

LEMMA Below1 ==
  ASSUME NEW t \in Type
  PROVE  /\ Below(t) \subseteq Type
         /\ t.k \in Container => t.of \in Below(t)
         /\ t.k = "map" => t.key \in Below(t)
  BY Parts DEF Below

LEMMA ValAt ==
  ASSUME NEW t \in Type
  PROVE  /\ t.k = "prim" => Val[t] = Nat
         /\ t.k = "string" => Val[t] = Seq(Nat)
         /\ t.k = "vector" => Val[t] = Seq(Val[t.of])
         /\ t.k = "set" => Val[t] = {v \in SUBSET Val[t.of] : IsFiniteSet(v)}
         /\ t.k = "map" => Val[t] = {v \in SUBSET (Val[t.key] \X Val[t.of]) :
                                       /\ IsFiniteSet(v)
                                       /\ \A a, b \in v : a[1] = b[1] => a = b}
<1> DEFINE f == [u \in Below(t) |-> Val[u]]
<1>1. Val[t] = ValOf(f, t)
  BY ValIs DEF ValBy
<1>2. \A u \in Below(t) : f[u] = Val[u]
  OBVIOUS
<1> HIDE DEF f
<1>3. CASE t.k \in {"prim", "string"}
  BY <1>1, <1>3 DEF ValOf
<1>4. CASE t.k = "vector"
  BY <1>1, <1>2, <1>4, Below1 DEF ValOf, Container
<1>5. CASE t.k = "set"
  BY <1>1, <1>2, <1>5, Below1 DEF ValOf, Container
<1>6. CASE t.k = "map"
  <2>1. f[t.key] = Val[t.key] /\ f[t.of] = Val[t.of]
    BY <1>2, <1>6, Below1 DEF Container
  <2> QED
    BY <1>1, <1>6, <2>1 DEF ValOf
<1> QED
  BY <1>3, <1>4, <1>5, <1>6, Parts

LEMMA SizeAt ==
  ASSUME NEW t \in Type, NEW v \in Val[t]
  PROVE  Size[t][v] = SizeWith([u \in Below(t) |-> Size[u]], t, v)
<1>1. Size[t] = SizeBy(Size, t)
  BY SizeIs, Zenon
<1> QED
  BY <1>1 DEF SizeBy

LEMMA SetAt ==
  ASSUME NEW t \in Type, NEW v \in Val[t], NEW b \in Buffer, NEW at \in Nat
  PROVE  Set[t][v][b][at] = SetWith([u \in Below(t) |-> Set[u]], t, v, b, at)
<1>1. Set[t] = SetBy(Set, t)
  BY SetIs, Zenon
<1> QED
  BY <1>1 DEF SetBy

LEMMA GetAt ==
  ASSUME NEW t \in Type, NEW was \in Val[t], NEW b \in Buffer, NEW at \in Nat
  PROVE  Get[t][was][b][at] = GetWith([u \in Below(t) |-> Get[u]], t, was, b, at)
<1>1. Get[t] = GetBy(Get, t)
  BY GetIs, Zenon
<1> QED
  BY <1>1 DEF GetBy

\* Walking a set or a map visits each element once.
LEMMA OrderIs ==
  ASSUME NEW S, IsFiniteSet(S)
  PROVE  LET s == SetToSeq(S)
         IN  /\ Cardinality(S) \in Nat /\ s \in [1..Cardinality(S) -> S]
             /\ Len(s) = Cardinality(S)
             /\ \A a, b \in 1..Cardinality(S) : s[a] = s[b] => a = b
             /\ \A x \in S : \E a \in 1..Cardinality(S) : s[a] = x
<1> DEFINE n == Cardinality(S)
           s == SetToSeq(S)
<1>1. PICK m \in Nat : ExistsBijection(1..m, S)
  BY FS_NatBijection
<1>2. m = n /\ n \in Nat
  BY <1>1, FS_CountingElements
<1>3. \E f \in [1..n -> S] : IsInjective(f)
  <2>1. PICK f : f \in Bijection(1..n, S)
    BY <1>1, <1>2 DEF ExistsBijection
  <2> QED
    BY <2>1 DEF Bijection, Injection, IsInjective
<1>4. s \in [1..n -> S] /\ IsInjective(s)
  BY <1>3 DEF SetToSeq
<1> HIDE DEF s
<1>5. \A a, b \in 1..n : s[a] = s[b] => a = b
  BY <1>4 DEF IsInjective
<1>6. \A x \in S : \E a \in 1..n : s[a] = x
  <2> DEFINE T == {s[a] : a \in 1..n}
  <2>1. T \subseteq S
    BY <1>4
  <2>2. s \in Bijection(1..n, T)
    BY <1>4, <1>5 DEF Bijection, Injection, Surjection
  <2>3. Cardinality(T) = n
    BY <1>2, <2>2, FS_CountingElements DEF ExistsBijection
  <2>4. T = S
    BY <2>1, <2>3, FS_Subset
  <2> QED
    BY <2>4
<1>7. Len(s) = n
  BY <1>2, <1>4
<1> QED
  BY <1>2, <1>4, <1>5, <1>6, <1>7 DEF s

----------------------------------------------------------------------------
\* What a vector, a set or a map consists of.
LEMMA VectorIs ==
  ASSUME NEW t \in Type, t.k = "vector", NEW v \in Val[t]
  PROVE  /\ v \in Seq(Val[t.of]) /\ Len(v) \in Nat /\ Count(t, v) = Len(v)
         /\ Len(Items(t, v)) = Len(v)
         /\ \A n \in 1..Len(v) : Items(t, v)[n] = <<t.of, v[n]>> /\ v[n] \in Val[t.of]
<1>1. v \in Seq(Val[t.of]) /\ Len(v) \in Nat
  BY ValAt
<1>2. Items(t, v) = [n \in 1..Len(v) |-> <<t.of, v[n]>>] /\ Count(t, v) = Len(v)
  BY DEF Items, VectorItems, Count
<1> QED
  BY <1>1, <1>2

LEMMA FiniteIs ==
  ASSUME NEW t \in Type, t.k = "set", NEW v \in Val[t]
  PROVE  LET s == SetToSeq(v)
         IN  /\ IsFiniteSet(v) /\ Len(s) \in Nat /\ Count(t, v) = Len(s)
             /\ s \in [1..Len(s) -> v] /\ v \subseteq Val[t.of]
             /\ \A x \in v : \E n \in 1..Len(s) : s[n] = x
             /\ Len(Items(t, v)) = Len(s)
             /\ \A n \in 1..Len(s) : Items(t, v)[n] = <<t.of, s[n]>>
<1> DEFINE s == SetToSeq(v)
<1>1. IsFiniteSet(v) /\ v \subseteq Val[t.of]
  BY ValAt
<1>2. /\ Cardinality(v) \in Nat /\ s \in [1..Cardinality(v) -> v] /\ Len(s) = Cardinality(v)
      /\ \A x \in v : \E a \in 1..Cardinality(v) : s[a] = x
  BY <1>1, OrderIs
<1>3. Items(t, v) = [n \in 1..Len(s) |-> <<t.of, s[n]>>] /\ Count(t, v) = Cardinality(v)
  BY DEF Items, SetItems, VectorItems, Count
<1> HIDE DEF s
<1>4. Len(Items(t, v)) = Len(s)
  BY <1>2, <1>3
<1> QED
  BY <1>1, <1>2, <1>3, <1>4 DEF s

LEMMA MapIs ==
  ASSUME NEW t \in Type, t.k = "map", NEW v \in Val[t]
  PROVE  LET s == SetToSeq(v)
         IN  /\ IsFiniteSet(v) /\ Len(s) \in Nat /\ Count(t, v) = Len(s)
             /\ s \in [1..Len(s) -> v]
             /\ \A n \in 1..Len(s) : /\ s[n][1] \in Val[t.key] /\ s[n][2] \in Val[t.of]
                                     /\ s[n] = <<s[n][1], s[n][2]>>
             /\ \A x \in v : \E n \in 1..Len(s) : s[n] = x
             /\ \A m, n \in 1..Len(s) : s[m][1] = s[n][1] => m = n
             /\ Len(Items(t, v)) = 2 * Len(s)
             /\ \A n \in 1..Len(s) : /\ Items(t, v)[2 * n - 1] = <<t.key, s[n][1]>>
                                     /\ Items(t, v)[2 * n] = <<t.of, s[n][2]>>
<1> DEFINE s == SetToSeq(v)
           its == [n \in 1..(2 * Len(s)) |->
                      IF n % 2 = 1 THEN <<t.key, s[(n + 1) \div 2][1]>>
                                   ELSE <<t.of, s[n \div 2][2]>>]
<1>1. /\ IsFiniteSet(v) /\ v \subseteq Val[t.key] \X Val[t.of]
      /\ \A a, b \in v : a[1] = b[1] => a = b
  BY ValAt
<1>2. /\ Cardinality(v) \in Nat /\ s \in [1..Cardinality(v) -> v] /\ Len(s) = Cardinality(v)
      /\ \A a, b \in 1..Cardinality(v) : s[a] = s[b] => a = b
      /\ \A x \in v : \E a \in 1..Cardinality(v) : s[a] = x
  BY <1>1, OrderIs
<1>3. Items(t, v) = its /\ Count(t, v) = Cardinality(v)
  BY DEF Items, MapItems, Count
<1> HIDE DEF s
<1>4. Len(its) = 2 * Len(s)
  <2>1. 2 * Len(s) \in Nat
    BY <1>2
  <2> QED
    BY <2>1
<1>5. ASSUME NEW n \in 1..Len(s)
      PROVE  its[2 * n - 1] = <<t.key, s[n][1]>> /\ its[2 * n] = <<t.of, s[n][2]>>
  <2>1. /\ 2 * n - 1 \in 1..(2 * Len(s)) /\ 2 * n \in 1..(2 * Len(s))
        /\ (2 * n - 1) % 2 = 1 /\ (2 * n) % 2 = 0
        /\ ((2 * n - 1) + 1) \div 2 = n /\ (2 * n) \div 2 = n
    BY <1>2
  <2> QED
    BY <2>1
<1> HIDE DEF its
<1>6. ASSUME NEW n \in 1..Len(s)
      PROVE  /\ s[n][1] \in Val[t.key] /\ s[n][2] \in Val[t.of]
             /\ s[n] = <<s[n][1], s[n][2]>>
  BY <1>1, <1>2
<1>7. \A m, n \in 1..Len(s) : s[m][1] = s[n][1] => m = n
  BY <1>1, <1>2
<1> QED
  BY <1>1, <1>2, <1>3, <1>4, <1>5, <1>6, <1>7 DEF s

\* An item is a value of a type that the container's type is made of.
LEMMA ItemsAre ==
  ASSUME NEW t \in Type, t.k \in Container, NEW v \in Val[t]
  PROVE  /\ Len(Items(t, v)) \in Nat
         /\ \A n \in 1..Len(Items(t, v)) :
               /\ Items(t, v)[n][1] \in Below(t)
               /\ Items(t, v)[n][2] \in Val[Items(t, v)[n][1]]
<1>1. CASE t.k = "vector"
  BY <1>1, VectorIs, Below1
<1>2. CASE t.k = "set"
  BY <1>2, FiniteIs, Below1
<1>3. CASE t.k = "map"
  <2> DEFINE s == SetToSeq(v)
  <2>1. /\ Len(s) \in Nat /\ Len(Items(t, v)) = 2 * Len(s)
        /\ \A n \in 1..Len(s) : /\ s[n][1] \in Val[t.key] /\ s[n][2] \in Val[t.of]
                                /\ Items(t, v)[2 * n - 1] = <<t.key, s[n][1]>>
                                /\ Items(t, v)[2 * n] = <<t.of, s[n][2]>>
    BY <1>3, MapIs
  <2>2. t.key \in Below(t) /\ t.of \in Below(t)
    BY <1>3, Below1
  <2> HIDE DEF s
  <2>3. ASSUME NEW n \in 1..(2 * Len(s))
        PROVE  \E m \in 1..Len(s) : n = 2 * m - 1 \/ n = 2 * m
    <3>1. CASE n % 2 = 0
      <4>1. n \div 2 \in 1..Len(s) /\ n = 2 * (n \div 2)
        BY <2>1, <3>1
      <4> QED
        BY <4>1
    <3>2. CASE n % 2 = 1
      <4>1. PICK L \in Nat : L = Len(s) /\ n \in 1..(2 * L)
        BY <2>1
      <4>2. n = 2 * (n \div 2) + 1 /\ n \div 2 \in Nat /\ n \div 2 + 1 \in 1..L
        BY <3>2, <4>1
      <4> QED
        BY <4>1, <4>2
    <3> QED
      BY <3>1, <3>2, <2>1
  <2>4. 2 * Len(s) \in Nat
    BY <2>1
  <2>5. ASSUME NEW n \in 1..Len(Items(t, v))
        PROVE  /\ Items(t, v)[n][1] \in Below(t)
               /\ Items(t, v)[n][2] \in Val[Items(t, v)[n][1]]
    <3>1. PICK m \in 1..Len(s) : n = 2 * m - 1 \/ n = 2 * m
      BY <2>1, <2>3
    <3>2. CASE n = 2 * m - 1
      BY <3>2, <2>1, <2>2
    <3>3. CASE n = 2 * m
      BY <3>3, <2>1, <2>2
    <3> QED
      BY <3>1, <3>2, <3>3
  <2> QED
    BY <2>1, <2>4, <2>5
<1> QED
  BY <1>1, <1>2, <1>3 DEF Container

----------------------------------------------------------------------------
\* A fold over the items of a container: it starts with a, step[n] is what the
\* nth item does.
IsFold(N, S, a, step, r) ==
  r \in [0..N -> S] /\ r[0] = a /\ \A n \in 1..N : r[n] = step[n][r[n - 1]]

LEMMA FoldExists ==
  ASSUME NEW N \in Nat, NEW S, NEW a \in S, NEW step \in [1..N -> [S -> S]]
  PROVE  \E r : IsFold(N, S, a, step, r)
<1> DEFINE Good(n, r) == r[0] = a /\ \A k \in 1..n : r[k] = step[k][r[k - 1]]
           Bad == {n \in Nat : n <= N /\ ~\E r \in [0..n -> S] : Good(n, r)}
<1>1. 0 \notin Bad
  <2>1. [k \in 0..0 |-> a] \in [0..0 -> S] /\ Good(0, [k \in 0..0 |-> a])
    OBVIOUS
  <2> QED
    BY <2>1
<1>2. \A n \in Nat : n \notin Bad => n + 1 \notin Bad
  <2> SUFFICES ASSUME NEW n \in Nat, n \notin Bad, n + 1 <= N
               PROVE  \E r \in [0..(n + 1) -> S] : Good(n + 1, r)
    OBVIOUS
  <2>1. PICK r \in [0..n -> S] : Good(n, r)
    OBVIOUS
  <2> DEFINE q == [k \in 0..(n + 1) |-> IF k = n + 1 THEN step[n + 1][r[n]] ELSE r[k]]
  <2>2. step[n + 1] \in [S -> S] /\ r[n] \in S
    OBVIOUS
  <2>3. q \in [0..(n + 1) -> S]
    BY <2>2
  <2>4. ASSUME NEW k \in 1..(n + 1) PROVE q[k] = step[k][q[k - 1]]
    <3>1. CASE k = n + 1
      BY <3>1
    <3>2. CASE k # n + 1
      <4>1. k \in 1..n /\ k - 1 \in 0..n /\ k - 1 # n + 1
        BY <3>2
      <4> QED
        BY <2>1, <4>1
    <3> QED
      BY <3>1, <3>2
  <2>5. q[0] = a
    BY <2>1
  <2> HIDE DEF q
  <2> QED
    BY <2>3, <2>4, <2>5
<1>3. Bad \in SUBSET Nat
  OBVIOUS
<1> HIDE DEF Bad
<1>4. N \notin Bad
  BY <1>1, <1>2, <1>3, NoneBad
<1>5. PICK r \in [0..N -> S] : Good(N, r)
  BY <1>4 DEF Bad
<1> QED
  BY <1>5 DEF IsFold

\* What has been measured after n items.
LEMMA MeasuredIs ==
  ASSUME NEW f, NEW items, Len(items) \in Nat,
         \A n \in 1..Len(items) : f[items[n][1]][items[n][2]] \in Nat
  PROVE  LET m == Measured(f, items)
         IN  /\ m \in [0..Len(items) -> Nat] /\ m[0] = CntSize
             /\ \A n \in 1..Len(items) : m[n] = m[n - 1] + f[items[n][1]][items[n][2]]
<1> DEFINE N == Len(items)
           More(n) == f[items[n][1]][items[n][2]]
           step == [n \in 1..N |-> [x \in Nat |-> x + More(n)]]
           Is(r) == r = [n \in 0..N |-> IF n = 0 THEN CntSize ELSE r[n - 1] + More(n)]
           m == Measured(f, items)
<1>1. N \in Nat /\ CntSize \in Nat
  BY ArchiveAssumption
<1>2. \A n \in 1..N : More(n) \in Nat
  OBVIOUS
<1>3. m = CHOOSE q : Is(q)
  BY DEF Measured
<1> HIDE DEF N, More, m
<1>4. step \in [1..N -> [Nat -> Nat]]
  BY <1>2
<1>5. \A n \in 1..N : \A x \in Nat : step[n][x] = x + More(n)
  OBVIOUS
<1> HIDE DEF step
<1>6. PICK r \in [0..N -> Nat] : r[0] = CntSize /\ \A n \in 1..N : r[n] = step[n][r[n - 1]]
  <2>1. PICK r : IsFold(N, Nat, CntSize, step, r)
    BY <1>1, <1>4, FoldExists
  <2> QED
    BY <2>1 DEF IsFold
<1>7. Is(r)
  <2>1. ASSUME NEW n \in 0..N, n # 0
        PROVE  r[n] = r[n - 1] + More(n)
    <3>1. n \in 1..N /\ n - 1 \in 0..N
      BY <1>1, <2>1
    <3> QED
      BY <1>5, <1>6, <3>1
  <2> QED
    BY <1>6, <2>1
<1>8. Is(m)
  BY <1>3, <1>7, Zenon
<1>9. m = [n \in 0..N |-> IF n = 0 THEN CntSize ELSE m[n - 1] + More(n)]
  BY <1>8
<1> HIDE DEF Is
<1>10. m[0] = CntSize /\ \A n \in 1..N : m[n] = m[n - 1] + More(n)
  <2>1. 0 \in 0..N /\ \A n \in 1..N : n \in 0..N /\ n # 0
    BY <1>1
  <2> QED
    BY <1>9, <2>1, Zenon
<1> DEFINE Bad == {n \in Nat : n <= N /\ m[n] \notin Nat}
<1>11. 0 \notin Bad
  BY <1>1, <1>10
<1>12. ASSUME NEW n \in Nat, n \notin Bad PROVE n + 1 \notin Bad
  <2> SUFFICES ASSUME n + 1 <= N PROVE m[n + 1] \in Nat
    OBVIOUS
  <2>1. m[n] \in Nat /\ n + 1 \in 1..N /\ (n + 1) - 1 = n
    BY <1>1, <1>12
  <2>2. m[n + 1] = m[n] + More(n + 1) /\ More(n + 1) \in Nat
    BY <1>2, <1>10, <2>1
  <2> QED
    BY <2>1, <2>2
<1>13. \A n \in Nat : n \notin Bad
  <2>1. Bad \in SUBSET Nat
    OBVIOUS
  <2> HIDE DEF Bad
  <2> QED
    BY <1>11, <1>12, <2>1, NoneBad
<1>14. m \in [0..N -> Nat]
  <2>1. \A n \in 0..N : m[n] \in Nat
    BY <1>13
  <2> QED
    BY <1>9, <2>1
<1> QED
  BY <1>10, <1>14 DEF m, N, More

LEMMA SizeNat == \A t \in Type : \A v \in Val[t] : Size[t][v] \in Nat
<1> DEFINE Good == {t \in Type : \A v \in Val[t] : Size[t][v] \in Nat}
<1>1. ASSUME NEW t \in Type, Below(t) \subseteq Good, NEW v \in Val[t]
      PROVE  Size[t][v] \in Nat
  <2> DEFINE f == [u \in Below(t) |-> Size[u]]
  <2>1. Size[t][v] = SizeWith(f, t, v)
    BY SizeAt
  <2>2. \A u \in Below(t) : f[u] = Size[u] /\ \A w \in Val[u] : f[u][w] \in Nat
    BY <1>1
  <2> HIDE DEF f
  <2>3. CASE t.k = "prim"
    BY <2>1, <2>3, TypeAssumption DEF SizeWith
  <2>4. CASE t.k = "string"
    <3>1. v \in Seq(Nat)
      BY <2>4, ValAt
    <3> QED
      BY <2>1, <2>4, <3>1, ArchiveAssumption DEF SizeWith
  <2>5. CASE t.k \in Container
    <3>1. /\ Len(Items(t, v)) \in Nat
          /\ \A n \in 1..Len(Items(t, v)) :
                f[Items(t, v)[n][1]][Items(t, v)[n][2]] \in Nat
      BY <2>2, <2>5, ItemsAre
    <3>2. Measured(f, Items(t, v)) \in [0..Len(Items(t, v)) -> Nat]
      BY <3>1, MeasuredIs
    <3>3. Size[t][v] = Measured(f, Items(t, v))[Len(Items(t, v))]
      BY <2>1, <2>5 DEF SizeWith, Container
    <3> QED
      BY <3>1, <3>2, <3>3
  <2> QED
    BY <2>3, <2>4, <2>5, Parts DEF Container
<1>2. Type \subseteq Good
  <2>1. \A t \in Type : Below(t) \subseteq Good => t \in Good
    BY <1>1
  <2> HIDE DEF Good
  <2> QED
    BY <2>1, TypeInduction
<1> QED
  BY <1>2

\* The size of a container is what has been measured after its last item: its
\* count, and the sizes of its items.
LEMMA SizeIsMeasured ==
  ASSUME NEW t \in Type, t.k \in Container, NEW v \in Val[t]
  PROVE  LET its == Items(t, v)
             m == Measured([u \in Below(t) |-> Size[u]], its)
         IN  /\ m \in [0..Len(its) -> Nat] /\ m[0] = CntSize /\ Size[t][v] = m[Len(its)]
             /\ \A n \in 1..Len(its) : m[n] = m[n - 1] + Size[its[n][1]][its[n][2]]
<1> DEFINE its == Items(t, v)
           f == [u \in Below(t) |-> Size[u]]
           m == Measured(f, its)
<1>1. Len(its) \in Nat
  BY ItemsAre
<1>2. ASSUME NEW n \in 1..Len(its)
      PROVE  /\ f[its[n][1]][its[n][2]] = Size[its[n][1]][its[n][2]]
             /\ Size[its[n][1]][its[n][2]] \in Nat
  <2>1. its[n][1] \in Below(t) /\ its[n][2] \in Val[its[n][1]]
    BY ItemsAre
  <2> QED
    BY <2>1, Below1, SizeNat
<1>3. Size[t][v] = m[Len(its)]
  <2>1. Size[t][v] = SizeWith(f, t, v)
    BY SizeAt
  <2> QED
    BY <2>1 DEF SizeWith, Container
<1> HIDE DEF f
<1>4. /\ m \in [0..Len(its) -> Nat] /\ m[0] = CntSize
      /\ \A n \in 1..Len(its) : m[n] = m[n - 1] + f[its[n][1]][its[n][2]]
  BY <1>1, <1>2, MeasuredIs
<1> QED
  BY <1>2, <1>3, <1>4 DEF f

----------------------------------------------------------------------------
LEMMA Grows ==
  ASSUME NEW N \in Nat, NEW m \in [0..N -> Nat], \A n \in 1..N : m[n - 1] <= m[n]
  PROVE  \A k \in 0..N : m[0] <= m[k] /\ \A n \in k..N : m[k] <= m[n]
<1>1. ASSUME NEW k \in 0..N PROVE \A n \in k..N : m[k] <= m[n]
  <2> DEFINE Bad == {d \in Nat : k + d <= N /\ ~(m[k] <= m[k + d])}
  <2>1. 0 \notin Bad
    OBVIOUS
  <2>2. ASSUME NEW d \in Nat, d \notin Bad PROVE d + 1 \notin Bad
    <3> SUFFICES ASSUME k + (d + 1) <= N PROVE m[k] <= m[k + (d + 1)]
      OBVIOUS
    <3>1. k + d \in 0..N /\ k + (d + 1) \in 1..N /\ (k + (d + 1)) - 1 = k + d
      OBVIOUS
    <3>2. m[k] <= m[k + d] /\ m[k + d] <= m[k + (d + 1)]
      BY <2>2, <3>1
    <3>3. m[k] \in Nat /\ m[k + d] \in Nat /\ m[k + (d + 1)] \in Nat
      BY <3>1
    <3> QED
      BY <3>2, <3>3
  <2>3. \A d \in Nat : d \notin Bad
    <3>1. Bad \in SUBSET Nat
      OBVIOUS
    <3> HIDE DEF Bad
    <3> QED
      BY <2>1, <2>2, <3>1, NoneBad
  <2>4. ASSUME NEW n \in k..N PROVE m[k] <= m[n]
    <3>1. n - k \in Nat /\ k + (n - k) = n /\ n <= N
      OBVIOUS
    <3> QED
      BY <2>3, <3>1
  <2> QED
    BY <2>4
<1>2. \A k \in 0..N : 0 \in 0..N /\ k \in 0..N
  OBVIOUS
<1> QED
  BY <1>1, <1>2

\* How far into a container its items begin and end.
LEMMA Offsets ==
  ASSUME NEW t \in Type, t.k \in Container, NEW v \in Val[t]
  PROVE  LET its == Items(t, v)
             m == Measured([u \in Below(t) |-> Size[u]], its)
         IN  /\ CntSize <= Size[t][v]
             /\ \A n \in 1..Len(its) : CntSize <= m[n - 1] /\ m[n - 1] <= m[n] /\ m[n] <= Size[t][v]
             /\ \A k, n \in 0..Len(its) : k <= n => m[k] <= m[n]
<1> DEFINE its == Items(t, v)
           N == Len(its)
           m == Measured([u \in Below(t) |-> Size[u]], its)
<1>1. /\ m \in [0..N -> Nat] /\ m[0] = CntSize /\ Size[t][v] = m[N] /\ N \in Nat
      /\ \A n \in 1..N : m[n] = m[n - 1] + Size[its[n][1]][its[n][2]]
  BY SizeIsMeasured, ItemsAre
<1>2. \A n \in 1..N : Size[its[n][1]][its[n][2]] \in Nat
  BY ItemsAre, Below1, SizeNat
<1> HIDE DEF m, N, its
<1>3. ASSUME NEW n \in 1..N PROVE m[n - 1] <= m[n]
  <2>1. n - 1 \in 0..N /\ n \in 0..N
    BY <1>1
  <2>2. m[n - 1] \in Nat /\ m[n] \in Nat
    BY <1>1, <2>1
  <2>3. m[n] = m[n - 1] + Size[its[n][1]][its[n][2]] /\ Size[its[n][1]][its[n][2]] \in Nat
    BY <1>1, <1>2
  <2> QED
    BY <2>2, <2>3
<1>4. \A k \in 0..N : m[0] <= m[k] /\ \A n \in k..N : m[k] <= m[n]
  BY <1>1, <1>3, Grows
<1>5. \A k, n \in 0..N : k <= n => m[k] <= m[n]
  <2>1. \A k, n \in 0..N : k <= n => n \in k..N
    BY <1>1
  <2> QED
    BY <1>4, <2>1
<1>6. N \in 0..N /\ \A n \in 1..N : n - 1 \in 0..N /\ n \in 0..N /\ n <= N
  BY <1>1
<1>7. \A n \in 1..N : CntSize <= m[n - 1] /\ m[n - 1] <= m[n] /\ m[n] <= Size[t][v]
  BY <1>1, <1>3, <1>4, <1>5, <1>6
<1>8. CntSize <= Size[t][v]
  BY <1>1, <1>4, <1>6
<1> QED
  BY <1>5, <1>7, <1>8 DEF m, N, its

----------------------------------------------------------------------------
\* The memory.  Two buffers agree on the bytes from lo to hi, or on all others.
ACell == [at : Nat, size : Nat, val : Nat]

Agree(b, c, lo, hi) ==
  \A x \in ACell : lo <= x.at /\ x.at + x.size <= hi => ((x \in b.cells) <=> (x \in c.cells))

Untouched(b, c, lo, hi) ==
  \A x \in ACell : x.at + x.size <= lo \/ hi <= x.at => ((x \in b.cells) <=> (x \in c.cells))

LEMMA AgreeSelf == \A b, lo, hi : Agree(b, b, lo, hi)
  BY DEF Agree

LEMMA AgreeBoth ==
  ASSUME NEW b, NEW c, NEW d, NEW lo, NEW hi, Agree(b, c, lo, hi), Agree(c, d, lo, hi)
  PROVE  Agree(b, d, lo, hi)
  BY DEF Agree

LEMMA AgreePart ==
  ASSUME NEW b, NEW c, NEW lo \in Nat, NEW hi \in Nat, NEW from \in Nat, NEW to \in Nat,
         Agree(b, c, lo, hi), lo <= from, to <= hi
  PROVE  Agree(b, c, from, to)
<1> SUFFICES ASSUME NEW x \in ACell, from <= x.at, x.at + x.size <= to
             PROVE  lo <= x.at /\ x.at + x.size <= hi
  BY DEF Agree
<1>1. x.at \in Nat /\ x.size \in Nat
  BY DEF ACell
<1> QED
  BY <1>1

LEMMA AgreeOutside ==
  ASSUME NEW b, NEW c, NEW lo \in Nat, NEW hi \in Nat, NEW from \in Nat, NEW to \in Nat,
         Untouched(b, c, lo, hi), to <= lo \/ hi <= from
  PROVE  Agree(b, c, from, to)
<1> SUFFICES ASSUME NEW x \in ACell, from <= x.at, x.at + x.size <= to
             PROVE  x.at + x.size <= lo \/ hi <= x.at
  BY DEF Agree, Untouched
<1>1. x.at \in Nat /\ x.size \in Nat
  BY DEF ACell
<1> QED
  BY <1>1

LEMMA UntouchedBoth ==
  ASSUME NEW b, NEW c, NEW d, NEW lo \in Nat, NEW hi \in Nat, NEW end \in Nat,
         NEW from \in Nat, Untouched(b, c, lo, hi), Untouched(c, d, from, end),
         lo <= from, hi <= end
  PROVE  Untouched(b, d, lo, end)
<1> SUFFICES ASSUME NEW x \in ACell, x.at + x.size <= lo \/ end <= x.at
             PROVE  /\ x.at + x.size <= lo \/ hi <= x.at
                    /\ x.at + x.size <= from \/ end <= x.at
  BY DEF Untouched
<1>1. x.at \in Nat /\ x.size \in Nat
  BY DEF ACell
<1> QED
  BY <1>1

\* memcpy writes the bytes it is given and no others.
LEMMA CopyIs ==
  ASSUME NEW b \in Buffer, NEW at \in Nat, NEW size \in Nat, NEW new \in SUBSET ACell,
         \A x \in new : at <= x.at /\ x.at + x.size <= at + size /\ x.size # 0
  PROVE  LET c == Copy(b, at, size, new)
         IN  /\ c \in Buffer /\ c.len = b.len
             /\ Untouched(b, c, at, at + size)
             /\ \A x \in ACell : /\ at <= x.at /\ x.at + x.size <= at + size /\ x.size # 0
                                 => ((x \in c.cells) <=> (x \in new))
<1> DEFINE cells == {x \in b.cells : x.at + x.size <= at \/ at + size <= x.at} \cup new
           c == Copy(b, at, size, new)
<1>1. b.len \in Nat /\ b.cells \subseteq ACell /\ b = [len |-> b.len, cells |-> b.cells]
  BY DEF Buffer, ACell
<1>2. c = [len |-> b.len, cells |-> cells]
  <2>1. c = [b EXCEPT !.cells = cells]
    BY DEF Copy
  <2> QED
    BY <1>1, <2>1
<1>3. c \in Buffer /\ c.len = b.len /\ c.cells = cells
  BY <1>1, <1>2 DEF Buffer, ACell
<1>4. Untouched(b, c, at, at + size)
  <2> SUFFICES ASSUME NEW x \in ACell, x.at + x.size <= at \/ at + size <= x.at
               PROVE  (x \in b.cells) <=> (x \in cells)
    BY <1>3 DEF Untouched
  <2>1. x.at \in Nat /\ x.size \in Nat
    BY DEF ACell
  <2>2. x \notin new
    BY <2>1
  <2> QED
    BY <2>2
<1>5. ASSUME NEW x \in ACell, at <= x.at, x.at + x.size <= at + size, x.size # 0
      PROVE  (x \in cells) <=> (x \in new)
  <2>1. x.at \in Nat /\ x.size \in Nat
    BY DEF ACell
  <2>2. ~(x.at + x.size <= at \/ at + size <= x.at)
    BY <1>5, <2>1
  <2> QED
    BY <2>2
<1> QED
  BY <1>3, <1>4, <1>5

LEMMA CellAgree ==
  ASSUME NEW b \in Buffer, NEW c \in Buffer, NEW lo \in Nat, NEW hi \in Nat,
         NEW at \in Nat, NEW size \in Nat, Agree(b, c, lo, hi), lo <= at, at + size <= hi
  PROVE  Cell(c, at, size) = Cell(b, at, size)
<1>1. b.cells \subseteq ACell /\ c.cells \subseteq ACell
  BY DEF Buffer, ACell
<1> DEFINE S(d) == {x \in d.cells : x.at = at /\ x.size = size}
<1>2. S(b) = S(c)
  BY <1>1 DEF Agree
<1>3. /\ Cell(b, at, size) = IF S(b) = {} THEN 0 ELSE (CHOOSE x \in S(b) : TRUE).val
      /\ Cell(c, at, size) = IF S(c) = {} THEN 0 ELSE (CHOOSE x \in S(c) : TRUE).val
  BY DEF Cell
<1> HIDE DEF S
<1> QED
  BY <1>2, <1>3

LEMMA CellNat ==
  ASSUME NEW b \in Buffer, NEW at \in Nat, NEW size \in Nat
  PROVE  Cell(b, at, size) \in Nat
<1> DEFINE S == {x \in b.cells : x.at = at /\ x.size = size}
<1>1. b.cells \subseteq ACell
  BY DEF Buffer, ACell
<1>2. CASE S = {}
  BY <1>2 DEF Cell
<1>3. CASE S # {}
  <2>1. (CHOOSE x \in S : TRUE) \in S
    BY <1>3
  <2>2. Cell(b, at, size) = (CHOOSE x \in S : TRUE).val
    BY <1>3 DEF Cell
  <2> HIDE DEF S
  <2>3. (CHOOSE x \in S : TRUE) \in ACell
    BY <1>1, <2>1 DEF S
  <2> QED
    BY <2>2, <2>3 DEF ACell
<1> QED
  BY <1>2, <1>3

\* A cell is what was written to it last.
LEMMA CellIs ==
  ASSUME NEW c \in Buffer, NEW x \in ACell, x \in c.cells,
         \A y \in c.cells : y.at = x.at /\ y.size = x.size => y = x
  PROVE  Cell(c, x.at, x.size) = x.val
<1> DEFINE S == {y \in c.cells : y.at = x.at /\ y.size = x.size}
<1>1. S = {x}
  OBVIOUS
<1>2. Cell(c, x.at, x.size) = (CHOOSE y \in S : TRUE).val
  BY <1>1 DEF Cell
<1>3. (CHOOSE y \in S : TRUE) = x
  BY <1>1
<1> QED
  BY <1>2, <1>3

LEMMA PutIs ==
  ASSUME NEW b \in Buffer, NEW at \in Nat, NEW size \in Nat \ {0}, NEW val \in Nat
  PROVE  LET c == Put(b, at, size, val)
         IN  /\ c \in Buffer /\ c.len = b.len
             /\ Untouched(b, c, at, at + size)
             /\ Cell(c, at, size) = val
<1> DEFINE x == [at |-> at, size |-> size, val |-> val]
           c == Copy(b, at, size, {x})
<1>1. x \in ACell /\ x.at = at /\ x.size = size /\ x.val = val
  BY DEF ACell
<1> HIDE DEF x
<1>2. \A y \in {x} : at <= y.at /\ y.at + y.size <= at + size /\ y.size # 0
  BY <1>1
<1>3. /\ c \in Buffer /\ c.len = b.len /\ Untouched(b, c, at, at + size)
      /\ \A y \in ACell : /\ at <= y.at /\ y.at + y.size <= at + size /\ y.size # 0
                          => ((y \in c.cells) <=> (y \in {x}))
  BY <1>1, <1>2, CopyIs
<1>4. c.cells \subseteq ACell
  BY <1>3 DEF Buffer, ACell
<1> HIDE DEF c
<1>5. x \in c.cells /\ \A y \in c.cells : y.at = x.at /\ y.size = x.size => y = x
  BY <1>1, <1>3, <1>4
<1>6. Cell(c, at, size) = val
  BY <1>1, <1>3, <1>5, CellIs
<1>7. c = Put(b, at, size, val)
  BY DEF c, x, Put
<1> QED
  BY <1>3, <1>6, <1>7

LEMMA PutStringIs ==
  ASSUME NEW b \in Buffer, NEW at \in Nat, NEW v \in Seq(Nat)
  PROVE  LET c == PutString(b, at, v)
         IN  /\ c \in Buffer /\ c.len = b.len
             /\ Untouched(b, c, at, at + Len(v))
             /\ \A n \in 1..Len(v) : Cell(c, at + n - 1, 1) = v[n]
<1> DEFINE X(n) == [at |-> at + n - 1, size |-> 1, val |-> v[n]]
           new == {X(n) : n \in 1..Len(v)}
           c == Copy(b, at, Len(v), new)
<1>1. Len(v) \in Nat
  OBVIOUS
<1>2. ASSUME NEW n \in 1..Len(v)
      PROVE  X(n) \in ACell /\ X(n).at = at + n - 1 /\ X(n).size = 1 /\ X(n).val = v[n]
  BY DEF ACell
<1> HIDE DEF X
<1>3. new \in SUBSET ACell
  BY <1>2
<1>4. \A y \in new : at <= y.at /\ y.at + y.size <= at + Len(v) /\ y.size # 0
  BY <1>1, <1>2
<1> HIDE DEF new
<1>5. /\ c \in Buffer /\ c.len = b.len /\ Untouched(b, c, at, at + Len(v))
      /\ \A y \in ACell : /\ at <= y.at /\ y.at + y.size <= at + Len(v) /\ y.size # 0
                          => ((y \in c.cells) <=> (y \in new))
  BY <1>1, <1>3, <1>4, CopyIs
<1>6. c.cells \subseteq ACell
  BY <1>5 DEF Buffer, ACell
<1> HIDE DEF c
<1>7. ASSUME NEW n \in 1..Len(v) PROVE Cell(c, at + n - 1, 1) = v[n]
  <2>1. X(n) \in new
    BY DEF new
  <2>2. X(n) \in c.cells
    BY <1>2, <1>4, <1>5, <2>1
  <2>3. ASSUME NEW y \in c.cells, y.at = X(n).at, y.size = X(n).size PROVE y = X(n)
    <3>1. y \in ACell /\ at <= y.at /\ y.at + y.size <= at + Len(v) /\ y.size # 0
      BY <1>1, <1>2, <1>6, <2>3
    <3>2. PICK k \in 1..Len(v) : y = X(k)
      BY <1>5, <3>1 DEF new
    <3>3. k = n
      BY <1>1, <1>2, <2>3, <3>2
    <3> QED
      BY <3>2, <3>3
  <2> QED
    BY <1>2, <1>5, <2>2, <2>3, CellIs
<1>8. c = PutString(b, at, v)
  BY DEF c, new, X, PutString
<1> QED
  BY <1>5, <1>7, <1>8

----------------------------------------------------------------------------
\* What is written of the items of a container.
After == [b : Buffer, n : Nat]

NextSet(f, at, item, a) ==
  LET s == f[item[1]][item[2]][a.b][at + a.n]
  IN  [b |-> s.b, n |-> a.n + s.n]

Follows(f, at, items, w) ==
  \A n \in 1..Len(items) : w[n] = NextSet(f, at, items[n], w[n - 1])

LEMMA WrittenIs ==
  ASSUME NEW f, NEW b \in Buffer, NEW at \in Nat, NEW items, Len(items) \in Nat,
         \A n \in 1..Len(items) : \A c \in Buffer : \A k \in Nat :
            f[items[n][1]][items[n][2]][c][k] \in After
  PROVE  LET w == Written(f, b, at, items)
         IN  /\ w \in [0..Len(items) -> After] /\ w[0] = [b |-> b, n |-> CntSize]
             /\ Follows(f, at, items, w)
<1> DEFINE N == Len(items)
           first == [b |-> b, n |-> CntSize]
           More(n, a) == NextSet(f, at, items[n], a)
           step == [n \in 1..N |-> [a \in After |-> More(n, a)]]
           Is(r) == r = [n \in 0..N |-> IF n = 0 THEN first ELSE More(n, r[n - 1])]
           w == Written(f, b, at, items)
<1>1. N \in Nat /\ first \in After
  BY ArchiveAssumption DEF After
<1>2. ASSUME NEW n \in 1..N, NEW a \in After PROVE More(n, a) \in After
  <2>1. a.b \in Buffer /\ a.n \in Nat /\ at + a.n \in Nat
    BY DEF After
  <2> DEFINE s == f[items[n][1]][items[n][2]][a.b][at + a.n]
  <2>2. s \in After
    BY <2>1
  <2>3. More(n, a) = [b |-> s.b, n |-> a.n + s.n]
    BY DEF NextSet
  <2> HIDE DEF s, More
  <2> QED
    BY <2>1, <2>2, <2>3 DEF After
<1>3. w = CHOOSE q : Is(q)
  BY DEF Written, NextSet
<1> HIDE DEF N, first, More, w
<1>4. step \in [1..N -> [After -> After]]
  BY <1>2
<1>5. \A n \in 1..N : \A a \in After : step[n][a] = More(n, a)
  OBVIOUS
<1> HIDE DEF step
<1>6. PICK r : IsFold(N, After, first, step, r)
  BY <1>1, <1>4, FoldExists
<1>7. /\ r \in [0..N -> After] /\ r[0] = first
      /\ \A n \in 1..N : r[n] = step[n][r[n - 1]]
  BY <1>6 DEF IsFold
<1>8. Is(r)
  <2>1. ASSUME NEW n \in 0..N, n # 0
        PROVE  r[n] = More(n, r[n - 1])
    <3>1. n \in 1..N /\ n - 1 \in 0..N
      BY <1>1, <2>1
    <3> QED
      BY <1>5, <1>7, <3>1
  <2> QED
    BY <1>7, <2>1
<1>9. Is(w)
  BY <1>3, <1>8, Zenon
<1>10. w = [n \in 0..N |-> IF n = 0 THEN first ELSE More(n, w[n - 1])]
  BY <1>9
<1> HIDE DEF Is
<1>11. w[0] = first /\ \A n \in 1..N : w[n] = More(n, w[n - 1])
  <2>1. 0 \in 0..N /\ \A n \in 1..N : n \in 0..N /\ n # 0
    BY <1>1
  <2> QED
    BY <1>10, <2>1, Zenon
<1> DEFINE Bad == {n \in Nat : n <= N /\ w[n] \notin After}
<1>12. 0 \notin Bad
  BY <1>1, <1>11
<1>13. ASSUME NEW n \in Nat, n \notin Bad PROVE n + 1 \notin Bad
  <2> SUFFICES ASSUME n + 1 <= N PROVE w[n + 1] \in After
    OBVIOUS
  <2>0. n <= N /\ n + 1 \in 1..N /\ (n + 1) - 1 = n
    BY <1>1
  <2>1. w[n] \in After /\ n + 1 \in 1..N /\ (n + 1) - 1 = n
    BY <1>13, <2>0
  <2>2. w[n + 1] = More(n + 1, w[n])
    BY <1>11, <2>1
  <2> QED
    BY <1>2, <2>1, <2>2
<1>14. \A n \in Nat : n \notin Bad
  <2>1. Bad \in SUBSET Nat
    OBVIOUS
  <2> HIDE DEF Bad
  <2> QED
    BY <1>12, <1>13, <2>1, NoneBad
<1>15. w \in [0..N -> After]
  <2>1. \A n \in 0..N : w[n] \in After
    BY <1>14
  <2> QED
    BY <1>10, <2>1
<1> QED
  BY <1>11, <1>15 DEF w, N, first, More, Follows

\* The sizes and counts that are written are numbers.
LEMMA CountNat ==
  ASSUME NEW t \in Type, t.k # "prim", NEW v \in Val[t]
  PROVE  Count(t, v) \in Nat
<1>1. CASE t.k = "string"
  <2>1. v \in Seq(Nat)
    BY <1>1, ValAt
  <2> QED
    BY <1>1, <2>1 DEF Count
<1>2. CASE t.k = "vector"
  BY <1>2, VectorIs
<1>3. CASE t.k = "set"
  BY <1>3, FiniteIs
<1>4. CASE t.k = "map"
  BY <1>4, MapIs
<1> QED
  BY <1>1, <1>2, <1>3, <1>4, Parts

LEMMA SetTyped ==
  \A t \in Type : \A v \in Val[t] : \A b \in Buffer : \A at \in Nat : Set[t][v][b][at] \in After
<1> DEFINE Good == {t \in Type : \A v \in Val[t] : \A b \in Buffer : \A at \in Nat :
                                    Set[t][v][b][at] \in After}
<1>1. ASSUME NEW t \in Type, Below(t) \subseteq Good,
             NEW v \in Val[t], NEW b \in Buffer, NEW at \in Nat
      PROVE  Set[t][v][b][at] \in After
  <2> DEFINE f == [u \in Below(t) |-> Set[u]]
             counted == Put(b, at, CntSize, Count(t, v))
  <2>1. Set[t][v][b][at] = SetWith(f, t, v, b, at)
    BY SetAt
  <2>2. \A u \in Below(t) : f[u] = Set[u] /\ \A w \in Val[u] : \A c \in Buffer : \A k \in Nat :
           f[u][w][c][k] \in After
    BY <1>1
  <2>3. Size[t][v] \in Nat
    BY SizeNat
  <2>4. t.k # "prim" => counted \in Buffer
    BY PutIs, CountNat, ArchiveAssumption
  <2> HIDE DEF f, counted
  <2>5. CASE at + Size[t][v] > b.len
    BY <2>1, <2>5 DEF SetWith, After
  <2>6. CASE t.k = "prim" /\ ~(at + Size[t][v] > b.len)
    <3>1. v \in Nat /\ t.size \in Nat \ {0}
      BY <2>6, ValAt, TypeAssumption
    <3>2. Put(b, at, t.size, v) \in Buffer
      BY <3>1, PutIs
    <3> QED
      BY <2>1, <2>3, <2>6, <3>2 DEF SetWith, After
  <2>7. CASE t.k = "string" /\ ~(at + Size[t][v] > b.len)
    <3>1. v \in Seq(Nat) /\ at + CntSize \in Nat
      BY <2>7, ValAt, ArchiveAssumption
    <3>2. PutString(counted, at + CntSize, v) \in Buffer
      BY <2>4, <2>7, <3>1, PutStringIs
    <3> QED
      BY <2>1, <2>3, <2>7, <3>2 DEF SetWith, After, counted
  <2>8. CASE t.k \in Container /\ ~(at + Size[t][v] > b.len)
    <3> DEFINE its == Items(t, v)
    <3>1. /\ Len(its) \in Nat /\ counted \in Buffer
          /\ \A n \in 1..Len(its) : \A c \in Buffer : \A k \in Nat :
                f[its[n][1]][its[n][2]][c][k] \in After
      BY <2>2, <2>4, <2>8, ItemsAre DEF Container
    <3> HIDE DEF its
    <3>2. Written(f, counted, at, its) \in [0..Len(its) -> After]
      BY <3>1, WrittenIs
    <3>3. Written(f, counted, at, its)[Len(its)].b \in Buffer
      BY <3>1, <3>2 DEF After
    <3>4. Set[t][v][b][at] = [n |-> Size[t][v], b |-> Written(f, counted, at, its)[Len(its)].b]
      BY <2>1, <2>8 DEF SetWith, its, counted, Container
    <3> QED
      BY <2>3, <3>3, <3>4 DEF After
  <2> QED
    BY <2>5, <2>6, <2>7, <2>8, Parts DEF Container
<1>2. Type \subseteq Good
  <2>1. \A t \in Type : Below(t) \subseteq Good => t \in Good
    BY <1>1
  <2> HIDE DEF Good
  <2> QED
    BY <2>1, TypeInduction
<1> QED
  BY <1>2

----------------------------------------------------------------------------
\* What is read: a value of the type, whatever the buffer holds.
ReadOf(t) == [v : Val[t], n : Nat]

\* An element is read into an object that is new: nothing of it is kept.
LEMMA FreshIs ==
  ASSUME NEW t \in Type
  PROVE  Fresh(t) \in Val[t] /\ \A v : ~Keeps(t, Fresh(t), v)
<1>1. CASE t.k = "prim"
  BY <1>1, ValAt DEF Fresh, Keeps
<1>2. CASE t.k = "string"
  <2>1. <<>> \in Seq(Nat)
    OBVIOUS
  <2> QED
    BY <1>2, <2>1, ValAt DEF Fresh, Keeps
<1>3. CASE t.k = "vector"
  <2>1. <<>> \in Seq(Val[t.of])
    OBVIOUS
  <2>2. Fresh(t) = <<>> /\ Len(<<>>) = 0
    BY <1>3 DEF Fresh
  <2>3. Val[t] = Seq(Val[t.of])
    BY <1>3, ValAt
  <2>4. \A v : Keeps(t, <<>>, v) <=> (Len(<<>>) > 0)
    BY <1>3 DEF Keeps, Count
  <2> QED
    BY <2>1, <2>2, <2>3, <2>4
<1>4. CASE t.k \in {"set", "map"}
  <2>1. Fresh(t) = {} /\ IsFiniteSet({}) /\ Cardinality({}) = 0
    BY <1>4, FS_EmptySet DEF Fresh
  <2>2. Fresh(t) \in Val[t]
    BY <1>4, <2>1, ValAt
  <2> QED
    BY <1>4, <2>1, <2>2 DEF Keeps, Count
<1> QED
  BY <1>1, <1>2, <1>3, <1>4, Parts

LEMMA GetCntNat ==
  ASSUME NEW b \in Buffer, NEW at \in Nat
  PROVE  GetCnt(b, at).v \in Nat /\ GetCnt(b, at).n \in Nat
  BY CellNat, ArchiveAssumption DEF GetCnt

LEMMA InsertIs ==
  ASSUME NEW t \in Type, t.k \in Container, NEW was \in Val[t], NEW x \in Val[t.of]
  PROVE  /\ t.k # "map" => Insert(t, was, <<x>>) \in Val[t]
         /\ t.k = "map" => \A k \in Val[t.key] : Insert(t, was, <<k, x>>) \in Val[t]
<1>1. CASE t.k = "vector"
  <2>1. was \in Seq(Val[t.of])
    BY <1>1, ValAt
  <2>2. Append(was, x) \in Seq(Val[t.of])
    BY <2>1
  <2> QED
    BY <1>1, <2>2, ValAt DEF Insert
<1>2. CASE t.k = "set"
  <2>1. was \subseteq Val[t.of] /\ IsFiniteSet(was)
    BY <1>2, ValAt
  <2>2. IsFiniteSet(was \cup {x})
    BY <2>1, FS_AddElement
  <2>3. Insert(t, was, <<x>>) = was \cup {x}
    BY <1>2 DEF Insert
  <2>4. Val[t] = {v \in SUBSET Val[t.of] : IsFiniteSet(v)}
    BY <1>2, ValAt
  <2>5. was \cup {x} \in SUBSET Val[t.of]
    BY <2>1
  <2>6. was \cup {x} \in Val[t]
    BY <2>2, <2>4, <2>5
  <2> QED
    BY <1>2, <2>3, <2>6
<1>3. CASE t.k = "map"
  <2> SUFFICES ASSUME NEW k \in Val[t.key] PROVE Insert(t, was, <<k, x>>) \in Val[t]
    BY <1>3
  <2>1. /\ was \subseteq Val[t.key] \X Val[t.of] /\ IsFiniteSet(was)
        /\ \A a, b \in was : a[1] = b[1] => a = b
    BY <1>3, ValAt
  <2>2. CASE \E kv \in was : kv[1] = k
    BY <1>3, <2>2 DEF Insert
  <2>3. CASE ~\E kv \in was : kv[1] = k
    <3> DEFINE new == was \cup {<<k, x>>}
    <3>1. Insert(t, was, <<k, x>>) = new
      BY <1>3, <2>3 DEF Insert
    <3>2. IsFiniteSet(new)
      BY <2>1, FS_AddElement
    <3>3. \A a, b \in new : a[1] = b[1] => a = b
      BY <2>1, <2>3
    <3>4. new \subseteq Val[t.key] \X Val[t.of]
      BY <2>1
    <3>5. Val[t] = {v \in SUBSET (Val[t.key] \X Val[t.of]) :
                      IsFiniteSet(v) /\ \A a, b \in v : a[1] = b[1] => a = b}
      BY <1>3, ValAt
    <3> HIDE DEF new
    <3> QED
      BY <3>1, <3>2, <3>3, <3>4, <3>5
  <2> QED
    BY <2>2, <2>3
<1> QED
  BY <1>1, <1>2, <1>3 DEF Container

One(f, b, at, u, n) == f[u][Fresh(u)][b][at + n]

NextItem(f, t, b, at, a) ==
  IF t.k = "map"
  THEN LET key == One(f, b, at, t.key, a.n)
           val == One(f, b, at, t.of, a.n + key.n)
       IN  [v |-> Insert(t, a.v, <<key.v, val.v>>), n |-> a.n + key.n + val.n]
  ELSE LET e == One(f, b, at, t.of, a.n)
       IN  [v |-> Insert(t, a.v, <<e.v>>), n |-> a.n + e.n]

LEMMA NextItemIs ==
  ASSUME NEW f, NEW t \in Type, t.k \in Container, NEW b \in Buffer, NEW at \in Nat,
         \A u \in Below(t) : \A k \in Nat : f[u][Fresh(u)][b][k] \in ReadOf(u),
         NEW a \in ReadOf(t)
  PROVE  NextItem(f, t, b, at, a) \in ReadOf(t)
<1>1. a.v \in Val[t] /\ a.n \in Nat
  BY DEF ReadOf
<1>2. t.of \in Below(t)
  BY Below1
<1>3. \A u \in Below(t) : \A k \in Nat :
         One(f, b, at, u, k) \in ReadOf(u) /\ One(f, b, at, u, k).v \in Val[u]
         /\ One(f, b, at, u, k).n \in Nat
  <2>1. \A k \in Nat : at + k \in Nat
    OBVIOUS
  <2> QED
    BY <2>1 DEF One, ReadOf
<1>4. CASE t.k = "map"
  <2> DEFINE key == One(f, b, at, t.key, a.n)
             val == One(f, b, at, t.of, a.n + key.n)
  <2>1. key.v \in Val[t.key] /\ key.n \in Nat
    BY <1>1, <1>3, <1>4, Below1
  <2>2. a.n + key.n \in Nat
    BY <1>1, <2>1
  <2>3. val.v \in Val[t.of] /\ val.n \in Nat
    BY <1>2, <1>3, <2>2
  <2>4. NextItem(f, t, b, at, a) =
           [v |-> Insert(t, a.v, <<key.v, val.v>>), n |-> a.n + key.n + val.n]
    BY <1>4 DEF NextItem
  <2> HIDE DEF key, val
  <2>5. Insert(t, a.v, <<key.v, val.v>>) \in Val[t]
    BY <1>1, <1>4, <2>1, <2>3, InsertIs
  <2>6. a.n + key.n + val.n \in Nat
    BY <1>1, <2>1, <2>3
  <2> QED
    BY <2>4, <2>5, <2>6 DEF ReadOf
<1>5. CASE t.k # "map"
  <2> DEFINE e == One(f, b, at, t.of, a.n)
  <2>1. e.v \in Val[t.of] /\ e.n \in Nat
    BY <1>1, <1>2, <1>3
  <2>2. NextItem(f, t, b, at, a) = [v |-> Insert(t, a.v, <<e.v>>), n |-> a.n + e.n]
    BY <1>5 DEF NextItem
  <2> HIDE DEF e
  <2>3. Insert(t, a.v, <<e.v>>) \in Val[t]
    BY <1>1, <1>5, <2>1, InsertIs
  <2>4. a.n + e.n \in Nat
    BY <1>1, <2>1
  <2> QED
    BY <2>2, <2>3, <2>4 DEF ReadOf
<1> QED
  BY <1>4, <1>5

\* What is read of the elements of a container.
Yields(f, t, b, at, N, g) == \A n \in 1..N : g[n] = NextItem(f, t, b, at, g[n - 1])

LEMMA FetchedIs ==
  ASSUME NEW f, NEW t \in Type, t.k \in Container, NEW was \in Val[t],
         NEW b \in Buffer, NEW at \in Nat, NEW cnt, cnt.v \in Nat, cnt.n \in Nat,
         \A u \in Below(t) : \A k \in Nat : f[u][Fresh(u)][b][k] \in ReadOf(u)
  PROVE  LET g == Fetched(f, t, was, b, at, cnt)
         IN  /\ g \in [0..cnt.v -> ReadOf(t)] /\ g[0] = [v |-> was, n |-> cnt.n]
             /\ Yields(f, t, b, at, cnt.v, g)
<1> DEFINE N == cnt.v
           S == ReadOf(t)
           first == [v |-> was, n |-> cnt.n]
           More(a) == NextItem(f, t, b, at, a)
           step == [n \in 1..N |-> [a \in S |-> More(a)]]
           Is(r) == r = [n \in 0..N |-> IF n = 0 THEN first ELSE More(r[n - 1])]
           g == Fetched(f, t, was, b, at, cnt)
<1>1. N \in Nat /\ first \in S
  BY DEF ReadOf
<1>2. ASSUME NEW a \in S PROVE More(a) \in S
  BY NextItemIs
<1>3. g = CHOOSE q : Is(q)
  BY DEF Fetched, NextItem, One
<1> HIDE DEF N, first, More, g, S
<1>4. step \in [1..N -> [S -> S]]
  BY <1>2
<1>5. \A n \in 1..N : \A a \in S : step[n][a] = More(a)
  OBVIOUS
<1> HIDE DEF step
<1>6. PICK r : IsFold(N, S, first, step, r)
  BY <1>1, <1>4, FoldExists
<1>7. /\ r \in [0..N -> S] /\ r[0] = first
      /\ \A n \in 1..N : r[n] = step[n][r[n - 1]]
  BY <1>6 DEF IsFold
<1>8. Is(r)
  <2>1. ASSUME NEW n \in 0..N, n # 0
        PROVE  r[n] = More(r[n - 1])
    <3>1. n \in 1..N /\ n - 1 \in 0..N
      BY <1>1, <2>1
    <3> QED
      BY <1>5, <1>7, <3>1
  <2> QED
    BY <1>7, <2>1
<1>9. Is(g)
  BY <1>3, <1>8, Zenon
<1>10. g = [n \in 0..N |-> IF n = 0 THEN first ELSE More(g[n - 1])]
  BY <1>9
<1> HIDE DEF Is
<1>11. g[0] = first /\ \A n \in 1..N : g[n] = More(g[n - 1])
  <2>1. 0 \in 0..N /\ \A n \in 1..N : n \in 0..N /\ n # 0
    BY <1>1
  <2> QED
    BY <1>10, <2>1, Zenon
<1> DEFINE Bad == {n \in Nat : n <= N /\ g[n] \notin S}
<1>12. 0 \notin Bad
  BY <1>1, <1>11
<1>13. ASSUME NEW n \in Nat, n \notin Bad PROVE n + 1 \notin Bad
  <2> SUFFICES ASSUME n + 1 <= N PROVE g[n + 1] \in S
    OBVIOUS
  <2>1. n <= N /\ n + 1 \in 1..N /\ (n + 1) - 1 = n
    BY <1>1
  <2>2. g[n] \in S
    BY <1>13, <2>1
  <2>3. g[n + 1] = More(g[n])
    BY <1>11, <2>1
  <2> QED
    BY <1>2, <2>2, <2>3
<1>14. \A n \in Nat : n \notin Bad
  <2>1. Bad \in SUBSET Nat
    OBVIOUS
  <2> HIDE DEF Bad
  <2> QED
    BY <1>12, <1>13, <2>1, NoneBad
<1>15. g \in [0..N -> S]
  <2>1. \A n \in 0..N : g[n] \in S
    BY <1>14
  <2> QED
    BY <1>10, <2>1
<1> QED
  BY <1>11, <1>15 DEF g, N, first, More, S, Yields

LEMMA GetTyped ==
  \A t \in Type : \A was \in Val[t] : \A b \in Buffer : \A at \in Nat :
     Get[t][was][b][at] \in ReadOf(t)
<1> DEFINE Good == {t \in Type : \A was \in Val[t] : \A b \in Buffer : \A at \in Nat :
                                    Get[t][was][b][at] \in ReadOf(t)}
<1>1. ASSUME NEW t \in Type, Below(t) \subseteq Good,
             NEW was \in Val[t], NEW b \in Buffer, NEW at \in Nat
      PROVE  Get[t][was][b][at] \in ReadOf(t)
  <2> DEFINE f == [u \in Below(t) |-> Get[u]]
             cnt == GetCnt(b, at)
  <2>1. Get[t][was][b][at] = GetWith(f, t, was, b, at)
    BY GetAt
  <2>2. \A u \in Below(t) : \A k \in Nat : f[u][Fresh(u)][b][k] \in ReadOf(u)
    BY <1>1, FreshIs, Below1
  <2>3. cnt.v \in Nat /\ cnt.n \in Nat
    BY GetCntNat
  <2> HIDE DEF f, cnt
  <2>4. CASE t.k = "prim"
    <3>1. t.size \in Nat /\ Val[t] = Nat
      BY <2>4, ValAt, TypeAssumption
    <3> QED
      BY <2>1, <2>4, <3>1, CellNat DEF GetWith, ReadOf
  <2>5. CASE t.k = "string"
    <3> DEFINE s == [n \in 1..cnt.v |-> Cell(b, at + cnt.n + n - 1, 1)]
    <3>1. \A n \in 1..cnt.v : Cell(b, at + cnt.n + n - 1, 1) \in Nat
      <4>1. \A n \in 1..cnt.v : at + cnt.n + n - 1 \in Nat
        BY <2>3
      <4> QED
        BY <4>1, CellNat
    <3>2. s \in Seq(Nat)
      BY <2>3, <3>1
    <3>3. Get[t][was][b][at] = [v |-> IF cnt.v = 0 THEN was ELSE s, n |-> cnt.n + cnt.v]
      BY <2>1, <2>5 DEF GetWith, GetString, cnt
    <3> HIDE DEF s
    <3>4. Val[t] = Seq(Nat)
      BY <2>5, ValAt
    <3>5. (IF cnt.v = 0 THEN was ELSE s) \in Val[t]
      BY <3>2, <3>4
    <3>6. cnt.n + cnt.v \in Nat
      BY <2>3
    <3> QED
      BY <3>3, <3>5, <3>6 DEF ReadOf
  <2>6. CASE t.k \in Container
    <3>1. Get[t][was][b][at] = Fetched(f, t, was, b, at, cnt)[cnt.v]
      BY <2>1, <2>6 DEF GetWith, Container, cnt
    <3>2. Fetched(f, t, was, b, at, cnt) \in [0..cnt.v -> ReadOf(t)]
      BY <2>2, <2>3, <2>6, FetchedIs
    <3> QED
      BY <2>3, <3>1, <3>2
  <2> QED
    BY <2>4, <2>5, <2>6, Parts DEF Container
<1>2. Type \subseteq Good
  <2>1. \A t \in Type : Below(t) \subseteq Good => t \in Good
    BY <1>1
  <2> HIDE DEF Good
  <2> QED
    BY <2>1, TypeInduction
<1> QED
  BY <1>2

----------------------------------------------------------------------------
\* What make_from reads at a place of a buffer is the value,
Reads(t, v, b, at) ==
  \A was \in Val[t] : /\ Get[t][was][b][at].n = Size[t][v]
                      /\ Keeps(t, was, v) \/ Get[t][was][b][at].v = v

\* and is so because of the bytes of the value, whatever the others are.
Held(t, v, b, at) ==
  \A c \in Buffer : c.len = b.len /\ Agree(b, c, at, at + Size[t][v]) => Reads(t, v, c, at)

\* What is written holds, and nothing else is written.
Codec(t) ==
  \A v \in Val[t] : \A b \in Buffer : \A at \in Nat :
     at + Size[t][v] <= b.len =>
        LET s == Set[t][v][b][at]
        IN  /\ s.n = Size[t][v] /\ s.b \in Buffer /\ s.b.len = b.len
            /\ Untouched(b, s.b, at, at + Size[t][v])
            /\ Held(t, v, s.b, at)

LEMMA CodecSet ==
  ASSUME NEW t, Codec(t), NEW v \in Val[t], NEW b \in Buffer, NEW at \in Nat,
         at + Size[t][v] <= b.len
  PROVE  /\ Set[t][v][b][at].n = Size[t][v] /\ Set[t][v][b][at].b \in Buffer
         /\ Set[t][v][b][at].b.len = b.len
         /\ Untouched(b, Set[t][v][b][at].b, at, at + Size[t][v])
         /\ Held(t, v, Set[t][v][b][at].b, at)
  BY DEF Codec

LEMMA HeldReads ==
  ASSUME NEW t, NEW v, NEW b \in Buffer, NEW at, Held(t, v, b, at)
  PROVE  Reads(t, v, b, at)
  BY AgreeSelf DEF Held

LEMMA HeldKept ==
  ASSUME NEW t, NEW v, NEW b, NEW c, NEW at, Held(t, v, b, at),
         c.len = b.len, Agree(b, c, at, at + Size[t][v])
  PROVE  Held(t, v, c, at)
<1> SUFFICES ASSUME NEW d \in Buffer, d.len = c.len, Agree(c, d, at, at + Size[t][v])
             PROVE  Reads(t, v, d, at)
  BY DEF Held
<1>1. Agree(b, d, at, at + Size[t][v])
  BY AgreeBoth
<1> QED
  BY <1>1 DEF Held

LEMMA UntouchedSelf == \A b, lo, hi : Untouched(b, b, lo, hi)
  BY DEF Untouched

\* The items of a container are written one after the other.
LEMMA WrittenHolds ==
  ASSUME NEW t \in Type, t.k \in Container, NEW v \in Val[t],
         \A u \in Below(t) : Codec(u),
         NEW b \in Buffer, NEW at \in Nat, at + Size[t][v] <= b.len
  PROVE  LET its == Items(t, v)
             m == Measured([u \in Below(t) |-> Size[u]], its)
             w == Written([u \in Below(t) |-> Set[u]], b, at, its)[Len(its)]
         IN  /\ w.b \in Buffer /\ w.b.len = b.len
             /\ Untouched(b, w.b, at + CntSize, at + Size[t][v])
             /\ \A k \in 1..Len(its) : Held(its[k][1], its[k][2], w.b, at + m[k - 1])
<1> DEFINE its == Items(t, v)
           N == Len(its)
           f == [u \in Below(t) |-> Set[u]]
           m == Measured([u \in Below(t) |-> Size[u]], its)
           w == Written(f, b, at, its)
<1>1. /\ m \in [0..N -> Nat] /\ m[0] = CntSize /\ Size[t][v] = m[N] /\ N \in Nat
      /\ \A n \in 1..N : m[n] = m[n - 1] + Size[its[n][1]][its[n][2]]
  BY SizeIsMeasured, ItemsAre
<1>2. /\ \A n \in 1..N : CntSize <= m[n - 1] /\ m[n - 1] <= m[n] /\ m[n] <= Size[t][v]
      /\ \A k, n \in 0..N : k <= n => m[k] <= m[n]
  BY Offsets
<1>3. \A n \in 1..N : /\ its[n][1] \in Type /\ its[n][1] \in Below(t)
                      /\ its[n][2] \in Val[its[n][1]]
                      /\ Size[its[n][1]][its[n][2]] \in Nat
  BY ItemsAre, Below1, SizeNat
<1>4. \A n \in 1..N : f[its[n][1]] = Set[its[n][1]]
  BY <1>3
<1>5. \A n \in 1..N : \A c \in Buffer : \A k \in Nat : f[its[n][1]][its[n][2]][c][k] \in After
  BY <1>3, <1>4, SetTyped
<1> HIDE DEF f, m, its
<1>a. /\ w \in [0..N -> After] /\ w[0] = [b |-> b, n |-> CntSize]
      /\ \A n \in 1..N : w[n] = NextSet(f, at, its[n], w[n - 1])
  <2>1. Follows(f, at, its, w) /\ w \in [0..N -> After] /\ w[0] = [b |-> b, n |-> CntSize]
    BY <1>1, <1>5, WrittenIs
  <2> QED
    BY <2>1 DEF Follows
<1> HIDE DEF w, N
<1>b. \A n \in 0..N : w[n].b \in Buffer /\ w[n].n \in Nat
  <2>1. w \in [0..N -> After]
    BY <1>a
  <2> QED
    BY <2>1 DEF After
<1>c. w[0].b = b /\ w[0].n = CntSize
  BY <1>a
<1>d. ASSUME NEW n \in 1..N
      PROVE  LET s == Set[its[n][1]][its[n][2]][w[n - 1].b][at + w[n - 1].n]
             IN  w[n].b = s.b /\ w[n].n = w[n - 1].n + s.n
  <2> DEFINE s == Set[its[n][1]][its[n][2]][w[n - 1].b][at + w[n - 1].n]
  <2>1. w[n] = NextSet(f, at, its[n], w[n - 1]) /\ f[its[n][1]] = Set[its[n][1]]
    BY <1>a, <1>4
  <2>2. w[n] = [b |-> s.b, n |-> w[n - 1].n + s.n]
    BY <2>1, Zenon DEF NextSet
  <2> HIDE DEF s
  <2>3. w[n].b = s.b /\ w[n].n = w[n - 1].n + s.n
    BY <2>2
  <2> QED
    BY <2>3 DEF s
<1> DEFINE Good(n) == /\ w[n].n = m[n] /\ w[n].b.len = b.len
                      /\ Untouched(b, w[n].b, at + CntSize, at + m[n])
                      /\ \A k \in 1..n : Held(its[k][1], its[k][2], w[n].b, at + m[k - 1])
           Bad == {n \in Nat : n <= N /\ ~Good(n)}
<1>6. Good(0)
  <2>1. w[0].n = m[0] /\ w[0].b = b
    BY <1>1, <1>c
  <2> QED
    BY <2>1, UntouchedSelf
<1>7. ASSUME NEW n \in Nat, Good(n), n + 1 <= N PROVE Good(n + 1)
  <2> DEFINE u == its[n + 1][1]
             x == its[n + 1][2]
             s == Set[u][x][w[n].b][at + m[n]]
  <2>1. n + 1 \in 1..N /\ (n + 1) - 1 = n /\ n \in 0..N /\ n + 1 \in 0..N
    BY <1>1, <1>7
  <2>2. w[n].b \in Buffer /\ m[n] \in Nat /\ m[n + 1] \in Nat /\ at + m[n] \in Nat
    BY <1>1, <1>b, <2>1
  <2>3. u \in Below(t) /\ x \in Val[u] /\ Size[u][x] \in Nat
    BY <1>3, <2>1
  <2>4. w[n + 1].b = s.b /\ w[n + 1].n = m[n] + s.n
    BY <1>d, <1>7, <2>1
  <2>5. m[n + 1] = m[n] + Size[u][x] /\ m[n + 1] <= Size[t][v]
    BY <1>1, <1>2, <2>1
  <2>6. b.len \in Nat /\ Size[t][v] \in Nat
    BY SizeNat DEF Buffer
  <2>7. (at + m[n]) + Size[u][x] = at + m[n + 1] /\ at + m[n + 1] <= b.len
    BY <2>2, <2>3, <2>5, <2>6
  <2>A. Codec(u) /\ w[n].b.len = b.len
    BY <1>7, <2>3
  <2> HIDE DEF u, x
  <2>B. (at + m[n]) + Size[u][x] <= w[n].b.len
    BY <2>7, <2>A
  <2>8. /\ s.n = Size[u][x] /\ s.b \in Buffer /\ s.b.len = b.len
        /\ Untouched(w[n].b, s.b, at + m[n], at + m[n + 1])
        /\ Held(u, x, s.b, at + m[n])
    <3> DEFINE c == w[n].b
               a == at + m[n]
    <3>1. c \in Buffer /\ a \in Nat /\ a + Size[u][x] <= c.len /\ c.len = b.len
      BY <2>2, <2>A, <2>B
    <3>2. s = Set[u][x][c][a]
      OBVIOUS
    <3>3. Codec(u) /\ x \in Val[u]
      BY <2>3, <2>A
    <3> HIDE DEF s, c, a
    <3>4. /\ Set[u][x][c][a].n = Size[u][x] /\ Set[u][x][c][a].b \in Buffer
          /\ Set[u][x][c][a].b.len = c.len
          /\ Untouched(c, Set[u][x][c][a].b, a, a + Size[u][x])
          /\ Held(u, x, Set[u][x][c][a].b, a)
      BY <3>1, <3>3, CodecSet
    <3>5. /\ s.n = Size[u][x] /\ s.b \in Buffer /\ s.b.len = b.len
          /\ Untouched(c, s.b, a, a + Size[u][x]) /\ Held(u, x, s.b, a)
      BY <3>1, <3>2, <3>4
    <3>6. a + Size[u][x] = at + m[n + 1]
      BY <2>7 DEF a
    <3> QED
      BY <3>5, <3>6 DEF c, a
  <2> HIDE DEF s
  <2>9. w[n + 1].n = m[n + 1] /\ w[n + 1].b = s.b
    BY <2>4, <2>5, <2>8
  <2>10. Untouched(b, s.b, at + CntSize, at + m[n + 1])
    <3>1. CntSize \in Nat /\ CntSize <= m[n] /\ m[n] <= m[n + 1]
      BY <1>2, <2>1, ArchiveAssumption
    <3>2. /\ at + CntSize \in Nat /\ at + m[n] \in Nat /\ at + m[n + 1] \in Nat
          /\ at + CntSize <= at + m[n] /\ at + m[n] <= at + m[n + 1]
      BY <2>2, <3>1
    <3> QED
      BY <1>7, <2>8, <3>2, UntouchedBoth
  <2>11. ASSUME NEW k \in 1..(n + 1)
         PROVE  Held(its[k][1], its[k][2], s.b, at + m[k - 1])
    <3>1. CASE k = n + 1
      BY <2>1, <2>8, <3>1 DEF u, x
    <3>2. CASE k # n + 1
      <4>1. k \in 1..n /\ k \in 1..N /\ k - 1 \in 0..N /\ k \in 0..N /\ k <= n
        BY <1>1, <2>1, <3>2
      <4>2. Held(its[k][1], its[k][2], w[n].b, at + m[k - 1])
        BY <1>7, <4>1
      <4>3. m[k - 1] \in Nat /\ m[k] \in Nat /\ m[k] <= m[n]
        BY <1>1, <1>2, <2>1, <4>1
      <4>4. m[k] = m[k - 1] + Size[its[k][1]][its[k][2]] /\ Size[its[k][1]][its[k][2]] \in Nat
        BY <1>1, <1>3, <4>1
      <4>5. /\ at + m[k - 1] \in Nat /\ at + m[k] \in Nat /\ at + m[n + 1] \in Nat
            /\ at + m[k] <= at + m[n]
            /\ (at + m[k - 1]) + Size[its[k][1]][its[k][2]] = at + m[k]
        BY <2>2, <4>3, <4>4
      <4>6. Agree(w[n].b, s.b, at + m[k - 1], at + m[k])
        BY <2>2, <2>8, <4>5, AgreeOutside
      <4> QED
        BY <1>7, <2>8, <4>2, <4>5, <4>6, HeldKept
    <3> QED
      BY <3>1, <3>2
  <2> QED
    BY <2>8, <2>9, <2>10, <2>11
<1> HIDE DEF Good
<1>8. \A n \in Nat : n \notin Bad
  <2>1. Bad \in SUBSET Nat /\ 0 \notin Bad
    BY <1>6
  <2>2. \A n \in Nat : n \notin Bad => n + 1 \notin Bad
    <3> SUFFICES ASSUME NEW n \in Nat, n \notin Bad, n + 1 <= N PROVE Good(n + 1)
      OBVIOUS
    <3>1. n <= N
      BY <1>1
    <3> QED
      BY <1>7, <3>1
  <2> HIDE DEF Bad
  <2> QED
    BY <2>1, <2>2, NoneBad
<1>9. Good(N)
  BY <1>1, <1>8
<1>10. w[N].b \in Buffer
  BY <1>1, <1>b
<1> QED
  BY <1>1, <1>9, <1>10 DEF Good, w, m, its, f, N

----------------------------------------------------------------------------
\* The elements of a container are read one after the other: the nth of a
\* vector or a set is the nth item, that of a map the items 2n - 1 and 2n.
LEMMA OneIs ==
  ASSUME NEW t \in Type, t.k \in Container, NEW v \in Val[t], NEW b \in Buffer, NEW at \in Nat,
         NEW k \in 1..Len(Items(t, v))
  PROVE  LET its == Items(t, v)
             m == Measured([u \in Below(t) |-> Size[u]], its)
             e == One([u \in Below(t) |-> Get[u]], b, at, its[k][1], m[k - 1])
         IN  Reads(its[k][1], its[k][2], b, at + m[k - 1]) => e.v = its[k][2] /\ m[k - 1] + e.n = m[k]
<1> DEFINE its == Items(t, v)
           m == Measured([u \in Below(t) |-> Size[u]], its)
           f == [u \in Below(t) |-> Get[u]]
           u == its[k][1]
           e == One(f, b, at, u, m[k - 1])
<1>1. u \in Below(t) /\ u \in Type /\ its[k][2] \in Val[u]
  BY ItemsAre, Below1
<1>2. m[k] = m[k - 1] + Size[u][its[k][2]]
  BY SizeIsMeasured
<1>3. e = Get[u][Fresh(u)][b][at + m[k - 1]]
  BY <1>1 DEF One
<1> HIDE DEF m, u, f, e, its
<1>4. Fresh(u) \in Val[u] /\ ~Keeps(u, Fresh(u), its[k][2])
  BY <1>1, FreshIs
<1>5. Reads(u, its[k][2], b, at + m[k - 1]) => e.v = its[k][2] /\ e.n = Size[u][its[k][2]]
  BY <1>3, <1>4 DEF Reads
<1>6. Reads(u, its[k][2], b, at + m[k - 1]) => e.v = its[k][2] /\ m[k - 1] + e.n = m[k]
  BY <1>2, <1>5
<1> QED
  BY <1>6 DEF m, u, f, e, its

\* What has been read of a container, when it was empty, after n elements.
Prefix(t, v, n) ==
  CASE t.k = "vector" -> [k \in 1..n |-> v[k]]
    [] OTHER -> {SetToSeq(v)[k] : k \in 1..n}

LEMMA PrefixIs ==
  ASSUME NEW t \in Type, t.k \in Container, NEW v \in Val[t], NEW was \in Val[t], Count(t, was) = 0
  PROVE  Prefix(t, v, 0) = was /\ Prefix(t, v, Count(t, v)) = v
<1>1. CASE t.k = "vector"
  <2>1. was \in Seq(Val[t.of]) /\ Len(was) = 0 /\ v \in Seq(Val[t.of]) /\ Count(t, v) = Len(v)
    BY <1>1, VectorIs
  <2>2. was = <<>> /\ Prefix(t, v, 0) = <<>>
    BY <1>1, <2>1 DEF Prefix
  <2>3. Prefix(t, v, Len(v)) = v
    BY <1>1, <2>1 DEF Prefix
  <2> QED
    BY <2>1, <2>2, <2>3
<1>2. CASE t.k \in {"set", "map"}
  <2> DEFINE s == SetToSeq(v)
  <2>1. IsFiniteSet(was) /\ IsFiniteSet(v)
    BY <1>2, ValAt
  <2>2. Count(t, was) = Cardinality(was)
    BY <1>2 DEF Count
  <2>3. was = {}
    BY <2>1, <2>2, FS_EmptySet
  <2>4. /\ Len(s) = Count(t, v) /\ s \in [1..Len(s) -> v]
        /\ \A x \in v : \E n \in 1..Len(s) : s[n] = x
    BY <1>2, FiniteIs, MapIs
  <2> HIDE DEF s
  <2>5. {s[k] : k \in 1..Len(s)} = v /\ {s[k] : k \in 1..0} = {}
    BY <2>4
  <2>6. \A n : Prefix(t, v, n) = {s[k] : k \in 1..n}
    BY <1>2 DEF Prefix, s
  <2> QED
    BY <2>3, <2>4, <2>5, <2>6
<1> QED
  BY <1>1, <1>2 DEF Container

\* The next element goes to the end of a vector and into a set; a map does not
\* have its key yet.
LEMMA PrefixNext ==
  ASSUME NEW t \in Type, t.k \in Container, NEW v \in Val[t], NEW n \in 1..Count(t, v)
  PROVE  /\ t.k # "map" => Insert(t, Prefix(t, v, n - 1), <<Items(t, v)[n][2]>>) = Prefix(t, v, n)
         /\ t.k = "map" => Insert(t, Prefix(t, v, n - 1),
                                  <<Items(t, v)[2 * n - 1][2], Items(t, v)[2 * n][2]>>)
                             = Prefix(t, v, n)
<1>1. CASE t.k = "vector"
  <2>1. v \in Seq(Val[t.of]) /\ n \in 1..Len(v) /\ Len(v) \in Nat /\ Items(t, v)[n][2] = v[n]
    BY <1>1, VectorIs
  <2> DEFINE p == [k \in 1..(n - 1) |-> v[k]]
  <2>2. p \in Seq(Val[t.of]) /\ Len(p) = n - 1
    BY <2>1
  <2>3. Append(p, v[n]) = [k \in 1..n |-> v[k]]
    BY <2>1
  <2> HIDE DEF p
  <2>4. Prefix(t, v, n - 1) = p /\ Prefix(t, v, n) = [k \in 1..n |-> v[k]]
    BY <1>1 DEF Prefix, p
  <2>5. Insert(t, p, <<v[n]>>) = Append(p, v[n])
    BY <1>1 DEF Insert
  <2> QED
    BY <1>1, <2>1, <2>3, <2>4, <2>5
<1>2. CASE t.k = "set"
  <2> DEFINE s == SetToSeq(v)
  <2>1. Len(s) \in Nat /\ n \in 1..Len(s) /\ Items(t, v)[n] = <<t.of, s[n]>>
    BY <1>2, FiniteIs
  <2>2. \A k : Prefix(t, v, k) = {s[j] : j \in 1..k}
    BY <1>2 DEF Prefix
  <2> HIDE DEF s
  <2>3. {s[j] : j \in 1..(n - 1)} \cup {s[n]} = {s[j] : j \in 1..n}
    BY <2>1
  <2>4. Insert(t, Prefix(t, v, n - 1), <<s[n]>>) = Prefix(t, v, n - 1) \cup {s[n]}
    BY <1>2 DEF Insert
  <2>5. Items(t, v)[n][2] = s[n]
    BY <2>1
  <2>6. Insert(t, Prefix(t, v, n - 1), <<s[n]>>) = Prefix(t, v, n)
    BY <2>2, <2>3, <2>4
  <2> QED
    BY <1>2, <2>5, <2>6
<1>3. CASE t.k = "map"
  <2> DEFINE s == SetToSeq(v)
  <2>0. /\ Count(t, v) = Len(s) /\ Len(s) \in Nat
        /\ \A k \in 1..Len(s) : s[k] = <<s[k][1], s[k][2]>>
        /\ \A j, k \in 1..Len(s) : s[j][1] = s[k][1] => j = k
        /\ \A k \in 1..Len(s) : /\ Items(t, v)[2 * k - 1] = <<t.key, s[k][1]>>
                                /\ Items(t, v)[2 * k] = <<t.of, s[k][2]>>
    BY <1>3, MapIs
  <2> HIDE DEF s
  <2>1. /\ Len(s) \in Nat /\ n \in 1..Len(s)
        /\ Items(t, v)[2 * n - 1] = <<t.key, s[n][1]>> /\ Items(t, v)[2 * n] = <<t.of, s[n][2]>>
        /\ \A j, k \in 1..Len(s) : s[j][1] = s[k][1] => j = k
        /\ s[n] = <<s[n][1], s[n][2]>>
    BY <2>0
  <2>a. n \in Nat \ {0}
    BY <2>1
  <2>2. \A k : Prefix(t, v, k) = {s[j] : j \in 1..k}
    BY <1>3 DEF Prefix, s
  <2>3. {s[j] : j \in 1..(n - 1)} \cup {s[n]} = {s[j] : j \in 1..n}
    BY <2>a
  <2>4. ~\E kv \in Prefix(t, v, n - 1) : kv[1] = s[n][1]
    BY <2>1, <2>2
  <2>5. Insert(t, Prefix(t, v, n - 1), <<s[n][1], s[n][2]>>)
          = Prefix(t, v, n - 1) \cup {<<s[n][1], s[n][2]>>}
    BY <1>3, <2>4 DEF Insert
  <2>6. <<Items(t, v)[2 * n - 1][2], Items(t, v)[2 * n][2]>> = <<s[n][1], s[n][2]>>
    BY <2>1
  <2> QED
    BY <1>3, <2>1, <2>2, <2>3, <2>5, <2>6
<1> QED
  BY <1>1, <1>2, <1>3 DEF Container

LEMMA ShapeIs ==
  ASSUME NEW t \in Type, t.k \in Container, NEW v \in Val[t]
  PROVE  /\ Count(t, v) \in Nat
         /\ t.k # "map" => /\ Len(Items(t, v)) = Count(t, v)
                           /\ \A n \in 1..Count(t, v) : Items(t, v)[n][1] = t.of
         /\ t.k = "map" => /\ Len(Items(t, v)) = 2 * Count(t, v)
                           /\ \A n \in 1..Count(t, v) : /\ Items(t, v)[2 * n - 1][1] = t.key
                                                        /\ Items(t, v)[2 * n][1] = t.of
<1>1. CASE t.k = "vector"
  BY <1>1, VectorIs
<1>2. CASE t.k = "set"
  <2> DEFINE s == SetToSeq(v)
  <2>1. /\ Len(s) \in Nat /\ Count(t, v) = Len(s) /\ Len(Items(t, v)) = Len(s)
        /\ \A n \in 1..Len(s) : Items(t, v)[n] = <<t.of, s[n]>>
    BY <1>2, FiniteIs
  <2> HIDE DEF s
  <2> QED
    BY <1>2, <2>1
<1>3. CASE t.k = "map"
  <2> DEFINE s == SetToSeq(v)
  <2>1. /\ Len(s) \in Nat /\ Count(t, v) = Len(s) /\ Len(Items(t, v)) = 2 * Len(s)
        /\ \A n \in 1..Len(s) : /\ Items(t, v)[2 * n - 1] = <<t.key, s[n][1]>>
                                /\ Items(t, v)[2 * n] = <<t.of, s[n][2]>>
    BY <1>3, MapIs
  <2> HIDE DEF s
  <2> QED
    BY <1>3, <2>1
<1> QED
  BY <1>1, <1>2, <1>3 DEF Container

LEMMA FetchedHolds ==
  ASSUME NEW t \in Type, t.k \in Container, NEW v \in Val[t], NEW was \in Val[t],
         NEW b \in Buffer, NEW at \in Nat,
         GetCnt(b, at).v = Count(t, v), GetCnt(b, at).n = CntSize,
         LET its == Items(t, v)
             m == Measured([u \in Below(t) |-> Size[u]], its)
         IN  \A k \in 1..Len(its) : Reads(its[k][1], its[k][2], b, at + m[k - 1])
  PROVE  LET g == Fetched([u \in Below(t) |-> Get[u]], t, was, b, at, GetCnt(b, at))[Count(t, v)]
         IN  g.n = Size[t][v] /\ (Count(t, was) = 0 => g.v = v)
<1> DEFINE its == Items(t, v)
           N == Len(its)
           C == Count(t, v)
           m == Measured([u \in Below(t) |-> Size[u]], its)
           f == [u \in Below(t) |-> Get[u]]
           cnt == GetCnt(b, at)
           g == Fetched(f, t, was, b, at, cnt)
           P(n) == Prefix(t, v, n)
           Idx(n) == IF t.k = "map" THEN 2 * n ELSE n
<1>1. m \in [0..N -> Nat] /\ m[0] = CntSize /\ Size[t][v] = m[N] /\ N \in Nat
  BY SizeIsMeasured, ItemsAre
<1>2. C \in Nat /\ N = Idx(C)
  BY ShapeIs
<1>3. \A u \in Below(t) : \A k \in Nat : f[u][Fresh(u)][b][k] \in ReadOf(u)
  BY GetTyped, FreshIs, Below1
<1>4. ASSUME NEW k \in 1..N
      PROVE  LET e == One(f, b, at, its[k][1], m[k - 1]) IN e.v = its[k][2] /\ m[k - 1] + e.n = m[k]
  BY OneIs
<1>5. cnt.v = C /\ cnt.n = CntSize /\ cnt.v \in Nat /\ cnt.n \in Nat
  BY GetCntNat
<1> HIDE DEF f, m, cnt
<1>6. g \in [0..cnt.v -> ReadOf(t)] /\ g[0] = [v |-> was, n |-> cnt.n] /\ Yields(f, t, b, at, cnt.v, g)
  BY <1>3, <1>5, FetchedIs
<1>7. \A n \in 1..C : g[n] = NextItem(f, t, b, at, g[n - 1])
  BY <1>5, <1>6 DEF Yields
<1>8. Count(t, was) = 0 => P(0) = was /\ P(C) = v
  BY PrefixIs
<1> DEFINE Good(n) == g[n].n = m[Idx(n)] /\ (Count(t, was) = 0 => g[n].v = P(n))
           Bad == {n \in Nat : n <= C /\ ~Good(n)}
<1>9. Good(0)
  BY <1>1, <1>5, <1>6, <1>8
<1>10. ASSUME NEW n \in Nat, Good(n), n + 1 <= C PROVE Good(n + 1)
  <2>1. n + 1 \in 1..C /\ (n + 1) - 1 = n
    BY <1>2, <1>10
  <2>2. g[n + 1] = NextItem(f, t, b, at, g[n])
    BY <1>7, <2>1
  <2>3. CASE t.k # "map"
    <3> DEFINE e == One(f, b, at, t.of, m[n])
    <3>1. n + 1 \in 1..N /\ its[n + 1][1] = t.of /\ g[n].n = m[n]
      BY <1>2, <1>10, <2>1, <2>3, ShapeIs
    <3>2. e.v = its[n + 1][2] /\ m[n] + e.n = m[n + 1]
      BY <1>4, <2>1, <3>1
    <3>3. g[n + 1] = [v |-> Insert(t, g[n].v, <<e.v>>), n |-> m[n] + e.n]
      BY <2>2, <2>3, <3>1 DEF NextItem
    <3>4. Insert(t, P(n), <<its[n + 1][2]>>) = P(n + 1)
      BY <2>1, <2>3, PrefixNext
    <3> HIDE DEF e, g, P, its
    <3>5. g[n + 1].v = Insert(t, g[n].v, <<e.v>>) /\ g[n + 1].n = m[n + 1]
      BY <3>2, <3>3
    <3>6. Count(t, was) = 0 => g[n].v = P(n)
      BY <1>10
    <3> QED
      BY <2>3, <3>2, <3>4, <3>5, <3>6
  <2>4. CASE t.k = "map"
    <3> DEFINE key == One(f, b, at, t.key, m[2 * n])
               val == One(f, b, at, t.of, m[2 * n + 1])
    <3>1. /\ 2 * n + 1 = 2 * (n + 1) - 1 /\ 2 * n + 2 = 2 * (n + 1)
          /\ (2 * n + 1) - 1 = 2 * n /\ (2 * n + 2) - 1 = 2 * n + 1
      OBVIOUS
    <3>2. /\ 2 * n + 1 \in 1..N /\ 2 * n + 2 \in 1..N
      BY <1>2, <1>10, <2>4
    <3>3. its[2 * n + 1][1] = t.key /\ its[2 * n + 2][1] = t.of /\ g[n].n = m[2 * n]
      BY <1>10, <2>1, <2>4, <3>1, ShapeIs
    <3>4. key.v = its[2 * n + 1][2] /\ m[2 * n] + key.n = m[2 * n + 1]
      BY <1>4, <3>1, <3>2, <3>3
    <3>5. val.v = its[2 * n + 2][2] /\ m[2 * n + 1] + val.n = m[2 * n + 2]
      BY <1>4, <3>1, <3>2, <3>3
    <3>6. Insert(t, P(n), <<its[2 * n + 1][2], its[2 * n + 2][2]>>) = P(n + 1)
      BY <2>1, <2>4, <3>1, PrefixNext
    <3>7. g[n + 1] = [v |-> Insert(t, g[n].v, <<key.v, val.v>>), n |-> m[2 * n] + key.n + val.n]
      BY <2>2, <2>4, <3>3, <3>4 DEF NextItem
    <3> HIDE DEF key, val, g, P, its
    <3>8. g[n + 1].v = Insert(t, g[n].v, <<key.v, val.v>>) /\ g[n + 1].n = m[2 * n + 2]
      BY <3>4, <3>5, <3>7
    <3>9. Count(t, was) = 0 => g[n].v = P(n)
      BY <1>10
    <3> QED
      BY <2>4, <3>1, <3>4, <3>5, <3>6, <3>8, <3>9
  <2> QED
    BY <2>3, <2>4
<1> HIDE DEF Good
<1>11. \A n \in Nat : n \notin Bad
  <2>1. Bad \in SUBSET Nat /\ 0 \notin Bad
    BY <1>9
  <2>2. \A n \in Nat : n \notin Bad => n + 1 \notin Bad
    <3> SUFFICES ASSUME NEW n \in Nat, n \notin Bad, n + 1 <= C PROVE Good(n + 1)
      OBVIOUS
    <3>1. n <= C
      BY <1>2
    <3> QED
      BY <1>10, <3>1
  <2> HIDE DEF Bad
  <2> QED
    BY <2>1, <2>2, NoneBad
<1>12. Good(C)
  <2>1. C <= C
    BY <1>2
  <2> QED
    BY <1>2, <1>11, <2>1
<1>13. g[C].n = Size[t][v] /\ (Count(t, was) = 0 => g[C].v = v)
  BY <1>1, <1>2, <1>8, <1>12 DEF Good
<1> QED
  BY <1>13 DEF f, cnt

----------------------------------------------------------------------------
\* The count that is written before the elements is the one that is read.
LEMMA CountReads ==
  ASSUME NEW b \in Buffer, NEW c \in Buffer, NEW d \in Buffer, NEW at \in Nat, NEW end \in Nat,
         Untouched(b, c, at + CntSize, end), Agree(c, d, at, end),
         at + CntSize <= end, end <= d.len
  PROVE  GetCnt(d, at).v = Cell(b, at, CntSize) /\ GetCnt(d, at).n = CntSize
<1>1. CntSize \in Nat /\ at + CntSize \in Nat /\ d.len \in Nat /\ at <= at
      /\ at + CntSize <= at + CntSize
  BY ArchiveAssumption DEF Buffer
<1>2. Agree(b, c, at, at + CntSize)
  BY <1>1, AgreeOutside
<1>3. Cell(c, at, CntSize) = Cell(b, at, CntSize)
  BY <1>1, <1>2, CellAgree
<1>4. Cell(d, at, CntSize) = Cell(c, at, CntSize)
  BY <1>1, CellAgree
<1>5. ~(at + CntSize > d.len)
  BY <1>1
<1> QED
  BY <1>3, <1>4, <1>5 DEF GetCnt

LEMMA PrimCodec ==
  ASSUME NEW t \in Type, t.k = "prim" PROVE Codec(t)
<1> SUFFICES ASSUME NEW v \in Val[t], NEW b \in Buffer, NEW at \in Nat, at + Size[t][v] <= b.len
             PROVE  LET s == Set[t][v][b][at]
                    IN  /\ s.n = Size[t][v] /\ s.b \in Buffer /\ s.b.len = b.len
                        /\ Untouched(b, s.b, at, at + Size[t][v])
                        /\ Held(t, v, s.b, at)
  BY DEF Codec
<1> DEFINE p == Put(b, at, t.size, v)
<1>1. v \in Nat /\ t.size \in Nat \ {0} /\ b.len \in Nat
  BY ValAt, TypeAssumption DEF Buffer
<1>2. Size[t][v] = t.size
  BY SizeAt DEF SizeWith
<1>3. ~(at + t.size > b.len)
  BY <1>1, <1>2
<1>4. Set[t][v][b][at] = [n |-> t.size, b |-> p]
  <2>1. Set[t][v][b][at] = SetWith([u \in Below(t) |-> Set[u]], t, v, b, at)
    BY SetAt
  <2>2. ~(at + Size[t][v] > b.len)
    BY <1>2, <1>3
  <2> HIDE DEF p
  <2>3. Set[t][v][b][at] = [n |-> Size[t][v], b |-> p]
    BY <2>1, <2>2 DEF SetWith, p
  <2> QED
    BY <1>2, <2>3
<1>5. p \in Buffer /\ p.len = b.len /\ Untouched(b, p, at, at + t.size) /\ Cell(p, at, t.size) = v
  <2> DEFINE k == t.size
  <2>1. k \in Nat \ {0} /\ v \in Nat
    BY <1>1
  <2> HIDE DEF k
  <2>2. /\ Put(b, at, k, v) \in Buffer /\ Put(b, at, k, v).len = b.len
        /\ Untouched(b, Put(b, at, k, v), at, at + k) /\ Cell(Put(b, at, k, v), at, k) = v
    BY <2>1, PutIs
  <2> QED
    BY <2>2 DEF k
<1> HIDE DEF p
<1>6. Held(t, v, p, at)
  <2> SUFFICES ASSUME NEW c \in Buffer, c.len = p.len, Agree(p, c, at, at + t.size), NEW was \in Val[t]
               PROVE  /\ Get[t][was][c][at].n = t.size
                      /\ Get[t][was][c][at].v = v
    BY <1>2 DEF Held, Reads
  <2>1. Get[t][was][c][at] = [v |-> Cell(c, at, t.size), n |-> t.size]
    BY <1>3, <1>5, GetAt DEF GetWith
  <2>2. at <= at /\ at + t.size <= at + t.size /\ at + t.size \in Nat /\ t.size \in Nat
    BY <1>1
  <2>3. Cell(c, at, t.size) = v
    BY <1>5, <2>2, CellAgree
  <2> QED
    BY <2>1, <2>3
<1> QED
  BY <1>2, <1>4, <1>5, <1>6

LEMMA StringCodec ==
  ASSUME NEW t \in Type, t.k = "string" PROVE Codec(t)
<1> SUFFICES ASSUME NEW v \in Val[t], NEW b \in Buffer, NEW at \in Nat, at + Size[t][v] <= b.len
             PROVE  LET s == Set[t][v][b][at]
                    IN  /\ s.n = Size[t][v] /\ s.b \in Buffer /\ s.b.len = b.len
                        /\ Untouched(b, s.b, at, at + Size[t][v])
                        /\ Held(t, v, s.b, at)
  BY DEF Codec
<1> DEFINE L == Len(v)
           z == Size[t][v]
           d == Put(b, at, CntSize, L)
           p == PutString(d, at + CntSize, v)
<1>1. v \in Seq(Nat) /\ L \in Nat /\ CntSize \in Nat \ {0} /\ CntSize \in Nat /\ b.len \in Nat
      /\ Val[t] = Seq(Nat)
  BY ValAt, ArchiveAssumption DEF Buffer
<1>2. z = CntSize + L
  BY SizeAt DEF SizeWith
<1>3. /\ z \in Nat /\ ~(at + z > b.len) /\ at + CntSize <= at + z /\ (at + CntSize) + L = at + z
      /\ at + z \in Nat /\ at + CntSize \in Nat /\ at <= at + CntSize
  BY <1>1, <1>2
<1>4. Set[t][v][b][at] = [n |-> z, b |-> p]
  BY <1>3, SetAt DEF SetWith, Count
<1>5. d \in Buffer /\ d.len = b.len /\ Untouched(b, d, at, at + CntSize) /\ Cell(d, at, CntSize) = L
  <2>1. L \in Nat /\ CntSize \in Nat \ {0}
    BY <1>1
  <2> HIDE DEF L, z, p
  <2> QED
    BY <2>1, PutIs
<1> HIDE DEF d, z, L
<1>6. /\ p \in Buffer /\ p.len = b.len /\ Untouched(d, p, at + CntSize, at + z)
      /\ \A n \in 1..L : Cell(p, at + CntSize + n - 1, 1) = v[n]
  <2>1. /\ p \in Buffer /\ p.len = d.len
        /\ Untouched(d, p, at + CntSize, (at + CntSize) + Len(v))
        /\ \A n \in 1..Len(v) : Cell(p, (at + CntSize) + n - 1, 1) = v[n]
    BY <1>1, <1>3, <1>5, PutStringIs
  <2> HIDE DEF p
  <2> QED
    BY <1>3, <1>5, <2>1 DEF L
<1> HIDE DEF p
<1>7. Untouched(b, p, at, at + z)
  BY <1>3, <1>5, <1>6, UntouchedBoth
<1>8. Held(t, v, p, at)
  <2> SUFFICES ASSUME NEW c \in Buffer, c.len = p.len, Agree(p, c, at, at + z), NEW was \in Val[t]
               PROVE  /\ Get[t][was][c][at].n = z
                      /\ Keeps(t, was, v) \/ Get[t][was][c][at].v = v
    BY DEF Held, Reads, z
  <2>1. GetCnt(c, at).v = L /\ GetCnt(c, at).n = CntSize
    <3>1. at + z <= c.len
      BY <1>1, <1>3, <1>6
    <3> QED
      BY <1>3, <1>5, <1>6, <3>1, CountReads
  <2> DEFINE read == [n \in 1..L |-> Cell(c, at + CntSize + n - 1, 1)]
  <2>2. Get[t][was][c][at] = [v |-> IF L = 0 THEN was ELSE read, n |-> CntSize + L]
    <3>1. Get[t][was][c][at] = GetWith([u \in Below(t) |-> Get[u]], t, was, c, at)
      BY GetAt
    <3>2. Get[t][was][c][at] = GetString(was, c, at)
      BY <3>1 DEF GetWith
    <3> QED
      BY <2>1, <3>2 DEF GetString
  <2>3. ASSUME NEW n \in 1..L PROVE Cell(c, at + CntSize + n - 1, 1) = v[n]
    <3>1. /\ at + CntSize + n - 1 \in Nat /\ at <= at + CntSize + n - 1
          /\ (at + CntSize + n - 1) + 1 <= at + z
      BY <1>1, <1>3
    <3>2. Cell(c, at + CntSize + n - 1, 1) = Cell(p, at + CntSize + n - 1, 1)
      BY <1>3, <1>6, <3>1, CellAgree
    <3> QED
      BY <1>6, <3>2
  <2>4. read = v
    BY <1>1, <2>3 DEF L
  <2> HIDE DEF read
  <2>5. CASE L = 0
    <3>1. v = <<>>
      BY <1>1, <2>5 DEF L
    <3> QED
      BY <1>2, <2>2, <2>5, <3>1 DEF Keeps
  <2>6. CASE L # 0
    BY <1>2, <2>2, <2>4, <2>6
  <2> QED
    BY <2>5, <2>6
<1>9. Set[t][v][b][at].n = z /\ Set[t][v][b][at].b = p
  BY <1>4
<1> QED
  BY <1>6, <1>7, <1>8, <1>9 DEF z

LEMMA ContainerCodec ==
  ASSUME NEW t \in Type, t.k \in Container, \A u \in Below(t) : Codec(u) PROVE Codec(t)
<1> SUFFICES ASSUME NEW v \in Val[t], NEW b \in Buffer, NEW at \in Nat, at + Size[t][v] <= b.len
             PROVE  LET s == Set[t][v][b][at]
                    IN  /\ s.n = Size[t][v] /\ s.b \in Buffer /\ s.b.len = b.len
                        /\ Untouched(b, s.b, at, at + Size[t][v])
                        /\ Held(t, v, s.b, at)
  BY DEF Codec
<1> DEFINE its == Items(t, v)
           z == Size[t][v]
           C == Count(t, v)
           m == Measured([u \in Below(t) |-> Size[u]], its)
           d == Put(b, at, CntSize, C)
           p == Written([u \in Below(t) |-> Set[u]], d, at, its)[Len(its)].b
<1>1. C \in Nat /\ CntSize \in Nat \ {0} /\ CntSize \in Nat /\ b.len \in Nat /\ z \in Nat /\ CntSize <= z
  BY CountNat, SizeNat, Offsets, ArchiveAssumption DEF Buffer, Container
<1>2. /\ ~(at + z > b.len) /\ at + CntSize <= at + z /\ at + z <= b.len
      /\ at + z \in Nat /\ at + CntSize \in Nat /\ at <= at + CntSize
  BY <1>1
<1>3. Set[t][v][b][at] = [n |-> z, b |-> p]
  BY <1>2, SetAt DEF SetWith, Container
<1> HIDE DEF C, z, m, its
<1>4. d \in Buffer /\ d.len = b.len /\ Untouched(b, d, at, at + CntSize) /\ Cell(d, at, CntSize) = C
  <2>1. C \in Nat /\ CntSize \in Nat \ {0}
    BY <1>1
  <2> QED
    BY <2>1, PutIs
<1> USE DEF z, m, its
<1> HIDE DEF d
<1>5. /\ p \in Buffer /\ p.len = b.len /\ Untouched(d, p, at + CntSize, at + z)
      /\ \A k \in 1..Len(its) : Held(its[k][1], its[k][2], p, at + m[k - 1])
  BY <1>2, <1>4, WrittenHolds
<1>6. ASSUME NEW k \in 1..Len(its)
      PROVE  /\ m[k - 1] \in Nat /\ m[k - 1] + Size[its[k][1]][its[k][2]] <= z
             /\ Size[its[k][1]][its[k][2]] \in Nat
  <2>1. m[k - 1] \in Nat /\ m[k] \in Nat /\ m[k] = m[k - 1] + Size[its[k][1]][its[k][2]]
    <3>1. Len(its) \in Nat /\ k - 1 \in 0..Len(its) /\ k \in 0..Len(its)
      BY ItemsAre
    <3> QED
      BY <3>1, SizeIsMeasured
  <2>2. m[k] <= z
    BY Offsets
  <2>3. Size[its[k][1]][its[k][2]] \in Nat
    BY ItemsAre, Below1, SizeNat
  <2> QED
    BY <2>1, <2>2, <2>3
<1> HIDE DEF p
<1>7. Untouched(b, p, at, at + z)
  BY <1>2, <1>4, <1>5, UntouchedBoth
<1>8. Held(t, v, p, at)
  <2> SUFFICES ASSUME NEW c \in Buffer, c.len = p.len, Agree(p, c, at, at + z), NEW was \in Val[t]
               PROVE  /\ Get[t][was][c][at].n = z
                      /\ Keeps(t, was, v) \/ Get[t][was][c][at].v = v
    BY DEF Held, Reads
  <2>1. GetCnt(c, at).v = C /\ GetCnt(c, at).n = CntSize
    BY <1>2, <1>4, <1>5, CountReads
  <2>2. ASSUME NEW k \in 1..Len(its) PROVE Reads(its[k][1], its[k][2], c, at + m[k - 1])
    <3> DEFINE x == at + m[k - 1]
               y == Size[its[k][1]][its[k][2]]
    <3>0. m[k - 1] \in Nat /\ y \in Nat /\ m[k - 1] + y <= z
      BY <1>6
    <3>1. x \in Nat /\ x + y \in Nat /\ at <= x /\ x + y <= at + z
      <4> HIDE DEF m, y, z
      <4> DEFINE o == m[k - 1]
      <4>1. o \in Nat /\ y \in Nat /\ o + y <= z /\ at \in Nat /\ z \in Nat
        BY <1>1, <3>0
      <4>2. x = at + o
        OBVIOUS
      <4> HIDE DEF m, x, y, z, o
      <4> QED
        BY <4>1, <4>2
    <3>2. Agree(p, c, x, x + y)
      BY <1>2, <3>1, AgreePart
    <3>3. Held(its[k][1], its[k][2], c, x)
      BY <1>5, <3>2, HeldKept
    <3> QED
      BY <3>3, HeldReads
  <2> DEFINE g == Fetched([u \in Below(t) |-> Get[u]], t, was, c, at, GetCnt(c, at))[C]
  <2>3. g.n = z /\ (Count(t, was) = 0 => g.v = v)
    BY <2>1, <2>2, FetchedHolds DEF C
  <2>4. Get[t][was][c][at] = g
    <3>1. Get[t][was][c][at] = GetWith([u \in Below(t) |-> Get[u]], t, was, c, at)
      BY GetAt
    <3> QED
      BY <2>1, <3>1 DEF GetWith, Container
  <2>5. Keeps(t, was, v) <=> (Count(t, was) > 0)
    BY DEF Keeps, Container
  <2>6. Count(t, was) \in Nat
    BY CountNat DEF Container
  <2> HIDE DEF g
  <2> QED
    BY <2>3, <2>4, <2>5, <2>6
<1>9. Set[t][v][b][at].n = z /\ Set[t][v][b][at].b = p
  BY <1>3
<1> QED
  BY <1>5, <1>7, <1>8, <1>9

\* Size, Set and Get of any type belong together, however deep it nests: Set
\* writes a value to as many bytes as were measured and to no others, and what
\* Get reads there, whatever the rest of the block holds, is the value, unless
\* the object read into keeps what it had (Sizer::size, Buf::set, Buf::get).
THEOREM CodecCorrect == \A t \in Type : Codec(t)
<1> DEFINE Good == {t \in Type : Codec(t)}
<1>1. \A t \in Type : Below(t) \subseteq Good => t \in Good
  BY PrimCodec, StringCodec, ContainerCodec, Parts DEF Container
<1>2. Type \subseteq Good
  <2> HIDE DEF Good
  <2> QED
    BY <1>1, TypeInduction
<1> QED
  BY <1>2

----------------------------------------------------------------------------
\* Where the fields of a packet begin and end, when they have these sizes.
IsOffsets(N, sizes, off) ==
  /\ off \in [0..N -> Nat] /\ off[0] = 0
  /\ \A n \in 1..N : off[n] = off[n - 1] + sizes[n]

LEMMA OffsetsExist ==
  ASSUME NEW N \in Nat, NEW sizes \in [1..N -> Nat]
  PROVE  \E off : IsOffsets(N, sizes, off)
<1> DEFINE step == [n \in 1..N |-> [x \in Nat |-> x + sizes[n]]]
<1>1. step \in [1..N -> [Nat -> Nat]] /\ 0 \in Nat
  OBVIOUS
<1>2. \A n \in 1..N : \A x \in Nat : step[n][x] = x + sizes[n]
  OBVIOUS
<1> HIDE DEF step
<1>3. PICK off : IsFold(N, Nat, 0, step, off)
  BY <1>1, FoldExists
<1>4. off \in [0..N -> Nat] /\ off[0] = 0 /\ \A n \in 1..N : off[n] = step[n][off[n - 1]]
  BY <1>3 DEF IsFold
<1>5. ASSUME NEW n \in 1..N PROVE off[n] = off[n - 1] + sizes[n]
  <2>1. n - 1 \in 0..N
    OBVIOUS
  <2> QED
    BY <1>2, <1>4, <2>1
<1> QED
  BY <1>4, <1>5 DEF IsOffsets

LEMMA OffsetsGrow ==
  ASSUME NEW N \in Nat, NEW sizes \in [1..N -> Nat], NEW off, IsOffsets(N, sizes, off)
  PROVE  \A k, n \in 0..N : k <= n => off[k] <= off[n]
<1>1. off \in [0..N -> Nat] /\ \A n \in 1..N : off[n] = off[n - 1] + sizes[n]
  BY DEF IsOffsets
<1>2. ASSUME NEW n \in 1..N PROVE off[n - 1] <= off[n]
  <2>1. n - 1 \in 0..N /\ n \in 0..N
    OBVIOUS
  <2>2. off[n - 1] \in Nat /\ off[n] = off[n - 1] + sizes[n] /\ sizes[n] \in Nat
    BY <1>1, <2>1
  <2> QED
    BY <2>2
<1>3. \A k \in 0..N : \A n \in k..N : off[k] <= off[n]
  BY <1>1, <1>2, Grows
<1>4. \A k, n \in 0..N : k <= n => n \in k..N
  OBVIOUS
<1> QED
  BY <1>3, <1>4

\* An object of the program: one value for each field.
Object(T, p) ==
  /\ p = [n \in 1..Len(T) |-> p[n]]
  /\ \A n \in 1..Len(T) : p[n] \in Val[T[n]]

FieldTypes(T) ==
  /\ T \in Seq(Type) /\ Len(T) \in Nat /\ 1 \in 1..Len(T)
  /\ T[1] = Prim(LenSize) /\ \A n \in 1..Len(T) : T[n] \in Type

LEMMA HeaderIs ==
  /\ Prim(LenSize) \in Type /\ Prim(TypeSize) \in Type
  /\ Val[Prim(LenSize)] = Nat /\ Val[Prim(TypeSize)] = Nat
<1>1. /\ Prim(LenSize) \in Type /\ Prim(TypeSize) \in Type
      /\ Prim(LenSize).k = "prim" /\ Prim(TypeSize).k = "prim"
  BY TypeAssumption DEF Prim
<1> QED
  BY <1>1, ValAt

LEMMA AfterHeader ==
  ASSUME NEW S, NEW h \in Seq(S), Len(h) = 2, NEW v \in Seq(S)
  PROVE  /\ h \o v \in Seq(S) /\ Len(h \o v) = Len(v) + 2
         /\ (h \o v)[1] = h[1] /\ (h \o v)[2] = h[2]
         /\ \A n \in 3..(Len(v) + 2) : (h \o v)[n] = v[n - 2]
<1>1. /\ h \o v \in Seq(S) /\ Len(h \o v) = Len(h) + Len(v)
      /\ \A n \in 1..(Len(h) + Len(v)) : (h \o v)[n] = IF n <= Len(h) THEN h[n] ELSE v[n - Len(h)]
  BY ConcatProperties
<1> DEFINE c == h \o v
           L == Len(v)
<1>2. L \in Nat
  OBVIOUS
<1>3. /\ c \in Seq(S) /\ Len(c) = L + 2
      /\ \A n \in 1..(2 + L) : c[n] = IF n <= 2 THEN h[n] ELSE v[n - 2]
  BY <1>1, <1>2
<1> HIDE DEF c, L
<1>4. c[1] = h[1] /\ c[2] = h[2] /\ \A n \in 3..(L + 2) : c[n] = v[n - 2]
  BY <1>2, <1>3
<1> QED
  BY <1>3, <1>4 DEF c, L

LEMMA ObjectIs ==
  ASSUME NEW body \in Seq(Type), NEW v, v = [n \in 1..Len(body) |-> v[n]],
         \A n \in 1..Len(body) : v[n] \in Val[body[n]]
  PROVE  FieldTypes(Header \o body) /\ Object(Header \o body, <<0, PacketType>> \o v)
<1> DEFINE L == Len(body)
           h == <<0, PacketType>>
           S == {v[n] : n \in 1..L} \cup Nat
           T == Header \o body
           p == h \o v
<1>1. L \in Nat /\ PacketType \in Nat
  BY ArchiveAssumption
<1>2. v \in Seq(S) /\ Len(v) = L
  <2>1. v \in [1..L -> S]
    OBVIOUS
  <2> QED
    BY <1>1, <2>1
<1>3. h \in Seq(S) /\ Len(h) = 2 /\ h[1] = 0 /\ h[2] = PacketType
  BY <1>1
<1>4. /\ Header \in Seq(Type) /\ Len(Header) = 2
      /\ Header[1] = Prim(LenSize) /\ Header[2] = Prim(TypeSize)
  <2>1. Header = <<Prim(LenSize), Prim(TypeSize)>>
    BY DEF Header
  <2> QED
    BY <2>1, HeaderIs
<1> HIDE DEF h, S
<1>5. /\ T \in Seq(Type) /\ Len(T) = L + 2 /\ T[1] = Prim(LenSize) /\ T[2] = Prim(TypeSize)
      /\ \A n \in 3..(L + 2) : T[n] = body[n - 2]
  BY <1>1, <1>4, AfterHeader
<1>6. /\ p \in Seq(S) /\ Len(p) = L + 2 /\ p[1] = 0 /\ p[2] = PacketType
      /\ \A n \in 3..(L + 2) : p[n] = v[n - 2]
  BY <1>1, <1>2, <1>3, AfterHeader
<1> HIDE DEF T, p, L
<1>7. FieldTypes(T)
  BY <1>1, <1>5 DEF FieldTypes
<1>8. p = [n \in 1..Len(T) |-> p[n]]
  BY <1>1, <1>5, <1>6
<1>9. ASSUME NEW n \in 1..Len(T) PROVE p[n] \in Val[T[n]]
  <2>1. CASE n = 1
    BY <1>5, <1>6, <2>1, HeaderIs
  <2>2. CASE n = 2
    BY <1>1, <1>5, <1>6, <2>2, HeaderIs
  <2>3. CASE n # 1 /\ n # 2
    <3>1. n \in 3..(L + 2) /\ n - 2 \in 1..L
      BY <1>1, <1>5, <2>3
    <3>2. v[n - 2] \in Val[body[n - 2]]
      BY <3>1 DEF L
    <3> QED
      BY <1>5, <1>6, <3>1, <3>2
  <2> QED
    BY <2>1, <2>2, <2>3
<1>10. FieldTypes(T) /\ Object(T, p)
  BY <1>7, <1>8, <1>9 DEF Object
<1> QED
  BY <1>10 DEF T, p, h

\* A plain value that can be read back is in its cell.
LEMMA PrimReads ==
  ASSUME NEW t \in Type, t.k = "prim", NEW v, NEW b \in Buffer, NEW at \in Nat, Reads(t, v, b, at),
         v \in Val[t]
  PROVE  Cell(b, at, t.size) = v
<1>1. 0 \in Val[t] /\ t.size \in Nat \ {0}
  BY ValAt, TypeAssumption
<1>2. Get[t][0][b][at].n = t.size /\ Get[t][0][b][at].v = v
  BY <1>1, SizeAt DEF Reads, Keeps, SizeWith
<1>3. Get[t][0][b][at] = IF at + t.size > b.len THEN [v |-> 0, n |-> 0]
                         ELSE [v |-> Cell(b, at, t.size), n |-> t.size]
  BY <1>1, GetAt DEF GetWith
<1> QED
  BY <1>1, <1>2, <1>3

----------------------------------------------------------------------------
\* The sender's object and the receiver's have the types of the packet, and the
\* receiver's is as it was until it is read into.
ArchiveTyped ==
  /\ FieldTypes(types)
  /\ Object(types, packet) /\ Object(types, old) /\ Object(types, target)
  /\ pass \in {"Size", "Write", "Read", "none"}
  /\ field \in 1..(Len(types) + 1) /\ pos \in Nat
  /\ block \in Buffer

FieldSizes == [n \in 1..Len(types) |-> Size[types[n]][packet[n]]]

\* All three passes meet a field at the same place.  Each field that has been
\* written is held by the block, and the block is as long as what was measured.
FieldHeld(off, n) == Held(types[n], packet[n], block, off[n - 1])
FieldRead(n) == Keeps(types[n], old[n], packet[n]) \/ target[n] = packet[n]
Whole(off) == block.len = off[Len(types)] /\ packet[1] = off[Len(types)]

Placed(off) ==
  /\ pass # "none" => pos = off[field - 1]
  /\ pass \in {"Size", "Write"} => target = old
  /\ pass = "Write" => Whole(off) /\ \A n \in 1..(field - 1) : FieldHeld(off, n)
  /\ pass = "Read" => /\ Whole(off) /\ \A n \in 1..Len(types) : FieldHeld(off, n)
                      /\ \A n \in field..Len(types) : target[n] = old[n]
                      /\ \A n \in 1..(field - 1) : FieldRead(n)

ArchiveInv ==
  /\ ArchiveTyped
  /\ \E off : IsOffsets(Len(types), FieldSizes, off) /\ Placed(off)

LEMMA SizesAre ==
  ASSUME ArchiveTyped
  PROVE  /\ Len(types) \in Nat /\ 1 \in 1..Len(types)
         /\ \A n \in 1..Len(types) : types[n] \in Type /\ packet[n] \in Val[types[n]]
         /\ FieldSizes \in [1..Len(types) -> Nat]
<1>1. /\ Len(types) \in Nat /\ 1 \in 1..Len(types)
      /\ \A n \in 1..Len(types) : types[n] \in Type /\ packet[n] \in Val[types[n]]
  BY DEF ArchiveTyped, FieldTypes, Object
<1>2. \A n \in 1..Len(types) : Size[types[n]][packet[n]] \in Nat
  BY <1>1, SizeNat
<1> QED
  BY <1>1, <1>2 DEF FieldSizes

LEMMA ArchiveInitInv == ArchiveInit => ArchiveInv
<1> SUFFICES ASSUME ArchiveInit PROVE ArchiveInv
  OBVIOUS
<1> USE DEF ArchiveInit
<1>1. PICK body \in Bodies :
        /\ types = Header \o body
        /\ \E v, w \in Values(body) :
                /\ packet = <<0, PacketType>> \o v
                /\ old \in {<<0, PacketType>> \o w,
                            <<0, PacketType>> \o [n \in 1..Len(body) |-> Fresh(body[n])]}
  OBVIOUS
<1>2. PICK v \in Values(body), w \in Values(body) :
        /\ packet = <<0, PacketType>> \o v
        /\ old \in {<<0, PacketType>> \o w,
                    <<0, PacketType>> \o [n \in 1..Len(body) |-> Fresh(body[n])]}
  BY <1>1
<1> DEFINE fr == [n \in 1..Len(body) |-> Fresh(body[n])]
<1>3. body \in Seq(Type) /\ \A n \in 1..Len(body) : body[n] \in Type
  BY ArchiveAssumption
<1>4. /\ v = [n \in 1..Len(body) |-> v[n]] /\ \A n \in 1..Len(body) : v[n] \in Val[body[n]]
      /\ w = [n \in 1..Len(body) |-> w[n]] /\ \A n \in 1..Len(body) : w[n] \in Val[body[n]]
  BY ArchiveAssumption
<1>5. fr = [n \in 1..Len(body) |-> fr[n]] /\ \A n \in 1..Len(body) : fr[n] \in Val[body[n]]
  BY <1>3, FreshIs
<1> HIDE DEF fr
<1>6. FieldTypes(types) /\ Object(types, packet)
  BY <1>1, <1>2, <1>3, <1>4, ObjectIs
<1>7. Object(types, old)
  <2>1. old = <<0, PacketType>> \o w \/ old = <<0, PacketType>> \o fr
    BY <1>2 DEF fr
  <2>2. Object(types, <<0, PacketType>> \o w)
    BY <1>1, <1>3, <1>4, ObjectIs
  <2>3. Object(types, <<0, PacketType>> \o fr)
    BY <1>1, <1>3, <1>5, ObjectIs
  <2> QED
    BY <2>1, <2>2, <2>3
<1>8. ArchiveTyped
  <2>1. NoBuf \in Buffer
    BY DEF NoBuf, Buffer
  <2>2. 1 \in 1..(Len(types) + 1)
    BY <1>6 DEF FieldTypes
  <2> QED
    BY <1>6, <1>7, <2>1, <2>2 DEF ArchiveTyped
<1>9. PICK off : IsOffsets(Len(types), FieldSizes, off)
  BY <1>8, SizesAre, OffsetsExist
<1>10. Placed(off)
  BY <1>9 DEF Placed, IsOffsets
<1> QED
  BY <1>8, <1>9, <1>10 DEF ArchiveInv

\* One step per operation.
LEMMA SizeFieldInv == ArchiveInv /\ SizeField => ArchiveInv'
<1> SUFFICES ASSUME ArchiveInv, SizeField PROVE ArchiveInv'
  OBVIOUS
<1>1. ArchiveTyped
  BY DEF ArchiveInv
<1>2. PICK off : IsOffsets(Len(types), FieldSizes, off) /\ Placed(off)
  BY DEF ArchiveInv
<1>3. /\ pass = "Size" /\ field <= Len(types) /\ field' = field + 1
      /\ pos' = pos + Size[types[field]][packet[field]]
      /\ types' = types /\ packet' = packet /\ old' = old /\ target' = target
      /\ pass' = pass /\ block' = block
  BY DEF SizeField, Field
<1>4. Len(types) \in Nat /\ field \in 1..Len(types) /\ pos \in Nat
  BY <1>1, <1>3, SizesAre DEF ArchiveTyped
<1>5. pos' = off[field] /\ pos' \in Nat
  <2>1. off[field] = off[field - 1] + FieldSizes[field] /\ pos = off[field - 1] /\ off[field] \in Nat
    BY <1>2, <1>3, <1>4 DEF IsOffsets, Placed
  <2>2. FieldSizes[field] = Size[types[field]][packet[field]]
    BY <1>4 DEF FieldSizes
  <2> QED
    BY <1>3, <2>1, <2>2
<1>6. ArchiveTyped'
  <2>1. field' \in 1..(Len(types) + 1)
    BY <1>3, <1>4
  <2> QED
    BY <1>1, <1>3, <1>5, <2>1 DEF ArchiveTyped
<1>7. IsOffsets(Len(types), FieldSizes, off)'
  <2>1. FieldSizes' = FieldSizes
    BY <1>3 DEF FieldSizes
  <2> QED
    BY <1>2, <1>3, <2>1
<1>8. Placed(off)'
  <2>1. field' - 1 = field
    BY <1>3, <1>4
  <2> QED
    BY <1>2, <1>3, <1>5, <2>1 DEF Placed
<1> QED
  BY <1>6, <1>7, <1>8 DEF ArchiveInv

LEMMA AllocInv == ArchiveInv /\ Alloc => ArchiveInv'
<1> SUFFICES ASSUME ArchiveInv, Alloc PROVE ArchiveInv'
  OBVIOUS
<1>1. ArchiveTyped
  BY DEF ArchiveInv
<1>2. PICK off : IsOffsets(Len(types), FieldSizes, off) /\ Placed(off)
  BY DEF ArchiveInv
<1>3. /\ pass = "Size" /\ field = Len(types) + 1 /\ field' = 1 /\ pos' = 0
      /\ packet' = [packet EXCEPT ![1] = pos]
      /\ types' = types /\ old' = old /\ target' = target
      /\ \/ pass' = "Write" /\ block' = [len |-> pos, cells |-> {}]
         \/ pass' = "none" /\ block' = block
  BY DEF Alloc, Pass
<1>4. Len(types) \in Nat /\ 1 \in 1..Len(types) /\ pos \in Nat
  BY <1>1, SizesAre DEF ArchiveTyped
<1>5. types[1] \in Type /\ types[1].k = "prim" /\ Val[types[1]] = Nat
  BY <1>1, HeaderIs DEF ArchiveTyped, FieldTypes, Prim
<1>6. /\ packet' = [n \in 1..Len(types) |-> packet'[n]] /\ packet'[1] = pos
      /\ \A n \in 1..Len(types) : n # 1 => packet'[n] = packet[n]
  BY <1>1, <1>3, <1>4 DEF ArchiveTyped, Object
<1>7. Object(types, packet')
  BY <1>1, <1>4, <1>5, <1>6 DEF ArchiveTyped, Object
<1>8. ArchiveTyped'
  <2>1. block' \in Buffer
    BY <1>1, <1>3, <1>4 DEF ArchiveTyped, Buffer
  <2>2. Object(types, packet)'
    BY <1>3, <1>7
  <2>3. field' \in 1..(Len(types) + 1) /\ pos' \in Nat /\ pass' \in {"Write", "none"}
    BY <1>3, <1>4
  <2> QED
    BY <1>1, <1>3, <2>1, <2>2, <2>3 DEF ArchiveTyped
<1>9. IsOffsets(Len(types), FieldSizes, off)'
  <2>1. ASSUME NEW n \in 1..Len(types) PROVE Size[types[n]][packet'[n]] = Size[types[n]][packet[n]]
    <3>1. CASE n = 1
      <4>1. \A x \in Val[types[1]] : Size[types[1]][x] = types[1].size
        BY <1>5, SizeAt DEF SizeWith
      <4> QED
        BY <1>1, <1>4, <1>5, <1>6, <3>1, <4>1 DEF ArchiveTyped, Object
    <3>2. CASE n # 1
      BY <1>6, <3>2
    <3> QED
      BY <3>1, <3>2
  <2>2. FieldSizes' = FieldSizes
    BY <1>3, <2>1 DEF FieldSizes
  <2> QED
    BY <1>2, <1>3, <2>2
<1>10. Placed(off)'
  <2>1. pos = off[Len(types)] /\ off[0] = 0 /\ target = old
    BY <1>2, <1>3, <1>4 DEF Placed, IsOffsets
  <2>2. field' - 1 = 0 /\ 1..(field' - 1) = {}
    BY <1>3
  <2>3. pass' = "Write" => block'.len = pos
    BY <1>3
  <2> QED
    BY <1>3, <1>6, <2>1, <2>2, <2>3 DEF Placed, Whole
<1> QED
  BY <1>8, <1>9, <1>10 DEF ArchiveInv

LEMMA MakeFromInv == ArchiveInv /\ MakeFrom => ArchiveInv'
<1> SUFFICES ASSUME ArchiveInv, MakeFrom PROVE ArchiveInv'
  OBVIOUS
<1>1. ArchiveTyped
  BY DEF ArchiveInv
<1>2. PICK off : IsOffsets(Len(types), FieldSizes, off) /\ Placed(off)
  BY DEF ArchiveInv
<1>3. /\ pass = "Write" /\ pass' = "Read" /\ field = Len(types) + 1 /\ field' = 1 /\ pos' = 0
      /\ types' = types /\ packet' = packet /\ old' = old /\ target' = target /\ block' = block
  BY DEF MakeFrom, Pass
<1>4. Len(types) \in Nat /\ 1 \in 1..(Len(types) + 1)
  BY <1>1, SizesAre
<1>5. ArchiveTyped'
  BY <1>1, <1>3, <1>4 DEF ArchiveTyped
<1>6. IsOffsets(Len(types), FieldSizes, off)'
  <2>1. FieldSizes' = FieldSizes
    BY <1>3 DEF FieldSizes
  <2> QED
    BY <1>2, <1>3, <2>1
<1>7. Placed(off)'
  <2>1. off[0] = 0 /\ target = old /\ Whole(off) /\ \A n \in 1..Len(types) : FieldHeld(off, n)
    BY <1>2, <1>3, <1>4 DEF Placed, IsOffsets
  <2>2. Whole(off)' /\ \A n \in 1..Len(types) : FieldHeld(off, n)'
    BY <1>3, <2>1 DEF Whole, FieldHeld
  <2>3. field' - 1 = 0 /\ 1..(field' - 1) = {}
    BY <1>3
  <2> QED
    BY <1>3, <2>1, <2>2, <2>3 DEF Placed
<1> QED
  BY <1>5, <1>6, <1>7 DEF ArchiveInv

LEMMA WriteFieldInv == ArchiveInv /\ WriteField => ArchiveInv'
<1> SUFFICES ASSUME ArchiveInv, WriteField PROVE ArchiveInv'
  OBVIOUS
<1> DEFINE s == Set[types[field]][packet[field]][block][pos]
           z == Size[types[field]][packet[field]]
<1>1. ArchiveTyped
  BY DEF ArchiveInv
<1>2. PICK off : IsOffsets(Len(types), FieldSizes, off) /\ Placed(off)
  BY DEF ArchiveInv
<1>3. /\ pass = "Write" /\ field <= Len(types) /\ field' = field + 1
      /\ block' = s.b /\ pos' = pos + s.n
      /\ types' = types /\ packet' = packet /\ old' = old /\ target' = target /\ pass' = pass
  BY DEF WriteField, Field
<1>4. /\ Len(types) \in Nat /\ field \in 1..Len(types) /\ pos \in Nat /\ block \in Buffer
      /\ block.len \in Nat
  BY <1>1, <1>3, SizesAre DEF ArchiveTyped, Buffer
<1>5. types[field] \in Type /\ packet[field] \in Val[types[field]] /\ z \in Nat
  BY <1>1, <1>4, SizesAre, SizeNat
<1>6. /\ pos = off[field - 1] /\ Whole(off) /\ target = old
      /\ \A n \in 1..(field - 1) : FieldHeld(off, n)
  BY <1>2, <1>3 DEF Placed
<1>7. /\ off \in [0..Len(types) -> Nat] /\ off[field] = pos + z
      /\ \A n \in 1..Len(types) : off[n] = off[n - 1] + Size[types[n]][packet[n]]
  BY <1>2, <1>4, <1>6 DEF IsOffsets, FieldSizes
<1>8. \A k, n \in 0..Len(types) : k <= n => off[k] <= off[n]
  BY <1>1, <1>2, SizesAre, OffsetsGrow
<1>9. pos + z <= block.len
  BY <1>4, <1>6, <1>7, <1>8 DEF Whole
<1>10. /\ s.n = z /\ s.b \in Buffer /\ s.b.len = block.len
       /\ Untouched(block, s.b, pos, pos + z)
       /\ Held(types[field], packet[field], s.b, pos)
  <2> DEFINE u == types[field]
             x == packet[field]
  <2>1. Codec(u) /\ x \in Val[u] /\ pos \in Nat /\ block \in Buffer
    BY <1>4, <1>5, CodecCorrect
  <2>2. pos + Size[u][x] <= block.len
    BY <1>9
  <2>3. z = Size[u][x] /\ s = Set[u][x][block][pos]
    OBVIOUS
  <2>4. Held(types[field], packet[field], s.b, pos) <=> Held(u, x, s.b, pos)
    OBVIOUS
  <2> HIDE DEF s, z, u, x
  <2>5. /\ Set[u][x][block][pos].n = Size[u][x] /\ Set[u][x][block][pos].b \in Buffer
        /\ Set[u][x][block][pos].b.len = block.len
        /\ Untouched(block, Set[u][x][block][pos].b, pos, pos + Size[u][x])
        /\ Held(u, x, Set[u][x][block][pos].b, pos)
    BY <2>1, <2>2, CodecSet
  <2> QED
    BY <2>3, <2>4, <2>5
<1> HIDE DEF s, z
<1>11. ArchiveTyped'
  <2>1. field' \in 1..(Len(types) + 1) /\ pos' \in Nat
    BY <1>3, <1>4, <1>5, <1>10
  <2> QED
    BY <1>1, <1>3, <1>10, <2>1 DEF ArchiveTyped
<1>12. IsOffsets(Len(types), FieldSizes, off)'
  <2>1. FieldSizes' = FieldSizes
    BY <1>3 DEF FieldSizes
  <2> QED
    BY <1>2, <1>3, <2>1
<1>13. ASSUME NEW n \in 1..field PROVE Held(types[n], packet[n], s.b, off[n - 1])
  <2>1. CASE n = field
    BY <1>6, <1>10, <2>1
  <2>2. CASE n # field
    <3> DEFINE y == Size[types[n]][packet[n]]
    <3>1. /\ n \in 1..(field - 1) /\ n \in 1..Len(types) /\ n - 1 \in 0..Len(types)
          /\ n \in 0..Len(types) /\ field - 1 \in 0..Len(types) /\ n <= field - 1
      BY <1>4, <2>2
    <3>2. y \in Nat
      BY <1>1, <3>1, SizesAre, SizeNat
    <3>3. off[n] = off[n - 1] + y /\ off[n - 1] \in Nat /\ off[n] \in Nat /\ off[n] <= pos
      BY <1>6, <1>7, <1>8, <3>1
    <3>4. Held(types[n], packet[n], block, off[n - 1])
      BY <1>6, <3>1 DEF FieldHeld
    <3>5. Agree(block, s.b, off[n - 1], off[n - 1] + y)
      <4>1. pos + z \in Nat
        BY <1>4, <1>5
      <4> QED
        BY <1>4, <1>10, <3>3, <4>1, AgreeOutside
    <3> QED
      BY <1>10, <3>4, <3>5, HeldKept
  <2> QED
    BY <2>1, <2>2
<1>14. Placed(off)'
  <2>1. field' - 1 = field /\ pos' = off[field]
    BY <1>3, <1>4, <1>7, <1>10
  <2>2. Whole(off)'
    BY <1>3, <1>6, <1>10 DEF Whole
  <2>3. \A n \in 1..field : FieldHeld(off, n)'
    BY <1>3, <1>13 DEF FieldHeld
  <2> QED
    BY <1>3, <1>6, <2>1, <2>2, <2>3 DEF Placed
<1> QED
  BY <1>11, <1>12, <1>14 DEF ArchiveInv

LEMMA ReadFieldInv == ArchiveInv /\ ReadField => ArchiveInv'
<1> SUFFICES ASSUME ArchiveInv, ReadField PROVE ArchiveInv'
  OBVIOUS
<1> DEFINE g == Get[types[field]][target[field]][block][pos]
           z == Size[types[field]][packet[field]]
<1>1. ArchiveTyped
  BY DEF ArchiveInv
<1>2. PICK off : IsOffsets(Len(types), FieldSizes, off) /\ Placed(off)
  BY DEF ArchiveInv
<1>3. /\ pass = "Read" /\ field <= Len(types) /\ field' = field + 1
      /\ target' = [target EXCEPT ![field] = g.v] /\ pos' = pos + g.n
      /\ types' = types /\ packet' = packet /\ old' = old /\ pass' = pass /\ block' = block
  BY DEF ReadField, Field
<1>4. /\ Len(types) \in Nat /\ field \in 1..Len(types) /\ pos \in Nat /\ block \in Buffer
  BY <1>1, <1>3, SizesAre DEF ArchiveTyped
<1>5. /\ types[field] \in Type /\ packet[field] \in Val[types[field]] /\ z \in Nat
      /\ target[field] \in Val[types[field]]
  BY <1>1, <1>4, SizesAre, SizeNat DEF ArchiveTyped, Object
<1>6. /\ pos = off[field - 1] /\ Whole(off) /\ \A n \in 1..Len(types) : FieldHeld(off, n)
      /\ \A n \in field..Len(types) : target[n] = old[n]
      /\ \A n \in 1..(field - 1) : FieldRead(n)
  BY <1>2, <1>3 DEF Placed
<1>7. off[field] = pos + z
  BY <1>2, <1>4, <1>6 DEF IsOffsets, FieldSizes
<1>8. g.n = z /\ (Keeps(types[field], old[field], packet[field]) \/ g.v = packet[field])
  <2>1. Held(types[field], packet[field], block, pos)
    BY <1>4, <1>6 DEF FieldHeld
  <2>2. Reads(types[field], packet[field], block, pos)
    BY <1>4, <2>1, HeldReads
  <2>3. target[field] = old[field]
    BY <1>4, <1>6
  <2> QED
    BY <1>5, <2>2, <2>3 DEF Reads
<1>9. g.v \in Val[types[field]]
  BY <1>4, <1>5, GetTyped DEF ReadOf
<1> HIDE DEF g, z
<1>10. /\ target' = [n \in 1..Len(types) |-> target'[n]] /\ target'[field] = g.v
       /\ \A n \in 1..Len(types) : n # field => target'[n] = target[n]
  BY <1>1, <1>3, <1>4 DEF ArchiveTyped, Object
<1>11. ArchiveTyped'
  <2>1. field' \in 1..(Len(types) + 1) /\ pos' \in Nat
    BY <1>3, <1>4, <1>5, <1>8
  <2>2. Object(types, target')
    BY <1>1, <1>4, <1>9, <1>10 DEF ArchiveTyped, Object
  <2>3. Object(types, target)'
    BY <1>3, <2>2
  <2> QED
    BY <1>1, <1>3, <2>1, <2>3 DEF ArchiveTyped
<1>12. IsOffsets(Len(types), FieldSizes, off)'
  <2>1. FieldSizes' = FieldSizes
    BY <1>3 DEF FieldSizes
  <2> QED
    BY <1>2, <1>3, <2>1
<1>13. Placed(off)'
  <2>1. field' - 1 = field /\ pos' = off[field]
    BY <1>3, <1>4, <1>7, <1>8
  <2>2. Whole(off)' /\ \A n \in 1..Len(types) : FieldHeld(off, n)'
    BY <1>3, <1>6 DEF Whole, FieldHeld
  <2>3. \A n \in field'..Len(types) : target'[n] = old[n]
    BY <1>3, <1>4, <1>6, <1>10
  <2>4. ASSUME NEW n \in 1..field
        PROVE  Keeps(types[n], old[n], packet[n]) \/ target'[n] = packet[n]
    <3>1. CASE n = field
      BY <1>8, <1>10, <3>1
    <3>2. CASE n # field
      <4>1. n \in 1..(field - 1) /\ n \in 1..Len(types)
        BY <1>4, <3>2
      <4> QED
        BY <1>6, <1>10, <3>2, <4>1 DEF FieldRead
    <3> QED
      BY <3>1, <3>2
  <2>5. \A n \in 1..field : FieldRead(n)'
    BY <1>3, <2>4 DEF FieldRead
  <2> QED
    BY <1>3, <2>1, <2>2, <2>3, <2>5 DEF Placed
<1> QED
  BY <1>11, <1>12, <1>13 DEF ArchiveInv

LEMMA ArchiveStepInv == ArchiveInv /\ [ArchiveNext]_archiveVars => ArchiveInv'
<1>1. ArchiveInv /\ UNCHANGED archiveVars => ArchiveInv'
  <2> SUFFICES ASSUME ArchiveInv, UNCHANGED archiveVars PROVE ArchiveInv'
    OBVIOUS
  <2>1. PICK off : IsOffsets(Len(types), FieldSizes, off) /\ Placed(off)
    BY DEF ArchiveInv
  <2>2. /\ types' = types /\ packet' = packet /\ old' = old /\ target' = target
        /\ pass' = pass /\ field' = field /\ pos' = pos /\ block' = block
    BY DEF archiveVars
  <2>3. ArchiveTyped'
    BY <2>2 DEF ArchiveInv, ArchiveTyped
  <2>4. IsOffsets(Len(types), FieldSizes, off)'
    <3>1. FieldSizes' = FieldSizes
      BY <2>2 DEF FieldSizes
    <3> QED
      BY <2>1, <2>2, <3>1
  <2>5. Placed(off)'
    BY <2>1, <2>2 DEF Placed, Whole, FieldHeld, FieldRead
  <2> QED
    BY <2>3, <2>4, <2>5 DEF ArchiveInv
<1> QED
  BY <1>1, SizeFieldInv, AllocInv, WriteFieldInv, MakeFromInv, ReadFieldInv DEF ArchiveNext

\* In each of the three passes over a packet a field is met at the same place,
\* what has been written is held by a block of the size that was measured, and
\* what has been read is what was written.
THEOREM ArchiveInvariant == ArchiveSpec => []ArchiveInv
  BY ArchiveInitInv, ArchiveStepInv, PTL DEF ArchiveSpec

\* make_buf fills the block it asks for to the last byte and the first field
\* says how long it is, for any fields of any types.
THEOREM FramedCorrect == ArchiveSpec => []Framed
<1>1. ArchiveInv => Framed
  <2> SUFFICES ASSUME ArchiveInv, pass = "Write", field = Len(types) + 1
               PROVE  pos = block.len /\ Cell(block, 0, LenSize) = block.len
    BY DEF Framed
  <2>1. ArchiveTyped
    BY DEF ArchiveInv
  <2>2. PICK off : IsOffsets(Len(types), FieldSizes, off) /\ Placed(off)
    BY DEF ArchiveInv
  <2>3. /\ Len(types) \in Nat /\ 1 \in 1..Len(types) /\ types[1] = Prim(LenSize)
        /\ packet[1] \in Val[types[1]] /\ block \in Buffer
    BY <2>1, SizesAre DEF ArchiveTyped, FieldTypes
  <2>4. /\ pos = off[Len(types)] /\ Whole(off) /\ FieldHeld(off, 1) /\ off[0] = 0
    BY <2>2, <2>3 DEF Placed, IsOffsets
  <2>5. Reads(Prim(LenSize), packet[1], block, 0)
    BY <2>3, <2>4, HeldReads DEF FieldHeld
  <2>6. Prim(LenSize) \in Type /\ Prim(LenSize).k = "prim" /\ Prim(LenSize).size = LenSize
    BY HeaderIs DEF Prim
  <2>7. Cell(block, 0, LenSize) = packet[1]
    BY <2>3, <2>5, <2>6, PrimReads
  <2> QED
    BY <2>4, <2>7 DEF Whole
<1> QED
  BY <1>1, ArchiveInvariant, PTL

\* The receiver's object becomes the sender's, but for what it keeps, for any
\* fields of any types, nested to any depth, with any values.
THEOREM RoundTripCorrect == ArchiveSpec => []RoundTrip
<1>1. ArchiveInv => RoundTrip
  BY DEF ArchiveInv, Placed, FieldRead, RoundTrip
<1> QED
  BY <1>1, ArchiveInvariant, PTL
============================================================================
