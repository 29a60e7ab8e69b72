----------------------------- MODULE RecvBuffer -----------------------------
(***************************************************************************)
(* The receive path of one TCP connection of ven: SessionTCP::_on_recv and *)
(* SessionTCP::recv (net/session_tcp.h) over RBuf (net/rbuf.h), with the   *)
(* reference counting of Mem and Buf (mem/mem.h, mem/buf.h) and the size   *)
(* classes of MemPool (mem/mem_pool.h).                                    *)
(*                                                                         *)
(* The kernel writes at the tail of the buffer; the packets between head   *)
(* and tail are handed to on_recv as slices that share the Mem and may     *)
(* outlive the buffer's use of it; when a packet does not fit or the       *)
(* buffer is nearly used up, the unread bytes move to another Mem.         *)
(*                                                                         *)
(* A byte is its position in the stream, 0 being a byte never written: the *)
(* properties only ask whether bytes are the right ones.  The length in a  *)
(* header is any number, chosen when the header is read.  Which thread     *)
(* tears the session down, and when, belongs to SessionTCP.                *)
(***************************************************************************)
EXTENDS Naturals, FiniteSets

CONSTANTS
    Mem,          \* the memory blocks there may ever be
    NoMem,        \* the Mem of an empty Buf
    Units,        \* the sizes of the pool's classes
    MaxUnit,      \* max_unit_ : the largest class
    DefaultSize,  \* receive_buffer_size()
    HeaderSize,   \* header_size()
    MaxPacket,    \* the largest size is_valid_packet_size accepts
    MaxSize,      \* bound: the size of the largest block
    MaxStream,    \* bound: bytes received in one behaviour
    MaxHeld       \* bound: slices the application keeps at a time

ASSUME MemAssumption == NoMem \notin Mem
ASSUME UnitsAssumption == /\ Units \subseteq Nat \ {0}
                          /\ MaxUnit \in Units
                          /\ \A u \in Units : u <= MaxUnit
ASSUME SizeAssumption == /\ DefaultSize \in Nat
                         /\ HeaderSize \in Nat \ {0}
                         /\ HeaderSize <= DefaultSize
                         /\ MaxPacket \in Nat \ {0}
                         /\ MaxSize \in Nat
                         /\ DefaultSize <= MaxSize
                         /\ MaxUnit <= MaxSize
                         /\ 2 * MaxPacket <= MaxSize
ASSUME BoundAssumption == MaxStream \in Nat /\ MaxHeld \in Nat

VARIABLES
    phase,      \* where the receive side is (below)
    connected,  \* is_connected_
    buf,        \* RBuf::buf_, its Mem
    head, tail, \* head_ and tail_, as offsets into the block
    psize,      \* size the packet at the head announces, 0 if not read yet
    got,        \* history: bytes received so far
    held,       \* the slices the application still holds
    unit,       \* Mem::unit_, 0 for a block that is not allocated
    ref,        \* Mem::ref_
    free,       \* the blocks in the pool's free lists
    cell        \* what is written in each block

rbufvars == <<buf, head, tail>>
memvars == <<unit, ref, free, cell>>
vars == <<phase, connected, rbufvars, psize, got, held, memvars>>

(* "posted"   WSARecv is pending
   "parse"    _on_recv is in its loop
   "arrange"  it leaves the loop, before RBuf::check_arrange
   "recv"     before recv()
   "closed"   receiving is over, RBuf::uninit to come
   "down"     RBuf::uninit is done                                        *)
Phase == {"posted", "parse", "arrange", "recv", "closed", "down"}
Parsing == {"parse", "arrange", "recv"}

Offset == 0..(MaxSize - 1)
Slice == [mem : Mem, off : Nat, len : Nat, pos : Nat]

DataLen == tail - head
RemainLen == unit[buf] - tail
----------------------------------------------------------------------------
\* MemPool::get, the unit it chooses: map_.lower_bound(size), or the size
\* itself when it exceeds every class.
ClassOf(size) ==
    IF size > MaxUnit THEN size
    ELSE CHOOSE u \in Units : u >= size /\ \A v \in Units : v >= size => u <= v

\* MemPool::get returns block m: a free one of the class, or a new one.
CanGet(m, size) ==
    \/ m \in free /\ size <= MaxUnit /\ unit[m] = ClassOf(size)
    \/ unit[m] = 0

\* Mem::rel_ref on a count r: MemPool::ret puts the block in its class, or
\* frees it when it exceeds every class.
Pooled(m) == unit[m] <= MaxUnit

\* Mutant of CopiedRef: copy_buf without add_ref.
CopiedRefLost(r) == r

\* Buf's copy constructor on a block with r references.
CopiedRef(r) == r + 1

Init ==
    /\ phase = "recv"
    /\ connected = TRUE
    /\ buf \in Mem
    /\ head = 0
    /\ tail = 0
    /\ psize = 0
    /\ got = 0
    /\ held = {}
    /\ unit = [m \in Mem |-> IF m = buf THEN ClassOf(DefaultSize) ELSE 0]
    /\ ref = [m \in Mem |-> IF m = buf THEN 1 ELSE 0]
    /\ free = {}
    /\ cell = [m \in Mem |-> [o \in Offset |-> 0]]

\* The receive completes with n bytes, written at the tail; move_tail.
RecvData(n) ==
    /\ phase = "posted"
    /\ got + n <= MaxStream
    /\ n <= RemainLen
    /\ cell' = [cell EXCEPT ![buf] = [o \in Offset |->
                   IF o >= tail /\ o < tail + n THEN got + 1 + (o - tail)
                                                ELSE cell[buf][o]]]
    /\ got' = got + n
    /\ tail' = tail + n
    /\ phase' = "parse"
    /\ UNCHANGED <<connected, buf, head, psize, held, unit, ref, free>>

\* The receive completes with an error or with 0 bytes.
RecvEnd ==
    /\ phase = "posted"
    /\ connected' = FALSE
    /\ phase' = "closed"
    /\ UNCHANGED <<rbufvars, psize, got, held, memvars>>

\* get_packet_size succeeds and says n.  The same bytes say the same size.
Announces(n) ==
    /\ phase = "parse"
    /\ DataLen >= HeaderSize
    /\ psize \in {0, n}

\* The size is not valid: receiving ends.
Reject ==
    /\ Announces(0)
    /\ connected' = FALSE
    /\ phase' = "closed"
    /\ UNCHANGED <<rbufvars, psize, got, held, memvars>>

\* A whole packet of n bytes: on_recv gets a slice of the buffer and may keep
\* a copy of it; then move_head, and round the loop again.
Deliver(n, keep) ==
    /\ Announces(n)
    /\ n <= DataLen
    /\ keep => Cardinality(held) < MaxHeld
    /\ IF keep
       THEN /\ held' = held \cup {[mem |-> buf, off |-> head, len |-> n,
                                   pos |-> got - DataLen + 1]}
            /\ ref' = [ref EXCEPT ![buf] = CopiedRef(ref[buf])]
       ELSE UNCHANGED <<held, ref>>
    /\ head' = head + n
    /\ psize' = 0
    /\ UNCHANGED <<phase, connected, buf, tail, got, unit, free, cell>>

\* RBuf::change, the tail in the new block.
MovedTail == DataLen

\* Mutant of Moved: memcpy from the start of the block, not from head_.
MovedFromStart(m) ==
    [o \in Offset |-> IF o < DataLen THEN cell[buf][o] ELSE cell[m][o]]

\* RBuf::change, what the new block m holds after the memcpy.
Moved(m) ==
    [o \in Offset |-> IF o < DataLen THEN cell[buf][head + o] ELSE cell[m][o]]

\* Mutant of Drops: the block goes back while a slice of it is held.
DropsEarly(m) == TRUE

\* Mem::rel_ref on block m: true when it was the last reference.
Drops(m) == ref[m] = 1

\* RBuf::change(size): another block takes over.
Change(size) ==
    \E m \in Mem \ {buf} :
       /\ CanGet(m, size)
       /\ cell' = [cell EXCEPT ![m] = Moved(m)]
       /\ ref' = [ref EXCEPT ![m] = 1, ![buf] = @ - 1]
       /\ unit' = [unit EXCEPT ![m] = ClassOf(size),
                               ![buf] = IF Drops(buf) /\ ~Pooled(buf) THEN 0 ELSE @]
       /\ free' = IF Drops(buf) /\ Pooled(buf) THEN (free \ {m}) \cup {buf}
                                               ELSE free \ {m}
       /\ buf' = m
       /\ head' = 0
       /\ tail' = MovedTail

\* RBuf::check_size, the size it asks for.
GrowTo(n) == 2 * n

\* A packet of n bytes is not complete: check_size(n).
NeedMore(n) ==
    /\ Announces(n)
    /\ n > DataLen
    /\ IF unit[buf] < n THEN Change(GrowTo(n))
                        ELSE UNCHANGED <<rbufvars, memvars>>
    /\ psize' = n
    /\ phase' = "arrange"
    /\ UNCHANGED <<connected, got, held>>

\* Not even a header: get_packet_size returns false.
NoHeader ==
    /\ phase = "parse"
    /\ DataLen < HeaderSize
    /\ phase' = "arrange"
    /\ UNCHANGED <<connected, rbufvars, psize, got, held, memvars>>

\* Mutant of NearlyUsed: the test is the wrong way round for a full buffer.
NearlyUsedUnlessFull == RemainLen > 0 /\ RemainLen < HeaderSize

\* RBuf::check_arrange, its two tests.
Shrinks == DefaultSize < unit[buf] /\ DataLen < DefaultSize
NearlyUsed == RemainLen <= HeaderSize

\* RBuf::check_arrange.
CheckArrange ==
    /\ phase = "arrange"
    /\ IF Shrinks THEN Change(DefaultSize)
       ELSE IF NearlyUsed THEN Change(unit[buf])
       ELSE UNCHANGED <<rbufvars, memvars>>
    /\ phase' = "recv"
    /\ UNCHANGED <<connected, psize, got, held>>

\* recv(): post the next WSARecv, or stop when the session was dropped or
\* WSARecv fails at once.
Recv ==
    /\ phase = "recv"
    /\ \/ /\ connected
          /\ phase' = "posted"
          /\ UNCHANGED connected
       \/ /\ phase' = "closed"
          /\ connected' = FALSE
    /\ UNCHANGED <<rbufvars, psize, got, held, memvars>>

\* disconnect() or a failed send drops the session.
Drop ==
    /\ connected
    /\ connected' = FALSE
    /\ UNCHANGED <<phase, rbufvars, psize, got, held, memvars>>

\* Mem::rel_ref on block m.
RelRef(m) ==
    /\ ref' = [ref EXCEPT ![m] = @ - 1]
    /\ unit' = [unit EXCEPT ![m] = IF Drops(m) /\ ~Pooled(m) THEN 0 ELSE @]
    /\ free' = IF Drops(m) /\ Pooled(m) THEN free \cup {m} ELSE free
    /\ UNCHANGED cell

\* The application lets a slice go, on any thread and at any time.
Release(h) ==
    /\ held' = held \ {h}
    /\ RelRef(h.mem)
    /\ UNCHANGED <<phase, connected, rbufvars, psize, got>>

\* _on_disc: RBuf::uninit.
Uninit ==
    /\ phase = "closed"
    /\ phase' = "down"
    /\ RelRef(buf)
    /\ buf' = NoMem
    /\ head' = 0
    /\ tail' = 0
    /\ psize' = 0
    /\ UNCHANGED <<connected, got, held>>

\* _on_conn_init of the session's next connection: RBuf::init.
ConnInit ==
    /\ phase = "down"
    /\ \E m \in Mem :
          /\ CanGet(m, DefaultSize)
          /\ buf' = m
          /\ unit' = [unit EXCEPT ![m] = ClassOf(DefaultSize)]
          /\ ref' = [ref EXCEPT ![m] = 1]
          /\ free' = free \ {m}
    /\ connected' = TRUE
    /\ phase' = "recv"
    /\ UNCHANGED <<head, tail, psize, got, held, cell>>

Next ==
    \/ \E n \in 1..MaxSize : RecvData(n)
    \/ RecvEnd
    \/ \E n \in 1..MaxPacket, keep \in BOOLEAN : Deliver(n, keep)
    \/ Reject
    \/ \E n \in 1..MaxPacket : NeedMore(n)
    \/ NoHeader
    \/ CheckArrange
    \/ Recv
    \/ Drop
    \/ \E h \in held : Release(h)
    \/ Uninit
    \/ ConnInit

Spec == Init /\ [][Next]_vars
----------------------------------------------------------------------------
\* Types of the variables.
TypeOK ==
    /\ phase \in Phase
    /\ connected \in BOOLEAN
    /\ buf \in Mem \cup {NoMem}
    /\ head \in Nat
    /\ tail \in Nat
    /\ psize \in 0..MaxPacket
    /\ got \in Nat
    /\ held \in SUBSET Slice
    /\ unit \in [Mem -> 0..MaxSize]
    /\ ref \in [Mem -> Nat]
    /\ free \in SUBSET Mem
    /\ cell \in [Mem -> [Offset -> Nat]]

\* A WSARecv always has room for at least one byte: with none it would
\* complete with 0 bytes and _on_recv would take that for the end of the
\* connection.  check_arrange may shrink a buffer that check_size has just
\* grown, so this is not plain from either of them.
RecvHasRoom == phase = "posted" => tail < unit[buf]

\* The window between head and tail stays inside the block and is never
\* longer than what arrived.
WindowInBlock ==
    phase # "down" => /\ head <= tail
                      /\ tail <= unit[buf]
                      /\ DataLen <= got

\* The unread window holds the latest bytes of the stream, in order, however
\* often they were moved.
PendingIntact ==
    phase # "down" =>
       \A i \in 0..(DataLen - 1) : cell[buf][head + i] = got - DataLen + 1 + i

\* A slice given to on_recv keeps its bytes as long as it is held, although
\* the receive buffer shares the block, moves on and recycles blocks.
HeldIntact ==
    \A h \in held : \A i \in 0..(h.len - 1) : cell[h.mem][h.off + i] = h.pos + i

\* ref_ counts the buffer's own reference and the slices held; a block is in
\* the pool exactly when it is allocated and nobody refers to it.
Refs(m) == Cardinality({h \in held : h.mem = m})

RefExact ==
    \A m \in Mem : /\ ref[m] = Refs(m) + (IF m = buf THEN 1 ELSE 0)
                   /\ m \in free <=> (ref[m] = 0 /\ unit[m] # 0)
============================================================================
