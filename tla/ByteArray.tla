----------------------------- MODULE ByteArray ------------------------------
(***************************************************************************)
(* bytearray.cpp: a byte string kept in a list of nodes of m_baseSize      *)
(* bytes each.  m_cur must be the node of m_position at all times; it is   *)
(* null when the position is the end of the last node.                     *)
(*                                                                         *)
(* As all nodes have the same size, the copying loops of write, read and   *)
(* getReadBuffers, which start at offset m_position % m_baseSize of m_cur  *)
(* and follow next, touch consecutive places of the concatenated nodes:    *)
(* mem is that concatenation and m_cur a node number.  Following a null    *)
(* pointer ends the process: crashed.                                      *)
(***************************************************************************)
EXTENDS Integers, Sequences

CONSTANTS
  Byte,
  Fresh,     \* what a byte of new char[] holds
  baseSize,  \* m_baseSize
  MaxCap,    \* bound on the capacity
  MaxLen     \* bound on the length of one call

ASSUME ByteArrayAssumption ==
  /\ Fresh \notin Byte
  /\ baseSize \in Nat \ {0} /\ MaxCap \in Nat /\ MaxLen \in Nat

VARIABLES
  mem,       \* the bytes of all nodes
  cur,       \* number of the node m_cur; null when there is no such node
  position,  \* m_position
  size,      \* m_size
  op,        \* the last call that was completed, and its arguments
  out,       \* what it returned
  crashed

vars == <<mem, cur, position, size, op, out, crashed>>

Cell == Byte \cup {Fresh}
capacity == Len(mem)                     \* m_capacity
Nodes == capacity \div baseSize
Null(n) == n >= Nodes
ReadSize == size - position              \* getReadSize
CurCapacity == capacity - position       \* getCurCapacity

(* Types; m_cur, m_position and m_size stay within the nodes. *)
TypeOK ==
  /\ mem \in Seq(Cell) /\ Len(mem) <= MaxCap
  /\ cur \in 0..Nodes /\ position \in 0..capacity /\ size \in 0..capacity
  /\ op[1] \in {"none", "write", "receive", "read", "getReadBuffers", "toString",
                "setPosition", "clear"}
  /\ out \in Seq(Cell \cup {"out_of_range"})
  /\ crashed \in BOOLEAN

FreshBytes(n) == [i \in 1..n |-> Fresh]

Init ==
  /\ mem = FreshBytes(baseSize)
  /\ cur = 0 /\ position = 0 /\ size = 0
  /\ op = <<"none">> /\ out = <<>> /\ crashed = FALSE

-----------------------------------------------------------------------------
(* addCapacity: how many nodes it appends.  The rest is compared with old_cap,
   which was subtracted already. *)
NewNodes(n) ==
  IF n = 0 \/ CurCapacity >= n THEN 0
  ELSE LET missing == n - CurCapacity
       IN  (missing \div baseSize) + (IF missing % baseSize > CurCapacity THEN 1 ELSE 0)

Grown(n) == mem \o FreshBytes(NewNodes(n) * baseSize)

(* addCapacity: m_cur was null when there was no room at all. *)
CurAfterGrow(n) == IF CurCapacity = 0 /\ NewNodes(n) > 0 THEN Nodes ELSE cur

(* The place of the concatenated nodes that m_position % m_baseSize of node c
   stands for. *)
Place(c) == c * baseSize + (position % baseSize)

Crash == crashed' = TRUE /\ UNCHANGED <<mem, cur, position, size, op, out>>

(* Mutant: the offset in the buffer is not advanced from node to node. *)
OverwriteAgain(m, p, bs) ==
  [i \in 1..Len(m) |->
     LET node == ((i - 1) \div baseSize) * baseSize
     IN  IF i > p /\ i <= p + Len(bs) THEN bs[i - (IF p > node THEN p ELSE node)] ELSE m[i]]

(* The copying loop: bs put at place p of m. *)
Overwrite(m, p, bs) ==
  [i \in 1..Len(m) |-> IF i > p /\ i <= p + Len(bs) THEN bs[i - p] ELSE m[i]]

(* write *)
Write(bs) ==
  LET c == CurAfterGrow(Len(bs))
      m == Grown(Len(bs))
      p == Place(c)
  IN  /\ bs # <<>>
      /\ Len(m) <= MaxCap
      /\ IF p + Len(bs) > Len(m)
           THEN Crash
           ELSE /\ mem' = Overwrite(m, p, bs)
                /\ cur' = (p + Len(bs)) \div baseSize
                /\ position' = position + Len(bs)
                /\ size' = IF position' > size THEN position' ELSE size
                /\ op' = <<"write", bs>> /\ out' = <<>>
                /\ UNCHANGED crashed

(* Throwing std::out_of_range. *)
Throw == out' = <<"out_of_range">> /\ UNCHANGED <<mem, cur, position, size, crashed>>

(* read(buf, size): m_cur is followed also when size is 0. *)
Read(n) ==
  \/ n > ReadSize /\ op' = <<"read", n>> /\ Throw
  \/ n <= ReadSize /\ Null(cur) /\ Crash
  \/ /\ n <= ReadSize /\ ~Null(cur)
     /\ IF Place(cur) + n > capacity
          THEN Crash
          ELSE /\ op' = <<"read", n>>
               /\ out' = SubSeq(mem, Place(cur) + 1, Place(cur) + n)
               /\ cur' = (Place(cur) + n) \div baseSize
               /\ position' = position + n
               /\ UNCHANGED <<mem, size, crashed>>

(* The bytes that call o meets in a loop over the nodes from m_cur on; it follows no
   node when there are none to meet. *)
FromCur(o, n) ==
  IF n > 0 /\ Place(cur) + n > capacity
    THEN Crash
    ELSE /\ op' = o
         /\ out' = IF n = 0 THEN <<>> ELSE SubSeq(mem, Place(cur) + 1, Place(cur) + n)
         /\ UNCHANGED <<mem, cur, position, size, crashed>>

(* toString, and read(buf, size, m_position) under it. *)
ToString == FromCur(<<"toString">>, ReadSize)

(* getReadBuffers(buffers, len): the buffers together. *)
GetReadBuffers(len) ==
  FromCur(<<"getReadBuffers", len>>, IF len > ReadSize THEN ReadSize ELSE len)

(* Mutant: m_cur is left at the node before. *)
NodeOfBefore(p) == IF p = 0 THEN 0 ELSE (p - 1) \div baseSize

(* setPosition: the walk from m_root to the node of p. *)
NodeOf(p) == p \div baseSize

SetPosition(p) ==
  /\ op' = <<"setPosition", p>>
  /\ \/ p > capacity /\ Throw
     \/ /\ p <= capacity
        /\ position' = p
        /\ size' = IF p > size THEN p ELSE size
        /\ cur' = NodeOf(p)
        /\ out' = <<>>
        /\ UNCHANGED <<mem, crashed>>

(* getWriteBuffers: the walk over the len bytes from m_position in node c of m meets
   no null node. *)
WriteBuffersFit(m, c, len) == Place(c) + len <= Len(m)

(* SocketStream::read(ba, len) that receives bs: getWriteBuffers(len), the
   buffers filled, setPosition.  When nothing is received the nodes stay. *)
Receive(len, bs) ==
  LET c == CurAfterGrow(len)
      m == Grown(len)
  IN  /\ Len(bs) <= len
      /\ Len(m) <= MaxCap
      /\ IF ~WriteBuffersFit(m, c, len)
           THEN Crash
           ELSE /\ mem' = Overwrite(m, Place(c), bs)
                /\ cur' = IF bs = <<>> THEN c ELSE NodeOf(position + Len(bs))
                /\ position' = position + Len(bs)
                /\ size' = IF position' > size THEN position' ELSE size
                /\ op' = <<"receive", bs>> /\ out' = <<>>
                /\ UNCHANGED crashed

(* clear: the root node is kept with what it holds. *)
Clear ==
  /\ mem' = SubSeq(mem, 1, baseSize)
  /\ cur' = 0 /\ position' = 0 /\ size' = 0
  /\ op' = <<"clear">> /\ out' = <<>>
  /\ UNCHANGED crashed

Bytes == UNION {[1..n -> Byte] : n \in 0..MaxLen}

Next ==
  /\ ~crashed
  /\ \/ \E bs \in Bytes : Write(bs) \/ \E len \in 1..MaxLen : Receive(len, bs)
     \/ \E n \in 0..MaxLen : Read(n) \/ GetReadBuffers(n)
     \/ ToString
     \/ \E p \in 0..(MaxCap + 1) : SetPosition(p)
     \/ Clear

Spec == Init /\ [][Next]_vars

-----------------------------------------------------------------------------
(* The representation: m_cur is the node of m_position, m_size lies between the
   position and the capacity, and the capacity is made of whole nodes.  Every
   read, write and buffer starts from m_cur and depends on it. *)
Chain ==
  /\ cur = position \div baseSize
  /\ position <= size /\ size <= capacity
  /\ capacity = Nodes * baseSize /\ Nodes >= 1

(* The string the nodes hold. *)
Stream == INSTANCE ByteStream WITH store <- mem, pos <- position

(* Node boundaries cannot be seen: as long as no null node is followed, every call
   returns and changes, for its arguments, what it would on one plain string of
   bytes.  What is written is what is stored, what is read is what was written, and
   a call throws exactly when the string or the store is too short. *)
ImplementsByteStream == Stream!SSpec

(* What is written can be written and read whatever the node size: no call follows
   a null node pointer. *)
NoNullNode == ~crashed

(* Types, and m_cur, m_position and m_capacity describe the chain of nodes. *)
ChainInv == TypeOK /\ Chain
=============================================================================
