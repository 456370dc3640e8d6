----------------------------- MODULE ByteStream -----------------------------
(***************************************************************************)
(* What a ByteArray promises (bytearray.h): one string of bytes with a     *)
(* position.  Writing replaces bytes from the position on and extends the  *)
(* string; reading returns bytes from the position on, or throws.  The     *)
(* string ends at size and lies in a store that reaches further; a         *)
(* position set within the store but beyond the end extends the string by  *)
(* what the store holds there.                                             *)
(***************************************************************************)
EXTENDS Integers, Sequences

CONSTANT Fresh  \* a byte nobody wrote

VARIABLES
  store,  \* the bytes of the string and those kept behind its end
  size,   \* m_size
  pos,    \* m_position
  op,     \* the last call and its arguments
  out     \* what it returned

svars == <<store, size, pos, op, out>>

SInit ==
  /\ store \in Seq({Fresh}) /\ size = 0 /\ pos = 0
  /\ op = <<"none">> /\ out = <<>>

Larger(m, n) == IF m > n THEN m ELSE n

(* Bytes bs are put at the position; the store may grow, by fresh bytes only. *)
Put(bs) ==
  /\ Len(store') >= Larger(Len(store), pos + Len(bs))
  /\ store' = [i \in 1..Len(store') |->
                 IF i > pos /\ i <= pos + Len(bs) THEN bs[i - pos]
                 ELSE IF i <= Len(store) THEN store[i] ELSE Fresh]
  /\ pos' = pos + Len(bs)
  /\ size' = Larger(size, pos')
  /\ out' = <<>>

SWrite(bs) == Put(bs)

(* What a receive brings is put like what is written; a failed one brings nothing. *)
SReceive(bs) == Put(bs)

(* std::out_of_range *)
SThrow == out' = <<"out_of_range">> /\ UNCHANGED <<store, size, pos>>

SRead(n) ==
  \/ pos + n > size /\ SThrow
  \/ /\ pos + n <= size
     /\ out' = SubSeq(store, pos + 1, pos + n)
     /\ pos' = pos + n
     /\ UNCHANGED <<store, size>>

(* toString and the buffers of getReadBuffers: the position stays. *)
SPeek(n) ==
  /\ out' = SubSeq(store, pos + 1, IF pos + n > size THEN size ELSE pos + n)
  /\ UNCHANGED <<store, size, pos>>

SSetPosition(p) ==
  \/ p > Len(store) /\ SThrow
  \/ /\ p <= Len(store)
     /\ pos' = p
     /\ size' = Larger(size, p)
     /\ out' = <<>>
     /\ UNCHANGED store

SClear ==
  /\ Len(store') <= Len(store) /\ store' = SubSeq(store, 1, Len(store'))
  /\ size' = 0 /\ pos' = 0 /\ out' = <<>>

(* The step is the one of the call that is made. *)
SNext ==
  \/ op'[1] = "write" /\ SWrite(op'[2])
  \/ op'[1] = "receive" /\ SReceive(op'[2])
  \/ op'[1] = "read" /\ SRead(op'[2])
  \/ op'[1] = "getReadBuffers" /\ SPeek(op'[2])
  \/ op'[1] = "toString" /\ SPeek(size - pos)
  \/ op'[1] = "setPosition" /\ SSetPosition(op'[2])
  \/ op'[1] = "clear" /\ SClear

SSpec == SInit /\ [][SNext]_svars
=============================================================================
