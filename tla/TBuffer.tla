------------------------------ MODULE TBuffer -------------------------------
(***************************************************************************)
(* The growing buffer of a message (src/message.c): its two indices, its   *)
(* capacity and the integers they are computed with.  The bytes themselves *)
(* are left out, and so is the failure of realloc.                         *)
(***************************************************************************)
EXTENDS Integers

CONSTANTS
  DefaultSize,  \* DEFAULT_TBUFF_SIZE
  U16,          \* uint16_t counts modulo this,
  U32, Bits,    \* and uint32_t modulo this power of 2
  Sizes         \* the sizes buffers are made with and chunks are added in

ASSUME TBufferAssumption ==
  /\ U16 \in Nat \ {0} /\ Bits \in Nat /\ U32 = 2 ^ Bits
  /\ \A k \in 0..Bits : 2 ^ k \in Nat \ {0}
  /\ DefaultSize \in Nat \ {0} /\ 2 * DefaultSize < U32
  /\ Sizes \subseteq 0..(U32 - 1)

VARIABLES
  start, end, capacity,   \* the TBuffer
  how                     \* "none" before init_tbuff, "ok", or what went wrong

tbvars == <<start, end, capacity, how>>

UINT32_MAX == U32 - 1

TbInit == start = 0 /\ end = 0 /\ capacity = 0 /\ how = "none"

\* init_tbuff: a larger size than the default is cut to it.
init_tbuff(size) ==
  /\ how = "none"
  /\ start' = 0 /\ end' = 0 /\ how' = "ok"
  /\ capacity' = IF size > DefaultSize THEN DefaultSize ELSE size

kill_tbuffer == how = "ok" /\ start' = 0 /\ end' = 0 /\ capacity' = 0 /\ how' = "none"

-----------------------------------------------------------------------------
(* resize_tbuff(size).                                                     *)

\* No room is left in 32 bits: assert(0).
TooLong(size) == end >= UINT32_MAX - size

\* Variant: without room for the null byte.
availSpaceNoNull == (capacity - end) % U16

\* The bytes free behind a null byte, as the uint16_t they are kept in.
availSpace == (capacity - (end + 1)) % U16

\* capacity * 2 is a product of 32 bits, the doublings after it are of 64.
Doubled == (capacity * 2) % U32
Endless(size) == Doubled = 0 /\ size > 0
Powers == {2 ^ k : k \in 0..Bits}
needed(size) ==
  LET p == CHOOSE p \in Powers :
              Doubled * p >= size /\ \A q \in Powers : Doubled * q >= size => p <= q
  IN  IF Doubled * p > UINT32_MAX THEN UINT32_MAX ELSE Doubled * p

\* The capacity it leaves.
Resized(size) == IF size > availSpace THEN needed(size) ELSE capacity

\* add_bytes_to_tbuffer: the bytes and the null byte behind them are written
\* at end.  (add_byte_to_tbuffer is the same with one byte.)
add_bytes_to_tbuffer(size) ==
  /\ how = "ok"
  /\ start' = start
  /\ IF TooLong(size) \/ (size > availSpace /\ capacity = UINT32_MAX)
     THEN how' = "assert" /\ UNCHANGED <<end, capacity>>
     ELSE IF size > availSpace /\ Endless(size)
     THEN how' = "endless" /\ UNCHANGED <<end, capacity>>
     ELSE /\ capacity' = Resized(size)
          /\ end' = end + size
          /\ how' = IF end + size < Resized(size) THEN "ok" ELSE "overrun"

\* get_byte_from_tbuffer without peek.
get_byte_from_tbuffer ==
  /\ how = "ok" /\ start # end
  /\ start' = start + 1
  /\ UNCHANGED <<end, capacity, how>>

TbNext ==
  \/ \E size \in Sizes : init_tbuff(size)
  \/ \E size \in Sizes : add_bytes_to_tbuffer(size)
  \/ get_byte_from_tbuffer
  \/ kill_tbuffer

TbSpec == TbInit /\ [][TbNext]_tbvars

-----------------------------------------------------------------------------
(* Properties.                                                             *)

\* A chunk that is no longer than the buffer is wide lands inside it, with the
\* null byte behind it ("+1 for the null byte", message.c 80), although the free
\* space is cut to 16 bits and the doubling (message.c 88) looks at the chunk
\* and not at what is in the buffer already.  A longer chunk need not, nor one
\* for a buffer of size 0 or of half of what 32 bits can count.
ShortChunksFit ==
  [][\A size \in Sizes :
       /\ add_bytes_to_tbuffer(size)
       /\ 0 < capacity /\ 2 * capacity < U32 /\ size <= capacity
       => how' # "overrun"]_tbvars
=============================================================================
