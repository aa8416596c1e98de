----------------------------- MODULE PatternScan -----------------------------
(***************************************************************************)
(* How the plugin finds the engine's globals in an HLDS: FindPattern of    *)
(* src/mem/patternscan.cpp, on the module that GetModuleInfo of            *)
(* src/mem/handles.cpp returns.                                            *)
(*                                                                         *)
(* A pattern is a sequence of tokens: bytes, Wild for "?" and "??", and     *)
(* Star for "*", in front of the operand to be read; the other operations  *)
(* of the pattern language have no user.  A module is the sequence of its  *)
(* bytes, loaded at Base; nothing else is mapped, so that a read outside   *)
(* it is a fault.                                                          *)
(***************************************************************************)
EXTENDS Integers, Sequences, FiniteSetsExt

CONSTANTS
  WordSize,    \* sizeof(long), sizeof(uintptr_t): 4
  AddrSpace,   \* 2^32: addresses are taken modulo this
  Base         \* where the module is loaded

ASSUME ScanAssumption ==
  /\ WordSize \in Nat \ {0}
  /\ AddrSpace \in Nat /\ Base \in 1..(AddrSpace - 1)

Wild   == -1
Star   == -2
Fault  == -1    \* instead of an address: the read is a segmentation fault
Absent == <<>>  \* a module that is not loaded

-----------------------------------------------------------------------------
(* The module.                                                             *)

\* Not found: address and size stay 0.
GetModuleInfo(module) ==
  IF module = Absent THEN [address |-> 0, size |-> 0]
                     ELSE [address |-> Base, size |-> Len(module)]

Mapped(module, addr) == module # Absent /\ addr \in Base..(Base + Len(module) - 1)
Byte(module, addr) == module[addr - Base + 1]

\* Read<uintptr_t>: the bytes of a word, or Fault.
Readable(module, addr) == \A o \in 0..(WordSize - 1) : Mapped(module, addr + o)
Number(bytes) ==
  LET From[o \in 1..(WordSize + 1)] ==
        IF o > WordSize THEN 0 ELSE 256 * From[o + 1] + bytes[o]
  IN From[1]
Read(module, addr) ==
  IF Readable(module, addr) THEN Number([o \in 1..WordSize |-> Byte(module, addr + o - 1)])
                            ELSE Fault

-----------------------------------------------------------------------------
(* FindPattern.  X_Y is X with a slip Y, used by no action.                *)

\* The bytes to look for, and where between them the operand is.
ParsePattern(pattern) ==
  [bytes  |-> SelectSeq(pattern, LAMBDA t : t # Star),
   deref  |-> \E k \in DOMAIN pattern : pattern[k] = Star,
   offset |-> Min({k \in DOMAIN pattern : pattern[k] = Star} \cup {Len(pattern) + 1}) - 1]

\* The same in words, filled up to a whole number: a byte of mask is 255 where any byte
\* will do, and is in the data too.
Words(bytes) == (Len(bytes) - 1) \div WordSize + 1
MaskByte_Zeros(bytes, k) == IF k <= Len(bytes) /\ bytes[k] < 0 THEN 255 ELSE 0
MaskByte(bytes, k) == IF k > Len(bytes) \/ bytes[k] < 0 THEN 255 ELSE 0
DataByte(bytes, k) ==
  IF MaskByte(bytes, k) = 255 THEN 255 ELSE IF k <= Len(bytes) THEN bytes[k] ELSE 0
ProduceScanData(bytes) ==
  [i \in 0..(Words(bytes) - 1) |->
     [data |-> [o \in 1..WordSize |-> DataByte(bytes, i * WordSize + o)],
      mask |-> [o \in 1..WordSize |-> MaskByte(bytes, i * WordSize + o)]]]

\* data ^ (word | mask), byte by byte.
Misses(module, addr, w) ==
  \E o \in 1..WordSize :
    w.data[o] # IF w.mask[o] = 255 THEN 255 ELSE Byte(module, addr + o - 1)

\* From start to where the words of the pattern begin to stick out of the module: the
\* difference is unsigned, and the last place where they fit is not looked at any more.
Limit_Whole(end, llength) == end
Limit(end, llength) == (end - llength) % AddrSpace

\* The words of the pattern at i, up to the first that is not there or does not match.
Compare(module, i, words) ==
  LET stops == {o \in DOMAIN words : \/ ~Readable(module, i + o * WordSize)
                                     \/ Misses(module, i + o * WordSize, words[o])}
  IN IF stops = {} THEN "hit"
     ELSE IF Readable(module, i + Min(stops) * WordSize) THEN "miss" ELSE "fault"

ScanPattern(module, start, end, words) ==
  LET limit == Limit(end, WordSize * Cardinality(DOMAIN words))
      stops == {i \in start..(limit - 1) : Compare(module, i, words) # "miss"}
  IN IF stops = {} THEN 0
     ELSE IF Compare(module, Min(stops), words) = "hit" THEN Min(stops) ELSE Fault

\* pOperation::RunOp for the star.
RunOp(module, addr, p) == IF p.deref THEN Read(module, addr + p.offset) ELSE addr

FindPattern(pattern, module) ==
  LET p    == ParsePattern(pattern)
      info == GetModuleInfo(module)
      addr == ScanPattern(module, info.address, info.address + info.size,
                          ProduceScanData(p.bytes))
  IN IF addr \in {0, Fault} THEN addr ELSE RunOp(module, addr, p)

-----------------------------------------------------------------------------
(* What it should find: the operand in the first place where the pattern   *)
(* occurs byte by byte, if the words of the pattern fit there and one byte *)
(* is left over.                                                           *)

LLength(pattern) == WordSize * Words(ParsePattern(pattern).bytes)

Occurs(pattern, module, k) ==
  LET bytes == ParsePattern(pattern).bytes IN
  \A o \in DOMAIN bytes : bytes[o] \in {Wild, module[k + o]}

Places(pattern, module) ==
  {k \in 0..(Len(module) - LLength(pattern) - 1) : Occurs(pattern, module, k)}

Operand(pattern, module) ==
  LET k == Min(Places(pattern, module)) + ParsePattern(pattern).offset
  IN Number(SubSeq(module, k + 1, k + WordSize))
=============================================================================
