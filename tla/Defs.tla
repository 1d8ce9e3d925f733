-------------------------------- MODULE Defs ---------------------------------
(***************************************************************************)
(* The arithmetic macros of src/nng/src/core/defs.h: the big-endian        *)
(* NNI_PUT16/32/64 and NNI_GET16/32/64 that nng's MQTT and SP codecs use   *)
(* for lengths and ids on the wire, and NNI_ALIGN_UP.                      *)
(*                                                                         *)
(* TLC's integers are 32-bit, so a uintN_t value is a sequence of 16-bit   *)
(* limbs, most significant first (a uint16_t is one limb, a uint32_t two,  *)
(* a uint64_t or size_t four). A byte buffer is a sequence of bytes,       *)
(* ptr[0] first.                                                           *)
(***************************************************************************)
EXTENDS Integers, Sequences, Bitwise, Functions

CONSTANTS Words16,  \* uint16_t inputs, as <<limb>>
          Words32,  \* uint32_t inputs, as <<hi, lo>>
          Words64,  \* uint64_t inputs, four limbs
          Sizes,    \* size_t inputs of NNI_ALIGN_UP, four limbs
          Structs,  \* arguments of NNI_ALLOC_STRUCTS / NNI_FREE_STRUCTS
          Builds,   \* the NANO_* options a build defines, option -> value
          Asserts,  \* uses of NNI_ASSERT: build and calling context
          Dividends \* left operands of an expression "k / NNI_NANO_*"

Limb == 0..65535

\* (uint8_t)(u >> s) for s a multiple of 8: the byte of u at bit s.
ByteAt(u, s) == shiftR(u[Len(u) - s \div 16], s % 16) & 255

\* NNI_PUT16 (lines 88-92): ptr[0] = (uint8_t)((uint16_t)u >> 8),
\* ptr[1] = (uint8_t)(uint16_t)u.
Put16LittleEndian(u) == <<ByteAt(u, 0), ByteAt(u, 8)>>
Put16(u) == <<ByteAt(u, 8), ByteAt(u, 0)>>

\* NNI_PUT32 (lines 94-100): shifts 24, 16, 8, 0.
Put32ShiftTwice16(u) == <<ByteAt(u, 24), ByteAt(u, 16), ByteAt(u, 16), ByteAt(u, 0)>>
Put32(u) == <<ByteAt(u, 24), ByteAt(u, 16), ByteAt(u, 8), ByteAt(u, 0)>>

\* NNI_PUT64 (lines 102-112): shifts 56, 48, ..., 0.
Put64(u) == [k \in 1..8 |-> ByteAt(u, 64 - 8 * k)]

\* (uintN_t)b << s for a byte b and s a multiple of 8, as limbs of a value
\* of n limbs; the shifted bytes of NNI_GET never overlap, so the sum of
\* the macro is the limb-wise sum.
Shifted(b, s, n) == [j \in 1..n |-> IF j = n - s \div 16
                                      THEN b * 2^(s % 16) ELSE 0]
LimbSum(x, y) == [j \in DOMAIN x |-> x[j] + y[j]]

\* NNI_GET16 (lines 114-116): (ptr[0] << 8) + ptr[1].
Get16(p) == LimbSum(Shifted(p[1], 8, 1), Shifted(p[2], 0, 1))

\* NNI_GET32 (lines 118-122): (ptr[0] << 24) + (ptr[1] << 16) + ...
Get32(p) == LimbSum(LimbSum(Shifted(p[1], 24, 2), Shifted(p[2], 16, 2)),
                    LimbSum(Shifted(p[3], 8, 2), Shifted(p[4], 0, 2)))

\* NNI_GET64 (lines 124-132): the sum of ptr[k-1] << (64 - 8k), k = 1..8.
RECURSIVE SumShifted(_, _)
SumShifted(p, k) == IF k = 0 THEN [j \in 1..4 |-> 0]
                    ELSE LimbSum(SumShifted(p, k - 1), Shifted(p[k], 64 - 8 * k, 4))
Get64DropsByte2(p) == SumShifted([p EXCEPT ![2] = 0], 8)
Get64(p) == SumShifted(p, 8)

\* NNI_ALIGN_SIZE (line 139): sizeof(void *) on the 64-bit targets.
NNI_ALIGN_SIZE == 8
NNI_ALIGN_MASK_OffByOne == NNI_ALIGN_SIZE
NNI_ALIGN_MASK == NNI_ALIGN_SIZE - 1

\* u + k for a small k, modulo 2^(16 * Len(u)), carrying across limbs.
RECURSIVE AddSmall(_, _)
AddSmall(u, k) ==
    IF u = <<>> THEN <<>>
    ELSE LET low == u[Len(u)] + k
         IN  Append(AddSmall(SubSeq(u, 1, Len(u) - 1), low \div 65536), low % 65536)

\* NNI_ALIGN_UP (line 141): (sz + NNI_ALIGN_MASK) & ~NNI_ALIGN_MASK on a
\* size_t; ~mask, below 2^16, clears bits of the last limb only.
AlignUp(sz) ==
    LET s == AddSmall(sz, NNI_ALIGN_MASK)
    IN  [s EXCEPT ![Len(s)] = @ - (@ & NNI_ALIGN_MASK)]

-----------------------------------------------------------------------------
(* The function-like and object-like macros, by what their expansion does. *)
(* A C expression pasted in as a macro argument is the sequence of its     *)
(* additive terms; a macro body that is a product is its factors.          *)

\* NNI_ASSERT (lines 21-27). Without NDEBUG it is the bare statement
\* "if (!(x)) nni_panic(...)"; with NDEBUG the expression (0). What a use
\* runs: "panic", "next" (the statement after it) or "else" (the caller's
\* else branch). In "if (c) NNI_ASSERT(x); else s();" the caller's else
\* attaches to the macro's own if.
NNI_ASSERT(u) ==
    CASE ~u.ifelse /\ (u.ndebug \/ u.x) -> {"next"}
      [] ~u.ifelse                      -> {"panic"}
      [] u.ndebug                       -> IF u.c THEN {} ELSE {"else"}
      [] u.c                            -> IF u.x THEN {"else"} ELSE {"panic"}
      [] OTHER                          -> {}

\* sizeof(*s) * n, n pasted unparenthesised: * takes n's first term only.
PastedProduct(sz, n) == sz * Head(n) + SumFunction(Tail(n))

\* NNI_ALLOC_STRUCT(S) and NNI_FREE_STRUCT(S) (lines 83-86): the byte
\* counts they pass to nni_zalloc and nni_free.
NNI_ALLOC_STRUCT(sz) == sz
NNI_FREE_STRUCT(sz) == sz
NNI_ALLOC_STRUCTS(sz, n) == PastedProduct(sz, n)
NNI_FREE_STRUCTS(sz, n) == PastedProduct(sz, n)

\* The defaults of the NNI_NANO_* limits (lines 168-208).
NanoDefault ==
    [NANO_PACKET_SIZE |-> 12, NANO_HEADER_SIZE |-> 5, NANO_PROPERTY_SIZE |-> 32,
     NANO_QOS_LEN |-> 64, NANO_MSQ_LEN |-> 64, NANO_QOS_TIMER |-> 30,
     NANO_PUB_CLIENT |-> 256]

\* NNI_NANO_* (lines 168-208): the build's -D value of the option if it
\* defines one, else the default; the packet, header and property sizes
\* are the body sizeof(uint8_t)*value, the others the bare value.
NanoBody(build, opt) ==
    LET v == IF opt \in DOMAIN build THEN build[opt] ELSE NanoDefault[opt]
    IN  IF opt \in {"NANO_PACKET_SIZE", "NANO_HEADER_SIZE", "NANO_PROPERTY_SIZE"}
          THEN <<1, v>> ELSE <<v>>

\* "k / BODY" with BODY pasted unparenthesised: / and * associate to the
\* left, so k is divided by the first factor only.
DivPasted(k, body) == IF Len(body) = 1 THEN k \div body[1]
                      ELSE (k \div body[1]) * body[2]

-----------------------------------------------------------------------------
(* Reference definitions: big-endian order by arithmetic.                   *)

\* Byte k (1 = most significant) of the n-byte big-endian form of limbs u.
RefByte(u, n, k) ==
    LET bit == 8 * (n - k)
    IN  (u[Len(u) - bit \div 16] \div 2^(bit % 16)) % 256
BigEndian(u, n) == [k \in 1..n |-> RefByte(u, n, k)]

\* The least multiple of 8 not below sz.
RefAlignUp(sz) == AddSmall(sz, (8 - (sz[Len(sz)] % 8)) % 8)

\* A statement that panics exactly when its assertion fails, and is
\* otherwise nothing; with NDEBUG, nothing.
RefAssert(u) ==
    LET fails == ~u.ndebug /\ ~u.x
    IN  IF ~u.ifelse THEN IF fails THEN {"panic"} ELSE {"next"}
        ELSE IF ~u.c THEN {"else"} ELSE IF fails THEN {"panic"} ELSE {}

\* The value of a product body.
Value(body) == IF Len(body) = 1 THEN body[1] ELSE body[1] * body[2]


-----------------------------------------------------------------------------
(* The checking harness: each state is one input to the macros.           *)

VARIABLE x

Inputs == [w : {16}, u : Words16] \cup [w : {32}, u : Words32]
          \cup [w : {64}, u : Words64] \cup [w : {0}, u : Sizes]
          \cup [w : {1}, sz : {1, 8, 24}, n : Structs]
          \cup [w : {3}, u : Asserts]
          \cup [w : {4}, k : Dividends, build : Builds, opt : DOMAIN NanoDefault]
Init == x \in Inputs
Next == UNCHANGED x
Spec == Init /\ [][Next]_x

\* NNI_PUT16 writes the big-endian form of the uint16_t and NNI_GET16 reads
\* back the value it was given.
EncodingIsBigEndian16 ==
    x.w = 16 => Put16(x.u) = BigEndian(x.u, 2) /\ Get16(BigEndian(x.u, 2)) = x.u

\* NNI_PUT32 writes the big-endian form of the uint32_t and NNI_GET32 reads
\* it back: four shifts, each of its own byte.
EncodingIsBigEndian32 ==
    x.w = 32 => Put32(x.u) = BigEndian(x.u, 4) /\ Get32(BigEndian(x.u, 4)) = x.u

\* NNI_PUT64 and NNI_GET64 agree with the big-endian form of the uint64_t,
\* the eight shifts of each macro included.
EncodingIsBigEndian64 ==
    x.w = 64 => Put64(x.u) = BigEndian(x.u, 8) /\ Get64(BigEndian(x.u, 8)) = x.u

\* NNI_ALIGN_UP rounds a size_t up to the next multiple of sizeof(void *),
\* carry into the upper limbs included, for every size that does not wrap.
AlignUpIsCeiling ==
    x.w = 0 => AlignUp(x.u) = RefAlignUp(x.u)

\* Each macro acts as the function, statement or constant it is named
\* for, whatever argument or context it is given: NNI_ALLOC_STRUCTS and
\* NNI_FREE_STRUCTS size n structs, NNI_ASSERT is a single statement, and
\* an NNI_NANO_* limit divides as its value.
MacrosActAsNamed ==
    /\ x.w = 1 => /\ NNI_ALLOC_STRUCTS(x.sz, x.n) = x.sz * SumFunction(x.n)
                  /\ NNI_FREE_STRUCTS(x.sz, x.n) = x.sz * SumFunction(x.n)
                  /\ NNI_ALLOC_STRUCT(x.sz) = x.sz /\ NNI_FREE_STRUCT(x.sz) = x.sz
    /\ x.w = 3 => NNI_ASSERT(x.u) = RefAssert(x.u)
    /\ x.w = 4 => DivPasted(x.k, NanoBody(x.build, x.opt))
                    = x.k \div Value(NanoBody(x.build, x.opt))

=============================================================================
