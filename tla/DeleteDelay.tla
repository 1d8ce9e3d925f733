----------------------------- MODULE DeleteDelay -----------------------------
(***************************************************************************)
(* The delay process_msg (src/unnamed/part_000 lines 565-571) gives the    *)
(* deletion timer for a "delete" of d > 0 seconds:                          *)
(*     int delay = cjson_delete->valueint * 1000;                           *)
(*     if (delay > MAX_DELAY_7_DAYS) delay = MAX_DELAY_7_DAYS;              *)
(*     nng_sleep_aio(delay, a);                                             *)
(* The product is computed in 32-bit int. Signed overflow is undefined in  *)
(* C; the builds this code targets (gcc/clang, two's complement, no        *)
(* -ftrapv) wrap it, which is what is modelled. TLC's own integers are     *)
(* 32-bit, so the product is computed on two 16-bit halves.                 *)
(***************************************************************************)
EXTENDS Integers

CONSTANT Inputs        \* values of "delete" (valueint) > 0 to check

\* MAX_DELAY_7_DAYS (line 47), in milliseconds.
MAX_DELAY_7_DAYS == 1000 * 60 * 60 * 24 * 7

H == 65536             \* 2^16

\* x * k modulo 2^32 for 0 <= x < 2^31 and 0 <= k < 2^15, as the pair of
\* its high and low 16-bit halves.
MulHalves(x, k) ==
    LET lo == (x % H) * k
        hi == (x \div H) * k + lo \div H
    IN  <<hi % H, lo % H>>

\* The 32-bit two's complement value of a pair of halves.
Signed32(hl) == IF hl[1] >= H \div 2 THEN (hl[1] - H) * H + hl[2]
                                     ELSE hl[1] * H + hl[2]

\* `valueint * 1000` in int (line 566).
DelayProduct(d) == Signed32(MulHalves(d, 1000))

\* Lines 566-569: the product, capped at seven days.
Delay(d) == IF DelayProduct(d) > MAX_DELAY_7_DAYS THEN MAX_DELAY_7_DAYS
                                                  ELSE DelayProduct(d)

\* The delay spec.md (section 4.3) gives: d seconds in milliseconds,
\* clamped to seven days.
SpecDelay(d) == IF d > MAX_DELAY_7_DAYS \div 1000 THEN MAX_DELAY_7_DAYS
                                                 ELSE d * 1000

VARIABLE d             \* the "delete" value of the request being handled

Init == d \in Inputs
Next == d' \in Inputs
Spec == Init /\ [][Next]_d

\* The timer armed for "delete" = d fires after min(d s, 7 days): the code's
\* capped product equals the delay the spec gives (spec.md section 8 names
\* delete=600000000 as clamped to exactly 7 days).
DelayIsClampedSeconds == Delay(d) = SpecDelay(d)

=============================================================================
