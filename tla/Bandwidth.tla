------------------------------ MODULE Bandwidth ------------------------------
(***************************************************************************)
(* The fixed-point arithmetic the whole system counts bandwidth with       *)
(* (src/src/qos_types.h, src/src/qos_ul_i386.h, src/src/qos_ul_other.h,    *)
(* src/src/qsup.c).  A bandwidth is a fraction of the processor times      *)
(* MAX_BW; a compression coefficient is a fraction times COEFF_ONE; every  *)
(* value is an unsigned long and wraps at WORD.  The code's values are     *)
(* 2^24, 2^16 and 2^32: here they are parameters.  A shift by SHF bits is  *)
(* a multiplication or a division by the scale 2^SHF.                      *)
(***************************************************************************)
EXTENDS Integers

CONSTANTS
    MAX_BW,      \* a bandwidth of 1.0: 1 << QOS_BW_BITS
    COEFF_ONE,   \* a coefficient of 1.0: 1 << QSUP_COEFF_BITS
    WORD,        \* the number of values of an unsigned long
    RRES_U_LUB   \* maximum utilisation, in percent

ASSUME BandwidthAssumption ==
    /\ MAX_BW \in Nat \ {0}
    /\ COEFF_ONE \in Nat \ {0}
    /\ WORD \in Nat \ {0}
    /\ 2 * MAX_BW < WORD
    /\ COEFF_ONE < WORD
    /\ RRES_U_LUB \in 0 .. 100

-----------------------------------------------------------------------------
(* Unsigned arithmetic. *)

\* What an unsigned long holds after x is assigned to it.
Wrap(x) == x % WORD

bw_min(a, b) == IF a < b THEN a ELSE b

\* Floor of num * scale / den.
ul_shl_div(num, scale, den) == (num * scale) \div den

\* The divl instruction faults on a zero divisor and on a quotient that does
\* not fit the register (qos_ul_i386.h says "No overflow check is made").
DivideFaults(num, scale, den) ==
    IF den = 0 THEN TRUE ELSE ul_shl_div(num, scale, den) >= WORD

\* The i386 form: the quotient, incremented when a remainder is left.
ul_shl_ceil(num, scale, den) ==
    IF (num * scale) % den = 0
    THEN ul_shl_div(num, scale, den)
    ELSE Wrap(ul_shl_div(num, scale, den) + 1)

\* The form for the other architectures: den - 1 is added before dividing.
\* (Variant: den is added.)
ul_shl_ceil_other_Den(num, scale, den) == (num * scale + den) \div den
ul_shl_ceil_other(num, scale, den) == (num * scale + den - 1) \div den

\* Variant: the product is cut to a word before it is shifted.
ul_mul_shr_Narrow(x, y, scale) == Wrap(x * y) \div scale
ul_mul_shr(x, y, scale) == Wrap((x * y) \div scale)

-----------------------------------------------------------------------------
(* Bandwidths. *)

r2bw(Q, P) == ul_shl_div(Q, MAX_BW, P)

\* Variant: rounded down.
r2bw_ceil_Truncating(Q, P) == ul_shl_div(Q, MAX_BW, P)
r2bw_ceil(Q, P) == ul_shl_ceil(Q, MAX_BW, P)

bw2Q(bw, P) == ul_mul_shr(bw, P, MAX_BW)

\* Maximum bandwidth the supervisor hands out.
U_LUB == r2bw(RRES_U_LUB, 100)

\* Variant: through the bandwidth rounded down.
RoundBudget_Floor(Q, P) == bw2Q(r2bw(Q, P), P)

\* The budget a server gets when it asks for Q every P: the request is turned
\* into a bandwidth, rounded up, and the bandwidth back into a budget.
RoundBudget(Q, P) == bw2Q(r2bw_ceil(Q, P), P)

-----------------------------------------------------------------------------
(* Compression coefficients. *)

coeff_compute(a, b) == ul_shl_div(a, COEFF_ONE, b)

CoeffFaults(a, b) == DivideFaults(a, COEFF_ONE, b)

coeff_apply(a, c) == ul_mul_shr(a, c, COEFF_ONE)
=============================================================================
