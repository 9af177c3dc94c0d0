-------------------------- MODULE Roundings_proofs ---------------------------
(***************************************************************************)
(* Theorems about the rounding of budgets, for every period, every budget, *)
(* and every precision of a bandwidth.  The rounded bandwidth is the least *)
(* that covers the budget asked for; everything follows from that.         *)
(***************************************************************************)
EXTENDS Roundings, TLAPS

-----------------------------------------------------------------------------
(* Arithmetic. *)

\* Division with remainder.
LEMMA DivisionType ==
    ASSUME NEW a \in Nat, NEW b \in Nat \ {0}
    PROVE  a \div b \in Nat /\ a % b \in 0 .. b - 1
<1>1. a \div b \in Nat
  OBVIOUS
<1>2. a % b \in 0 .. b - 1
  OBVIOUS
<1> QED
  BY <1>1, <1>2

LEMMA Division ==
    ASSUME NEW a \in Nat, NEW b \in Nat \ {0}
    PROVE  a % b = a - b * (a \div b)
OBVIOUS

\* A product of naturals is monotone, and its order can be divided out.
LEMMA Monotone ==
    ASSUME NEW x \in Nat, NEW y \in Nat, NEW b \in Nat
    PROVE  x <= y => x * b <= y * b
OBVIOUS

LEMMA Cancel ==
    ASSUME NEW x \in Nat, NEW y \in Nat, NEW b \in Nat \ {0}
    PROVE  /\ x * b <= y * b => x <= y
           /\ x * b < y * b => x < y
<1>1. y <= x => y * b <= x * b
  OBVIOUS
<1>2. ASSUME y < x PROVE y * b < x * b
  <2>1. y + 1 <= x
    BY <1>2
  <2>2. (y + 1) * b <= x * b
    BY <2>1
  <2>3. (y + 1) * b = y * b + b
    OBVIOUS
  <2> QED
    BY <2>2, <2>3
<1>3. x * b \in Nat /\ y * b \in Nat
  OBVIOUS
<1> QED
  BY <1>1, <1>2, <1>3

\* The least multiple of b that is not below a, as both forms compute it.
LEMMA Ceiling ==
    ASSUME NEW a \in Nat, NEW b \in Nat \ {0}
    PROVE  LET c == IF a % b = 0 THEN a \div b ELSE a \div b + 1
           IN  /\ c \in Nat
               /\ a <= c * b
               /\ \A k \in Nat : a <= k * b => c <= k
               /\ (a + b - 1) \div b = c
<1> DEFINE q == a \div b
           r == a % b
           c == IF r = 0 THEN q ELSE q + 1
<1>1. q \in Nat /\ r \in 0 .. b - 1 /\ a = b * q + r
  <2>1. q \in Nat /\ r \in 0 .. b - 1
    BY DivisionType
  <2>2. r = a - b * q
    BY Division
  <2> HIDE DEF q, r
  <2> QED
    BY <2>1, <2>2
<1> HIDE DEF q, r
<1>2. b * q = q * b /\ q * b \in Nat /\ (q + 1) * b = q * b + b
  BY <1>1
<1>3. c \in Nat
  BY <1>1
<1>4. a <= c * b
  BY <1>1, <1>2
<1>5. ASSUME NEW k \in Nat, a <= k * b
      PROVE  c <= k
  <2>1. k * b \in Nat
    OBVIOUS
  <2>2. CASE r = 0
    <3>1. q * b <= k * b
      BY <1>1, <1>2, <1>5, <2>2
    <3> QED
      BY <1>1, <2>2, <3>1, Cancel
  <2>3. CASE r # 0
    <3>1. q * b < k * b
      BY <1>1, <1>2, <1>5, <2>1, <2>3
    <3>2. q < k
      BY <1>1, <3>1, Cancel
    <3> QED
      BY <1>1, <2>3, <3>2
  <2> QED
    BY <2>2, <2>3
<1>6. (a + b - 1) \div b = c
  <2> DEFINE d == (a + b - 1) \div b
             e == (a + b - 1) % b
  <2>1. d \in Nat /\ e \in 0 .. b - 1 /\ a + b - 1 = b * d + e
    <3>1. a + b - 1 \in Nat
      OBVIOUS
    <3>2. d \in Nat /\ e \in 0 .. b - 1
      BY <3>1, DivisionType
    <3>3. e = (a + b - 1) - b * d
      BY <3>1, Division
    <3> HIDE DEF d, e
    <3> QED
      BY <3>1, <3>2, <3>3
  <2> HIDE DEF d, e
  <2>2. b * d = d * b /\ d * b \in Nat /\ (d + 1) * b = d * b + b /\ c * b \in Nat
    BY <1>3, <2>1
  <2>3. a <= d * b
    BY <2>1, <2>2
  <2>4. c <= d
    BY <1>5, <2>1, <2>3
  <2>5. d * b < (c + 1) * b
    <3>1. d * b <= a + b - 1
      BY <2>1, <2>2
    <3>2. (c + 1) * b = c * b + b
      BY <1>3
    <3> QED
      BY <1>4, <2>2, <3>1, <3>2
  <2>6. d < c + 1
    BY <1>3, <2>1, <2>5, Cancel
  <2>7. d = c
    BY <1>3, <2>1, <2>4, <2>6
  <2> QED
    BY <2>7 DEF d
<1> QED
  BY <1>3, <1>4, <1>5, <1>6 DEF q, r

\* A bandwidth rounded up is the least that covers the budget; it is at most 1.
LEMMA CeilingOfBudget ==
    ASSUME NEW p \in Nat \ {0}, NEW q \in 0 .. p
    PROVE  /\ r2bw_ceil(q, p) \in 0 .. MAX_BW
           /\ q * MAX_BW <= r2bw_ceil(q, p) * p
           /\ \A k \in Nat : q * MAX_BW <= k * p => r2bw_ceil(q, p) <= k
           /\ ul_shl_ceil(q, MAX_BW, p) = ul_shl_ceil_other(q, MAX_BW, p)
<1> DEFINE a == q * MAX_BW
           c == IF a % p = 0 THEN a \div p ELSE a \div p + 1
<1>1. q \in Nat /\ MAX_BW \in Nat /\ a \in Nat
  BY BandwidthAssumption
<1>2. /\ c \in Nat
      /\ a <= c * p
      /\ \A k \in Nat : a <= k * p => c <= k
      /\ (a + p - 1) \div p = c
  BY <1>1, Ceiling
<1>3. a <= MAX_BW * p
  <2>1. q * MAX_BW <= p * MAX_BW
    BY <1>1, Monotone
  <2> QED
    BY <1>1, <2>1
<1>4. c \in 0 .. MAX_BW
  BY <1>1, <1>2, <1>3
<1>5. r2bw_ceil(q, p) = c
  <2>1. c % WORD = c
    BY <1>4, BandwidthAssumption
  <2>2. CASE a % p = 0
    BY <2>2 DEF r2bw_ceil, ul_shl_ceil, ul_shl_div
  <2>3. CASE a % p # 0
    BY <2>1, <2>3 DEF r2bw_ceil, ul_shl_ceil, ul_shl_div, Wrap
  <2> QED
    BY <2>2, <2>3
<1> HIDE DEF c
<1>6. ul_shl_ceil_other(q, MAX_BW, p) = c
  BY <1>2 DEF ul_shl_ceil_other
<1> QED
  BY <1>2, <1>4, <1>5, <1>6 DEF r2bw_ceil

-----------------------------------------------------------------------------
(* Budgets. *)

\* A rounded budget covers what was asked for, fits the period, and is covered
\* by the bandwidth it was computed from.
LEMMA RoundBudgetBounds ==
    ASSUME NEW p \in Nat \ {0}, p < WORD, NEW q \in 0 .. p
    PROVE  /\ RoundBudget(q, p) \in q .. p
           /\ RoundBudget(q, p) * MAX_BW <= r2bw_ceil(q, p) * p
<1> DEFINE c == r2bw_ceil(q, p)
           b == (c * p) \div MAX_BW
           r == (c * p) % MAX_BW
<1>1. c \in 0 .. MAX_BW /\ q * MAX_BW <= c * p
  BY CeilingOfBudget
<1> HIDE DEF c
<1>2. /\ MAX_BW \in Nat \ {0} /\ p \in Nat /\ q \in Nat
      /\ c \in Nat /\ c * p \in Nat
  BY <1>1, BandwidthAssumption
<1>3. b \in Nat /\ r \in 0 .. MAX_BW - 1 /\ c * p = MAX_BW * b + r
  <2>1. b \in Nat /\ r \in 0 .. MAX_BW - 1
    BY <1>2, DivisionType
  <2>2. r = c * p - MAX_BW * b
    BY <1>2, Division
  <2> HIDE DEF b, r
  <2> QED
    BY <1>2, <2>1, <2>2
<1> HIDE DEF b, r
<1>4. MAX_BW * b = b * MAX_BW /\ b * MAX_BW \in Nat /\ (b + 1) * MAX_BW = b * MAX_BW + MAX_BW
  BY <1>2, <1>3
<1>5. b * MAX_BW <= c * p
  BY <1>3, <1>4
<1>6. q <= b
  <2>1. q * MAX_BW < (b + 1) * MAX_BW
    BY <1>1, <1>2, <1>3, <1>4
  <2>2. q < b + 1
    BY <1>2, <1>3, <2>1, Cancel
  <2> QED
    BY <1>2, <1>3, <2>2
<1>7. b <= p
  <2>1. c * p <= MAX_BW * p
    BY <1>1, <1>2, Monotone
  <2>2. MAX_BW * p = p * MAX_BW /\ p * MAX_BW \in Nat
    BY <1>2
  <2>3. b * MAX_BW <= p * MAX_BW
    BY <1>2, <1>4, <1>5, <2>1, <2>2
  <2> QED
    BY <1>2, <1>3, <2>3, Cancel
<1>8. RoundBudget(q, p) = b
  <2>1. b % WORD = b
    BY <1>2, <1>3, <1>7, BandwidthAssumption
  <2> QED
    BY <2>1 DEF RoundBudget, bw2Q, ul_mul_shr, Wrap, b, c
<1> QED
  BY <1>2, <1>3, <1>5, <1>6, <1>7, <1>8 DEF c

\* Rounding a rounded budget gives the same bandwidth, hence the same budget.
LEMMA RoundBudgetStable ==
    ASSUME NEW p \in Nat \ {0}, p < WORD, NEW q \in 0 .. p
    PROVE  /\ r2bw_ceil(RoundBudget(q, p), p) = r2bw_ceil(q, p)
           /\ RoundBudget(RoundBudget(q, p), p) = RoundBudget(q, p)
<1> DEFINE b == RoundBudget(q, p)
           c == r2bw_ceil(q, p)
           d == r2bw_ceil(b, p)
<1>1. b \in q .. p /\ b * MAX_BW <= c * p
  BY RoundBudgetBounds
<1>2. b \in 0 .. p /\ b \in Nat /\ q \in Nat /\ MAX_BW \in Nat
  BY <1>1, BandwidthAssumption
<1>3. c \in 0 .. MAX_BW /\ \A k \in Nat : q * MAX_BW <= k * p => c <= k
  BY CeilingOfBudget
<1>4. /\ d \in 0 .. MAX_BW /\ b * MAX_BW <= d * p
      /\ \A k \in Nat : b * MAX_BW <= k * p => d <= k
  BY <1>2, CeilingOfBudget
<1> HIDE DEF b, c, d
<1>5. c \in Nat /\ d \in Nat /\ d * p \in Nat /\ b * MAX_BW \in Nat /\ q * MAX_BW \in Nat
  BY <1>2, <1>3, <1>4
<1>6. d <= c
  BY <1>1, <1>4, <1>5
<1>7. q * MAX_BW <= b * MAX_BW
  BY <1>1, <1>2, Monotone
<1>8. q * MAX_BW <= d * p
  BY <1>4, <1>5, <1>7
<1>9. c <= d
  BY <1>3, <1>5, <1>8
<1>10. d = c
  BY <1>5, <1>6, <1>9
<1>11. bw2Q(d, p) = bw2Q(c, p)
  BY <1>10
<1> QED
  BY <1>10, <1>11 DEF RoundBudget, b, c, d

-----------------------------------------------------------------------------
(* The parameters of a server. *)

RoundingInv ==
    /\ P \in Periods
    /\ sent \in Budgets(P)
    /\ params = Rounded(sent, P)
    /\ gua_bw = GuaranteeOf(sent, P)
    /\ req_bw = RequestOf(sent, P)

\* Periods and budgets are naturals the lemmas apply to.
LEMMA PeriodFacts ==
    ASSUME NEW p \in Periods, NEW ask \in Budgets(p)
    PROVE  /\ p \in Nat \ {0} /\ p < WORD
           /\ ask.Q \in 0 .. p /\ ask.Q_min \in 0 .. p
BY RoundingsAssumption DEF Budgets

\* What is recorded may be sent, and is recorded as it is.
LEMMA ResendFacts ==
    ASSUME NEW p \in Periods, NEW ask \in Budgets(p)
    PROVE  /\ Rounded(ask, p) \in Budgets(p)
           /\ Rounded(Rounded(ask, p), p) = Rounded(ask, p)
<1> DEFINE got == Rounded(ask, p)
<1>1. /\ p \in Nat \ {0} /\ p < WORD
      /\ ask.Q \in 0 .. p /\ ask.Q_min \in 0 .. p
  BY PeriodFacts
<1>2. got.Q = RoundBudget(ask.Q, p) /\ got.Q_min = RoundBudget(ask.Q_min, p)
  BY DEF Rounded
<1>3. got.Q \in 0 .. p /\ got.Q_min \in 0 .. p
  BY <1>1, <1>2, RoundBudgetBounds
<1>4. Rounded(got, p) = got
  <2>1. RoundBudget(got.Q, p) = got.Q /\ RoundBudget(got.Q_min, p) = got.Q_min
    BY <1>1, <1>2, RoundBudgetStable
  <2> QED
    BY <2>1 DEF Rounded
<1>5. got \in [Q : 0 .. p, Q_min : 0 .. p]
  BY <1>3 DEF Rounded
<1>6. GuaranteeOf(got, p) <= U_LUB
  BY <1>4 DEF Budgets, GuaranteeOf
<1> QED
  BY <1>4, <1>5, <1>6 DEF Budgets

\* The guarantee and the request are always those of the last request, although
\* the guarantee is computed anew only when the rounded minimum has changed.
LEMMA SetParamsInv ==
    ASSUME RoundingInv, NEW ask \in Budgets(P), SetParams(ask)
    PROVE  RoundingInv'
<1>1. params'.Q_min = Rounded(ask, P).Q_min /\ params.Q_min = Rounded(sent, P).Q_min
  BY DEF SetParams, RoundingInv
<1>2. gua_bw' = GuaranteeOf(ask, P)
  BY <1>1 DEF SetParams, RoundingInv, GuaranteeOf
<1> QED
  BY <1>2 DEF SetParams, RoundingInv

LEMMA RoundingInit == Init => RoundingInv
  BY DEF Init, RoundingInv

LEMMA RoundingNext == RoundingInv /\ [Next]_vars => RoundingInv'
<1> SUFFICES ASSUME RoundingInv, [Next]_vars PROVE RoundingInv'
  OBVIOUS
<1>1. sent \in Budgets(P) /\ params \in Budgets(P)
  BY ResendFacts DEF RoundingInv
<1>2. CASE Next
  BY <1>1, <1>2, SetParamsInv DEF Next, Request, Repeat, Resend
<1>3. CASE UNCHANGED vars
  BY <1>3 DEF vars, RoundingInv
<1> QED
  BY <1>2, <1>3

\* The recorded budgets are at least what the client asked for, and still fit
\* the period: qres_get_params never returns less than was set.
THEOREM RoundedUpCorrect == Spec => []RoundedUp
<1>1. RoundingInv => RoundedUp
  BY PeriodFacts, RoundBudgetBounds DEF RoundingInv, RoundedUp, Rounded
<1> QED
  BY <1>1, RoundingInit, RoundingNext, PTL DEF Spec

\* The i386 module and the one for other architectures round alike.
THEOREM CeilingsCorrect == Spec => []CeilingsAgree
<1>1. ASSUME RoundingInv PROVE CeilingsAgree
  <2>1. sent \in Budgets(P) /\ params \in Budgets(P) /\ P \in Periods
    BY <1>1, ResendFacts DEF RoundingInv
  <2> QED
    BY <2>1, PeriodFacts, CeilingOfBudget DEF CeilingsAgree
<1> QED
  BY <1>1, RoundingInit, RoundingNext, PTL DEF Spec

\* Setting again what was asked for, or what was read back, is idle: a server
\* is not taken out of the supervisor and admitted anew for it.
THEOREM ResendCorrect == Spec => ResendIsIdle
<1>1. ASSUME RoundingInv, Repeat \/ Resend
      PROVE  UNCHANGED <<params, gua_bw, req_bw>>
  <2>1. sent \in Budgets(P) /\ P \in Periods
    BY <1>1 DEF RoundingInv
  <2>2. Rounded(params, P) = params /\ Rounded(sent, P) = params
    BY <1>1, <2>1, ResendFacts DEF RoundingInv
  <2>3. PICK ask \in {sent, params} : SetParams(ask)
    BY <1>1 DEF Repeat, Resend
  <2>4. Rounded(ask, P) = params
    BY <2>2
  <2>5. params' = params
    BY <2>3, <2>4 DEF SetParams
  <2>6. gua_bw' = gua_bw
    BY <2>3, <2>5 DEF SetParams
  <2>7. req_bw' = req_bw
    <3>1. req_bw' = RequestOf(ask, P)
      BY <2>3 DEF SetParams
    <3>2. RequestOf(ask, P) = RequestOf(sent, P)
      BY <2>2, <2>4 DEF RequestOf
    <3> QED
      BY <1>1, <3>1, <3>2 DEF RoundingInv
  <2> QED
    BY <2>5, <2>6, <2>7
<1>2. RoundingInv => [Repeat \/ Resend => UNCHANGED <<params, gua_bw, req_bw>>]_vars
  BY <1>1
<1> QED
  BY <1>2, RoundingInit, RoundingNext, PTL DEF Spec, ResendIsIdle

-----------------------------------------------------------------------------
(* Budgets above the period, and what rounding costs. *)

\* The rounded bandwidth as the least that covers the budget, wherever it fits a
\* word.
LEMMA CeilingInWord ==
    ASSUME NEW p \in Nat \ {0}, NEW q \in Nat
    PROVE  \E c \in Nat :
              /\ q * MAX_BW <= c * p
              /\ \A k \in Nat : q * MAX_BW <= k * p => c <= k
              /\ c < WORD => r2bw_ceil(q, p) = c
              /\ c <= (q * MAX_BW) \div p + 1
              /\ q * MAX_BW = c * p => (q * MAX_BW) \div p = c
<1> DEFINE a == q * MAX_BW
           d == a \div p
           c == IF a % p = 0 THEN d ELSE d + 1
<1>1. a \in Nat
  BY BandwidthAssumption
<1>2. c \in Nat /\ a <= c * p /\ \A k \in Nat : a <= k * p => c <= k
  BY <1>1, Ceiling
<1>3. d \in Nat
  BY <1>1, DivisionType
<1>4. c < WORD => r2bw_ceil(q, p) = c
  <2>1. c < WORD => c % WORD = c
    BY <1>2, BandwidthAssumption
  <2>2. CASE a % p = 0
    BY <2>2 DEF r2bw_ceil, ul_shl_ceil, ul_shl_div
  <2>3. CASE a % p # 0
    BY <2>1, <2>3 DEF r2bw_ceil, ul_shl_ceil, ul_shl_div, Wrap
  <2> QED
    BY <2>2, <2>3
<1>5. a = c * p => d = c
  <2>1. SUFFICES ASSUME a = c * p PROVE a % p = 0
    OBVIOUS
  <2>2. a % p = a - p * d /\ a % p \in 0 .. p - 1
    BY <1>1, Division, DivisionType
  <2>3. CASE a % p # 0
    <3> HIDE DEF a, d
    <3>1. c = d + 1
      BY <2>3
    <3>2. (d + 1) * p = d * p + p /\ p * d = d * p /\ d * p \in Nat
      BY <1>3
    <3> QED
      BY <1>1, <2>1, <2>2, <3>1, <3>2
  <2> QED
    BY <2>3
<1>6. c <= d + 1
  BY <1>3
<1> HIDE DEF a, c, d
<1> QED
  BY <1>2, <1>4, <1>5, <1>6 DEF a, d

\* What the supervisor hands out is at most the processor.
LEMMA BoundInProcessor == U_LUB \in 0 .. MAX_BW
<1> DEFINE a == RRES_U_LUB * MAX_BW
           u == a \div 100
           r == a % 100
<1>1. MAX_BW \in Nat /\ RRES_U_LUB \in 0 .. 100
  BY BandwidthAssumption
<1>2. a \in Nat /\ a <= 100 * MAX_BW
  <2>1. RRES_U_LUB * MAX_BW <= 100 * MAX_BW
    BY <1>1, Monotone
  <2> QED
    BY <1>1, <2>1
<1>3. u \in Nat /\ r \in 0 .. 99 /\ r = a - 100 * u
  <2>1. 100 \in Nat \ {0}
    OBVIOUS
  <2> HIDE DEF a
  <2>2. u \in Nat /\ r \in 0 .. 100 - 1
    BY <1>2, <2>1, DivisionType
  <2>3. r = a - 100 * u
    BY <1>2, <2>1, Division
  <2> QED
    BY <2>2, <2>3
<1> HIDE DEF a, u, r
<1>4. u <= MAX_BW
  BY <1>1, <1>2, <1>3
<1> QED
  BY <1>3, <1>4 DEF U_LUB, r2bw, ul_shl_div, a, u

\* A budget between the period and half of a word is not rounded to less: its
\* bandwidth is above that of the whole processor.
LEMMA AbovePeriod ==
    ASSUME NEW p \in Periods, NEW q \in p + 1 .. (WORD \div 2) - 1,
           ~DivideFaults(q, MAX_BW, p)
    PROVE  /\ r2bw_ceil(RoundBudget(q, p), p) > MAX_BW
           /\ r2bw_ceil(RoundBudget(q, p), p) \in Nat
<1>1. p \in Nat \ {0} /\ p < WORD /\ WORD \in Nat \ {0} /\ MAX_BW \in Nat \ {0}
  BY RoundingsAssumption, BandwidthAssumption
<1>2. q \in Nat /\ p < q /\ 2 * q < WORD
  BY <1>1
<1>3. (q * MAX_BW) \div p \in Nat /\ (q * MAX_BW) \div p < WORD
  <2>0. q * MAX_BW \in Nat
    BY <1>1, <1>2
  <2>1. (q * MAX_BW) \div p \in Nat
    BY <1>1, <2>0, DivisionType
  <2> QED
    BY <1>1, <2>1 DEF DivideFaults, ul_shl_div
<1>4. PICK c \in Nat :
              /\ q * MAX_BW <= c * p
              /\ \A k \in Nat : q * MAX_BW <= k * p => c <= k
              /\ c < WORD => r2bw_ceil(q, p) = c
              /\ c <= (q * MAX_BW) \div p + 1
              /\ q * MAX_BW = c * p => (q * MAX_BW) \div p = c
  BY <1>1, <1>2, CeilingInWord
<1> DEFINE a == q * MAX_BW
<1>5. a \in Nat /\ c * p \in Nat
  BY <1>1, <1>2
<1>6. c # 0 /\ (c - 1) * p < a /\ (c - 1) * p = c * p - p
  <2>1. c # 0
    <3>1. 1 * 1 <= q * MAX_BW
      BY <1>1, <1>2
    <3> QED
      BY <1>1, <1>4, <3>1
  <2>2. c - 1 \in Nat
    BY <2>1
  <2>3. ~ (a <= (c - 1) * p)
    BY <1>4, <2>2
  <2>4. (c - 1) * p = c * p - p
    BY <1>1
  <2> QED
    BY <1>1, <1>5, <2>1, <2>3, <2>4
<1>7. c < WORD
  <2>1. c <= WORD
    BY <1>1, <1>3, <1>4
  <2>2. SUFFICES ASSUME c = WORD PROVE FALSE
    BY <1>1, <2>1
  <2>3. a # c * p
    BY <1>3, <1>4, <2>2, <1>1
  <2> DEFINE k == WORD \div MAX_BW
  <2>4. k \in Nat /\ c = MAX_BW * k
    <3>1. WORD % MAX_BW = WORD - MAX_BW * k /\ k \in Nat
      BY <1>1, Division, DivisionType
    <3>2. MAX_BW * k \in Nat
      BY <1>1, <3>1
    <3> HIDE DEF k
    <3> QED
      BY <1>1, <2>2, <3>1, <3>2, RoundingsAssumption
  <2> HIDE DEF k
  <2>5. c * p = (k * p) * MAX_BW /\ k * p \in Nat
    BY <1>1, <2>4
  <2>6. q + 1 <= k * p
    <3>1. q * MAX_BW < (k * p) * MAX_BW
      BY <1>4, <1>5, <2>3, <2>5
    <3>2. q < k * p
      BY <1>1, <1>2, <2>5, <3>1, Cancel
    <3> QED
      BY <1>2, <2>5, <3>2
  <2>7. a + MAX_BW <= c * p
    <3>1. (q + 1) * MAX_BW <= (k * p) * MAX_BW
      BY <1>1, <1>2, <2>5, <2>6, Monotone
    <3>2. (q + 1) * MAX_BW = q * MAX_BW + MAX_BW
      BY <1>1, <1>2
    <3> QED
      BY <2>5, <3>1, <3>2
  <2>8. MAX_BW < p
    BY <1>1, <1>5, <1>6, <2>7
  <2>9. (c - 1) * MAX_BW <= (c - 1) * p
    <3>1. MAX_BW * (c - 1) <= p * (c - 1)
      BY <1>1, <1>6, <2>8, Monotone
    <3> QED
      BY <1>1, <3>1
  <2>10. c - 1 < q
    <3>1. (c - 1) * MAX_BW < q * MAX_BW
      BY <1>1, <1>5, <1>6, <2>9
    <3> QED
      BY <1>1, <1>2, <1>6, <3>1, Cancel
  <2> QED
    BY <1>1, <1>2, <2>2, <2>10
<1> DEFINE b == (c * p) \div MAX_BW
           r == (c * p) % MAX_BW
<1>8. b \in Nat /\ r \in 0 .. MAX_BW - 1 /\ r = c * p - MAX_BW * b
  BY <1>1, <1>5, DivisionType, Division
<1> HIDE DEF b, r
<1>9. MAX_BW * b = b * MAX_BW /\ b * MAX_BW \in Nat /\ (b + 1) * MAX_BW = b * MAX_BW + MAX_BW
  BY <1>1, <1>8
<1>10. q <= b
  <2>1. q * MAX_BW < (b + 1) * MAX_BW
    BY <1>1, <1>4, <1>5, <1>8, <1>9
  <2>2. q < b + 1
    BY <1>1, <1>2, <1>8, <2>1, Cancel
  <2> QED
    BY <1>2, <1>8, <2>2
<1>11. b < WORD
  <2>1. b * MAX_BW < a + p
    BY <1>1, <1>5, <1>6, <1>8, <1>9
  <2>2. p <= p * MAX_BW
    <3>1. 1 * p <= MAX_BW * p
      BY <1>1, Monotone
    <3> QED
      BY <1>1, <3>1
  <2>3. (q + p) * MAX_BW = q * MAX_BW + p * MAX_BW
    BY <1>1, <1>2
  <2>4. b * MAX_BW < (q + p) * MAX_BW
    BY <1>1, <1>2, <1>5, <1>9, <2>1, <2>2, <2>3
  <2>5. b < q + p
    BY <1>1, <1>2, <1>8, <2>4, Cancel
  <2> QED
    BY <1>1, <1>2, <1>8, <2>5
<1>12. RoundBudget(q, p) = b
  <2>1. r2bw_ceil(q, p) = c
    BY <1>4, <1>7
  <2>2. b % WORD = b
    BY <1>1, <1>8, <1>11
  <2> QED
    BY <2>1, <2>2 DEF RoundBudget, bw2Q, ul_mul_shr, Wrap, b
<1>13. PICK d \in Nat :
              /\ b * MAX_BW <= d * p
              /\ \A k \in Nat : b * MAX_BW <= k * p => d <= k
              /\ d < WORD => r2bw_ceil(b, p) = d
  BY <1>1, <1>8, CeilingInWord
<1>14. b * MAX_BW <= c * p
  BY <1>1, <1>5, <1>8, <1>9
<1>15. r2bw_ceil(b, p) = d
  <2>1. d <= c
    BY <1>13, <1>14
  <2> QED
    BY <1>1, <1>7, <1>13, <2>1
<1>16. d > MAX_BW
  <2>1. SUFFICES ASSUME d <= MAX_BW PROVE FALSE
    BY <1>1
  <2>2. d * p <= MAX_BW * p
    BY <1>1, <2>1, Monotone
  <2>3. MAX_BW * p = p * MAX_BW /\ d * p \in Nat /\ p * MAX_BW \in Nat
    BY <1>1
  <2>4. b * MAX_BW <= p * MAX_BW
    BY <1>9, <1>13, <2>2, <2>3
  <2>5. b <= p
    BY <1>1, <1>8, <2>4, Cancel
  <2> QED
    BY <1>1, <1>2, <1>8, <1>10, <2>5
<1> QED
  BY <1>12, <1>15, <1>16

\* Rounding a budget costs the request at most one unit of bandwidth, and the
\* guarantee nothing (qres.c:281, qres.c:305).
THEOREM RoundingLossCorrect == Spec => []RoundingLoss
<1>1. ASSUME RoundingInv PROVE RoundingLoss
  <2> DEFINE q == sent.Q
             b == RoundBudget(q, P)
             c == r2bw_ceil(q, P)
             f == (b * MAX_BW) \div P
             r == (b * MAX_BW) % P
  <2>1. /\ P \in Nat \ {0} /\ P < WORD
        /\ q \in 0 .. P /\ sent.Q_min \in 0 .. P
    BY <1>1, PeriodFacts DEF RoundingInv
  <2>2. gua_bw = r2bw_ceil(sent.Q_min, P)
    BY <1>1, <2>1, RoundBudgetStable DEF RoundingInv, GuaranteeOf, Rounded
  <2>3. req_bw = bw_min(f, U_LUB)
    BY <1>1 DEF RoundingInv, RequestOf, Rounded, r2bw, ul_shl_div
  <2>4. /\ c \in 0 .. MAX_BW
        /\ \A k \in Nat : q * MAX_BW <= k * P => c <= k
    BY <2>1, CeilingOfBudget
  <2>5. b \in q .. P
    BY <2>1, RoundBudgetBounds
  <2> HIDE DEF b, c
  <2>6. MAX_BW \in Nat /\ q \in Nat /\ b \in Nat /\ b * MAX_BW \in Nat
    BY <2>1, <2>5, BandwidthAssumption
  <2>7. f \in Nat /\ r \in 0 .. P - 1 /\ r = b * MAX_BW - P * f
    BY <2>1, <2>6, DivisionType, Division
  <2> HIDE DEF f, r
  <2>8. (f + 1) * P = P * f + P /\ P * f \in Nat
    BY <2>1, <2>7
  <2>9. q * MAX_BW <= (f + 1) * P
    <3>1. q * MAX_BW <= b * MAX_BW
      BY <2>5, <2>6, Monotone
    <3>2. q * MAX_BW \in Nat
      BY <2>6
    <3> QED
      BY <2>1, <2>6, <2>7, <2>8, <3>1, <3>2
  <2>10. c <= f + 1
    BY <2>4, <2>7, <2>9
  <2>11. req_bw >= bw_min(c, U_LUB) - 1
    BY <2>3, <2>4, <2>6, <2>7, <2>10, BoundInProcessor DEF bw_min
  <2> QED
    BY <2>2, <2>11 DEF RoundingLoss, c
<1> QED
  BY <1>1, RoundingInit, RoundingNext, PTL DEF Spec

\* Nothing compares a guarantee with the period (qres.c:281), and none above it
\* is admitted: neither multiplication nor ceiling wraps on the way.
THEOREM AbovePeriodCorrect == Spec => []AbovePeriodRefused
<1>1. ASSUME RoundingInv PROVE AbovePeriodRefused
  <2>1. SUFFICES ASSUME NEW q \in P + 1 .. (WORD \div 2) - 1, ~DivideFaults(q, MAX_BW, P)
                 PROVE  GuaranteeOf([Q |-> 0, Q_min |-> q], P) > U_LUB
    BY DEF AbovePeriodRefused
  <2> DEFINE w == r2bw_ceil(RoundBudget(q, P), P)
  <2>2. P \in Periods
    BY <1>1 DEF RoundingInv
  <2>3. w > MAX_BW /\ w \in Nat
    BY <2>1, <2>2, AbovePeriod
  <2>4. GuaranteeOf([Q |-> 0, Q_min |-> q], P) = w
    BY DEF GuaranteeOf, Rounded
  <2> HIDE DEF w
  <2> QED
    BY <2>3, <2>4, BoundInProcessor, BandwidthAssumption
<1> QED
  BY <1>1, RoundingInit, RoundingNext, PTL DEF Spec
=============================================================================
