----------------------------- MODULE Qsup_proofs -----------------------------
(***************************************************************************)
(* Theorems about the supervisor, for every number of servers and users,   *)
(* every set of rules and every word size: under Spec, and under an        *)
(* administrator who keeps to WellConfigured (SpecWell).                   *)
(***************************************************************************)
EXTENDS Qsup, WellFoundedInduction, TLAPS

-----------------------------------------------------------------------------
(* Sums.  The facts rest on the least-number principle: an induction is    *)
(* carried out as the claim that a set of naturals has no least            *)
(* counterexample.                                                         *)

\* Every nonempty set of naturals has a least element.
LEMMA LeastNat ==
    ASSUME NEW T, T \subseteq Nat, T # {}
    PROVE  \E x \in T : \A y \in T : x <= y
<1> DEFINE R == {ss \in Nat \X Nat : ss[1] < ss[2]}
<1>1. IsWellFoundedOn(R, Nat)
  BY NatLessThanWellFounded DEF OpToRel
<1> HIDE DEF R
<1>2. PICK x \in T : \A y \in T : ~ (<<y, x>> \in R)
  BY <1>1, WFMin
<1>3. \A y \in T : x <= y
  <2> TAKE y \in T
  <2>1. x \in Nat /\ y \in Nat
    OBVIOUS
  <2>2. <<y, x>> \in Nat \X Nat
    BY <2>1
  <2>3. ~ (<<y, x>>[1] < <<y, x>>[2])
    BY <1>2, <2>2 DEF R
  <2> QED
    BY <2>1, <2>3
<1> QED
  BY <1>3

\* Induction over the naturals, for a set rather than for a predicate.
LEMMA SetInduction ==
    ASSUME NEW S, 0 \in S, \A n \in Nat : n \in S => n + 1 \in S
    PROVE  \A n \in Nat : n \in S
<1> SUFFICES ASSUME Nat \ S # {}
             PROVE  FALSE
  OBVIOUS
<1> DEFINE T == Nat \ S
<1>1. PICK x \in T : \A y \in T : x <= y
  BY LeastNat
<1>2. x \in Nat /\ x # 0
  OBVIOUS
<1>3. x - 1 \in Nat /\ x - 1 \notin T
  BY <1>1, <1>2
<1>4. (x - 1) + 1 \in S
  BY <1>3
<1> QED
  BY <1>2, <1>4

\* The recursive definition of the running sums is satisfied.
LEMMA PartialSumsDef ==
    ASSUME NEW f, NEW n \in Nat
    PROVE  PartialSums(f, n) =
             [i \in 0 .. n |-> IF i = 0 THEN 0
                               ELSE PartialSums(f, n)[i - 1] + f[i]]
<1> DEFINE IsAcc(g, m) ==
             g = [i \in 0 .. m |-> IF i = 0 THEN 0 ELSE g[i - 1] + f[i]]
           S == {m \in Nat : \E g : IsAcc(g, m)}
<1>1. 0 \in S
  <2> DEFINE g == [i \in 0 .. 0 |-> 0]
  <2>1. IsAcc(g, 0)
    OBVIOUS
  <2> QED
    BY <2>1
<1>2. ASSUME NEW m \in Nat, m \in S
      PROVE  m + 1 \in S
  <2>1. PICK g : IsAcc(g, m)
    BY <1>2
  <2> DEFINE h == [i \in 0 .. (m + 1) |->
                     IF i = m + 1 THEN g[m] + f[m + 1] ELSE g[i]]
  <2>2. \A i \in 0 .. m : h[i] = g[i]
    OBVIOUS
  <2>3. \A i \in 0 .. (m + 1) :
           h[i] = IF i = 0 THEN 0 ELSE h[i - 1] + f[i]
    <3> TAKE i \in 0 .. (m + 1)
    <3>1. CASE i = m + 1
      BY <3>1, <2>2
    <3>2. CASE i \in 0 .. m /\ i # 0
      <4>1. i - 1 \in 0 .. m /\ i \in 0 .. m
        BY <3>2
      <4>2. g[i] = g[i - 1] + f[i]
        BY <2>1, <3>2
      <4> HIDE DEF h
      <4> QED
        BY <4>1, <4>2, <2>2, <3>2
    <3>3. CASE i = 0
      BY <3>3, <2>1, <2>2
    <3> QED
      BY <3>1, <3>2, <3>3
  <2>4. h = [i \in 0 .. (m + 1) |-> h[i]]
    OBVIOUS
  <2> HIDE DEF h
  <2>5. IsAcc(h, m + 1)
    BY <2>3, <2>4
  <2> QED
    BY <2>5
<1> HIDE DEF S
<1>3. n \in S
  BY <1>1, <1>2, SetInduction
<1>4. PICK g : IsAcc(g, n)
  BY <1>3 DEF S
<1>5. PartialSums(f, n) = CHOOSE h : IsAcc(h, n)
  BY DEF PartialSums
<1> QED
  BY <1>4, <1>5

\* The running sums, one step at a time.
LEMMA PartialSumsStep ==
    ASSUME NEW n \in Nat, NEW f \in [1 .. n -> Int]
    PROVE  /\ PartialSums(f, n)[0] = 0
           /\ \A i \in 1 .. n :
                PartialSums(f, n)[i] = PartialSums(f, n)[i - 1] + f[i]
<1> DEFINE acc == PartialSums(f, n)
<1>1. acc = [i \in 0 .. n |-> IF i = 0 THEN 0 ELSE acc[i - 1] + f[i]]
  BY PartialSumsDef
<1> HIDE DEF acc
<1>2. acc[0] = 0
  BY <1>1
<1>3. \A i \in 1 .. n : acc[i] = acc[i - 1] + f[i]
  BY <1>1
<1> QED
  BY <1>2, <1>3 DEF acc

\* The running sums of integers are integers.
LEMMA PartialSumsType ==
    ASSUME NEW n \in Nat, NEW f \in [1 .. n -> Int]
    PROVE  \A i \in 0 .. n : PartialSums(f, n)[i] \in Int
<1> DEFINE acc == PartialSums(f, n)
           S == {i \in Nat : i \in 0 .. n => acc[i] \in Int}
<1>1. 0 \in S
  BY PartialSumsStep
<1>2. ASSUME NEW i \in Nat, i \in S
      PROVE  i + 1 \in S
  <2> SUFFICES ASSUME i + 1 \in 0 .. n
               PROVE  acc[i + 1] \in Int
    OBVIOUS
  <2>1. acc[i + 1] = acc[(i + 1) - 1] + f[i + 1]
    <3>1. i + 1 \in 1 .. n
      OBVIOUS
    <3> QED
      BY <3>1, PartialSumsStep
  <2>2. i \in 0 .. n /\ acc[i] \in Int
    BY <1>2
  <2> QED
    BY <2>1, <2>2
<1> HIDE DEF S
<1>3. \A i \in Nat : i \in S
  BY <1>1, <1>2, SetInduction
<1> QED
  BY <1>3 DEF S

\* A sum of integers is an integer.
LEMMA TotalType ==
    ASSUME NEW n \in Nat, NEW f \in [1 .. n -> Int]
    PROVE  Total(f, n) \in Int
BY PartialSumsType DEF Total

\* Summing commutes with a linear relation between the summands: if each
\* h[i] = f[i] + g[i] then the sum of h is the sum of f plus that of g.
LEMMA TotalAdd ==
    ASSUME NEW n \in Nat,
           NEW f \in [1 .. n -> Int], NEW g \in [1 .. n -> Int],
           NEW h \in [1 .. n -> Int],
           \A i \in 1 .. n : h[i] = f[i] + g[i]
    PROVE  Total(h, n) = Total(f, n) + Total(g, n)
<1> DEFINE F == PartialSums(f, n)
           G == PartialSums(g, n)
           H == PartialSums(h, n)
           S == {i \in Nat : i \in 0 .. n => H[i] = F[i] + G[i]}
<1>1. 0 \in S
  <2>1. F[0] = 0 /\ G[0] = 0 /\ H[0] = 0
    BY PartialSumsStep
  <2> QED
    BY <2>1
<1>2. ASSUME NEW i \in Nat, i \in S
      PROVE  i + 1 \in S
  <2> SUFFICES ASSUME i + 1 \in 0 .. n
               PROVE  H[i + 1] = F[i + 1] + G[i + 1]
    OBVIOUS
  <2>1. i + 1 \in 1 .. n /\ i \in 0 .. n /\ (i + 1) - 1 = i
    OBVIOUS
  <2>2. /\ F[i + 1] = F[i] + f[i + 1]
        /\ G[i + 1] = G[i] + g[i + 1]
        /\ H[i + 1] = H[i] + h[i + 1]
    BY <2>1, PartialSumsStep
  <2>3. F[i] \in Int /\ G[i] \in Int /\ H[i] \in Int
    BY <2>1, PartialSumsType
  <2>4. H[i] = F[i] + G[i]
    BY <1>2, <2>1
  <2>5. h[i + 1] = f[i + 1] + g[i + 1] /\ f[i + 1] \in Int /\ g[i + 1] \in Int
    BY <2>1
  <2> HIDE DEF F, G, H
  <2> QED
    BY <2>2, <2>3, <2>4, <2>5
<1> HIDE DEF S
<1>3. \A i \in Nat : i \in S
  BY <1>1, <1>2, SetInduction
<1>4. n \in S /\ n \in 0 .. n
  BY <1>3
<1> QED
  BY <1>4 DEF S, Total

\* A sum of naturals is a natural.
LEMMA TotalNat ==
    ASSUME NEW n \in Nat, NEW f \in [1 .. n -> Nat]
    PROVE  Total(f, n) \in Nat
<1> DEFINE F == PartialSums(f, n)
           S == {i \in Nat : i \in 0 .. n => F[i] \in Nat}
<1>0. f \in [1 .. n -> Int]
  OBVIOUS
<1>1. 0 \in S
  BY <1>0, PartialSumsStep
<1>2. ASSUME NEW i \in Nat, i \in S
      PROVE  i + 1 \in S
  <2> SUFFICES ASSUME i + 1 \in 0 .. n
               PROVE  F[i + 1] \in Nat
    OBVIOUS
  <2>1. i + 1 \in 1 .. n /\ i \in 0 .. n /\ (i + 1) - 1 = i
    OBVIOUS
  <2>2. F[i + 1] = F[i] + f[i + 1]
    BY <2>1, <1>0, PartialSumsStep
  <2>3. F[i] \in Nat /\ f[i + 1] \in Nat
    BY <1>2, <2>1
  <2> HIDE DEF F
  <2> QED
    BY <2>2, <2>3
<1> HIDE DEF S
<1>3. \A i \in Nat : i \in S
  BY <1>1, <1>2, SetInduction
<1>4. n \in S /\ n \in 0 .. n
  BY <1>3
<1> QED
  BY <1>4 DEF S, Total

\* The sum of zeros is zero.
LEMMA TotalZero ==
    ASSUME NEW n \in Nat, NEW f \in [1 .. n -> Int],
           \A i \in 1 .. n : f[i] = 0
    PROVE  Total(f, n) = 0
<1>1. \A i \in 1 .. n : f[i] = f[i] + f[i]
  OBVIOUS
<1>2. Total(f, n) = Total(f, n) + Total(f, n)
  BY <1>1, TotalAdd
<1> QED
  BY <1>2, TotalType

\* A sum is monotone in its summands.
LEMMA TotalMono ==
    ASSUME NEW n \in Nat,
           NEW f \in [1 .. n -> Int], NEW g \in [1 .. n -> Int],
           \A i \in 1 .. n : f[i] <= g[i]
    PROVE  Total(f, n) <= Total(g, n)
<1> DEFINE d == [i \in 1 .. n |-> g[i] - f[i]]
<1>1. d \in [1 .. n -> Nat] /\ d \in [1 .. n -> Int]
  OBVIOUS
<1>2. \A i \in 1 .. n : g[i] = f[i] + d[i]
  OBVIOUS
<1> HIDE DEF d
<1>3. Total(g, n) = Total(f, n) + Total(d, n)
  BY <1>1, <1>2, TotalAdd
<1>4. Total(d, n) \in Nat
  BY <1>1, TotalNat
<1> QED
  BY <1>3, <1>4, TotalType

\* A function that is zero except at k sums to its value at k.
LEMMA TotalPoint ==
    ASSUME NEW n \in Nat, NEW f \in [1 .. n -> Int], NEW k \in 1 .. n,
           \A i \in 1 .. n : i # k => f[i] = 0
    PROVE  Total(f, n) = f[k]
<1> DEFINE F == PartialSums(f, n)
           S == {i \in Nat : i \in 0 .. n => F[i] = IF i < k THEN 0 ELSE f[k]}
<1>1. 0 \in S
  BY PartialSumsStep
<1>2. ASSUME NEW i \in Nat, i \in S
      PROVE  i + 1 \in S
  <2> SUFFICES ASSUME i + 1 \in 0 .. n
               PROVE  F[i + 1] = IF i + 1 < k THEN 0 ELSE f[k]
    OBVIOUS
  <2>1. i + 1 \in 1 .. n /\ i \in 0 .. n /\ (i + 1) - 1 = i
    OBVIOUS
  <2>2. F[i + 1] = F[i] + f[i + 1]
    BY <2>1, PartialSumsStep
  <2>3. F[i] = IF i < k THEN 0 ELSE f[k]
    BY <1>2, <2>1
  <2>4. f[i + 1] = (IF i + 1 = k THEN f[k] ELSE 0) /\ f[k] \in Int
    BY <2>1
  <2> HIDE DEF F
  <2> QED
    BY <2>2, <2>3, <2>4
<1> HIDE DEF S
<1>3. \A i \in Nat : i \in S
  BY <1>1, <1>2, SetInduction
<1>4. n \in S /\ n \in 0 .. n /\ ~(n < k)
  BY <1>3
<1> QED
  BY <1>4 DEF S, Total

\* Changing one summand changes the sum by the difference.
LEMMA TotalUpdate ==
    ASSUME NEW n \in Nat,
           NEW f \in [1 .. n -> Int], NEW g \in [1 .. n -> Int],
           NEW k \in 1 .. n,
           \A i \in 1 .. n : i # k => g[i] = f[i]
    PROVE  Total(g, n) = Total(f, n) - f[k] + g[k]
<1> DEFINE d == [i \in 1 .. n |-> g[i] - f[i]]
<1>1. d \in [1 .. n -> Int]
  OBVIOUS
<1>2. \A i \in 1 .. n : g[i] = f[i] + d[i]
  OBVIOUS
<1>3. \A i \in 1 .. n : i # k => d[i] = 0
  OBVIOUS
<1>4. d[k] = g[k] - f[k] /\ g[k] \in Int /\ f[k] \in Int
  OBVIOUS
<1> HIDE DEF d
<1>5. Total(g, n) = Total(f, n) + Total(d, n)
  BY <1>1, <1>2, TotalAdd
<1>6. Total(d, n) = d[k]
  BY <1>1, <1>3, TotalPoint
<1> QED
  BY <1>4, <1>5, <1>6, TotalType

\* No summand of a sum of naturals exceeds the sum.
LEMMA TotalGE ==
    ASSUME NEW n \in Nat, NEW f \in [1 .. n -> Nat], NEW k \in 1 .. n
    PROVE  f[k] <= Total(f, n)
<1> DEFINE g == [i \in 1 .. n |-> IF i = k THEN f[k] ELSE 0]
<1>1. g \in [1 .. n -> Int] /\ f \in [1 .. n -> Int]
  OBVIOUS
<1>2. \A i \in 1 .. n : i # k => g[i] = 0
  OBVIOUS
<1>3. g[k] = f[k]
  OBVIOUS
<1>4. \A i \in 1 .. n : g[i] <= f[i]
  OBVIOUS
<1> HIDE DEF g
<1>5. Total(g, n) = f[k]
  BY <1>1, <1>2, <1>3, TotalPoint
<1>6. Total(g, n) <= Total(f, n)
  BY <1>1, <1>4, TotalMono
<1> QED
  BY <1>5, <1>6

\* A sum of n naturals, none above m, is not above n * m.
LEMMA TotalBound ==
    ASSUME NEW n \in Nat, NEW m \in Nat, NEW f \in [1 .. n -> 0 .. m]
    PROVE  Total(f, n) \in 0 .. (n * m)
<1> DEFINE F == PartialSums(f, n)
           S == {i \in Nat : i \in 0 .. n => F[i] \in 0 .. (i * m)}
<1>0. f \in [1 .. n -> Int]
  OBVIOUS
<1>1. 0 \in S
  BY <1>0, PartialSumsStep
<1>2. ASSUME NEW i \in Nat, i \in S
      PROVE  i + 1 \in S
  <2> SUFFICES ASSUME i + 1 \in 0 .. n
               PROVE  F[i + 1] \in 0 .. ((i + 1) * m)
    OBVIOUS
  <2>1. i + 1 \in 1 .. n /\ i \in 0 .. n /\ (i + 1) - 1 = i
    OBVIOUS
  <2>2. F[i + 1] = F[i] + f[i + 1]
    BY <2>1, <1>0, PartialSumsStep
  <2>3. F[i] \in 0 .. (i * m) /\ f[i + 1] \in 0 .. m
    BY <1>2, <2>1
  <2>4. (i + 1) * m = i * m + m /\ i * m \in Nat
    OBVIOUS
  <2> HIDE DEF F
  <2> QED
    BY <2>2, <2>3, <2>4
<1> HIDE DEF S
<1>3. \A i \in Nat : i \in S
  BY <1>1, <1>2, SetInduction
<1>4. n \in S /\ n \in 0 .. n
  BY <1>3
<1> QED
  BY <1>4 DEF S, Total

-----------------------------------------------------------------------------
(* Sums over a subset of 1..n. *)

\* A function of integers restricted to a set, zero elsewhere.
LEMMA OnType ==
    ASSUME NEW n \in Nat, NEW S, NEW f \in [1 .. n -> Int]
    PROVE  On(S, f, n) \in [1 .. n -> Int]
BY DEF On

\* A sum over a subset of naturals, none above m, is within 0 .. n * m.
LEMMA SumBound ==
    ASSUME NEW n \in Nat, NEW m \in Nat, NEW S, NEW f \in [1 .. n -> 0 .. m]
    PROVE  Total(On(S, f, n), n) \in 0 .. (n * m)
<1>1. On(S, f, n) \in [1 .. n -> 0 .. m]
  BY DEF On
<1> QED
  BY <1>1, TotalBound

\* A sum does not change with what it does not range over.
LEMMA SumSame ==
    ASSUME NEW n, NEW S, NEW T, NEW f, NEW g,
           \A i \in 1 .. n : (i \in S <=> i \in T),
           \A i \in 1 .. n : i \in S => f[i] = g[i]
    PROVE  Total(On(S, f, n), n) = Total(On(T, g, n), n)
<1>1. On(S, f, n) = On(T, g, n)
  BY DEF On
<1> QED
  BY <1>1

\* One summand changes: the sum changes by the difference.
LEMMA SumChange ==
    ASSUME NEW n \in Nat, NEW S,
           NEW f \in [1 .. n -> Int], NEW g \in [1 .. n -> Int],
           NEW k \in 1 .. n, k \in S,
           \A i \in 1 .. n : i # k => g[i] = f[i]
    PROVE  Total(On(S, g, n), n) = Total(On(S, f, n), n) - f[k] + g[k]
<1> DEFINE F == On(S, f, n)
           G == On(S, g, n)
<1>1. F \in [1 .. n -> Int] /\ G \in [1 .. n -> Int]
  BY OnType
<1>2. \A i \in 1 .. n : i # k => G[i] = F[i]
  BY DEF On
<1>3. F[k] = f[k] /\ G[k] = g[k]
  BY DEF On
<1> HIDE DEF F, G
<1>4. Total(G, n) = Total(F, n) - F[k] + G[k]
  BY <1>1, <1>2, TotalUpdate
<1> QED
  BY <1>3, <1>4 DEF F, G

\* A member joins, and its summand may be new.
LEMMA SumInsert ==
    ASSUME NEW n \in Nat, NEW S, NEW T,
           NEW f \in [1 .. n -> Int], NEW g \in [1 .. n -> Int],
           NEW k \in 1 .. n, k \notin S, k \in T,
           \A i \in 1 .. n : i # k => (i \in T <=> i \in S),
           \A i \in 1 .. n : i # k => g[i] = f[i]
    PROVE  Total(On(T, g, n), n) = Total(On(S, f, n), n) + g[k]
<1> DEFINE F == On(S, f, n)
           G == On(T, g, n)
<1>1. F \in [1 .. n -> Int] /\ G \in [1 .. n -> Int]
  BY OnType
<1>2. \A i \in 1 .. n : i # k => G[i] = F[i]
  BY DEF On
<1>3. F[k] = 0 /\ G[k] = g[k] /\ g[k] \in Int
  BY DEF On
<1> HIDE DEF F, G
<1>4. Total(G, n) = Total(F, n) - F[k] + G[k]
  BY <1>1, <1>2, TotalUpdate
<1>5. Total(F, n) \in Int
  BY <1>1, TotalType
<1> QED
  BY <1>3, <1>4, <1>5 DEF F, G

\* A member leaves.
LEMMA SumRemove ==
    ASSUME NEW n \in Nat, NEW S, NEW T,
           NEW f \in [1 .. n -> Int], NEW g \in [1 .. n -> Int],
           NEW k \in 1 .. n, k \in S, k \notin T,
           \A i \in 1 .. n : i # k => (i \in T <=> i \in S),
           \A i \in 1 .. n : i # k => g[i] = f[i]
    PROVE  Total(On(T, g, n), n) = Total(On(S, f, n), n) - f[k]
<1> DEFINE F == On(S, f, n)
           G == On(T, g, n)
<1>1. F \in [1 .. n -> Int] /\ G \in [1 .. n -> Int]
  BY OnType
<1>2. \A i \in 1 .. n : i # k => G[i] = F[i]
  BY DEF On
<1>3. F[k] = f[k] /\ G[k] = 0 /\ f[k] \in Int
  BY DEF On
<1> HIDE DEF F, G
<1>4. Total(G, n) = Total(F, n) - F[k] + G[k]
  BY <1>1, <1>2, TotalUpdate
<1>5. Total(F, n) \in Int
  BY <1>1, TotalType
<1> QED
  BY <1>3, <1>4, <1>5 DEF F, G

-----------------------------------------------------------------------------
(* Sums against sums. *)

\* A sum of multiples is the multiple of the sum.
LEMMA TotalTimes ==
    ASSUME NEW n \in Nat, NEW a \in Int,
           NEW f \in [1 .. n -> Int], NEW g \in [1 .. n -> Int],
           \A i \in 1 .. n : g[i] = a * f[i]
    PROVE  Total(g, n) = a * Total(f, n)
<1> DEFINE F == PartialSums(f, n)
           G == PartialSums(g, n)
           S == {i \in Nat : i \in 0 .. n => G[i] = a * F[i]}
<1>1. 0 \in S
  <2>1. F[0] = 0 /\ G[0] = 0
    BY PartialSumsStep
  <2> QED
    BY <2>1
<1>2. ASSUME NEW i \in Nat, i \in S
      PROVE  i + 1 \in S
  <2> SUFFICES ASSUME i + 1 \in 0 .. n
               PROVE  G[i + 1] = a * F[i + 1]
    OBVIOUS
  <2>1. i + 1 \in 1 .. n /\ i \in 0 .. n /\ (i + 1) - 1 = i
    OBVIOUS
  <2>2. F[i + 1] = F[i] + f[i + 1] /\ G[i + 1] = G[i] + g[i + 1]
    BY <2>1, PartialSumsStep
  <2>3. F[i] \in Int /\ f[i + 1] \in Int
    BY <2>1, PartialSumsType
  <2>4. G[i] = a * F[i] /\ g[i + 1] = a * f[i + 1]
    BY <1>2, <2>1
  <2>5. \A x, y \in Int : a * (x + y) = a * x + a * y
    OBVIOUS
  <2> HIDE DEF F, G
  <2> QED
    BY <2>2, <2>3, <2>4, <2>5
<1> HIDE DEF S
<1>3. \A i \in Nat : i \in S
  BY <1>1, <1>2, SetInduction
<1>4. n \in S /\ n \in 0 .. n
  BY <1>3
<1> QED
  BY <1>4 DEF S, Total

\* Summands in a ratio: if each a * g[i] is not above c * f[i], neither are the sums.
LEMMA TotalRatio ==
    ASSUME NEW n \in Nat, NEW a \in Int, NEW c \in Int,
           NEW f \in [1 .. n -> Int], NEW g \in [1 .. n -> Int],
           \A i \in 1 .. n : a * g[i] <= c * f[i]
    PROVE  a * Total(g, n) <= c * Total(f, n)
<1> DEFINE ag == [i \in 1 .. n |-> a * g[i]]
           cf == [i \in 1 .. n |-> c * f[i]]
<1>1. ag \in [1 .. n -> Int] /\ cf \in [1 .. n -> Int]
  OBVIOUS
<1>2. \A i \in 1 .. n : ag[i] = a * g[i] /\ cf[i] = c * f[i] /\ ag[i] <= cf[i]
  OBVIOUS
<1> HIDE DEF ag, cf
<1>3. Total(ag, n) = a * Total(g, n) /\ Total(cf, n) = c * Total(f, n)
  BY <1>1, <1>2, TotalTimes
<1>4. Total(ag, n) <= Total(cf, n)
  BY <1>1, <1>2, TotalMono
<1> QED
  BY <1>3, <1>4

\* A sum can be taken row by row: F[i] is the only entry of column i of G, or
\* the column is zero and so is F[i].
LEMMA TotalByRows ==
    ASSUME NEW n \in Nat, NEW m \in Nat,
           NEW F \in [1 .. n -> Int], NEW G \in [1 .. m -> [1 .. n -> Int]],
           \A i \in 1 .. n :
              \/ F[i] = 0 /\ \A u \in 1 .. m : G[u][i] = 0
              \/ \E v \in 1 .. m : /\ G[v][i] = F[i]
                                   /\ \A u \in 1 .. m : u # v => G[u][i] = 0
    PROVE  Total(F, n) = Total([u \in 1 .. m |-> Total(G[u], n)], m)
<1> DEFINE R == [u \in 1 .. m |-> PartialSums(G[u], n)]
           P == [k \in 0 .. n |-> [u \in 1 .. m |-> R[u][k]]]
           A == PartialSums(F, n)
           T == {k \in Nat : k \in 0 .. n => A[k] = Total(P[k], m)}
<1>1. /\ A[0] = 0
      /\ \A k \in 0 .. n : A[k] \in Int
      /\ \A i \in 1 .. n : A[i] = A[i - 1] + F[i]
  BY PartialSumsStep, PartialSumsType
<1>2. ASSUME NEW u \in 1 .. m
      PROVE  /\ R[u][0] = 0
             /\ \A k \in 0 .. n : R[u][k] \in Int
             /\ \A i \in 1 .. n : R[u][i] = R[u][i - 1] + G[u][i]
  <2> DEFINE g == G[u]
  <2>1. g \in [1 .. n -> Int] /\ R[u] = PartialSums(g, n)
    OBVIOUS
  <2> HIDE DEF R, g, P, A
  <2>2. /\ PartialSums(g, n)[0] = 0
        /\ \A i \in 1 .. n : PartialSums(g, n)[i] = PartialSums(g, n)[i - 1] + g[i]
    BY <2>1, PartialSumsStep
  <2>3. \A k \in 0 .. n : PartialSums(g, n)[k] \in Int
    BY <2>1, PartialSumsType
  <2> QED
    BY <2>1, <2>2, <2>3 DEF g
<1> HIDE DEF R, A
<1>3. \A k \in 0 .. n : /\ P[k] \in [1 .. m -> Int]
                        /\ \A u \in 1 .. m : P[k][u] = R[u][k]
  BY <1>2
<1> HIDE DEF P
<1>4. 0 \in T
  <2>1. P[0] \in [1 .. m -> Int] /\ \A u \in 1 .. m : P[0][u] = R[u][0]
    <3>1. 0 \in 0 .. n
      OBVIOUS
    <3> QED
      BY <1>3, <3>1
  <2>2. Total(P[0], m) = 0
    <3>1. \A u \in 1 .. m : P[0][u] = 0
      BY <1>2, <2>1
    <3> QED
      BY <2>1, <3>1, TotalZero
  <2> QED
    BY <1>1, <2>2
<1>5. ASSUME NEW k \in Nat, k \in T
      PROVE  k + 1 \in T
  <2> SUFFICES ASSUME k + 1 \in 0 .. n
               PROVE  A[k + 1] = Total(P[k + 1], m)
    OBVIOUS
  <2>1. k + 1 \in 1 .. n /\ k \in 0 .. n /\ (k + 1) - 1 = k
    OBVIOUS
  <2>2. A[k] = Total(P[k], m) /\ A[k + 1] = A[k] + F[k + 1] /\ A[k] \in Int
    BY <1>1, <1>5, <2>1
  <2>3. P[k] \in [1 .. m -> Int] /\ P[k + 1] \in [1 .. m -> Int]
    BY <1>3, <2>1
  <2>4. \A u \in 1 .. m : P[k + 1][u] = P[k][u] + G[u][k + 1]
    BY <1>2, <1>3, <2>1
  <2>5. CASE F[k + 1] = 0 /\ \A u \in 1 .. m : G[u][k + 1] = 0
    <3>1. \A u \in 1 .. m : P[k + 1][u] = P[k][u]
      <4> TAKE u \in 1 .. m
      <4>1. P[k][u] \in Int /\ G[u][k + 1] = 0
        BY <2>3, <2>5
      <4>2. P[k + 1][u] = P[k][u] + G[u][k + 1]
        BY <2>4
      <4> QED
        BY <4>1, <4>2
    <3>2. P[k + 1] = P[k]
      BY <2>3, <3>1
    <3> QED
      BY <2>2, <2>5, <3>2
  <2>6. ASSUME NEW v \in 1 .. m, G[v][k + 1] = F[k + 1],
               \A u \in 1 .. m : u # v => G[u][k + 1] = 0
        PROVE  A[k + 1] = Total(P[k + 1], m)
    <3>1. \A u \in 1 .. m : u # v => P[k + 1][u] = P[k][u]
      <4> TAKE u \in 1 .. m
      <4> SUFFICES ASSUME u # v
                   PROVE  P[k + 1][u] = P[k][u]
        OBVIOUS
      <4>1. P[k][u] \in Int
        BY <2>3
      <4>2. P[k + 1][u] = P[k][u] + G[u][k + 1]
        BY <2>4
      <4>3. G[u][k + 1] = 0
        BY <2>6
      <4> QED
        BY <4>1, <4>2, <4>3
    <3>2. P[k + 1][v] = P[k][v] + F[k + 1] /\ P[k][v] \in Int /\ F[k + 1] \in Int
      BY <2>1, <2>3, <2>4, <2>6
    <3>3. Total(P[k + 1], m) = Total(P[k], m) - P[k][v] + P[k + 1][v]
      BY <2>3, <3>1, TotalUpdate
    <3> QED
      BY <2>2, <3>2, <3>3
  <2> QED
    BY <2>1, <2>5, <2>6
<1> HIDE DEF T
<1>6. n \in T
  BY <1>4, <1>5, SetInduction
<1>7. A[n] = Total(P[n], m)
  BY <1>6 DEF T
<1>8. P[n] = [u \in 1 .. m |-> Total(G[u], n)]
  <2>1. P[n] = [u \in 1 .. m |-> R[u][n]]
    BY DEF P
  <2>2. \A u \in 1 .. m : R[u][n] = Total(G[u], n)
    BY DEF R, Total
  <2> QED
    BY <2>1, <2>2
<1> QED
  BY <1>7, <1>8 DEF A, Total

\* So a sum over S can be taken group by group: w says which of m groups a
\* member of S is in.
LEMMA TotalGrouped ==
    ASSUME NEW n \in Nat, NEW m \in Nat, NEW S, NEW f \in [1 .. n -> Int], NEW w,
           \A i \in 1 .. n : i \in S => w[i] \in 1 .. m
    PROVE  Total(On(S, f, n), n)
             = Total([u \in 1 .. m |-> Total(On({i \in S : w[i] = u}, f, n), n)], m)
<1> DEFINE F == On(S, f, n)
           G == [u \in 1 .. m |-> On({i \in S : w[i] = u}, f, n)]
<1>1. F \in [1 .. n -> Int] /\ G \in [1 .. m -> [1 .. n -> Int]]
  BY OnType
<1>2. /\ \A i \in 1 .. n : F[i] = IF i \in S THEN f[i] ELSE 0
      /\ \A u \in 1 .. m, i \in 1 .. n :
            G[u][i] = IF i \in S /\ w[i] = u THEN f[i] ELSE 0
      /\ \A u \in 1 .. m : Total(G[u], n) = Total(On({i \in S : w[i] = u}, f, n), n)
  BY DEF On
<1> HIDE DEF F, G
<1>3. \A i \in 1 .. n :
         \/ F[i] = 0 /\ \A u \in 1 .. m : G[u][i] = 0
         \/ \E v \in 1 .. m : /\ G[v][i] = F[i]
                              /\ \A u \in 1 .. m : u # v => G[u][i] = 0
  <2> TAKE i \in 1 .. n
  <2>1. CASE i \notin S
    BY <1>2, <2>1
  <2>2. CASE i \in S
    <3>1. w[i] \in 1 .. m
      BY <2>2
    <3>2. G[w[i]][i] = F[i] /\ \A u \in 1 .. m : u # w[i] => G[u][i] = 0
      BY <1>2, <2>2, <3>1
    <3> QED
      BY <3>1, <3>2
  <2> QED
    BY <2>1, <2>2
<1>4. Total(F, n) = Total([u \in 1 .. m |-> Total(G[u], n)], m)
  BY <1>1, <1>3, TotalByRows
<1>5. [u \in 1 .. m |-> Total(G[u], n)]
        = [u \in 1 .. m |-> Total(On({i \in S : w[i] = u}, f, n), n)]
  BY <1>2
<1> QED
  BY <1>4, <1>5 DEF F

\* Over a subset, a sum is monotone in its summands,
LEMMA SumMono ==
    ASSUME NEW n \in Nat, NEW S, NEW f \in [1 .. n -> Int], NEW g \in [1 .. n -> Int],
           \A i \in 1 .. n : i \in S => f[i] <= g[i]
    PROVE  Total(On(S, f, n), n) <= Total(On(S, g, n), n)
<1>1. On(S, f, n) \in [1 .. n -> Int] /\ On(S, g, n) \in [1 .. n -> Int]
  BY OnType
<1>2. \A i \in 1 .. n : On(S, f, n)[i] <= On(S, g, n)[i]
  BY DEF On
<1> QED
  BY <1>1, <1>2, TotalMono

\* additive,
LEMMA SumAdd ==
    ASSUME NEW n \in Nat, NEW S, NEW f \in [1 .. n -> Int], NEW g \in [1 .. n -> Int],
           NEW h \in [1 .. n -> Int], \A i \in 1 .. n : i \in S => h[i] = f[i] + g[i]
    PROVE  Total(On(S, h, n), n) = Total(On(S, f, n), n) + Total(On(S, g, n), n)
<1>1. /\ On(S, f, n) \in [1 .. n -> Int]
      /\ On(S, g, n) \in [1 .. n -> Int]
      /\ On(S, h, n) \in [1 .. n -> Int]
  BY OnType
<1>2. \A i \in 1 .. n : On(S, h, n)[i] = On(S, f, n)[i] + On(S, g, n)[i]
  BY DEF On
<1> QED
  BY <1>1, <1>2, TotalAdd

\* and keeps to a ratio its summands keep to.
LEMMA SumRatio ==
    ASSUME NEW n \in Nat, NEW S, NEW a \in Int, NEW c \in Int,
           NEW f \in [1 .. n -> Int], NEW g \in [1 .. n -> Int],
           \A i \in 1 .. n : i \in S => a * g[i] <= c * f[i]
    PROVE  a * Total(On(S, g, n), n) <= c * Total(On(S, f, n), n)
<1>1. On(S, f, n) \in [1 .. n -> Int] /\ On(S, g, n) \in [1 .. n -> Int]
  BY OnType
<1>2. \A i \in 1 .. n : a * On(S, g, n)[i] <= c * On(S, f, n)[i]
  BY DEF On
<1> QED
  BY <1>1, <1>2, TotalRatio

\* Two disjoint sets sum to the sum over both.
LEMMA SumUnion ==
    ASSUME NEW n \in Nat, NEW S, NEW T, NEW U, NEW f \in [1 .. n -> Int],
           \A i \in 1 .. n : /\ i \in U <=> i \in S \/ i \in T
                             /\ ~(i \in S /\ i \in T)
    PROVE  Total(On(U, f, n), n) = Total(On(S, f, n), n) + Total(On(T, f, n), n)
<1>1. /\ On(S, f, n) \in [1 .. n -> Int]
      /\ On(T, f, n) \in [1 .. n -> Int]
      /\ On(U, f, n) \in [1 .. n -> Int]
  BY OnType
<1>2. \A i \in 1 .. n : On(U, f, n)[i] = On(S, f, n)[i] + On(T, f, n)[i]
  BY DEF On
<1> QED
  BY <1>1, <1>2, TotalAdd

-----------------------------------------------------------------------------
(* Arithmetic. *)

\* An assignment to an unsigned long leaves a word.
LEMMA WrapType ==
    ASSUME NEW x \in Int
    PROVE  Wrap(x) \in Word
BY BandwidthAssumption DEF Wrap, Word

\* A value that fits is stored as it is.
LEMMA WrapId ==
    ASSUME NEW x \in Word
    PROVE  Wrap(x) = x
BY BandwidthAssumption DEF Wrap, Word

\* U_LUB is a bandwidth, and bandwidths fit a word.
LEMMA BoundType == U_LUB \in 0 .. MAX_BW /\ 0 .. U_LUB \subseteq Word /\ Bandwidths \subseteq Word
<1>1. (RRES_U_LUB * MAX_BW) \div 100 <= MAX_BW
  BY BandwidthAssumption
<1>2. (RRES_U_LUB * MAX_BW) \div 100 \in Nat
  BY BandwidthAssumption
<1> QED
  BY <1>1, <1>2, BandwidthAssumption DEF U_LUB, r2bw, ul_shl_div, Bandwidths, Word

\* A quotient of naturals is a natural.
LEMMA DivNat ==
    ASSUME NEW a \in Nat, NEW b \in Nat \ {0}
    PROVE  a \div b \in Nat
OBVIOUS

\* The guaranteed minimum parameters ask for, rounded up, is a natural.
LEMMA MinBwNat ==
    ASSUME NEW p, p.P \in Nat \ {0}, p.Q_min \in Nat
    PROVE  MinBw(p) \in Nat
<1>2. p.Q_min * MAX_BW \in Nat
  BY BandwidthAssumption
<1>3. ul_shl_div(p.Q_min, MAX_BW, p.P) \in Nat
  BY <1>2, DivNat DEF ul_shl_div
<1>4. Wrap(ul_shl_div(p.Q_min, MAX_BW, p.P) + 1) \in Nat
  BY <1>3, WrapType DEF Word
<1> QED
  BY <1>3, <1>4 DEF MinBw, r2bw_ceil, ul_shl_ceil

LEMMA MinBwType ==
    ASSUME NEW p \in Params
    PROVE  MinBw(p) \in Nat
<1>1. p.P \in Nat \ {0} /\ p.Q_min \in Nat
  BY QsupAssumption
<1> QED
  BY <1>1, MinBwNat

\* A coefficient whose division does not fault fits a word.
LEMMA CoeffType ==
    ASSUME NEW a \in Word, NEW b \in Word, ~CoeffFaults(a, b)
    PROVE  coeff_compute(a, b) \in Word
<1>1. b \in Nat \ {0} /\ a * COEFF_ONE \in Nat
  BY BandwidthAssumption DEF CoeffFaults, DivideFaults, Word
<1>2. coeff_compute(a, b) \in Nat
  BY <1>1, DivNat DEF coeff_compute, ul_shl_div
<1>3. ~(coeff_compute(a, b) >= WORD)
  BY <1>1 DEF CoeffFaults, DivideFaults, coeff_compute
<1> QED
  BY <1>2, <1>3, BandwidthAssumption DEF Word

\* A coefficient of 1.0 fits a word.
LEMMA OneType == COEFF_ONE \in Word
  BY BandwidthAssumption DEF Word

-----------------------------------------------------------------------------
(* Type correctness. *)

\* The rule in force is a constraint, configured or the default.
LEMMA ConstrType ==
    ASSUME TypeOK, NEW uid \in Uids, NEW gid \in Gids
    PROVE  qsup_find_constr(uid, gid) \in Constraint
<1>1. default_constraint \in Constraint
  BY BoundType DEF default_constraint, Constraint, Levels, Bandwidths
<1>2. user_rules[uid] \in Constraints \cup {None} /\ group_rules[gid] \in Constraints \cup {None}
  BY DEF TypeOK
<1>3. Constraints \subseteq Constraint
  BY QsupAssumption
<1>4. CASE user_rules[uid] # None
  BY <1>2, <1>3, <1>4 DEF qsup_find_constr
<1>5. CASE user_rules[uid] = None /\ group_rules[gid] # None
  BY <1>2, <1>3, <1>5 DEF qsup_find_constr
<1>6. CASE user_rules[uid] = None /\ group_rules[gid] = None
  BY <1>1, <1>6 DEF qsup_find_constr
<1> QED
  BY <1>4, <1>5, <1>6

\* The descriptor of an admitted server is well typed: its guarantee passed
\* the test against max_min_bw.
LEMMA NewServerType ==
    ASSUME TypeOK, NEW uid \in Uids, NEW gid \in Gids, NEW p, MinBw(p) \in Nat,
           Admissible(uid, gid, p)
    PROVE  NewServer(uid, gid, p) \in Server
<1> DEFINE c == qsup_find_constr(uid, gid)
<1>1. c \in Constraint
  BY ConstrType
<1>2. MinBw(p) \in Nat /\ MinBw(p) <= c.max_min_bw
  BY DEF Admissible
<1> HIDE DEF c
<1>3. /\ c.level \in Levels
      /\ c.max_bw \in Bandwidths
      /\ MinBw(p) \in Bandwidths
      /\ 0 \in Bandwidths
  BY <1>1, <1>2, BandwidthAssumption DEF Constraint, Bandwidths
<1> QED
  BY <1>3 DEF NewServer, Server, c

\* The descriptors that belong to a user: those of the listed servers, and those
\* the reservation layer holds on to after it took a server out of the list.
InUse == {s \in Servers : srv[s].uid \in Uids}

LEMMA ListedInUse == TypeOK => qsup_servers \subseteq InUse
  BY DEF TypeOK, InUse

\* What the saturated request of a server is.
LEMMA ServerFacts ==
    ASSUME TypeOK, NEW s \in InUse, NEW req \in Bandwidths
    PROVE  /\ s \in Servers
           /\ srv[s] \in Server
           /\ srv[s].uid \in Uids
           /\ srv[s].level \in Levels
           /\ srv[s].max_user_bw \in Bandwidths
           /\ srv[s].gua_bw \in Bandwidths
           /\ srv[s].used_gua_bw \in Bandwidths
           /\ srv[s].req_bw \in Bandwidths
           /\ UsedGua(s, req) \in Bandwidths
           /\ ServerAfter(s, req) \in Server
           /\ ServerAfter(s, req).uid = srv[s].uid
           /\ ServerAfter(s, req).level = srv[s].level
           /\ ServerAfter(s, req).gua_bw = srv[s].gua_bw
           /\ ServerAfter(s, req).req_bw = req
           /\ ServerAfter(s, req).used_gua_bw = UsedGua(s, req)
<1>1. s \in Servers /\ srv[s] \in Server /\ srv[s].uid \in Uids
  BY DEF TypeOK, InUse
<1>2. UsedGua(s, req) \in Bandwidths
  BY <1>1 DEF UsedGua, bw_min, Server
<1> QED
  BY <1>1, <1>2 DEF Server, ServerAfter

\* The record of a user after a request is well typed.
LEMMA UserAfterType ==
    ASSUME TypeOK, NEW s \in InUse, NEW req \in Bandwidths, ~Faults(s, req)
    PROVE  UserAfter(s, req) \in User
<1> DEFINE usr == qsup_users[srv[s].uid]
<1>1. usr \in User
  BY ServerFacts DEF TypeOK
<1>2. /\ srv[s].req_bw \in Int /\ srv[s].used_gua_bw \in Int /\ UsedGua(s, req) \in Int
      /\ srv[s].max_user_bw \in Int /\ req \in Int
  BY ServerFacts DEF Bandwidths
<1>3. usr.user_req \in Int /\ usr.user_used_gua \in Int
  BY <1>1 DEF User, Word
<1>4. UserReqAfter(s, req) \in Word /\ UserGuaAfter(s, req) \in Word
  BY <1>2, <1>3, WrapType DEF UserReqAfter, UserGuaAfter
<1>5. UserRoom(s, req) \in Word /\ UserExcess(s, req) \in Word
  BY <1>2, <1>4, WrapType DEF UserRoom, UserExcess, Word
<1>6. (IF UserCompressed(s, req)
       THEN coeff_compute(UserRoom(s, req), UserExcess(s, req))
       ELSE COEFF_ONE) \in Word
  BY <1>5, CoeffType, OneType DEF Faults
<1> QED
  BY <1>1, <1>4, <1>6 DEF UserAfter, User

\* What a level is assigned is within U_LUB.
LEMMA AssignedType ==
    ASSUME NEW levels \in [Levels -> Level], NEW l \in Levels
    PROVE  Assigned(levels, l) \in 0 .. U_LUB
<1>1. \A k \in Levels : levels[k].level_req \in Nat /\ levels[k].level_max \in Nat
  BY BoundType DEF Level, Word
<1>2. Demand(levels[0]) \in Nat /\ Demand(levels[1]) \in Nat
  BY <1>1 DEF Demand, bw_min, Levels
<1> QED
  BY <1>2, BoundType DEF Assigned, bw_min

\* Compressing the levels anew keeps them well typed, unless a division faults.
LEMMA RecomputeType ==
    ASSUME NEW levels \in [Levels -> Level],
           \A l \in Levels : LevelCompressed(levels[l])
              => ~CoeffFaults(LevelRoom(levels, l), LevelExcess(levels[l]))
    PROVE  Recompute(levels) \in [Levels -> Level]
<1> SUFFICES ASSUME NEW l \in Levels
             PROVE  Recompute(levels)[l] \in Level
  BY DEF Recompute
<1>1. levels[l] \in Level
  OBVIOUS
<1>2. Assigned(levels, l) \in 0 .. U_LUB
  BY AssignedType
<1>3. LevelRoom(levels, l) \in Word /\ LevelExcess(levels[l]) \in Word
  BY <1>1, <1>2, WrapType, BoundType DEF LevelRoom, LevelExcess, Level, Word
<1>4. (IF LevelCompressed(levels[l])
       THEN coeff_compute(LevelRoom(levels, l), LevelExcess(levels[l]))
       ELSE COEFF_ONE) \in Word
  BY <1>3, CoeffType, OneType
<1> QED
  BY <1>1, <1>2, <1>4 DEF Recompute, Level

\* So does bringing the totals of a level up to date.
LEMMA LevelTotalsType ==
    ASSUME TypeOK, NEW s \in InUse, NEW req \in Bandwidths
    PROVE  LevelTotalsAfter(s, req) \in Level
<1> DEFINE lev == qsup_levels[srv[s].level]
           usr == qsup_users[srv[s].uid]
<1>1. lev \in Level /\ usr \in User
  BY ServerFacts DEF TypeOK
<1>2. /\ srv[s].req_bw \in Int /\ srv[s].used_gua_bw \in Int /\ UsedGua(s, req) \in Int
      /\ srv[s].max_user_bw \in Int /\ req \in Int
  BY ServerFacts DEF Bandwidths
<1>3. usr.user_req \in Int /\ lev.level_req \in Int /\ lev.level_gua \in Int
  BY <1>1 DEF User, Level, Word
<1>4. UserReqAfter(s, req) \in Int
  BY <1>2, <1>3, WrapType DEF UserReqAfter, Word
<1>5. Wrap(lev.level_req - bw_min(usr.user_req, srv[s].max_user_bw)
             + bw_min(UserReqAfter(s, req), srv[s].max_user_bw)) \in Word
  BY <1>2, <1>3, <1>4, WrapType DEF bw_min
<1>6. Wrap(lev.level_gua + UsedGua(s, req) - srv[s].used_gua_bw) \in Word
  BY <1>2, <1>3, WrapType
<1> QED
  BY <1>1, <1>5, <1>6 DEF LevelTotalsAfter, Level

\* A request leaves the totals well typed.
LEMMA SetAccountsType ==
    ASSUME TypeOK, NEW s \in InUse, NEW req \in Bandwidths,
           ~Faults(s, req), SetAccounts(s, req)
    PROVE  /\ qsup_users' \in [Uids -> User]
           /\ qsup_levels' \in [Levels -> Level]
           /\ tot_used_gua_bw' \in Word
<1>1. qsup_users' \in [Uids -> User]
  BY UserAfterType DEF SetAccounts, TypeOK
<1>2. LevelsBefore(s, req) \in [Levels -> Level]
  BY LevelTotalsType DEF LevelsBefore, TypeOK
<1>3. qsup_levels' \in [Levels -> Level]
  BY <1>2, RecomputeType DEF SetAccounts, LevelsAfter, Faults
<1>4. tot_used_gua_bw' \in Word
  <2>1. /\ tot_used_gua_bw \in Int /\ srv[s].used_gua_bw \in Int
        /\ UsedGua(s, req) \in Int
    BY ServerFacts DEF TypeOK, Word, Bandwidths
  <2> QED
    BY <2>1, WrapType DEF SetAccounts, TotUsedGuaAfter
<1> QED
  BY <1>1, <1>3, <1>4

\* The descriptor of a server that left is well typed.
LEMMA BlankType == BlankServer \in Server
<1>1. 0 \in Bandwidths /\ 0 \in Levels
  BY BandwidthAssumption DEF Bandwidths, Levels
<1> QED
  BY <1>1 DEF BlankServer, Server

\* The type invariant holds initially,
LEMMA TypeInit == Init => TypeOK
<1> SUFFICES ASSUME Init PROVE TypeOK
  OBVIOUS
<1>1. 0 \in Word /\ 0 \in 0 .. U_LUB /\ U_LUB \in 0 .. U_LUB /\ COEFF_ONE \in Word
  BY BoundType, OneType, BandwidthAssumption DEF Word
<1>2. NewUser \in User
  BY <1>1 DEF NewUser, User
<1>3. NewLevel \in Level
  BY <1>1 DEF NewLevel, Level
<1> QED
  BY <1>1, <1>2, <1>3, BlankType DEF Init, TypeOK

\* The saturated request is a bandwidth, whatever is asked for.
LEMMA SaturatedType ==
    ASSUME TypeOK, NEW s \in InUse, NEW bw \in Nat
    PROVE  Saturated(s, bw) \in Bandwidths
<1>1. srv[s].max_user_bw \in Bandwidths
  BY DEF TypeOK, Server, InUse
<1> QED
  BY <1>1, BandwidthAssumption DEF Saturated, bw_min, Bandwidths

\* and is preserved when the configuration changes,
LEMMA TypeConfigure == TypeOK /\ Configure => TypeOK'
<1> SUFFICES ASSUME TypeOK, Configure PROVE TypeOK'
  OBVIOUS
<1>1. ASSUME NEW l \in Levels, NEW bw \in LevelCaps, AddLevelRule(l, bw)
      PROVE  TypeOK'
  <2>1. bw_min(bw, U_LUB) \in 0 .. U_LUB
    BY QsupAssumption, BoundType DEF bw_min, Bandwidths
  <2>2. [qsup_levels[l] EXCEPT !.level_max = bw_min(bw, U_LUB)] \in Level
    BY <2>1 DEF Level, TypeOK
  <2>3. qsup_levels' \in [Levels -> Level]
    BY <1>1, <2>2 DEF AddLevelRule, TypeOK
  <2> QED
    BY <1>1, <2>3 DEF AddLevelRule, rules, TypeOK
<1>2. ASSUME NEW g \in Gids, NEW c \in Constraints, AddGroupRule(g, c)
      PROVE  TypeOK'
  BY <1>2 DEF AddGroupRule, accounts, TypeOK
<1>3. ASSUME NEW u \in Uids, NEW c \in Constraints, AddUserRule(u, c)
      PROVE  TypeOK'
  BY <1>3 DEF AddUserRule, accounts, TypeOK
<1>4. ASSUME NEW bw \in Spares, ReserveSpare(bw)
      PROVE  TypeOK'
  <2>1. bw \in 0 .. U_LUB
    BY <1>4, QsupAssumption, BoundType DEF ReserveSpare, Bandwidths
  <2> QED
    BY <1>4, <2>1 DEF ReserveSpare, accounts, TypeOK
<1> QED
  BY <1>1, <1>2, <1>3, <1>4 DEF Configure

\* when a server is admitted,
LEMMA TypeInitServer ==
    ASSUME TypeOK, NEW s \in Servers, NEW uid \in Uids, NEW gid \in Gids,
           NEW p, MinBw(p) \in Nat, InitServer(s, uid, gid, p)
    PROVE  TypeOK'
<1>2. NewServer(uid, gid, p) \in Server
  BY NewServerType DEF InitServer
<1>3. srv' \in [Servers -> Server]
  BY <1>2 DEF InitServer, TypeOK
<1>4. NewServer(uid, gid, p).uid = uid
  BY DEF NewServer
<1>5. \A t \in qsup_servers' : srv'[t].uid \in Uids
  BY <1>4 DEF InitServer, TypeOK
<1>6. tot_gua_bw' \in Word
  BY WrapType DEF InitServer, TypeOK, Word
<1> QED
  BY <1>3, <1>5, <1>6 DEF InitServer, rules, accounts, TypeOK

\* when a server makes a request,
LEMMA TypeSetRequiredBw ==
    ASSUME TypeOK, NEW s \in InUse, NEW bw \in Nat, SetRequiredBw(s, bw)
    PROVE  TypeOK'
<1> DEFINE req == Saturated(s, bw)
<1>1. req \in Bandwidths
  BY SaturatedType
<1> HIDE DEF req
<1>2. CASE Fault
  BY <1>2 DEF Fault, rules, accounts, TypeOK
<1>3. CASE /\ ~Faults(s, req)
           /\ SetAccounts(s, req)
           /\ srv' = [srv EXCEPT ![s] = ServerAfter(s, req)]
           /\ UNCHANGED <<rules, qsup_servers, tot_gua_bw, faulted>>
  <2>1. srv' \in [Servers -> Server] /\ \A t \in qsup_servers' : srv'[t].uid \in Uids
    BY <1>1, <1>3, ServerFacts DEF TypeOK
  <2>2. /\ qsup_users' \in [Uids -> User]
        /\ qsup_levels' \in [Levels -> Level]
        /\ tot_used_gua_bw' \in Word
    BY <1>1, <1>3, SetAccountsType
  <2> QED
    BY <1>3, <2>1, <2>2 DEF rules, TypeOK
<1> QED
  BY <1>2, <1>3 DEF SetRequiredBw, req

\* Both ways to remove a server leave a well typed descriptor,
LEMMA RemovalForm ==
    ASSUME TypeOK, NEW s \in InUse, CleanupServer(s) \/ DestroyServer(s)
    PROVE  \E left \in Server : RemoveServer(s, left)
<1>1. 0 \in Bandwidths
  BY BandwidthAssumption DEF Bandwidths
<1>2. ServerAfter(s, 0) \in Server
  BY <1>1, ServerFacts
<1> QED
  BY <1>2, BlankType DEF CleanupServer, DestroyServer

\* so the type invariant holds when one is removed,
LEMMA TypeRemoveServer ==
    ASSUME TypeOK, NEW s \in InUse, NEW left \in Server, RemoveServer(s, left)
    PROVE  TypeOK'
<1>1. 0 \in Bandwidths
  BY BandwidthAssumption DEF Bandwidths
<1>2. CASE Fault
  BY <1>2 DEF Fault, rules, accounts, TypeOK
<1>3. CASE ~RemoveFaults(s) /\ TakeOut(s, left)
  <2>1. /\ qsup_users' \in [Uids -> User]
        /\ qsup_levels' \in [Levels -> Level]
        /\ tot_used_gua_bw' \in Word
    <3>1. CASE srv[s].req_bw = 0
      BY <1>3, <3>1 DEF TakeOut, accounts, TypeOK
    <3>2. CASE srv[s].req_bw # 0
      BY <1>1, <1>3, <3>2, SetAccountsType DEF TakeOut, RemoveFaults
    <3> QED
      BY <3>1, <3>2
  <2>2. srv' \in [Servers -> Server]
    BY <1>3 DEF TakeOut, TypeOK
  <2>3. \A t \in qsup_servers' : srv'[t].uid \in Uids
    BY <1>3 DEF TakeOut, TypeOK
  <2>4. tot_gua_bw' \in Word
    BY <1>1, <1>3, ServerFacts, WrapType DEF TakeOut, TypeOK, Word, Bandwidths
  <2> QED
    BY <1>3, <2>1, <2>2, <2>3, <2>4 DEF TakeOut, rules, TypeOK
<1> QED
  BY <1>2, <1>3 DEF RemoveServer

\* The steps on servers, as the lemmas speak of them.
LEMMA ServeForm ==
    ASSUME TypeOK, Serve
    PROVE  \/ \E s \in Servers, uid \in Uids, gid \in Gids, p \in Params :
                 MinBw(p) \in Nat /\ InitServer(s, uid, gid, p)
           \/ \E s \in qsup_servers, bw \in Nat : SetRequiredBw(s, bw)
           \/ \E s \in qsup_servers, left \in Server : RemoveServer(s, left)
<1>1. ASSUME NEW s \in Servers, NEW cred \in Credentials, NEW p \in Params,
             InitServer(s, cred[1], cred[2], p)
      PROVE  \E uid \in Uids, gid \in Gids : MinBw(p) \in Nat /\ InitServer(s, uid, gid, p)
  <2>1. cred[1] \in Uids /\ cred[2] \in Gids
    BY QsupAssumption
  <2> QED
    BY <1>1, <2>1, MinBwType
<1>2. Requests \subseteq Nat
  BY QsupAssumption, BandwidthAssumption DEF Bandwidths
<1>3. CASE CreateServer
  BY <1>1, <1>3 DEF CreateServer
<1>4. CASE \E s \in qsup_servers, bw \in Requests : SetRequiredBw(s, bw)
  BY <1>2, <1>4
<1>5. CASE \E s \in qsup_servers : CleanupServer(s) \/ DestroyServer(s)
  BY <1>5, RemovalForm, ListedInUse
<1> QED
  BY <1>3, <1>4, <1>5 DEF Serve

\* so by every operation on servers,
LEMMA TypeServe == TypeOK /\ Serve => TypeOK'
  BY ServeForm, ListedInUse, TypeInitServer, TypeSetRequiredBw, TypeRemoveServer

\* and by every step.
LEMMA TypeNext == TypeOK /\ [Next]_vars => TypeOK'
<1> SUFFICES ASSUME TypeOK, [Next]_vars PROVE TypeOK'
  OBVIOUS
<1>1. CASE Next
  BY <1>1, TypeConfigure, TypeServe DEF Next
<1>2. CASE UNCHANGED vars
  BY <1>2 DEF vars, rules, accounts, TypeOK
<1> QED
  BY <1>1, <1>2

\* Every variable of qsup.c keeps to the range of its type: the totals never
\* leave the unsigned long they are kept in, and the bounds of the assignments
\* (level_sum, level_max within U_LUB, saturated requests) hold at every step.
THEOREM TypeCorrect == Spec => []TypeOK
  BY TypeInit, TypeNext, PTL DEF Spec

-----------------------------------------------------------------------------
(* The totals are the sums they stand for.  A request changes one summand  *)
(* of each sum, an admission adds one, a destruction removes one; no sum   *)
(* reaches WORD, so the totals never wrap.  The sums of the requests and   *)
(* of the guarantees in use lose the right amount on destruction because a *)
(* server that asks for nothing uses nothing of its guarantee:             *)

UsedGuaCurrent ==
    \A s \in qsup_servers :
        srv[s].used_gua_bw = bw_min(srv[s].req_bw, srv[s].gua_bw)

TotalsInv == TypeOK /\ UsedGuaCurrent /\ TotalsAreSums

\* What the totals are the sums of.
PerServer == [1 .. NumServers -> 0 .. MAX_BW]

\* The fields the totals are the sums of.
LEMMA FieldTypes ==
    ASSUME NEW w \in [Servers -> Server]
    PROVE  /\ [s \in Servers |-> w[s].gua_bw] \in PerServer
           /\ [s \in Servers |-> w[s].used_gua_bw] \in PerServer
           /\ [s \in Servers |-> w[s].req_bw] \in PerServer
BY DEF Server, Servers, Bandwidths, PerServer

\* A sum of bandwidths over some of the servers fits a word.
LEMMA SumFits ==
    ASSUME NEW S, NEW f \in PerServer
    PROVE  SumOf(S, f) \in Word
<1>1. NumServers \in Nat /\ MAX_BW \in Nat /\ WORD \in Nat /\ NumServers * MAX_BW < WORD
  BY QsupAssumption, BandwidthAssumption
<1>2. SumOf(S, f) \in 0 .. (NumServers * MAX_BW)
  BY <1>1, SumBound DEF SumOf, PerServer
<1>3. NumServers * MAX_BW \in Nat
  BY <1>1
<1> QED
  BY <1>1, <1>2, <1>3 DEF Word

\* The facts about sums, for sums over the servers.
LEMMA ServerSumSame ==
    ASSUME NEW S, NEW T,
           NEW f \in PerServer, NEW g \in PerServer,
           \A i \in 1 .. NumServers : (i \in S <=> i \in T),
           \A i \in 1 .. NumServers : i \in S => f[i] = g[i]
    PROVE  SumOf(T, g) = SumOf(S, f)
<1>1. Total(On(S, f, NumServers), NumServers) = Total(On(T, g, NumServers), NumServers)
  BY SumSame
<1> QED
  BY <1>1 DEF SumOf

\* One server's value changes,
LEMMA ServerSumChange ==
    ASSUME NEW S, NEW k \in 1 .. NumServers, k \in S,
           NEW f \in PerServer,
           NEW g \in PerServer,
           \A i \in 1 .. NumServers : i # k => g[i] = f[i]
    PROVE  SumOf(S, g) = SumOf(S, f) - f[k] + g[k]
<1>1. NumServers \in Nat
  BY QsupAssumption
<1>2. Total(On(S, g, NumServers), NumServers)
        = Total(On(S, f, NumServers), NumServers) - f[k] + g[k]
  BY <1>1, SumChange DEF PerServer
<1> QED
  BY <1>2 DEF SumOf

\* a server joins the sum,
LEMMA ServerSumInsert ==
    ASSUME NEW S, NEW T, NEW k \in 1 .. NumServers, k \notin S, k \in T,
           NEW f \in PerServer,
           NEW g \in PerServer,
           \A i \in 1 .. NumServers : i # k => (i \in T <=> i \in S),
           \A i \in 1 .. NumServers : i # k => g[i] = f[i]
    PROVE  SumOf(T, g) = SumOf(S, f) + g[k]
<1>1. NumServers \in Nat
  BY QsupAssumption
<1>2. Total(On(T, g, NumServers), NumServers)
        = Total(On(S, f, NumServers), NumServers) + g[k]
  BY <1>1, SumInsert DEF PerServer
<1> QED
  BY <1>2 DEF SumOf

\* a server leaves the sum.
LEMMA ServerSumRemove ==
    ASSUME NEW S, NEW T, NEW k \in 1 .. NumServers, k \in S, k \notin T,
           NEW f \in PerServer,
           NEW g \in PerServer,
           \A i \in 1 .. NumServers : i # k => (i \in T <=> i \in S),
           \A i \in 1 .. NumServers : i # k => g[i] = f[i]
    PROVE  SumOf(T, g) = SumOf(S, f) - f[k]
<1>1. NumServers \in Nat
  BY QsupAssumption
<1>2. Total(On(T, g, NumServers), NumServers)
        = Total(On(S, f, NumServers), NumServers) - f[k]
  BY <1>1, SumRemove DEF PerServer
<1> QED
  BY <1>2 DEF SumOf

\* What a request does to the totals.
LEMMA SetAccountsTotals ==
    ASSUME TypeOK, NEW s \in qsup_servers, NEW req \in Bandwidths, SetAccounts(s, req)
    PROVE  /\ \A u \in Uids : u # srv[s].uid => qsup_users'[u] = qsup_users[u]
           /\ qsup_users'[srv[s].uid].user_req =
                Wrap(qsup_users[srv[s].uid].user_req - srv[s].req_bw + req)
           /\ qsup_users'[srv[s].uid].user_used_gua =
                Wrap(qsup_users[srv[s].uid].user_used_gua
                       + UsedGua(s, req) - srv[s].used_gua_bw)
           /\ \A l \in Levels : l # srv[s].level =>
                qsup_levels'[l].level_gua = qsup_levels[l].level_gua
           /\ qsup_levels'[srv[s].level].level_gua =
                Wrap(qsup_levels[srv[s].level].level_gua
                       + UsedGua(s, req) - srv[s].used_gua_bw)
           /\ tot_used_gua_bw' = Wrap(tot_used_gua_bw + UsedGua(s, req) - srv[s].used_gua_bw)
<1>1. s \in InUse /\ srv[s].uid \in Uids /\ srv[s].level \in Levels
  BY ListedInUse, ServerFacts
<1>2. qsup_users \in [Uids -> User] /\ qsup_levels \in [Levels -> Level]
  BY DEF TypeOK
<1>3. qsup_users' = [qsup_users EXCEPT ![srv[s].uid] = UserAfter(s, req)]
  BY DEF SetAccounts
<1>4. UserAfter(s, req).user_req = UserReqAfter(s, req)
      /\ UserAfter(s, req).user_used_gua = UserGuaAfter(s, req)
  BY <1>1, <1>2 DEF UserAfter, User
<1>5. \A u \in Uids : u # srv[s].uid => qsup_users'[u] = qsup_users[u]
  BY <1>2, <1>3
<1>6. qsup_users'[srv[s].uid] = UserAfter(s, req)
  BY <1>1, <1>2, <1>3
<1>7. \A l \in Levels : qsup_levels'[l].level_gua = LevelsBefore(s, req)[l].level_gua
  <2>1. LevelsBefore(s, req) \in [Levels -> Level]
    BY <1>1, <1>2, LevelTotalsType DEF LevelsBefore
  <2>2. qsup_levels' = Recompute(LevelsBefore(s, req))
    BY DEF SetAccounts, LevelsAfter
  <2> QED
    BY <2>1, <2>2 DEF Recompute, Level
<1>8. \A l \in Levels : l # srv[s].level => LevelsBefore(s, req)[l] = qsup_levels[l]
  BY <1>2 DEF LevelsBefore
<1>9. LevelsBefore(s, req)[srv[s].level] = LevelTotalsAfter(s, req)
  BY <1>1, <1>2 DEF LevelsBefore
<1>10. LevelTotalsAfter(s, req).level_gua =
         Wrap(qsup_levels[srv[s].level].level_gua + UsedGua(s, req) - srv[s].used_gua_bw)
  <2>1. qsup_levels[srv[s].level] \in Level
    BY <1>1, <1>2
  <2> QED
    BY <2>1 DEF LevelTotalsAfter, Level
<1>11. tot_used_gua_bw' = Wrap(tot_used_gua_bw + UsedGua(s, req) - srv[s].used_gua_bw)
  BY DEF SetAccounts, TotUsedGuaAfter
<1>12. qsup_users'[srv[s].uid].user_req =
         Wrap(qsup_users[srv[s].uid].user_req - srv[s].req_bw + req)
  BY <1>4, <1>6 DEF UserReqAfter
<1>13. qsup_users'[srv[s].uid].user_used_gua =
         Wrap(qsup_users[srv[s].uid].user_used_gua + UsedGua(s, req) - srv[s].used_gua_bw)
  BY <1>4, <1>6 DEF UserGuaAfter
<1>14. qsup_levels'[srv[s].level].level_gua =
         Wrap(qsup_levels[srv[s].level].level_gua + UsedGua(s, req) - srv[s].used_gua_bw)
  BY <1>1, <1>7, <1>9, <1>10
<1>15. \A l \in Levels : l # srv[s].level =>
         qsup_levels'[l].level_gua = qsup_levels[l].level_gua
  BY <1>7, <1>8
<1> QED
  BY <1>5, <1>11, <1>12, <1>13, <1>14, <1>15

\* No server, no sum.
LEMMA SumEmpty ==
    ASSUME NEW f
    PROVE  SumOf({}, f) = 0
<1>1. NumServers \in Nat
  BY QsupAssumption
<1>2. On({}, f, NumServers) \in [1 .. NumServers -> Int]
      /\ \A i \in 1 .. NumServers : On({}, f, NumServers)[i] = 0
  BY DEF On
<1> QED
  BY <1>1, <1>2, TotalZero DEF SumOf

\* The totals are right initially.
LEMMA TotalsInit == Init => TotalsInv
<1> SUFFICES ASSUME Init PROVE TotalsInv
  OBVIOUS
<1>1. TypeOK
  BY TypeInit
<1>2. /\ \A u \in Uids : ServersOf(u) = {}
      /\ \A l \in Levels : ServersAt(l) = {}
      /\ qsup_servers = {}
  BY DEF Init, ServersOf, ServersAt
<1>3. TotalsAreSums
  BY <1>2, SumEmpty DEF Init, NewUser, NewLevel, TotalsAreSums
<1> QED
  BY <1>1, <1>2, <1>3 DEF TotalsInv, UsedGuaCurrent

\* Nothing the totals are about changes.
LEMMA TotalsUnchanged ==
    ASSUME TotalsInv, TypeOK', UNCHANGED <<qsup_servers, srv, qsup_users, tot_gua_bw,
                                           tot_used_gua_bw>>,
           \A l \in Levels : qsup_levels'[l].level_gua = qsup_levels[l].level_gua
    PROVE  TotalsInv'
<1>1. /\ GuaBw' = GuaBw
      /\ UsedGuaBw' = UsedGuaBw
      /\ ReqBw' = ReqBw
  BY DEF GuaBw, UsedGuaBw, ReqBw
<1>2. /\ \A u : ServersOf(u)' = ServersOf(u)
      /\ \A l : ServersAt(l)' = ServersAt(l)
  BY DEF ServersOf, ServersAt
<1>3. TotalsAreSums'
  BY <1>1, <1>2 DEF TotalsInv, TotalsAreSums, SumOf
<1>4. UsedGuaCurrent'
  BY DEF TotalsInv, UsedGuaCurrent
<1> QED
  BY <1>3, <1>4 DEF TotalsInv

\* Rules do not enter the totals.
LEMMA TotalsConfigure == TotalsInv /\ TypeOK' /\ Configure => TotalsInv'
<1> SUFFICES ASSUME TotalsInv, TypeOK', Configure PROVE TotalsInv'
  OBVIOUS
<1>1. ASSUME NEW l \in Levels, NEW bw \in LevelCaps, AddLevelRule(l, bw)
      PROVE  TotalsInv'
  <2>1. \A k \in Levels : qsup_levels'[k].level_gua = qsup_levels[k].level_gua
    <3>1. qsup_levels \in [Levels -> Level]
      BY DEF TotalsInv, TypeOK
    <3> QED
      BY <1>1, <3>1 DEF AddLevelRule, Level
  <2> QED
    BY <1>1, <2>1, TotalsUnchanged DEF AddLevelRule
<1>2. ASSUME NEW g \in Gids, NEW c \in Constraints, AddGroupRule(g, c)
      PROVE  TotalsInv'
  BY <1>2, TotalsUnchanged DEF AddGroupRule, accounts
<1>3. ASSUME NEW u \in Uids, NEW c \in Constraints, AddUserRule(u, c)
      PROVE  TotalsInv'
  BY <1>3, TotalsUnchanged DEF AddUserRule, accounts
<1>4. ASSUME NEW bw \in Spares, ReserveSpare(bw)
      PROVE  TotalsInv'
  BY <1>4, TotalsUnchanged DEF ReserveSpare, accounts
<1> QED
  BY <1>1, <1>2, <1>3, <1>4 DEF Configure

\* A new server adds its guarantee; it asks for nothing yet.
LEMMA TotalsInitServer ==
    ASSUME TotalsInv, TypeOK', NEW s \in Servers, NEW uid \in Uids, NEW gid \in Gids,
           NEW p, InitServer(s, uid, gid, p)
    PROVE  TotalsInv'
<1> DEFINE new == NewServer(uid, gid, p)
<1>1. /\ NumServers \in Nat
      /\ s \in 1 .. NumServers
      /\ s \notin qsup_servers
      /\ qsup_servers' = qsup_servers \cup {s}
      /\ srv \in [Servers -> Server] /\ srv' \in [Servers -> Server]
      /\ srv'[s] = new
      /\ \A t \in Servers : t # s => srv'[t] = srv[t]
      /\ qsup_servers \subseteq Servers
  BY QsupAssumption DEF InitServer, TotalsInv, TypeOK, Servers
<1>2. /\ new.gua_bw = MinBw(p)
      /\ new.used_gua_bw = 0
      /\ new.req_bw = 0
  BY DEF NewServer
<1> HIDE DEF new
<1>3. /\ GuaBw \in PerServer /\ GuaBw' \in PerServer
      /\ UsedGuaBw \in PerServer /\ UsedGuaBw' \in PerServer
      /\ ReqBw \in PerServer /\ ReqBw' \in PerServer
  BY <1>1, FieldTypes DEF GuaBw, UsedGuaBw, ReqBw
<1>4. /\ GuaBw'[s] = MinBw(p)
      /\ UsedGuaBw'[s] = 0
      /\ ReqBw'[s] = 0
      /\ \A t \in 1 .. NumServers : t # s => GuaBw'[t] = GuaBw[t]
      /\ \A t \in 1 .. NumServers : t # s => UsedGuaBw'[t] = UsedGuaBw[t]
      /\ \A t \in 1 .. NumServers : t # s => ReqBw'[t] = ReqBw[t]
  BY <1>1, <1>2 DEF GuaBw, UsedGuaBw, ReqBw, Servers
<1>5. ASSUME NEW f \in PerServer, NEW g \in PerServer,
             NEW S, NEW T,
             g[s] = 0, s \notin S,
             \A t \in 1 .. NumServers : t # s => g[t] = f[t],
             \A t \in 1 .. NumServers : t # s => (t \in T <=> t \in S)
      PROVE  SumOf(T, g) = SumOf(S, f)
  <2>2. CASE s \in T
    <3>1. SumOf(T, g) = SumOf(S, f) + g[s]
      BY <1>1, <1>5, <2>2, ServerSumInsert
    <3>2. SumOf(S, f) \in Int
      BY SumFits, BandwidthAssumption DEF Word
    <3> QED
      BY <1>5, <3>1, <3>2
  <2>3. CASE s \notin T
    <3>1. \A i \in 1 .. NumServers : i \in S <=> i \in T
      BY <1>1, <1>5, <2>3
    <3>2. \A i \in 1 .. NumServers : i \in S => f[i] = g[i]
      BY <1>1, <1>5
    <3> QED
      BY <3>1, <3>2, ServerSumSame
  <2> QED
    BY <2>2, <2>3
<1>6. tot_gua_bw' = SumOf(qsup_servers', GuaBw')
  <2>1. /\ s \in 1 .. NumServers /\ s \notin qsup_servers /\ s \in qsup_servers'
        /\ \A t \in 1 .. NumServers : t # s => (t \in qsup_servers' <=> t \in qsup_servers)
        /\ \A t \in 1 .. NumServers : t # s => GuaBw'[t] = GuaBw[t]
        /\ GuaBw \in PerServer /\ GuaBw' \in PerServer
    BY <1>1, <1>3, <1>4
  <2>2. SumOf(qsup_servers', GuaBw') = SumOf(qsup_servers, GuaBw) + GuaBw'[s]
    BY <2>1, ServerSumInsert
  <2>3. SumOf(qsup_servers', GuaBw') \in Word
    BY <1>3, SumFits
  <2>4. tot_gua_bw' = Wrap(SumOf(qsup_servers, GuaBw) + GuaBw'[s])
    BY <1>4 DEF InitServer, TotalsInv, TotalsAreSums
  <2> QED
    BY <2>2, <2>3, <2>4, WrapId
<1>7. tot_used_gua_bw' = SumOf(qsup_servers', UsedGuaBw')
  <2>1. SumOf(qsup_servers', UsedGuaBw') = SumOf(qsup_servers, UsedGuaBw)
    BY <1>1, <1>3, <1>4, <1>5
  <2> QED
    BY <2>1 DEF InitServer, accounts, TotalsInv, TotalsAreSums
<1>8. ASSUME NEW u \in Uids
      PROVE  /\ qsup_users'[u].user_req = SumOf(ServersOf(u)', ReqBw')
             /\ qsup_users'[u].user_used_gua = SumOf(ServersOf(u)', UsedGuaBw')
  <2>1. /\ s \notin ServersOf(u)
        /\ \A t \in 1 .. NumServers : t # s => (t \in ServersOf(u)' <=> t \in ServersOf(u))
    BY <1>1 DEF ServersOf, Servers
  <2>2. SumOf(ServersOf(u)', ReqBw') = SumOf(ServersOf(u), ReqBw)
    BY <1>3, <1>4, <1>5, <2>1
  <2>3. SumOf(ServersOf(u)', UsedGuaBw') = SumOf(ServersOf(u), UsedGuaBw)
    BY <1>3, <1>4, <1>5, <2>1
  <2> QED
    BY <2>2, <2>3 DEF InitServer, accounts, TotalsInv, TotalsAreSums
<1>9. ASSUME NEW l \in Levels
      PROVE  qsup_levels'[l].level_gua = SumOf(ServersAt(l)', UsedGuaBw')
  <2>1. /\ s \notin ServersAt(l)
        /\ \A t \in 1 .. NumServers : t # s => (t \in ServersAt(l)' <=> t \in ServersAt(l))
    BY <1>1 DEF ServersAt, Servers
  <2>2. SumOf(ServersAt(l)', UsedGuaBw') = SumOf(ServersAt(l), UsedGuaBw)
    BY <1>3, <1>4, <1>5, <2>1
  <2> QED
    BY <2>2 DEF InitServer, accounts, TotalsInv, TotalsAreSums
<1>10. TotalsAreSums'
  BY <1>6, <1>7, <1>8, <1>9 DEF TotalsAreSums
<1>11. UsedGuaCurrent'
  <2>1. new.gua_bw \in 0 .. MAX_BW
    BY <1>1, <1>2 DEF Server, Bandwidths
  <2> QED
    BY <1>1, <1>2, <2>1, BandwidthAssumption DEF TotalsInv, UsedGuaCurrent, bw_min
<1> QED
  BY <1>10, <1>11 DEF TotalsInv

\* What a total becomes when one of its summands changes,
LEMMA ChangedTotal ==
    ASSUME NEW S, NEW k \in 1 .. NumServers, k \in S,
           NEW f \in PerServer, NEW g \in PerServer,
           \A i \in 1 .. NumServers : i # k => g[i] = f[i]
    PROVE  /\ Wrap(SumOf(S, f) - f[k] + g[k]) = SumOf(S, g)
           /\ Wrap(SumOf(S, f) + g[k] - f[k]) = SumOf(S, g)
<1>1. SumOf(S, g) = SumOf(S, f) - f[k] + g[k]
  BY ServerSumChange
<1>2. SumOf(S, f) \in Int /\ SumOf(S, g) \in Word
  BY SumFits, BandwidthAssumption DEF Word
<1>3. f[k] \in Int /\ g[k] \in Int
  BY DEF PerServer
<1>4. SumOf(S, f) - f[k] + g[k] = SumOf(S, f) + g[k] - f[k]
  BY <1>2, <1>3
<1> QED
  BY <1>1, <1>2, <1>4, WrapId

\* and when one leaves.
LEMMA RemovedTotal ==
    ASSUME NEW S, NEW T, NEW k \in 1 .. NumServers, k \in S, k \notin T,
           NEW f \in PerServer, NEW g \in PerServer,
           \A i \in 1 .. NumServers : i # k => (i \in T <=> i \in S),
           \A i \in 1 .. NumServers : i # k => g[i] = f[i]
    PROVE  Wrap(SumOf(S, f) - f[k]) = SumOf(T, g)
<1>1. SumOf(T, g) = SumOf(S, f) - f[k]
  BY ServerSumRemove
<1>2. SumOf(T, g) \in Word
  BY SumFits
<1> QED
  BY <1>1, <1>2, WrapId

\* A request changes every total it enters by its own change.
LEMMA TotalsSetRequiredBw ==
    ASSUME TotalsInv, TypeOK', NEW s \in qsup_servers, NEW bw \in Nat,
           SetRequiredBw(s, bw)
    PROVE  TotalsInv'
<1> DEFINE req == Saturated(s, bw)
<1>1. TypeOK /\ s \in InUse /\ req \in Bandwidths
  BY ListedInUse, SaturatedType DEF TotalsInv
<1> HIDE DEF req
<1>2. CASE Fault
  BY <1>2, TotalsUnchanged DEF Fault, accounts
<1>3. CASE /\ ~Faults(s, req)
           /\ SetAccounts(s, req)
           /\ srv' = [srv EXCEPT ![s] = ServerAfter(s, req)]
           /\ UNCHANGED <<rules, qsup_servers, tot_gua_bw, faulted>>
  <2>1. /\ s \in 1 .. NumServers
        /\ srv[s].uid \in Uids
        /\ srv[s].level \in Levels
        /\ ServerAfter(s, req).uid = srv[s].uid
        /\ ServerAfter(s, req).level = srv[s].level
        /\ ServerAfter(s, req).gua_bw = srv[s].gua_bw
        /\ ServerAfter(s, req).req_bw = req
        /\ ServerAfter(s, req).used_gua_bw = UsedGua(s, req)
    BY <1>1, ServerFacts DEF Servers
  <2>2. /\ srv \in [Servers -> Server] /\ srv' \in [Servers -> Server]
        /\ srv'[s] = ServerAfter(s, req)
        /\ \A t \in Servers : t # s => srv'[t] = srv[t]
        /\ qsup_servers \subseteq Servers
    BY <1>1, <1>3 DEF TypeOK
  <2>3. /\ GuaBw \in PerServer
        /\ UsedGuaBw \in PerServer /\ UsedGuaBw' \in PerServer
        /\ ReqBw \in PerServer /\ ReqBw' \in PerServer
    BY <2>2, FieldTypes DEF GuaBw, UsedGuaBw, ReqBw
  <2>4. /\ UsedGuaBw[s] = srv[s].used_gua_bw /\ UsedGuaBw'[s] = UsedGua(s, req)
        /\ ReqBw[s] = srv[s].req_bw /\ ReqBw'[s] = req
        /\ \A t \in 1 .. NumServers : GuaBw'[t] = GuaBw[t]
        /\ \A t \in 1 .. NumServers : t # s => UsedGuaBw'[t] = UsedGuaBw[t]
        /\ \A t \in 1 .. NumServers : t # s => ReqBw'[t] = ReqBw[t]
    BY <2>1, <2>2 DEF GuaBw, UsedGuaBw, ReqBw, Servers
  <2>5. /\ qsup_servers' = qsup_servers
        /\ \A u : ServersOf(u)' = ServersOf(u)
        /\ \A l : ServersAt(l)' = ServersAt(l)
    BY <1>3, <2>1, <2>2 DEF ServersOf, ServersAt
  <2>6. tot_gua_bw' = SumOf(qsup_servers', GuaBw')
    <3>1. GuaBw' = GuaBw
      BY <2>4 DEF GuaBw, Servers
    <3> QED
      BY <1>3, <2>5, <3>1 DEF TotalsInv, TotalsAreSums
  <2>7. \A S : s \in S => /\ Wrap(SumOf(S, UsedGuaBw) + UsedGua(s, req) - srv[s].used_gua_bw)
                                = SumOf(S, UsedGuaBw')
                          /\ Wrap(SumOf(S, ReqBw) - srv[s].req_bw + req) = SumOf(S, ReqBw')
    <3> SUFFICES ASSUME NEW S, s \in S
                 PROVE  /\ Wrap(SumOf(S, UsedGuaBw) + UsedGuaBw'[s] - UsedGuaBw[s])
                              = SumOf(S, UsedGuaBw')
                        /\ Wrap(SumOf(S, ReqBw) - ReqBw[s] + ReqBw'[s]) = SumOf(S, ReqBw')
      BY <2>4
    <3>1. Wrap(SumOf(S, UsedGuaBw) + UsedGuaBw'[s] - UsedGuaBw[s]) = SumOf(S, UsedGuaBw')
      BY <2>1, <2>3, <2>4, ChangedTotal
    <3>2. Wrap(SumOf(S, ReqBw) - ReqBw[s] + ReqBw'[s]) = SumOf(S, ReqBw')
      BY <2>1, <2>3, <2>4, ChangedTotal
    <3> QED
      BY <3>1, <3>2
  <2>8. \A S : s \notin S => /\ SumOf(S, UsedGuaBw') = SumOf(S, UsedGuaBw)
                             /\ SumOf(S, ReqBw') = SumOf(S, ReqBw)
    <3> SUFFICES ASSUME NEW S, s \notin S
                 PROVE  /\ SumOf(S, UsedGuaBw') = SumOf(S, UsedGuaBw)
                        /\ SumOf(S, ReqBw') = SumOf(S, ReqBw)
      OBVIOUS
    <3>1. \A t \in 1 .. NumServers : t \in S => UsedGuaBw'[t] = UsedGuaBw[t]
      BY <2>4
    <3>2. \A t \in 1 .. NumServers : t \in S => ReqBw'[t] = ReqBw[t]
      BY <2>4
    <3>3. SumOf(S, UsedGuaBw') = SumOf(S, UsedGuaBw)
      BY <2>3, <3>1, ServerSumSame
    <3>4. SumOf(S, ReqBw') = SumOf(S, ReqBw)
      BY <2>3, <3>2, ServerSumSame
    <3> QED
      BY <3>3, <3>4
  <2>9. TotalsAreSums
    BY DEF TotalsInv
  <2>10. tot_used_gua_bw' = SumOf(qsup_servers', UsedGuaBw')
    BY <1>1, <1>3, <2>5, <2>7, <2>9, SetAccountsTotals DEF TotalsAreSums
  <2>11. ASSUME NEW u \in Uids
         PROVE  /\ qsup_users'[u].user_req = SumOf(ServersOf(u)', ReqBw')
                /\ qsup_users'[u].user_used_gua = SumOf(ServersOf(u)', UsedGuaBw')
    <3>1. CASE u = srv[s].uid
      <4>1. s \in ServersOf(u)
        BY <3>1 DEF ServersOf
      <4>2. /\ qsup_users'[u].user_req = Wrap(SumOf(ServersOf(u), ReqBw) - srv[s].req_bw + req)
            /\ qsup_users'[u].user_used_gua =
                 Wrap(SumOf(ServersOf(u), UsedGuaBw) + UsedGua(s, req) - srv[s].used_gua_bw)
        BY <1>1, <1>3, <2>9, <3>1, SetAccountsTotals DEF TotalsAreSums
      <4> QED
        BY <2>5, <2>7, <4>1, <4>2
    <3>2. CASE u # srv[s].uid
      <4>1. s \notin ServersOf(u)
        BY <3>2 DEF ServersOf
      <4>2. qsup_users'[u] = qsup_users[u]
        BY <1>1, <1>3, <3>2, SetAccountsTotals
      <4> QED
        BY <2>5, <2>8, <2>9, <4>1, <4>2 DEF TotalsAreSums
    <3> QED
      BY <3>1, <3>2
  <2>12. ASSUME NEW l \in Levels
         PROVE  qsup_levels'[l].level_gua = SumOf(ServersAt(l)', UsedGuaBw')
    <3>1. CASE l = srv[s].level
      <4>1. s \in ServersAt(l)
        BY <3>1 DEF ServersAt
      <4>2. qsup_levels'[l].level_gua =
              Wrap(SumOf(ServersAt(l), UsedGuaBw) + UsedGua(s, req) - srv[s].used_gua_bw)
        BY <1>1, <1>3, <2>9, <3>1, SetAccountsTotals DEF TotalsAreSums
      <4> QED
        BY <2>5, <2>7, <4>1, <4>2
    <3>2. CASE l # srv[s].level
      <4>1. s \notin ServersAt(l)
        BY <3>2 DEF ServersAt
      <4>2. qsup_levels'[l].level_gua = qsup_levels[l].level_gua
        BY <1>1, <1>3, <3>2, SetAccountsTotals
      <4> QED
        BY <2>5, <2>8, <2>9, <4>1, <4>2 DEF TotalsAreSums
    <3> QED
      BY <3>1, <3>2
  <2>13. TotalsAreSums'
    BY <2>6, <2>10, <2>11, <2>12 DEF TotalsAreSums
  <2>14. UsedGuaCurrent'
    <3>1. \A t \in qsup_servers : t # s => srv'[t] = srv[t]
      BY <2>2
    <3>2. UsedGua(s, req) = bw_min(req, srv[s].gua_bw)
      BY DEF UsedGua
    <3> QED
      BY <2>1, <2>2, <2>5, <3>1, <3>2 DEF TotalsInv, UsedGuaCurrent
  <2> QED
    BY <2>13, <2>14 DEF TotalsInv
<1> QED
  BY <1>2, <1>3 DEF SetRequiredBw, req

\* What a removal does to the totals, whether or not the server had a
\* request to take back.
LEMMA RemoveTotals ==
    ASSUME TotalsInv, NEW s \in qsup_servers, NEW left \in Server, TakeOut(s, left)
    PROVE  /\ \A u \in Uids : u # srv[s].uid => qsup_users'[u] = qsup_users[u]
           /\ qsup_users'[srv[s].uid].user_req =
                Wrap(qsup_users[srv[s].uid].user_req - srv[s].req_bw)
           /\ qsup_users'[srv[s].uid].user_used_gua =
                Wrap(qsup_users[srv[s].uid].user_used_gua - srv[s].used_gua_bw)
           /\ \A l \in Levels : l # srv[s].level =>
                qsup_levels'[l].level_gua = qsup_levels[l].level_gua
           /\ qsup_levels'[srv[s].level].level_gua =
                Wrap(qsup_levels[srv[s].level].level_gua - srv[s].used_gua_bw)
           /\ tot_used_gua_bw' = Wrap(tot_used_gua_bw - srv[s].used_gua_bw)
<1>1. TypeOK /\ s \in InUse /\ 0 \in Bandwidths
  BY ListedInUse, BandwidthAssumption DEF TotalsInv, Bandwidths
<1>2. /\ srv[s].uid \in Uids /\ srv[s].level \in Levels
      /\ srv[s].gua_bw \in Nat /\ srv[s].req_bw \in Nat /\ srv[s].used_gua_bw \in Nat
  BY <1>1, ServerFacts DEF Bandwidths
<1>3. UsedGua(s, 0) = 0
  BY <1>2 DEF UsedGua, bw_min
<1>4. /\ qsup_users[srv[s].uid].user_req \in Word
      /\ qsup_users[srv[s].uid].user_used_gua \in Word
      /\ qsup_levels[srv[s].level].level_gua \in Word
      /\ tot_used_gua_bw \in Word
  BY <1>1, <1>2 DEF TypeOK, User, Level
<1>5. CASE srv[s].req_bw # 0
  <2>1. SetAccounts(s, 0)
    BY <1>5 DEF TakeOut
  <2>2. /\ qsup_users[srv[s].uid].user_req - srv[s].req_bw + 0
              = qsup_users[srv[s].uid].user_req - srv[s].req_bw
        /\ qsup_users[srv[s].uid].user_used_gua + UsedGua(s, 0) - srv[s].used_gua_bw
              = qsup_users[srv[s].uid].user_used_gua - srv[s].used_gua_bw
        /\ qsup_levels[srv[s].level].level_gua + UsedGua(s, 0) - srv[s].used_gua_bw
              = qsup_levels[srv[s].level].level_gua - srv[s].used_gua_bw
        /\ tot_used_gua_bw + UsedGua(s, 0) - srv[s].used_gua_bw
              = tot_used_gua_bw - srv[s].used_gua_bw
    BY <1>2, <1>3, <1>4 DEF Word
  <2> QED
    BY <1>1, <2>1, <2>2, SetAccountsTotals
<1>6. CASE srv[s].req_bw = 0
  <2>1. UNCHANGED accounts
    BY <1>6 DEF TakeOut
  <2>2. srv[s].used_gua_bw = 0
    BY <1>2, <1>6 DEF TotalsInv, UsedGuaCurrent, bw_min
  <2>3. \A x \in Word : Wrap(x - 0) = x
    BY WrapId DEF Word
  <2> QED
    BY <1>4, <1>6, <2>1, <2>2, <2>3 DEF accounts
<1> QED
  BY <1>5, <1>6

\* A removed server takes out of every total what it put in.
LEMMA TotalsRemoveServer ==
    ASSUME TotalsInv, TypeOK', NEW s \in qsup_servers, NEW left \in Server, RemoveServer(s, left)
    PROVE  TotalsInv'
<1>1. CASE Fault
  BY <1>1, TotalsUnchanged DEF Fault, accounts
<1>2. CASE ~RemoveFaults(s) /\ TakeOut(s, left)
  <2>1. /\ s \in 1 .. NumServers
        /\ srv \in [Servers -> Server] /\ srv' \in [Servers -> Server]
        /\ \A t \in Servers : t # s => srv'[t] = srv[t]
        /\ qsup_servers \subseteq Servers
        /\ qsup_servers' = qsup_servers \ {s}
    BY <1>2 DEF TakeOut, TotalsInv, TypeOK, Servers
  <2>2. /\ GuaBw \in PerServer /\ GuaBw' \in PerServer
        /\ UsedGuaBw \in PerServer /\ UsedGuaBw' \in PerServer
        /\ ReqBw \in PerServer /\ ReqBw' \in PerServer
    BY <2>1, FieldTypes DEF GuaBw, UsedGuaBw, ReqBw
  <2>3. /\ GuaBw[s] = srv[s].gua_bw
        /\ UsedGuaBw[s] = srv[s].used_gua_bw
        /\ ReqBw[s] = srv[s].req_bw
        /\ \A t \in 1 .. NumServers : t # s => GuaBw'[t] = GuaBw[t]
        /\ \A t \in 1 .. NumServers : t # s => UsedGuaBw'[t] = UsedGuaBw[t]
        /\ \A t \in 1 .. NumServers : t # s => ReqBw'[t] = ReqBw[t]
    BY <2>1 DEF GuaBw, UsedGuaBw, ReqBw, Servers
  <2>4. /\ \A u : ServersOf(u)' = ServersOf(u) \ {s}
        /\ \A l : ServersAt(l)' = ServersAt(l) \ {s}
    BY <2>1 DEF ServersOf, ServersAt
  <2>5. TotalsAreSums
    BY DEF TotalsInv
  <2>6. ASSUME NEW S, s \in S
        PROVE  /\ Wrap(SumOf(S, GuaBw) - srv[s].gua_bw) = SumOf(S \ {s}, GuaBw')
               /\ Wrap(SumOf(S, UsedGuaBw) - srv[s].used_gua_bw) = SumOf(S \ {s}, UsedGuaBw')
               /\ Wrap(SumOf(S, ReqBw) - srv[s].req_bw) = SumOf(S \ {s}, ReqBw')
    <3> DEFINE T == S \ {s}
    <3>1. s \notin T /\ \A i \in 1 .. NumServers : i # s => (i \in T <=> i \in S)
      OBVIOUS
    <3> HIDE DEF T
    <3>2. Wrap(SumOf(S, GuaBw) - GuaBw[s]) = SumOf(T, GuaBw')
      BY <2>1, <2>2, <2>3, <2>6, <3>1, RemovedTotal
    <3>3. Wrap(SumOf(S, UsedGuaBw) - UsedGuaBw[s]) = SumOf(T, UsedGuaBw')
      BY <2>1, <2>2, <2>3, <2>6, <3>1, RemovedTotal
    <3>4. Wrap(SumOf(S, ReqBw) - ReqBw[s]) = SumOf(T, ReqBw')
      BY <2>1, <2>2, <2>3, <2>6, <3>1, RemovedTotal
    <3> QED
      BY <2>3, <3>2, <3>3, <3>4 DEF T
  <2>7. ASSUME NEW S, s \notin S
        PROVE  /\ SumOf(S \ {s}, UsedGuaBw') = SumOf(S, UsedGuaBw)
               /\ SumOf(S \ {s}, ReqBw') = SumOf(S, ReqBw)
    <3> DEFINE T == S \ {s}
    <3>1. \A i \in 1 .. NumServers : i \in S <=> i \in T
      BY <2>7
    <3> HIDE DEF T
    <3>2. \A t \in 1 .. NumServers : t \in S => UsedGuaBw[t] = UsedGuaBw'[t]
      BY <2>3, <2>7
    <3>3. \A t \in 1 .. NumServers : t \in S => ReqBw[t] = ReqBw'[t]
      BY <2>3, <2>7
    <3>4. SumOf(T, UsedGuaBw') = SumOf(S, UsedGuaBw)
      BY <2>2, <3>1, <3>2, ServerSumSame
    <3>5. SumOf(T, ReqBw') = SumOf(S, ReqBw)
      BY <2>2, <3>1, <3>3, ServerSumSame
    <3> QED
      BY <3>4, <3>5 DEF T
  <2>8. tot_gua_bw' = SumOf(qsup_servers', GuaBw')
    <3>1. tot_gua_bw' = Wrap(SumOf(qsup_servers, GuaBw) - srv[s].gua_bw)
      BY <1>2, <2>5 DEF TakeOut, TotalsAreSums
    <3> QED
      BY <2>1, <2>6, <3>1
  <2>9. tot_used_gua_bw' = SumOf(qsup_servers', UsedGuaBw')
    <3>1. tot_used_gua_bw' = Wrap(SumOf(qsup_servers, UsedGuaBw) - srv[s].used_gua_bw)
      BY <1>2, <2>5, RemoveTotals DEF TotalsAreSums
    <3> QED
      BY <2>1, <2>6, <3>1
  <2>10. ASSUME NEW u \in Uids
         PROVE  /\ qsup_users'[u].user_req = SumOf(ServersOf(u)', ReqBw')
                /\ qsup_users'[u].user_used_gua = SumOf(ServersOf(u)', UsedGuaBw')
    <3>1. CASE u = srv[s].uid
      <4>1. s \in ServersOf(u)
        BY <3>1 DEF ServersOf
      <4>2. /\ qsup_users'[u].user_req = Wrap(SumOf(ServersOf(u), ReqBw) - srv[s].req_bw)
            /\ qsup_users'[u].user_used_gua =
                 Wrap(SumOf(ServersOf(u), UsedGuaBw) - srv[s].used_gua_bw)
        BY <1>2, <2>5, <3>1, RemoveTotals DEF TotalsAreSums
      <4> QED
        BY <2>4, <2>6, <4>1, <4>2
    <3>2. CASE u # srv[s].uid
      <4>1. s \notin ServersOf(u)
        BY <3>2 DEF ServersOf
      <4>2. qsup_users'[u] = qsup_users[u]
        BY <1>2, <3>2, RemoveTotals
      <4> QED
        BY <2>4, <2>5, <2>7, <4>1, <4>2 DEF TotalsAreSums
    <3> QED
      BY <3>1, <3>2
  <2>11. ASSUME NEW l \in Levels
         PROVE  qsup_levels'[l].level_gua = SumOf(ServersAt(l)', UsedGuaBw')
    <3>1. CASE l = srv[s].level
      <4>1. s \in ServersAt(l)
        BY <3>1 DEF ServersAt
      <4>2. qsup_levels'[l].level_gua =
              Wrap(SumOf(ServersAt(l), UsedGuaBw) - srv[s].used_gua_bw)
        BY <1>2, <2>5, <3>1, RemoveTotals DEF TotalsAreSums
      <4> QED
        BY <2>4, <2>6, <4>1, <4>2
    <3>2. CASE l # srv[s].level
      <4>1. s \notin ServersAt(l)
        BY <3>2 DEF ServersAt
      <4>2. qsup_levels'[l].level_gua = qsup_levels[l].level_gua
        BY <1>2, <3>2, RemoveTotals
      <4> QED
        BY <2>4, <2>5, <2>7, <4>1, <4>2 DEF TotalsAreSums
    <3> QED
      BY <3>1, <3>2
  <2>12. TotalsAreSums'
    BY <2>8, <2>9, <2>10, <2>11 DEF TotalsAreSums
  <2>13. UsedGuaCurrent'
    BY <2>1 DEF TotalsInv, UsedGuaCurrent
  <2> QED
    BY <2>12, <2>13 DEF TotalsInv
<1> QED
  BY <1>1, <1>2 DEF RemoveServer

\* No step lets a total drift.
LEMMA TotalsNext == TotalsInv /\ [Next]_vars => TotalsInv'
<1> SUFFICES ASSUME TotalsInv, [Next]_vars PROVE TotalsInv'
  OBVIOUS
<1>1. TypeOK'
  BY TypeNext DEF TotalsInv
<1>2. CASE Configure
  BY <1>1, <1>2, TotalsConfigure
<1>3. CASE Serve
  BY <1>1, <1>3, ServeForm, TotalsInitServer, TotalsSetRequiredBw, TotalsRemoveServer
     DEF TotalsInv
<1>4. CASE UNCHANGED vars
  BY <1>1, <1>4, TotalsUnchanged DEF vars, accounts
<1> QED
  BY <1>2, <1>3, <1>4 DEF Next

\* The totals of qsup.c never drift: through any creations, requests and
\* destructions, under any rules changed at any time, each of tot_gua_bw,
\* tot_used_gua_bw, user_req, user_used_gua and level_gua is the sum over the
\* listed servers that it stands for.
THEOREM TotalsCorrect == Spec => []TotalsAreSums
<1>1. TotalsInv => TotalsAreSums
  BY DEF TotalsInv
<1> QED
  BY <1>1, TotalsInit, TotalsNext, PTL DEF Spec

-----------------------------------------------------------------------------
(* The schedulability test holds at every step, not only when a server is  *)
(* admitted: tot_gua_bw, which it looks at, is the sum of the guarantees.  *)

SchedulableInv == TotalsInv /\ GuaranteesSchedulable

\* The test holds initially: nothing is guaranteed.
LEMMA SchedulableInit == Init => SchedulableInv
<1> SUFFICES ASSUME Init PROVE SchedulableInv
  OBVIOUS
<1>1. TotalsInv
  BY TotalsInit
<1>2. U_LUB \in Nat
  BY BoundType
<1>3. GuaranteesSchedulable
  BY <1>2, SumEmpty DEF Init, GuaranteesSchedulable
<1> QED
  BY <1>1, <1>3 DEF SchedulableInv

\* A step that grants passed the test; the others grant nothing.
LEMMA SchedulableNext == SchedulableInv /\ [Next]_vars => SchedulableInv'
<1> SUFFICES ASSUME SchedulableInv, [Next]_vars PROVE SchedulableInv'
  OBVIOUS
<1>1. TotalsInv /\ TotalsInv'
  BY TotalsNext DEF SchedulableInv
<1>2. /\ SumOf(qsup_servers, GuaBw) = tot_gua_bw
      /\ SumOf(qsup_servers', GuaBw') = tot_gua_bw'
  BY <1>1 DEF TotalsInv, TotalsAreSums
<1>3. tot_gua_bw <= U_LUB - spare_bw
  BY <1>2 DEF SchedulableInv, GuaranteesSchedulable
<1>4. SUFFICES tot_gua_bw' <= U_LUB - spare_bw'
  BY <1>1, <1>2 DEF SchedulableInv, GuaranteesSchedulable
<1>5. CASE UNCHANGED <<tot_gua_bw, spare_bw>>
  BY <1>3, <1>5
<1>6. ASSUME NEW bw \in Spares, ReserveSpare(bw)
      PROVE  tot_gua_bw' <= U_LUB - spare_bw'
  <2>1. tot_gua_bw' = 0
    BY <1>2, <1>6, SumEmpty DEF ReserveSpare
  <2>2. bw \in Nat /\ U_LUB \in Nat
    BY QsupAssumption, BoundType DEF Bandwidths
  <2> QED
    BY <1>6, <2>1, <2>2 DEF ReserveSpare
<1>7. ASSUME NEW s \in Servers, NEW uid \in Uids, NEW gid \in Gids, NEW p \in Params,
             InitServer(s, uid, gid, p)
      PROVE  tot_gua_bw' <= U_LUB - spare_bw'
  BY <1>7 DEF InitServer, Admissible, rules
<1>8. ASSUME NEW s \in qsup_servers, NEW left \in Server, TakeOut(s, left)
      PROVE  tot_gua_bw' <= U_LUB - spare_bw'
  <2>1. /\ s \in 1 .. NumServers
        /\ srv \in [Servers -> Server] /\ srv' \in [Servers -> Server]
        /\ \A t \in Servers : t # s => srv'[t] = srv[t]
        /\ qsup_servers' = qsup_servers \ {s}
    BY <1>1, <1>8 DEF TakeOut, TotalsInv, TypeOK, Servers
  <2>2. /\ GuaBw \in PerServer /\ GuaBw' \in PerServer
        /\ \A t \in 1 .. NumServers : t # s => GuaBw'[t] = GuaBw[t]
        /\ s \notin qsup_servers'
        /\ \A t \in 1 .. NumServers : t # s => (t \in qsup_servers' <=> t \in qsup_servers)
    BY <2>1, FieldTypes DEF GuaBw, Servers
  <2>3. SumOf(qsup_servers', GuaBw') = SumOf(qsup_servers, GuaBw) - GuaBw[s]
    <3>1. s \in qsup_servers /\ s \in 1 .. NumServers
      BY <2>1
    <3> QED
      BY <2>2, <3>1, ServerSumRemove
  <2>4. GuaBw[s] \in Nat /\ spare_bw' = spare_bw
    BY <1>8, <2>1, <2>2 DEF PerServer, TakeOut, rules
  <2>5. tot_gua_bw \in Int /\ U_LUB \in Int /\ spare_bw \in Int
    BY <1>1, BoundType DEF TotalsInv, TypeOK, Word
  <2> QED
    BY <1>2, <1>3, <2>3, <2>4, <2>5
<1>9. CASE Configure
  BY <1>5, <1>6, <1>9
     DEF Configure, AddLevelRule, AddGroupRule, AddUserRule, rules
<1>10. CASE Serve
  BY <1>1, <1>5, <1>7, <1>8, <1>10, ServeForm
     DEF TotalsInv, SetRequiredBw, RemoveServer, Fault, rules
<1>11. CASE UNCHANGED vars
  BY <1>5, <1>11 DEF vars, rules
<1> QED
  BY <1>9, <1>10, <1>11 DEF Next

\* The guarantees given out never exceed U_LUB less the spare, although
\* qsup_init_server tests a running total and rules change at any time.
THEOREM GuaranteesCorrect == Spec => []GuaranteesSchedulable
<1>1. SchedulableInv => GuaranteesSchedulable
  BY DEF SchedulableInv
<1> QED
  BY <1>1, SchedulableInit, SchedulableNext, PTL DEF Spec

-----------------------------------------------------------------------------
(* The levels share U_LUB. *)

\* What the levels are assigned when they are compressed.
LEMMA LevelsSetAccounts ==
    ASSUME TypeOK, NEW s \in InUse, NEW req \in Bandwidths, SetAccounts(s, req)
    PROVE  LevelsWithinBound'
<1> DEFINE levels == LevelsBefore(s, req)
<1>1. levels \in [Levels -> Level]
  BY LevelTotalsType DEF LevelsBefore, TypeOK
<1>2. qsup_levels' = Recompute(levels)
  BY DEF SetAccounts, LevelsAfter
<1> HIDE DEF levels
<1>3. \A l \in Levels : qsup_levels'[l].level_sum = Assigned(levels, l)
  BY <1>1, <1>2 DEF Recompute, Level
<1>4. /\ Assigned(levels, 0) \in 0 .. U_LUB
      /\ Assigned(levels, 1) \in 0 .. U_LUB
      /\ U_LUB \in Nat
  BY <1>1, AssignedType, BoundType DEF Levels
<1>5. Assigned(levels, 1) <= U_LUB - Assigned(levels, 0)
  BY <1>4 DEF Assigned, bw_min
<1> QED
  BY <1>3, <1>4, <1>5 DEF LevelsWithinBound, Levels

\* They change what they get only then: on a request,
LEMMA LevelsSetRequiredBw ==
    ASSUME TypeOK, LevelsWithinBound, NEW s \in InUse, NEW bw \in Nat,
           SetRequiredBw(s, bw)
    PROVE  LevelsWithinBound'
<1>1. Saturated(s, bw) \in Bandwidths
  BY SaturatedType
<1> QED
  BY <1>1, LevelsSetAccounts
     DEF SetRequiredBw, Fault, accounts, LevelsWithinBound

\* and when one is taken back.
LEMMA LevelsRemoveServer ==
    ASSUME TypeOK, LevelsWithinBound, NEW s \in InUse, NEW left, RemoveServer(s, left)
    PROVE  LevelsWithinBound'
<1>1. 0 \in Bandwidths
  BY BandwidthAssumption DEF Bandwidths
<1> QED
  BY <1>1, LevelsSetAccounts
     DEF RemoveServer, TakeOut, Fault, accounts, LevelsWithinBound

\* So at every step.
LEMMA LevelsNext == TypeOK /\ LevelsWithinBound /\ [Next]_vars => LevelsWithinBound'
<1> SUFFICES ASSUME TypeOK, LevelsWithinBound, [Next]_vars
             PROVE  LevelsWithinBound'
  OBVIOUS
<1>1. CASE \A l \in Levels : qsup_levels'[l].level_sum = qsup_levels[l].level_sum
  BY <1>1 DEF LevelsWithinBound, Levels
<1>3. ASSUME NEW l \in Levels, NEW bw \in LevelCaps, AddLevelRule(l, bw)
      PROVE  LevelsWithinBound'
  <2>1. qsup_levels \in [Levels -> Level]
    BY DEF TypeOK
  <2> QED
    BY <1>1, <1>3, <2>1 DEF AddLevelRule, Level
<1>4. CASE UNCHANGED qsup_levels
  BY <1>1, <1>4
<1>5. CASE Configure
  BY <1>3, <1>4, <1>5
     DEF Configure, AddGroupRule, AddUserRule, ReserveSpare, accounts
<1>6. CASE Serve
  <2>1. ASSUME NEW s \in Servers, NEW uid, NEW gid, NEW p, InitServer(s, uid, gid, p)
        PROVE  LevelsWithinBound'
    BY <1>4, <2>1 DEF InitServer, accounts
  <2> QED
    BY <1>6, <2>1, ServeForm, ListedInUse, LevelsSetRequiredBw, LevelsRemoveServer
<1>9. CASE UNCHANGED vars
  BY <1>4, <1>9 DEF vars, accounts
<1> QED
  BY <1>5, <1>6, <1>9 DEF Next

\* What the levels are assigned never adds up to more than U_LUB, whatever is
\* requested, and whichever level rules are added in between.
THEOREM LevelsCorrect == Spec => []LevelsWithinBound
<1>1. Init => LevelsWithinBound
  <2>1. U_LUB \in Nat
    BY BoundType
  <2> QED
    BY <2>1 DEF Init, LevelsWithinBound, NewLevel, Levels
<1> QED
  BY <1>1, LevelsNext, TypeInit, TypeNext, PTL DEF Spec

-----------------------------------------------------------------------------
(* The supervisor implements module Admission: a client is a listed server *)
(* and what it was granted its gua_bw.  Admission adds up the grants anew  *)
(* at every step; that the running total gives the same answer is where    *)
(* TotalsInv is needed.                                                    *)

\* Steps that change neither the list nor a guarantee of a listed server.
LEMMA AdmissionStutter ==
    ASSUME UNCHANGED <<spare_bw, qsup_servers>>,
           \A s \in qsup_servers : s \in Servers => srv'[s].gua_bw = srv[s].gua_bw
    PROVE  UNCHANGED Adm!avars
BY DEF Adm!avars, On, GuaBw, Servers

\* No server is listed initially.
LEMMA AdmissionInit == Init => Adm!Init
  BY DEF Init, Adm!Init, Adm!Clients, On, GuaBw

\* An admission is an admission: the counter test implies that the grants fit.
LEMMA AdmissionInitServer ==
    ASSUME SchedulableInv, NEW s \in Servers, NEW uid \in Uids, NEW gid \in Gids,
           NEW p, MinBw(p) \in Nat, InitServer(s, uid, gid, p), SchedulableInv'
    PROVE  Adm!Next
<1>1. /\ s \in 1 .. NumServers /\ s \notin qsup_servers
      /\ srv \in [Servers -> Server] /\ srv' \in [Servers -> Server]
      /\ srv'[s].gua_bw = MinBw(p)
      /\ \A t \in Servers : t # s => srv'[t] = srv[t]
      /\ qsup_servers' = qsup_servers \cup {s}
      /\ spare_bw' = spare_bw
  BY DEF InitServer, SchedulableInv, TotalsInv, TypeOK, Servers, NewServer, rules
<1>2. On(qsup_servers', GuaBw', NumServers)
        = [On(qsup_servers, GuaBw, NumServers) EXCEPT ![s] = MinBw(p)]
  BY <1>1 DEF On, GuaBw, Servers
<1>3. GuaBw \in PerServer /\ GuaBw' \in PerServer
  BY <1>1, FieldTypes DEF GuaBw
<1>4. SumOf(qsup_servers, GuaBw) \in Nat /\ MinBw(p) \in Nat
  BY <1>3, SumFits, BandwidthAssumption DEF Word
<1>5. SumOf(qsup_servers', GuaBw') = SumOf(qsup_servers, GuaBw) + MinBw(p)
  <2>1. /\ GuaBw'[s] = MinBw(p)
        /\ \A t \in 1 .. NumServers : t # s => GuaBw'[t] = GuaBw[t]
        /\ s \in qsup_servers'
        /\ \A t \in 1 .. NumServers : t # s => (t \in qsup_servers' <=> t \in qsup_servers)
    BY <1>1 DEF GuaBw, Servers
  <2>2. SumOf(qsup_servers', GuaBw') = SumOf(qsup_servers, GuaBw) + GuaBw'[s]
    <3>1. s \in 1 .. NumServers /\ s \notin qsup_servers
      BY <1>1
    <3> QED
      BY <1>3, <2>1, <3>1, ServerSumInsert
  <2> QED
    BY <2>1, <2>2
<1>6. SumOf(qsup_servers, GuaBw) + MinBw(p) <= U_LUB - spare_bw
  BY <1>1, <1>5 DEF SchedulableInv, GuaranteesSchedulable
<1>7. MinBw(p) \in 0 .. U_LUB
  <2>1. spare_bw \in 0 .. U_LUB /\ U_LUB \in Nat
    BY BoundType DEF SchedulableInv, TotalsInv, TypeOK
  <2> QED
    BY <1>4, <1>6, <2>1
<1>8. Adm!Granted = SumOf(qsup_servers, GuaBw)
  BY DEF Adm!Granted, Adm!Total, Adm!PartialSums, SumOf, Total, PartialSums
<1>9. Adm!Admit(s, MinBw(p))
  BY <1>1, <1>2, <1>6, <1>8 DEF Adm!Admit
<1> QED
  BY <1>1, <1>7, <1>9 DEF Adm!Next, Adm!Clients

\* A removal is a release.
LEMMA AdmissionRemoveServer ==
    ASSUME TypeOK, NEW s \in qsup_servers, NEW left \in Server, TakeOut(s, left)
    PROVE  Adm!Next
<1>1. /\ s \in 1 .. NumServers
      /\ srv \in [Servers -> Server]
      /\ \A t \in Servers : t # s => srv'[t] = srv[t]
      /\ qsup_servers' = qsup_servers \ {s}
      /\ spare_bw' = spare_bw
  BY DEF TakeOut, TypeOK, Servers, rules
<1>2. On(qsup_servers', GuaBw', NumServers)
        = [On(qsup_servers, GuaBw, NumServers) EXCEPT ![s] = 0]
  BY <1>1 DEF On, GuaBw, Servers
<1>3. Adm!Release(s)
  BY <1>1, <1>2 DEF Adm!Release
<1> QED
  BY <1>1, <1>3 DEF Adm!Next, Adm!Clients

\* Every step is a step of Admission, or changes nothing it sees.
LEMMA AdmissionNext ==
    SchedulableInv /\ SchedulableInv' /\ [Next]_vars => [Adm!Next]_(Adm!avars)
<1> SUFFICES ASSUME SchedulableInv, SchedulableInv', [Next]_vars
             PROVE  Adm!Next \/ UNCHANGED Adm!avars
  OBVIOUS
<1>1. TypeOK
  BY DEF SchedulableInv, TotalsInv
<1>2. CASE UNCHANGED <<spare_bw, qsup_servers, srv>>
  BY <1>2, AdmissionStutter
<1>3. ASSUME NEW bw \in Spares, ReserveSpare(bw)
      PROVE  Adm!Next
  <2>1. bw \in 0 .. U_LUB
    BY <1>3, QsupAssumption, BoundType DEF ReserveSpare, Bandwidths
  <2>2. On(qsup_servers', GuaBw', NumServers) = On(qsup_servers, GuaBw, NumServers)
    BY <1>3 DEF ReserveSpare, On, GuaBw
  <2>3. Adm!Withhold(bw)
    BY <1>3, <2>2 DEF ReserveSpare, Adm!Withhold
  <2> QED
    BY <2>1, <2>3 DEF Adm!Next
<1>4. ASSUME NEW s \in qsup_servers, NEW bw \in Nat, SetRequiredBw(s, bw)
      PROVE  UNCHANGED Adm!avars
  <2> DEFINE req == Saturated(s, bw)
  <2>1. s \in InUse /\ req \in Bandwidths
    BY <1>1, ListedInUse, SaturatedType
  <2>2. CASE Fault
    BY <1>2, <2>2, AdmissionStutter DEF Fault, rules
  <2>3. CASE /\ srv' = [srv EXCEPT ![s] = ServerAfter(s, req)]
             /\ UNCHANGED <<rules, qsup_servers, tot_gua_bw, faulted>>
    <3>1. ServerAfter(s, req).gua_bw = srv[s].gua_bw
      BY <1>1, <2>1, ServerFacts
    <3>2. \A t \in qsup_servers : t \in Servers => srv'[t].gua_bw = srv[t].gua_bw
      BY <1>1, <2>3, <3>1 DEF TypeOK
    <3> QED
      BY <2>3, <3>2, AdmissionStutter DEF rules
  <2> QED
    BY <1>4, <2>2, <2>3 DEF SetRequiredBw
<1>5. CASE Configure
  BY <1>2, <1>3, <1>5 DEF Configure, AddLevelRule, AddGroupRule, AddUserRule, rules
<1>6. ASSUME NEW s \in Servers, NEW uid \in Uids, NEW gid \in Gids, NEW p,
             MinBw(p) \in Nat, InitServer(s, uid, gid, p)
      PROVE  Adm!Next
  BY <1>6, AdmissionInitServer
<1>7. ASSUME NEW s \in qsup_servers, NEW left \in Server, RemoveServer(s, left)
      PROVE  Adm!Next \/ UNCHANGED Adm!avars
  BY <1>1, <1>2, <1>7, AdmissionRemoveServer DEF RemoveServer, Fault, rules
<1>8. CASE UNCHANGED vars
  BY <1>2, <1>8 DEF vars, rules
<1> QED
  BY <1>1, <1>4, <1>5, <1>6, <1>7, <1>8, ServeForm DEF Next

\* Every behaviour of the supervisor is one of admission control as module
\* Admission states it, for every number of servers and users.
THEOREM AdmissionImplemented == Spec => ImplementsAdmission
  BY AdmissionInit, AdmissionNext, SchedulableInit, SchedulableNext, PTL
     DEF Spec, ImplementsAdmission

-----------------------------------------------------------------------------
(* An administrator who keeps to WellConfigured (SpecWell of module Qsup): *)
(* no division of qsup_set_required_bw faults, no difference it takes is   *)
(* negative, what is kept is current, and what is approved keeps to every  *)
(* bound.                                                                  *)
(*                                                                         *)
(* First, products and quotients.                                          *)

\* A product is monotone in its first factor.
LEMMA TimesMono ==
    ASSUME NEW a \in Nat, NEW b \in Nat, NEW c \in Nat, a <= b
    PROVE  a * c <= b * c
<1>1. b = a + (b - a) /\ b - a \in Nat
  OBVIOUS
<1>2. b * c = a * c + (b - a) * c
  BY <1>1
<1>3. (b - a) * c \in Nat /\ a * c \in Nat
  BY <1>1
<1> QED
  BY <1>2, <1>3

\* A factor other than zero can be taken off both sides.
LEMMA TimesCancel ==
    ASSUME NEW a \in Nat, NEW b \in Nat, NEW c \in Nat \ {0}, c * a <= c * b
    PROVE  a <= b
<1> SUFFICES ASSUME b + 1 <= a
             PROVE  FALSE
  OBVIOUS
<1>1. (b + 1) * c <= a * c
  BY TimesMono
<1>2. (b + 1) * c = c * b + c /\ a * c = c * a
  OBVIOUS
<1>3. c * a \in Nat /\ c * b \in Nat
  OBVIOUS
<1> QED
  BY <1>1, <1>2, <1>3

\* What a quotient is.
LEMMA DivFacts ==
    ASSUME NEW x \in Nat, NEW b \in Nat \ {0}
    PROVE  x \div b \in Nat /\ b * (x \div b) <= x
OBVIOUS

\* A quotient is not above c when the numerator is not above c divisors.
LEMMA DivAtMost ==
    ASSUME NEW x \in Nat, NEW b \in Nat \ {0}, NEW c \in Nat, x <= b * c
    PROVE  x \div b <= c
<1>1. x \div b \in Nat /\ b * (x \div b) <= x
  BY DivFacts
<1>2. b * (x \div b) \in Nat /\ b * c \in Nat
  BY <1>1
<1>3. b * (x \div b) <= b * c
  BY <1>1, <1>2
<1> QED
  BY <1>1, <1>3, TimesCancel

\* The coefficient of a room within the excess is at most 1.0, and its division
\* does not fault.
LEMMA CoeffWithinOne ==
    ASSUME NEW a \in Nat, NEW b \in Nat \ {0}, a <= b
    PROVE  /\ ~CoeffFaults(a, b)
           /\ coeff_compute(a, b) \in 0 .. COEFF_ONE
           /\ coeff_compute(a, b) * b <= COEFF_ONE * a
<1> DEFINE x == a * COEFF_ONE
           q == x \div b
<1>1. COEFF_ONE \in Nat /\ COEFF_ONE < WORD /\ WORD \in Nat
  BY BandwidthAssumption
<1>2. x \in Nat
  BY <1>1
<1>3. x <= b * COEFF_ONE
  BY <1>1, TimesMono
<1> HIDE DEF x
<1>4. q \in Nat /\ b * q <= x
  BY <1>2, DivFacts
<1>5. q <= COEFF_ONE
  BY <1>1, <1>2, <1>3, DivAtMost
<1>6. coeff_compute(a, b) = q /\ ul_shl_div(a, COEFF_ONE, b) = q
  BY DEF coeff_compute, ul_shl_div, x
<1>7. ~CoeffFaults(a, b)
  <2>1. ~(q >= WORD)
    BY <1>1, <1>4, <1>5
  <2> HIDE DEF q
  <2> QED
    BY <1>6, <2>1 DEF CoeffFaults, DivideFaults
<1>8. q * b <= COEFF_ONE * a
  <2>1. q * b = b * q /\ x = COEFF_ONE * a
    BY <1>1, <1>4 DEF x
  <2> QED
    BY <1>4, <2>1
<1> HIDE DEF q
<1> QED
  BY <1>1, <1>4, <1>5, <1>6, <1>7, <1>8

\* A coefficient of at most 1.0 takes away, and nothing wraps.
LEMMA ApplyWithin ==
    ASSUME NEW x \in Word, NEW c \in 0 .. COEFF_ONE
    PROVE  /\ coeff_apply(x, c) \in 0 .. x
           /\ COEFF_ONE * coeff_apply(x, c) <= c * x
<1>1. COEFF_ONE \in Nat \ {0} /\ WORD \in Nat \ {0} /\ x \in Nat /\ c \in Nat
  BY BandwidthAssumption DEF Word
<1> DEFINE p == x * c
           q == p \div COEFF_ONE
<1>2. p \in Nat /\ p = c * x /\ c * x <= COEFF_ONE * x
  BY <1>1, TimesMono
<1> HIDE DEF p
<1>3. q \in Nat /\ COEFF_ONE * q <= p
  BY <1>1, <1>2, DivFacts
<1>4. q <= x
  BY <1>1, <1>2, DivAtMost
<1> HIDE DEF q
<1>5. q \in Word
  BY <1>1, <1>3, <1>4 DEF Word
<1>6. coeff_apply(x, c) = q
  BY <1>5, WrapId DEF coeff_apply, ul_mul_shr, p, q
<1> QED
  BY <1>1, <1>2, <1>3, <1>4, <1>6

-----------------------------------------------------------------------------
(* Sums over the servers of a user and of a level. *)

\* A function of bandwidths is one of integers, and there are finitely many
\* servers.
LEMMA PerServerInt ==
    NumServers \in Nat /\ PerServer \subseteq [1 .. NumServers -> Int]
BY QsupAssumption DEF PerServer

\* Sums compare as their summands do,
LEMMA ServerSumMono ==
    ASSUME NEW S, NEW f \in PerServer, NEW g \in PerServer,
           \A i \in 1 .. NumServers : i \in S => f[i] <= g[i]
    PROVE  SumOf(S, f) <= SumOf(S, g)
<1>1. NumServers \in Nat /\ f \in [1 .. NumServers -> Int] /\ g \in [1 .. NumServers -> Int]
  BY PerServerInt
<1>2. Total(On(S, f, NumServers), NumServers) <= Total(On(S, g, NumServers), NumServers)
  BY <1>1, SumMono
<1> QED
  BY <1>2 DEF SumOf

\* add up as their summands do,
LEMMA ServerSumAdd ==
    ASSUME NEW S, NEW f \in PerServer, NEW g \in PerServer, NEW h \in PerServer,
           \A i \in 1 .. NumServers : i \in S => h[i] = f[i] + g[i]
    PROVE  SumOf(S, h) = SumOf(S, f) + SumOf(S, g)
<1>1. /\ NumServers \in Nat
      /\ f \in [1 .. NumServers -> Int]
      /\ g \in [1 .. NumServers -> Int]
      /\ h \in [1 .. NumServers -> Int]
  BY PerServerInt
<1>2. Total(On(S, h, NumServers), NumServers)
        = Total(On(S, f, NumServers), NumServers) + Total(On(S, g, NumServers), NumServers)
  BY <1>1, SumAdd
<1> QED
  BY <1>2 DEF SumOf

\* and are scaled as their summands are.
LEMMA ServerSumRatio ==
    ASSUME NEW S, NEW a \in Int, NEW c \in Int, NEW f \in PerServer, NEW g \in PerServer,
           \A i \in 1 .. NumServers : i \in S => a * g[i] <= c * f[i]
    PROVE  a * SumOf(S, g) <= c * SumOf(S, f)
<1>1. NumServers \in Nat /\ f \in [1 .. NumServers -> Int] /\ g \in [1 .. NumServers -> Int]
  BY PerServerInt
<1>2. a * Total(On(S, g, NumServers), NumServers) <= c * Total(On(S, f, NumServers), NumServers)
  BY <1>1, SumRatio
<1> QED
  BY <1>2 DEF SumOf

\* User u has a server at level l.
HasAt(l, u) == \E s \in ServersOf(u) : srv[s].level = l

\* What the users of a level ask for when their servers ask for f: each up to
\* the user's own maximum.
Capped(l, f) ==
    [u \in Uids |->
        IF HasAt(l, u)
        THEN bw_min(SumOf(ServersOf(u), f),
                    srv[CHOOSE s \in ServersOf(u) : srv[s].level = l].max_user_bw)
        ELSE 0]

\* The maximum is that of any of the user's servers.
LEMMA CappedAt ==
    ASSUME WellConfigured, NEW l \in Levels, NEW u \in Uids, NEW f,
           NEW s \in ServersOf(u), srv[s].level = l
    PROVE  Capped(l, f)[u] = bw_min(SumOf(ServersOf(u), f), srv[s].max_user_bw)
<1> DEFINE t == CHOOSE x \in ServersOf(u) : srv[x].level = l
<1>1. t \in ServersOf(u)
  OBVIOUS
<1>2. HasAt(l, u)
  BY DEF HasAt
<1>3. Capped(l, f)[u] = bw_min(SumOf(ServersOf(u), f), srv[t].max_user_bw)
  BY <1>2 DEF Capped
<1> HIDE DEF t
<1>4. srv[t].max_user_bw = srv[s].max_user_bw
  BY <1>1 DEF WellConfigured, ServersOf
<1> QED
  BY <1>3, <1>4

\* A capped request is a bandwidth, and the request of a level fits a word.
LEMMA CappedType ==
    ASSUME TypeOK, NEW l \in Levels, NEW f \in PerServer
    PROVE  /\ Capped(l, f) \in [Uids -> 0 .. MAX_BW]
           /\ Capped(l, f) \in [1 .. NumUsers -> Int]
           /\ Total(Capped(l, f), NumUsers) \in Word
<1>1. ASSUME NEW u \in Uids
      PROVE  Capped(l, f)[u] \in 0 .. MAX_BW
  <2>1. CASE HasAt(l, u)
    <3> DEFINE s == CHOOSE x \in ServersOf(u) : srv[x].level = l
    <3>1. s \in qsup_servers
      BY <2>1 DEF HasAt, ServersOf
    <3>2. srv[s].max_user_bw \in 0 .. MAX_BW
      <4> HIDE DEF s
      <4> QED
        BY <3>1 DEF TypeOK, Server, Bandwidths
    <3>3. Capped(l, f)[u] = bw_min(SumOf(ServersOf(u), f), srv[s].max_user_bw)
      BY <2>1 DEF Capped
    <3>4. SumOf(ServersOf(u), f) \in Nat
      BY SumFits, BandwidthAssumption DEF Word
    <3> HIDE DEF s
    <3> QED
      BY <3>2, <3>3, <3>4, BandwidthAssumption DEF bw_min
  <2>2. CASE ~HasAt(l, u)
    BY <2>2, BandwidthAssumption DEF Capped
  <2> QED
    BY <2>1, <2>2
<1>2. Capped(l, f) = [u \in Uids |-> Capped(l, f)[u]]
  BY DEF Capped
<1>3. Capped(l, f) \in [Uids -> 0 .. MAX_BW]
  BY <1>1, <1>2
<1>4. /\ NumUsers \in Nat /\ MAX_BW \in Nat /\ WORD \in Nat
      /\ NumUsers * MAX_BW < WORD /\ NumUsers * MAX_BW \in Nat
  BY QsupAssumption, BandwidthAssumption
<1>5. Total(Capped(l, f), NumUsers) \in 0 .. (NumUsers * MAX_BW)
  BY <1>3, <1>4, TotalBound DEF Uids
<1> QED
  BY <1>3, <1>4, <1>5 DEF Uids, Word

\* The sum over a level is the sum over its users.
LEMMA SumByUser ==
    ASSUME TypeOK, WellConfigured, NEW l \in Levels, NEW f \in PerServer
    PROVE  SumOf(ServersAt(l), f)
             = Total([u \in Uids |-> IF HasAt(l, u) THEN SumOf(ServersOf(u), f) ELSE 0], NumUsers)
<1> DEFINE w == [s \in Servers |-> srv[s].uid]
           Of(u) == {s \in ServersAt(l) : w[s] = u}
<1>1. /\ NumServers \in Nat /\ NumUsers \in Nat
      /\ f \in [1 .. NumServers -> Int]
      /\ \A s \in 1 .. NumServers : s \in ServersAt(l) => w[s] \in 1 .. NumUsers
  BY QsupAssumption, PerServerInt DEF ServersAt, TypeOK, Servers, Uids
<1>2. ASSUME NEW u \in Uids
      PROVE  SumOf(Of(u), f) = IF HasAt(l, u) THEN SumOf(ServersOf(u), f) ELSE 0
  <2>1. Of(u) = {s \in qsup_servers : srv[s].level = l /\ srv[s].uid = u}
    BY DEF ServersAt, TypeOK
  <2>2. CASE HasAt(l, u)
    <3>1. \A s \in ServersOf(u) : srv[s].level = l
      BY <2>2 DEF HasAt, WellConfigured, ServersOf
    <3>2. Of(u) = ServersOf(u)
      BY <2>1, <3>1 DEF ServersOf
    <3> QED
      BY <2>2, <3>2
  <2>3. CASE ~HasAt(l, u)
    <3>1. Of(u) = {}
      BY <2>1, <2>3 DEF HasAt, ServersOf
    <3> QED
      BY <2>3, <3>1, SumEmpty
  <2> QED
    BY <2>2, <2>3
<1> HIDE DEF w
<1>3. SumOf(ServersAt(l), f) = Total([u \in Uids |-> SumOf(Of(u), f)], NumUsers)
  <2>1. Total(On(ServersAt(l), f, NumServers), NumServers)
          = Total([u \in 1 .. NumUsers |-> Total(On(Of(u), f, NumServers), NumServers)], NumUsers)
    BY <1>1, TotalGrouped
  <2> QED
    BY <2>1 DEF SumOf, Uids
<1>4. [u \in Uids |-> SumOf(Of(u), f)]
        = [u \in Uids |-> IF HasAt(l, u) THEN SumOf(ServersOf(u), f) ELSE 0]
  BY <1>2
<1> QED
  BY <1>3, <1>4

\* What keeps to each user's request and maximum keeps to the request of the level.
LEMMA SumWithinCapped ==
    ASSUME TypeOK, WellConfigured, NEW l \in Levels,
           NEW f \in PerServer, NEW g \in PerServer,
           \A u \in Uids, s \in Servers :
              s \in ServersOf(u) => SumOf(ServersOf(u), f)
                                      <= bw_min(SumOf(ServersOf(u), g), srv[s].max_user_bw)
    PROVE  SumOf(ServersAt(l), f) <= Total(Capped(l, g), NumUsers)
<1> DEFINE F == [u \in Uids |-> IF HasAt(l, u) THEN SumOf(ServersOf(u), f) ELSE 0]
<1>1. NumUsers \in Nat
  BY QsupAssumption
<1>2. \A u \in Uids : SumOf(ServersOf(u), f) \in Int
  BY SumFits, BandwidthAssumption DEF Word
<1>3. F \in [1 .. NumUsers -> Int] /\ Capped(l, g) \in [1 .. NumUsers -> Int]
  BY <1>2, CappedType DEF Uids
<1>4. ASSUME NEW u \in Uids
      PROVE  F[u] <= Capped(l, g)[u]
  <2>1. CASE HasAt(l, u)
    <3>1. PICK s \in ServersOf(u) : srv[s].level = l
      BY <2>1 DEF HasAt
    <3>2. Capped(l, g)[u] = bw_min(SumOf(ServersOf(u), g), srv[s].max_user_bw)
      BY <3>1, CappedAt
    <3>3. s \in Servers
      BY <3>1 DEF ServersOf, TypeOK
    <3> QED
      BY <2>1, <3>1, <3>2, <3>3
  <2>2. CASE ~HasAt(l, u)
    BY <2>2 DEF Capped
  <2> QED
    BY <2>1, <2>2
<1> HIDE DEF F
<1>5. Total(F, NumUsers) <= Total(Capped(l, g), NumUsers)
  BY <1>1, <1>3, <1>4, TotalMono DEF Uids
<1> QED
  BY <1>5, SumByUser DEF F

-----------------------------------------------------------------------------
(* What a request does, before it is known whether a division faults. *)

\* The requests and the guarantees in use once s asks for req.
ReqNext(s, req) == [ReqBw EXCEPT ![s] = req]
UsedNext(s, req) == [UsedGuaBw EXCEPT ![s] = UsedGua(s, req)]

\* A guarantee in use is within the guarantee and within the request.
LEMMA NextFields ==
    ASSUME TotalsInv, NEW s \in qsup_servers, NEW req \in Bandwidths
    PROVE  /\ s \in 1 .. NumServers
           /\ ReqBw \in PerServer /\ UsedGuaBw \in PerServer /\ GuaBw \in PerServer
           /\ ReqNext(s, req) \in PerServer
           /\ UsedNext(s, req) \in PerServer
           /\ ReqNext(s, req)[s] = req
           /\ UsedNext(s, req)[s] = UsedGua(s, req)
           /\ ReqBw[s] = srv[s].req_bw
           /\ UsedGuaBw[s] = srv[s].used_gua_bw
           /\ \A i \in 1 .. NumServers :
                 i # s => /\ ReqNext(s, req)[i] = ReqBw[i]
                          /\ UsedNext(s, req)[i] = UsedGuaBw[i]
           /\ \A i \in 1 .. NumServers :
                 i \in qsup_servers => /\ UsedNext(s, req)[i] <= GuaBw[i]
                                       /\ UsedNext(s, req)[i] <= ReqNext(s, req)[i]
<1>1. TypeOK /\ UsedGuaCurrent
  BY DEF TotalsInv
<1>2. s \in 1 .. NumServers /\ UsedGua(s, req) \in 0 .. MAX_BW /\ req \in 0 .. MAX_BW
  BY <1>1, ListedInUse, ServerFacts DEF Servers, Bandwidths
<1>3. ReqBw \in PerServer /\ UsedGuaBw \in PerServer /\ GuaBw \in PerServer
  BY <1>1, FieldTypes DEF ReqBw, UsedGuaBw, GuaBw, TypeOK
<1>4. /\ ReqNext(s, req) \in PerServer
      /\ UsedNext(s, req) \in PerServer
      /\ ReqNext(s, req)[s] = req
      /\ UsedNext(s, req)[s] = UsedGua(s, req)
      /\ \A i \in 1 .. NumServers :
            i # s => /\ ReqNext(s, req)[i] = ReqBw[i]
                     /\ UsedNext(s, req)[i] = UsedGuaBw[i]
  BY <1>2, <1>3 DEF PerServer, ReqNext, UsedNext
<1>5. ReqBw[s] = srv[s].req_bw /\ UsedGuaBw[s] = srv[s].used_gua_bw
  BY <1>2 DEF ReqBw, UsedGuaBw, Servers
<1>6. ASSUME NEW i \in 1 .. NumServers, i \in qsup_servers
      PROVE  UsedNext(s, req)[i] <= GuaBw[i] /\ UsedNext(s, req)[i] <= ReqNext(s, req)[i]
  <2>1. GuaBw[i] \in Nat /\ GuaBw[i] = srv[i].gua_bw
    BY <1>3 DEF PerServer, GuaBw, Servers
  <2>2. CASE i = s
    BY <1>2, <1>4, <2>1, <2>2 DEF UsedGua, bw_min
  <2>3. CASE i # s
    <3>1. /\ UsedNext(s, req)[i] = srv[i].used_gua_bw
          /\ ReqNext(s, req)[i] = srv[i].req_bw
          /\ srv[i].req_bw \in Nat
      BY <1>3, <1>4, <2>3 DEF UsedGuaBw, ReqBw, Servers, PerServer
    <3>2. srv[i].used_gua_bw = bw_min(srv[i].req_bw, srv[i].gua_bw)
      BY <1>1, <1>6 DEF UsedGuaCurrent
    <3> QED
      BY <2>1, <3>1, <3>2 DEF bw_min
  <2> QED
    BY <2>2, <2>3
<1> QED
  BY <1>2, <1>3, <1>4, <1>5, <1>6

\* The totals of the user and of the levels become the sums of what the servers
\* then ask for and use.
LEMMA NextTotals ==
    ASSUME TotalsInv, NEW s \in qsup_servers, NEW req \in Bandwidths
    PROVE  /\ UserReqAfter(s, req) = SumOf(ServersOf(srv[s].uid), ReqNext(s, req))
           /\ UserGuaAfter(s, req) = SumOf(ServersOf(srv[s].uid), UsedNext(s, req))
           /\ \A l \in Levels :
                /\ LevelsBefore(s, req)[l].level_gua = SumOf(ServersAt(l), UsedNext(s, req))
                /\ LevelsBefore(s, req)[l].level_max = qsup_levels[l].level_max
           /\ LevelsBefore(s, req) \in [Levels -> Level]
<1> DEFINE u == srv[s].uid
<1>1. TypeOK /\ TotalsAreSums
  BY DEF TotalsInv
<1>2. u \in Uids /\ srv[s].level \in Levels
  BY <1>1, ListedInUse, ServerFacts
<1>3. s \in ServersOf(u) /\ s \in ServersAt(srv[s].level)
  BY DEF ServersOf, ServersAt
<1>4. UserReqAfter(s, req) = SumOf(ServersOf(u), ReqNext(s, req))
  <2>1. Wrap(SumOf(ServersOf(u), ReqBw) - ReqBw[s] + ReqNext(s, req)[s])
          = SumOf(ServersOf(u), ReqNext(s, req))
    BY <1>3, NextFields, ChangedTotal
  <2>2. qsup_users[u].user_req = SumOf(ServersOf(u), ReqBw)
    BY <1>1, <1>2 DEF TotalsAreSums
  <2> QED
    BY <2>1, <2>2, NextFields DEF UserReqAfter
<1>5. UserGuaAfter(s, req) = SumOf(ServersOf(u), UsedNext(s, req))
  <2>1. Wrap(SumOf(ServersOf(u), UsedGuaBw) + UsedNext(s, req)[s] - UsedGuaBw[s])
          = SumOf(ServersOf(u), UsedNext(s, req))
    BY <1>3, NextFields, ChangedTotal
  <2>2. qsup_users[u].user_used_gua = SumOf(ServersOf(u), UsedGuaBw)
    BY <1>1, <1>2 DEF TotalsAreSums
  <2> QED
    BY <2>1, <2>2, NextFields DEF UserGuaAfter
<1>6. qsup_levels \in [Levels -> Level] /\ LevelTotalsAfter(s, req) \in Level
  BY <1>1, ListedInUse, LevelTotalsType DEF TypeOK
<1>7. LevelsBefore(s, req) \in [Levels -> Level]
  BY <1>6 DEF LevelsBefore
<1>8. ASSUME NEW l \in Levels
      PROVE  /\ LevelsBefore(s, req)[l].level_gua = SumOf(ServersAt(l), UsedNext(s, req))
             /\ LevelsBefore(s, req)[l].level_max = qsup_levels[l].level_max
  <2>1. qsup_levels[l].level_gua = SumOf(ServersAt(l), UsedGuaBw)
    BY <1>1 DEF TotalsAreSums
  <2>2. CASE l = srv[s].level
    <3>1. LevelsBefore(s, req)[l] = LevelTotalsAfter(s, req)
      BY <1>6, <2>2 DEF LevelsBefore
    <3>2. /\ LevelTotalsAfter(s, req).level_gua
               = Wrap(qsup_levels[l].level_gua + UsedGua(s, req) - srv[s].used_gua_bw)
          /\ LevelTotalsAfter(s, req).level_max = qsup_levels[l].level_max
      BY <1>6, <2>2 DEF LevelTotalsAfter, Level
    <3>3. Wrap(SumOf(ServersAt(l), UsedGuaBw) + UsedNext(s, req)[s] - UsedGuaBw[s])
            = SumOf(ServersAt(l), UsedNext(s, req))
      BY <1>3, <2>2, NextFields, ChangedTotal
    <3> QED
      BY <2>1, <3>1, <3>2, <3>3, NextFields
  <2>3. CASE l # srv[s].level
    <3>1. LevelsBefore(s, req)[l] = qsup_levels[l]
      BY <1>6, <2>3 DEF LevelsBefore
    <3>2. s \notin ServersAt(l)
      BY <2>3 DEF ServersAt
    <3>3. SumOf(ServersAt(l), UsedNext(s, req)) = SumOf(ServersAt(l), UsedGuaBw)
      <4>1. /\ UsedGuaBw \in PerServer /\ UsedNext(s, req) \in PerServer
            /\ \A i \in 1 .. NumServers :
                  i \in ServersAt(l) => UsedGuaBw[i] = UsedNext(s, req)[i]
        BY <3>2, NextFields
      <4> QED
        BY <4>1, ServerSumSame
    <3> QED
      BY <2>1, <3>1, <3>3
  <2> QED
    BY <2>2, <2>3
<1> QED
  BY <1>4, <1>5, <1>7, <1>8

\* The request a level keeps is the sum it stands for.
LEMMA CappedIsReq ==
    ASSUME TotalsAreSums
    PROVE  \A l \in Levels : CappedReq(l) = Capped(l, ReqBw)
<1> SUFFICES ASSUME NEW l \in Levels, NEW u \in Uids
             PROVE  CappedReq(l)[u] = Capped(l, ReqBw)[u]
  BY DEF CappedReq, Capped
<1>1. qsup_users[u].user_req = SumOf(ServersOf(u), ReqBw)
  BY DEF TotalsAreSums
<1> QED
  BY <1>1 DEF CappedReq, Capped, HasAt

\* So does the request of each level.
LEMMA NextLevelReq ==
    ASSUME TotalsInv, WellConfigured, LevelReqIsSum,
           NEW s \in qsup_servers, NEW req \in Bandwidths
    PROVE  \A l \in Levels : LevelsBefore(s, req)[l].level_req
                               = Total(Capped(l, ReqNext(s, req)), NumUsers)
<1> DEFINE u == srv[s].uid
           max == srv[s].max_user_bw
<1>1. TypeOK /\ TotalsAreSums
  BY DEF TotalsInv
<1>2. u \in Uids /\ srv[s].level \in Levels /\ s \in ServersOf(u)
  BY <1>1, ListedInUse, ServerFacts DEF ServersOf
<1>3. qsup_levels \in [Levels -> Level] /\ LevelTotalsAfter(s, req) \in Level
  BY <1>1, ListedInUse, LevelTotalsType DEF TypeOK
<1>4. NumUsers \in Nat /\ ReqBw \in PerServer /\ ReqNext(s, req) \in PerServer
  BY NextFields, QsupAssumption
<1> SUFFICES ASSUME NEW l \in Levels
             PROVE  LevelsBefore(s, req)[l].level_req
                      = Total(Capped(l, ReqNext(s, req)), NumUsers)
  OBVIOUS
<1>5. qsup_levels[l].level_req = Total(Capped(l, ReqBw), NumUsers)
  BY <1>1, CappedIsReq DEF LevelReqIsSum
<1>6. ASSUME NEW v \in Uids, s \notin ServersOf(v)
      PROVE  Capped(l, ReqNext(s, req))[v] = Capped(l, ReqBw)[v]
  <2>1. \A i \in 1 .. NumServers : i \in ServersOf(v) => ReqBw[i] = ReqNext(s, req)[i]
    BY <1>6, NextFields
  <2>2. SumOf(ServersOf(v), ReqNext(s, req)) = SumOf(ServersOf(v), ReqBw)
    BY <1>4, <2>1, ServerSumSame
  <2> QED
    BY <2>2 DEF Capped
<1>7. \A v \in Uids : v # u => s \notin ServersOf(v)
  BY DEF ServersOf
<1>8. CASE l # srv[s].level
  <2>1. LevelsBefore(s, req)[l] = qsup_levels[l]
    BY <1>3, <1>8 DEF LevelsBefore
  <2>2. ~HasAt(l, u)
    BY <1>2, <1>8 DEF HasAt, WellConfigured, ServersOf
  <2>3. Capped(l, ReqNext(s, req))[u] = Capped(l, ReqBw)[u]
    BY <1>2, <2>2 DEF Capped
  <2>4. \A v \in Uids : Capped(l, ReqNext(s, req))[v] = Capped(l, ReqBw)[v]
    BY <1>6, <1>7, <2>3
  <2>5. Capped(l, ReqNext(s, req)) = Capped(l, ReqBw)
    <3>1. /\ Capped(l, ReqNext(s, req)) \in [Uids -> 0 .. MAX_BW]
          /\ Capped(l, ReqBw) \in [Uids -> 0 .. MAX_BW]
      BY <1>1, <1>4, CappedType
    <3> QED
      BY <2>4, <3>1
  <2> QED
    BY <1>5, <2>1, <2>5
<1>9. CASE l = srv[s].level
  <2>1. /\ Capped(l, ReqBw)[u] = bw_min(SumOf(ServersOf(u), ReqBw), max)
        /\ Capped(l, ReqNext(s, req))[u] = bw_min(SumOf(ServersOf(u), ReqNext(s, req)), max)
    BY <1>2, <1>9, CappedAt
  <2>2. LevelsBefore(s, req)[l] = LevelTotalsAfter(s, req)
    BY <1>3, <1>9 DEF LevelsBefore
  <2>3. LevelTotalsAfter(s, req).level_req
          = Wrap(qsup_levels[l].level_req - bw_min(qsup_users[u].user_req, max)
                   + bw_min(UserReqAfter(s, req), max))
    BY <1>3, <1>9 DEF LevelTotalsAfter, Level
  <2>4. qsup_users[u].user_req = SumOf(ServersOf(u), ReqBw)
    BY <1>1, <1>2 DEF TotalsAreSums
  <2>5. UserReqAfter(s, req) = SumOf(ServersOf(u), ReqNext(s, req))
    BY NextTotals
  <2>6. Total(Capped(l, ReqNext(s, req)), NumUsers)
          = Total(Capped(l, ReqBw), NumUsers) - Capped(l, ReqBw)[u]
              + Capped(l, ReqNext(s, req))[u]
    <3>1. /\ Capped(l, ReqNext(s, req)) \in [1 .. NumUsers -> Int]
          /\ Capped(l, ReqBw) \in [1 .. NumUsers -> Int]
      BY <1>1, <1>4, CappedType
    <3>2. \A v \in 1 .. NumUsers : v # u =>
             Capped(l, ReqNext(s, req))[v] = Capped(l, ReqBw)[v]
      BY <1>6, <1>7 DEF Uids
    <3>3. u \in 1 .. NumUsers
      BY <1>2 DEF Uids
    <3> HIDE DEF u
    <3> QED
      BY <1>4, <3>1, <3>2, <3>3, TotalUpdate
  <2>7. Total(Capped(l, ReqNext(s, req)), NumUsers) \in Word
    BY <1>1, <1>4, CappedType
  <2> QED
    BY <1>5, <2>1, <2>2, <2>3, <2>4, <2>5, <2>6, <2>7, WrapId
<1> QED
  BY <1>8, <1>9

-----------------------------------------------------------------------------
(* No division faults. *)

\* Over any listed servers, what is used is within what is guaranteed and
\* within what is asked for.
LEMMA NextWithin ==
    ASSUME TotalsInv, NEW s \in qsup_servers, NEW req \in Bandwidths,
           NEW S \in SUBSET qsup_servers
    PROVE  /\ SumOf(S, UsedNext(s, req)) \in Nat
           /\ SumOf(S, ReqNext(s, req)) \in Nat
           /\ SumOf(S, GuaBw) \in Nat
           /\ SumOf(S, UsedNext(s, req)) <= SumOf(S, GuaBw)
           /\ SumOf(S, UsedNext(s, req)) <= SumOf(S, ReqNext(s, req))
<1>1. /\ UsedNext(s, req) \in PerServer
      /\ ReqNext(s, req) \in PerServer
      /\ GuaBw \in PerServer
  BY NextFields
<1>2. \A f \in PerServer : SumOf(S, f) \in Nat
  BY SumFits, BandwidthAssumption DEF Word
<1>3. \A i \in 1 .. NumServers : i \in S => /\ UsedNext(s, req)[i] <= GuaBw[i]
                                            /\ UsedNext(s, req)[i] <= ReqNext(s, req)[i]
  BY NextFields
<1>4. SumOf(S, UsedNext(s, req)) <= SumOf(S, GuaBw)
  BY <1>1, <1>3, ServerSumMono
<1>5. SumOf(S, UsedNext(s, req)) <= SumOf(S, ReqNext(s, req))
  BY <1>1, <1>3, ServerSumMono
<1> QED
  BY <1>1, <1>2, <1>4, <1>5

\* A user's guarantees leave room, and less of it than there is excess.
LEMMA NextUser ==
    ASSUME TotalsInv, WellConfigured, NEW s \in qsup_servers, NEW req \in Bandwidths
    PROVE  /\ UserGuaAfter(s, req) \in Nat /\ UserReqAfter(s, req) \in Nat
           /\ srv[s].max_user_bw \in Nat
           /\ UserGuaAfter(s, req) <= UserReqAfter(s, req)
           /\ UserGuaAfter(s, req) <= srv[s].max_user_bw
           /\ UserRoom(s, req) = srv[s].max_user_bw - UserGuaAfter(s, req)
           /\ UserExcess(s, req) = UserReqAfter(s, req) - UserGuaAfter(s, req)
           /\ UserCompressed(s, req) => ~CoeffFaults(UserRoom(s, req), UserExcess(s, req))
<1> DEFINE S == ServersOf(srv[s].uid)
           max == srv[s].max_user_bw
           gua == UserGuaAfter(s, req)
           all == UserReqAfter(s, req)
<1>1. TypeOK
  BY DEF TotalsInv
<1>2. S \in SUBSET qsup_servers
  BY DEF ServersOf
<1>3. max \in 0 .. MAX_BW
  BY <1>1, ListedInUse, ServerFacts DEF Bandwidths
<1>4. gua = SumOf(S, UsedNext(s, req)) /\ all = SumOf(S, ReqNext(s, req))
  BY NextTotals
<1>5. SumOf(S, GuaBw) <= max
  BY DEF WellConfigured
<1> HIDE DEF S
<1>6. gua \in Nat /\ all \in Nat /\ gua <= all /\ gua <= max
  <2>1. SumOf(S, GuaBw) \in Nat /\ max \in Nat
    BY <1>2, <1>3, NextWithin
  <2> QED
    BY <1>2, <1>4, <1>5, <2>1, NextWithin
<1>7. all \in Word /\ MAX_BW \in Nat /\ WORD \in Nat /\ MAX_BW < WORD
  BY <1>4, NextFields, SumFits, BandwidthAssumption
<1> HIDE DEF gua, all, max
<1>8. max - gua \in Word /\ all - gua \in Word
  BY <1>3, <1>6, <1>7 DEF Word
<1>9. UserRoom(s, req) = max - gua /\ UserExcess(s, req) = all - gua
  BY <1>8, WrapId DEF UserRoom, UserExcess, max, gua, all
<1>10. ASSUME UserCompressed(s, req)
       PROVE  ~CoeffFaults(UserRoom(s, req), UserExcess(s, req))
  <2>1. all > max
    BY <1>10 DEF UserCompressed, all, max
  <2>2. max - gua \in Nat /\ all - gua \in Nat \ {0} /\ max - gua <= all - gua
    BY <1>3, <1>6, <2>1
  <2> QED
    BY <1>9, <2>2, CoeffWithinOne
<1> QED
  BY <1>3, <1>6, <1>9, <1>10 DEF gua, all, max

\* A level's guarantees are within its request,
LEMMA NextLevelGua ==
    ASSUME TotalsInv, WellConfigured, LevelReqIsSum,
           NEW s \in qsup_servers, NEW req \in Bandwidths, NEW l \in Levels
    PROVE  LevelsBefore(s, req)[l].level_gua <= LevelsBefore(s, req)[l].level_req
<1> DEFINE f == UsedNext(s, req)
           g == ReqNext(s, req)
<1>1. TypeOK
  BY DEF TotalsInv
<1>2. f \in PerServer /\ g \in PerServer
  BY NextFields
<1>3. ASSUME NEW u \in Uids, NEW t \in Servers, t \in ServersOf(u)
      PROVE  SumOf(ServersOf(u), f) <= bw_min(SumOf(ServersOf(u), g), srv[t].max_user_bw)
  <2>1. ServersOf(u) \in SUBSET qsup_servers /\ srv[t].uid = u /\ t \in qsup_servers
    BY <1>3 DEF ServersOf
  <2>2. SumOf(ServersOf(u), GuaBw) <= srv[t].max_user_bw
    BY <2>1 DEF WellConfigured
  <2>3. srv[t].max_user_bw \in Nat
    BY <1>1 DEF TypeOK, Server, Bandwidths
  <2> QED
    BY <2>1, <2>2, <2>3, NextWithin DEF bw_min
<1> HIDE DEF f, g
<1>4. SumOf(ServersAt(l), f) <= Total(Capped(l, g), NumUsers)
  BY <1>1, <1>2, <1>3, SumWithinCapped
<1> QED
  BY <1>4, NextTotals, NextLevelReq DEF f, g

\* and the levels above leave enough for them: within what the level is assigned.
LEMMA NextLevels ==
    ASSUME TotalsInv, WellConfigured, LevelReqIsSum,
           NEW s \in qsup_servers, NEW req \in Bandwidths, NEW l \in Levels
    PROVE  LET levels == LevelsBefore(s, req)
               lev    == levels[l]
           IN  /\ lev.level_gua \in Nat /\ lev.level_req \in Nat
               /\ Assigned(levels, l) \in Nat
               /\ lev.level_gua <= Assigned(levels, l)
               /\ Assigned(levels, l) <= lev.level_req
               /\ LevelRoom(levels, l) = Assigned(levels, l) - lev.level_gua
               /\ LevelExcess(lev) = lev.level_req - lev.level_gua
               /\ LevelCompressed(lev) => ~CoeffFaults(LevelRoom(levels, l), LevelExcess(lev))
<1> DEFINE levels == LevelsBefore(s, req)
<1>1. TypeOK
  BY DEF TotalsInv
<1>2. levels \in [Levels -> Level]
  BY NextTotals
<1>3. ASSUME NEW k \in Levels
      PROVE  /\ levels[k].level_gua \in Nat
             /\ levels[k].level_req \in Word /\ levels[k].level_req \in Nat
             /\ levels[k].level_max \in 0 .. U_LUB
             /\ levels[k].level_gua <= levels[k].level_req
             /\ levels[k].level_gua <= SumOf(ServersAt(k), GuaBw)
             /\ SumOf(ServersAt(k), GuaBw) \in Nat
             /\ SumOf(ServersAt(k), GuaBw) <= levels[k].level_max
  <2>1. /\ levels[k].level_gua \in Nat
        /\ levels[k].level_req \in Word /\ levels[k].level_req \in Nat
        /\ levels[k].level_max \in 0 .. U_LUB
    BY <1>2, BandwidthAssumption DEF Level, Word
  <2>2. ServersAt(k) \in SUBSET qsup_servers
    BY DEF ServersAt
  <2>3. levels[k].level_gua <= SumOf(ServersAt(k), GuaBw) /\ SumOf(ServersAt(k), GuaBw) \in Nat
    BY <2>2, NextWithin, NextTotals
  <2>4. SumOf(ServersAt(k), GuaBw) <= levels[k].level_max
    BY NextTotals DEF WellConfigured
  <2>5. levels[k].level_gua <= levels[k].level_req
    BY NextLevelGua
  <2> QED
    BY <2>1, <2>3, <2>4, <2>5
<1>4. SumOf(ServersAt(1), GuaBw) <= U_LUB - levels[0].level_max
  BY NextTotals DEF WellConfigured, Levels
<1>5. U_LUB \in Nat /\ U_LUB < WORD /\ WORD \in Nat /\ 0 \in Levels /\ 1 \in Levels
  BY BoundType, BandwidthAssumption DEF Levels
<1> HIDE DEF levels
<1>6. /\ Assigned(levels, l) \in 0 .. U_LUB
      /\ levels[l].level_gua <= Assigned(levels, l)
      /\ Assigned(levels, l) <= levels[l].level_req
  <2>1. CASE l = 0
    BY <1>3, <1>5, <2>1 DEF Assigned, Demand, bw_min
  <2>2. CASE l = 1
    <3> DEFINE d == bw_min(Demand(levels[0]), U_LUB)
    <3>1. d \in Nat /\ d <= levels[0].level_max /\ d <= U_LUB
      BY <1>3, <1>5 DEF Demand, bw_min
    <3>2. levels[1].level_gua <= U_LUB - d
      BY <1>3, <1>4, <1>5, <3>1
    <3>3. Assigned(levels, 1) = bw_min(Demand(levels[1]), U_LUB - d)
      BY DEF Assigned
    <3>4. Demand(levels[1]) \in Nat /\ levels[1].level_gua <= Demand(levels[1])
          /\ Demand(levels[1]) <= levels[1].level_req
      BY <1>3, <1>5 DEF Demand, bw_min
    <3> HIDE DEF d
    <3> QED
      BY <1>3, <1>5, <2>2, <3>1, <3>2, <3>3, <3>4 DEF bw_min
  <2> QED
    BY <2>1, <2>2 DEF Levels
<1>7. LevelRoom(levels, l) = Assigned(levels, l) - levels[l].level_gua
  <2>1. Assigned(levels, l) - levels[l].level_gua \in Word
    BY <1>3, <1>5, <1>6 DEF Word
  <2> QED
    BY <2>1, WrapId DEF LevelRoom
<1>8. LevelExcess(levels[l]) = levels[l].level_req - levels[l].level_gua
  <2>1. levels[l].level_req - levels[l].level_gua \in Word
    BY <1>3, <1>5 DEF Word
  <2> QED
    BY <2>1, WrapId DEF LevelExcess
<1>9. ASSUME LevelCompressed(levels[l])
      PROVE  ~CoeffFaults(LevelRoom(levels, l), LevelExcess(levels[l]))
  <2> DEFINE room == Assigned(levels, l) - levels[l].level_gua
             excess == levels[l].level_req - levels[l].level_gua
  <2>1. room \in Nat /\ excess \in Nat \ {0} /\ room <= excess
    BY <1>3, <1>6, <1>9 DEF LevelCompressed
  <2> HIDE DEF room, excess
  <2>2. ~CoeffFaults(room, excess)
    BY <2>1, CoeffWithinOne
  <2> QED
    BY <1>7, <1>8, <2>2 DEF room, excess
<1> QED
  BY <1>3, <1>6, <1>7, <1>8, <1>9 DEF levels

\* So no request, and no withdrawal of one, faults.
LEMMA NoFaults ==
    ASSUME TotalsInv, WellConfigured, LevelReqIsSum,
           NEW s \in qsup_servers, NEW req \in Bandwidths
    PROVE  ~Faults(s, req)
BY NextUser, NextLevels DEF Faults

-----------------------------------------------------------------------------
(* The inductive invariant.  The properties speak of the sums; these two   *)
(* clauses speak of the totals that are kept, and add what the next        *)
(* request relies on: a user without servers is not compressed, and a      *)
(* level is assigned no more than it asks for.                             *)

\* The coefficient of a user is that of the user's totals.
UsersKept ==
    /\ \A u \in Uids : ServersOf(u) = {} => qsup_users[u].user_coeff = COEFF_ONE
    /\ \A s \in qsup_servers :
          LET usr == qsup_users[srv[s].uid]
              max == srv[s].max_user_bw
          IN  usr.user_coeff =
                 IF usr.user_req > max
                 THEN coeff_compute(max - usr.user_used_gua, usr.user_req - usr.user_used_gua)
                 ELSE COEFF_ONE

\* The coefficient of a level is that of what it was assigned, whatever its
\* maximum has become since.
LevelsKept ==
    \A l \in Levels :
        LET lev == qsup_levels[l]
        IN  /\ lev.level_gua <= lev.level_sum
            /\ lev.level_sum <= lev.level_req
            /\ lev.level_coeff =
                  IF lev.level_req > lev.level_gua
                  THEN coeff_compute(lev.level_sum - lev.level_gua,
                                     lev.level_req - lev.level_gua)
                  ELSE COEFF_ONE

WellInv ==
    /\ TotalsInv
    /\ WellConfigured
    /\ LevelsWithinBound
    /\ LevelReqIsSum
    /\ UsersKept
    /\ LevelsKept
    /\ NoFault

\* It holds initially: nothing is guaranteed or asked for.
LEMMA WellInit == Init => WellInv
<1> SUFFICES ASSUME Init PROVE WellInv
  OBVIOUS
<1>1. TotalsInv
  BY TotalsInit
<1>2. U_LUB \in Nat
  BY BoundType
<1>3. /\ qsup_servers = {}
      /\ \A u : ServersOf(u) = {}
      /\ \A l : ServersAt(l) = {}
  BY DEF Init, ServersOf, ServersAt
<1>4. \A l \in Levels : qsup_levels[l] = NewLevel
  BY DEF Init
<1>5. WellConfigured
  <2>1. \A l \in Levels : SumOf(ServersAt(l), GuaBw) = 0 /\ qsup_levels[l].level_max = U_LUB
    BY <1>3, <1>4, SumEmpty DEF NewLevel
  <2> QED
    BY <1>2, <1>3, <2>1 DEF WellConfigured, Levels
<1>6. LevelReqIsSum
  <2> SUFFICES ASSUME NEW l \in Levels
               PROVE  qsup_levels[l].level_req = Total(CappedReq(l), NumUsers)
    BY DEF LevelReqIsSum
  <2>1. CappedReq(l) \in [1 .. NumUsers -> Int] /\ \A u \in 1 .. NumUsers : CappedReq(l)[u] = 0
    BY <1>3 DEF CappedReq, Uids
  <2>2. Total(CappedReq(l), NumUsers) = 0
    BY <2>1, TotalZero, QsupAssumption
  <2> QED
    BY <1>4, <2>2 DEF NewLevel
<1>7. UsersKept
  BY <1>3 DEF Init, NewUser, UsersKept
<1>8. LevelsKept
  BY <1>4 DEF NewLevel, LevelsKept
<1>9. LevelsWithinBound
  BY <1>2, <1>4 DEF NewLevel, LevelsWithinBound, Levels
<1> QED
  BY <1>1, <1>5, <1>6, <1>7, <1>8, <1>9 DEF WellInv, NoFault, Init

\* The kept request of a level, after a step, is the sum of c when c is what the
\* level's users then ask for.
LEMMA LevelReqNext ==
    ASSUME WellConfigured', NEW l \in Levels, NEW c,
           c = [u \in Uids |-> c[u]],
           qsup_levels'[l].level_req = Total(c, NumUsers),
           \A u \in Uids :
              \/ \E t \in qsup_servers' :
                    /\ srv'[t].uid = u /\ srv'[t].level = l
                    /\ c[u] = bw_min(qsup_users'[u].user_req, srv'[t].max_user_bw)
              \/ /\ c[u] = 0
                 /\ \A t \in qsup_servers' : srv'[t].uid = u => srv'[t].level # l
    PROVE  qsup_levels'[l].level_req = Total(CappedReq(l)', NumUsers)
<1>1. ASSUME NEW u \in Uids
      PROVE  CappedReq(l)'[u] = c[u]
  <2> DEFINE x == CHOOSE s \in ServersOf(u)' : srv'[s].level = l
  <2>1. ASSUME NEW t \in qsup_servers', srv'[t].uid = u, srv'[t].level = l,
               c[u] = bw_min(qsup_users'[u].user_req, srv'[t].max_user_bw)
        PROVE  CappedReq(l)'[u] = c[u]
    <3>1. \E s \in ServersOf(u)' : srv'[s].level = l
      BY <2>1 DEF ServersOf
    <3>2. CappedReq(l)'[u] = bw_min(qsup_users'[u].user_req, srv'[x].max_user_bw)
      BY <3>1 DEF CappedReq
    <3>3. x \in ServersOf(u)'
      BY <3>1
    <3> HIDE DEF x
    <3>4. srv'[x].max_user_bw = srv'[t].max_user_bw
      BY <2>1, <3>3 DEF WellConfigured, ServersOf
    <3> QED
      BY <2>1, <3>2, <3>4
  <2>2. CASE /\ c[u] = 0
             /\ \A t \in qsup_servers' : srv'[t].uid = u => srv'[t].level # l
    BY <2>2 DEF CappedReq, ServersOf
  <2> QED
    BY <2>1, <2>2
<1>2. CappedReq(l)' = [u \in Uids |-> CappedReq(l)'[u]]
  BY DEF CappedReq
<1>3. CappedReq(l)' = c
  BY <1>1, <1>2
<1> QED
  BY <1>3

\* What a request leaves in the accounts; nothing changes when a server that
\* asks for nothing is removed.
LEMMA AccountsNext ==
    ASSUME WellInv, NEW s \in qsup_servers, NEW req \in Bandwidths,
           SetAccounts(s, req) \/ (req = srv[s].req_bw /\ UNCHANGED accounts)
    PROVE  /\ LevelsKept'
           /\ \A l \in Levels : qsup_levels'[l].level_req
                                  = Total(Capped(l, ReqNext(s, req)), NumUsers)
           /\ \A u \in Uids :
                /\ qsup_users'[u].user_req = SumOf(ServersOf(u), ReqNext(s, req))
                /\ u # srv[s].uid => qsup_users'[u] = qsup_users[u]
           /\ LET usr == qsup_users'[srv[s].uid]
                  max == srv[s].max_user_bw
              IN  usr.user_coeff =
                     IF usr.user_req > max
                     THEN coeff_compute(max - usr.user_used_gua,
                                        usr.user_req - usr.user_used_gua)
                     ELSE COEFF_ONE
<1> DEFINE u0 == srv[s].uid
           max == srv[s].max_user_bw
           levels == LevelsBefore(s, req)
<1>1. /\ TotalsInv /\ TypeOK /\ TotalsAreSums /\ WellConfigured /\ LevelReqIsSum
      /\ UsersKept /\ LevelsKept
  BY DEF WellInv, TotalsInv
<1>2. u0 \in Uids
  BY <1>1, ListedInUse, ServerFacts
<1>3. /\ ReqBw \in PerServer /\ ReqNext(s, req) \in PerServer
      /\ s \in 1 .. NumServers
      /\ ReqNext(s, req)[s] = req /\ ReqBw[s] = srv[s].req_bw
      /\ \A i \in 1 .. NumServers : i # s => ReqNext(s, req)[i] = ReqBw[i]
  BY <1>1, NextFields
<1>4. \A u \in Uids : qsup_users[u].user_req = SumOf(ServersOf(u), ReqBw)
  BY <1>1 DEF TotalsAreSums
<1>5. CASE SetAccounts(s, req)
  <2>1. qsup_users' = [qsup_users EXCEPT ![u0] = UserAfter(s, req)]
        /\ qsup_levels' = Recompute(levels)
    BY <1>5 DEF SetAccounts, LevelsAfter
  <2>2. levels \in [Levels -> Level] /\ qsup_users \in [Uids -> User]
    BY <1>1, NextTotals DEF TypeOK
  <2>3. /\ UserAfter(s, req).user_req = UserReqAfter(s, req)
        /\ UserAfter(s, req).user_used_gua = UserGuaAfter(s, req)
        /\ UserAfter(s, req).user_coeff =
             IF UserCompressed(s, req)
             THEN coeff_compute(UserRoom(s, req), UserExcess(s, req))
             ELSE COEFF_ONE
    <3>1. qsup_users[u0] \in User
      BY <1>2, <2>2
    <3> QED
      BY <3>1 DEF UserAfter, User
  <2>4. qsup_users'[u0] = UserAfter(s, req)
        /\ \A u \in Uids : u # u0 => qsup_users'[u] = qsup_users[u]
    BY <1>2, <2>1, <2>2
  <2>5. UserReqAfter(s, req) = SumOf(ServersOf(u0), ReqNext(s, req))
    BY <1>1, NextTotals
  <2>6. ASSUME NEW u \in Uids, u # u0
        PROVE  qsup_users'[u].user_req = SumOf(ServersOf(u), ReqNext(s, req))
    <3>1. \A i \in 1 .. NumServers : i \in ServersOf(u) => ReqBw[i] = ReqNext(s, req)[i]
      BY <1>3, <2>6 DEF ServersOf
    <3>2. SumOf(ServersOf(u), ReqNext(s, req)) = SumOf(ServersOf(u), ReqBw)
      BY <1>3, <3>1, ServerSumSame
    <3> QED
      BY <1>4, <2>4, <2>6, <3>2
  <2>7. qsup_users'[u0].user_coeff =
          IF qsup_users'[u0].user_req > max
          THEN coeff_compute(max - qsup_users'[u0].user_used_gua,
                             qsup_users'[u0].user_req - qsup_users'[u0].user_used_gua)
          ELSE COEFF_ONE
    <3>1. /\ UserRoom(s, req) = max - UserGuaAfter(s, req)
          /\ UserExcess(s, req) = UserReqAfter(s, req) - UserGuaAfter(s, req)
      BY <1>1, NextUser
    <3> QED
      BY <2>3, <2>4, <3>1 DEF UserCompressed
  <2> HIDE DEF levels
  <2>8. \A l \in Levels :
          /\ qsup_levels'[l].level_req = levels[l].level_req
          /\ qsup_levels'[l].level_gua = levels[l].level_gua
          /\ qsup_levels'[l].level_sum = Assigned(levels, l)
          /\ qsup_levels'[l].level_coeff =
               IF LevelCompressed(levels[l])
               THEN coeff_compute(LevelRoom(levels, l), LevelExcess(levels[l]))
               ELSE COEFF_ONE
    BY <2>1, <2>2 DEF Recompute, Level
  <2>9. LevelsKept'
    <3> SUFFICES ASSUME NEW l \in Levels
                 PROVE  /\ qsup_levels'[l].level_gua <= qsup_levels'[l].level_sum
                        /\ qsup_levels'[l].level_sum <= qsup_levels'[l].level_req
                        /\ qsup_levels'[l].level_coeff =
                             IF qsup_levels'[l].level_req > qsup_levels'[l].level_gua
                             THEN coeff_compute(
                                    qsup_levels'[l].level_sum - qsup_levels'[l].level_gua,
                                    qsup_levels'[l].level_req - qsup_levels'[l].level_gua)
                             ELSE COEFF_ONE
      BY DEF LevelsKept
    <3>1. /\ levels[l].level_gua <= Assigned(levels, l)
          /\ Assigned(levels, l) <= levels[l].level_req
          /\ LevelRoom(levels, l) = Assigned(levels, l) - levels[l].level_gua
          /\ LevelExcess(levels[l]) = levels[l].level_req - levels[l].level_gua
      BY <1>1, NextLevels DEF levels
    <3> QED
      BY <2>8, <3>1 DEF LevelCompressed
  <2>10. \A l \in Levels : qsup_levels'[l].level_req
                             = Total(Capped(l, ReqNext(s, req)), NumUsers)
    BY <1>1, <2>8, NextLevelReq DEF levels
  <2> QED
    BY <2>3, <2>4, <2>5, <2>6, <2>7, <2>9, <2>10
<1>6. CASE req = srv[s].req_bw /\ UNCHANGED accounts
  <2>1. UNCHANGED <<qsup_users, qsup_levels>>
    BY <1>6 DEF accounts
  <2>2. ReqNext(s, req) = ReqBw
    <3>1. \A i \in 1 .. NumServers : ReqNext(s, req)[i] = ReqBw[i]
      BY <1>3, <1>6
    <3>2. /\ ReqNext(s, req) = [i \in 1 .. NumServers |-> ReqNext(s, req)[i]]
          /\ ReqBw = [i \in 1 .. NumServers |-> ReqBw[i]]
      BY <1>3 DEF PerServer
    <3> QED
      BY <3>1, <3>2
  <2>3. \A l \in Levels : qsup_levels[l].level_req = Total(Capped(l, ReqBw), NumUsers)
    BY <1>1, CappedIsReq DEF LevelReqIsSum
  <2>4. LevelsKept'
    BY <1>1, <2>1 DEF LevelsKept
  <2> QED
    BY <1>1, <1>4, <2>1, <2>2, <2>3, <2>4 DEF UsersKept
<1> QED
  BY <1>5, <1>6

\* Steps that change none of what the invariant speaks of, but for the rules and
\* the maximum of a level.
LEMMA WellUnchanged ==
    ASSUME WellInv, TotalsInv', WellConfigured',
           UNCHANGED <<qsup_servers, srv, qsup_users, faulted>>,
           \A l \in Levels : /\ qsup_levels'[l].level_req = qsup_levels[l].level_req
                             /\ qsup_levels'[l].level_gua = qsup_levels[l].level_gua
                             /\ qsup_levels'[l].level_sum = qsup_levels[l].level_sum
                             /\ qsup_levels'[l].level_coeff = qsup_levels[l].level_coeff
    PROVE  WellInv'
<1>1. LevelReqIsSum'
  <2>1. \A l \in Levels : CappedReq(l)' = CappedReq(l)
    BY DEF CappedReq, ServersOf
  <2> QED
    BY <2>1 DEF WellInv, LevelReqIsSum
<1>2. UsersKept'
  BY DEF WellInv, UsersKept, ServersOf
<1>3. LevelsKept'
  BY DEF WellInv, LevelsKept
<1>4. LevelsWithinBound' /\ NoFault'
  BY DEF WellInv, LevelsWithinBound, NoFault, Levels
<1> QED
  BY <1>1, <1>2, <1>3, <1>4 DEF WellInv

\* Rules do not touch the accounts.
LEMMA WellConfigure == WellInv /\ TotalsInv' /\ WellConfigured' /\ Configure => WellInv'
<1> SUFFICES ASSUME WellInv, TotalsInv', WellConfigured', Configure
             PROVE  WellInv'
  OBVIOUS
<1>1. ASSUME NEW l \in Levels, NEW bw \in LevelCaps, AddLevelRule(l, bw)
      PROVE  WellInv'
  <2>1. qsup_levels \in [Levels -> Level]
    BY DEF WellInv, TotalsInv, TypeOK
  <2>2. \A k \in Levels : /\ qsup_levels'[k].level_req = qsup_levels[k].level_req
                          /\ qsup_levels'[k].level_gua = qsup_levels[k].level_gua
                          /\ qsup_levels'[k].level_sum = qsup_levels[k].level_sum
                          /\ qsup_levels'[k].level_coeff = qsup_levels[k].level_coeff
    BY <1>1, <2>1 DEF AddLevelRule, Level
  <2> QED
    BY <1>1, <2>2, WellUnchanged DEF AddLevelRule
<1>2. CASE UNCHANGED <<qsup_servers, srv, qsup_users, qsup_levels, faulted>>
  BY <1>2, WellUnchanged
<1> QED
  BY <1>1, <1>2 DEF Configure, AddGroupRule, AddUserRule, ReserveSpare, accounts

\* A new server asks for nothing, and its user, if it has other servers, has
\* them at the same level with the same maximum.
LEMMA WellInitServer ==
    ASSUME WellInv, TotalsInv', WellConfigured', NEW s \in Servers,
           NEW u0 \in Uids, NEW gid \in Gids, NEW p, InitServer(s, u0, gid, p)
    PROVE  WellInv'
<1> DEFINE new == NewServer(u0, gid, p)
<1>1. /\ TotalsInv /\ TypeOK /\ TotalsAreSums /\ WellConfigured /\ LevelReqIsSum
      /\ UsersKept /\ LevelsKept /\ LevelsWithinBound /\ NoFault
  BY DEF WellInv, TotalsInv
<1>2. /\ u0 \in Uids
      /\ s \notin qsup_servers
      /\ qsup_servers' = qsup_servers \cup {s}
      /\ srv'[s] = new /\ new.uid = u0
      /\ \A t \in qsup_servers : t # s /\ srv'[t] = srv[t]
      /\ UNCHANGED <<qsup_users, qsup_levels, faulted>>
  BY <1>1, QsupAssumption DEF InitServer, NewServer, TypeOK, accounts
<1>3. srv'[s].max_user_bw \in Nat
  BY <1>2 DEF TotalsInv, TypeOK, Server, Bandwidths
<1>4. \A u \in Uids : ServersOf(u) = {} =>
          qsup_users[u].user_req = 0 /\ qsup_users[u].user_coeff = COEFF_ONE
  BY <1>1, SumEmpty DEF TotalsAreSums, UsersKept
<1>5. \A t \in qsup_servers : srv[t].uid = u0 =>
          srv'[s].level = srv[t].level /\ srv'[s].max_user_bw = srv[t].max_user_bw
  BY <1>2 DEF WellConfigured
<1> HIDE DEF new
<1>6. LevelReqIsSum'
  <2> SUFFICES ASSUME NEW l \in Levels
               PROVE  qsup_levels'[l].level_req = Total(CappedReq(l)', NumUsers)
    BY DEF LevelReqIsSum
  <2> DEFINE c == CappedReq(l)
  <2>1. c = [u \in Uids |-> c[u]] /\ qsup_levels'[l].level_req = Total(c, NumUsers)
    BY <1>1, <1>2 DEF LevelReqIsSum, CappedReq
  <2>2. ASSUME NEW u \in Uids
        PROVE  \/ \E t \in qsup_servers' :
                     /\ srv'[t].uid = u /\ srv'[t].level = l
                     /\ c[u] = bw_min(qsup_users'[u].user_req, srv'[t].max_user_bw)
               \/ /\ c[u] = 0
                  /\ \A t \in qsup_servers' : srv'[t].uid = u => srv'[t].level # l
    <3>1. ASSUME NEW t \in ServersOf(u), srv[t].level = l
          PROVE  c[u] = bw_min(qsup_users[u].user_req, srv[t].max_user_bw)
      <4>1. c[u] = bw_min(SumOf(ServersOf(u), ReqBw), srv[t].max_user_bw)
        BY <1>1, <3>1, CappedAt, CappedIsReq
      <4> QED
        BY <1>1, <4>1 DEF TotalsAreSums
    <3>2. CASE HasAt(l, u)
      <4>1. PICK t \in ServersOf(u) : srv[t].level = l
        BY <3>2 DEF HasAt
      <4>2. /\ t \in qsup_servers' /\ srv'[t].uid = u /\ srv'[t].level = l
            /\ c[u] = bw_min(qsup_users'[u].user_req, srv'[t].max_user_bw)
        BY <1>2, <3>1, <4>1 DEF ServersOf
      <4> QED
        BY <4>2
    <3>3. CASE ~HasAt(l, u)
      <4>1. c[u] = 0
        BY <3>3 DEF CappedReq, HasAt
      <4>2. CASE u = u0 /\ srv'[s].level = l
        <5>1. ServersOf(u) = {}
          BY <1>5, <3>3, <4>2 DEF HasAt, ServersOf
        <5>2. bw_min(qsup_users'[u].user_req, srv'[s].max_user_bw) = 0
          BY <1>2, <1>3, <1>4, <5>1 DEF bw_min
        <5> QED
          BY <1>2, <4>1, <4>2, <5>2
      <4>3. CASE ~(u = u0 /\ srv'[s].level = l)
        <5>1. \A t \in qsup_servers' : srv'[t].uid = u => srv'[t].level # l
          BY <1>2, <3>3, <4>3 DEF HasAt, ServersOf
        <5> QED
          BY <4>1, <5>1
      <4> QED
        BY <4>2, <4>3
    <3> QED
      BY <3>2, <3>3
  <2> HIDE DEF c
  <2> QED
    BY <2>1, <2>2, LevelReqNext
<1>7. UsersKept'
  <2>1. ASSUME NEW u \in Uids, ServersOf(u)' = {}
        PROVE  qsup_users'[u].user_coeff = COEFF_ONE
    <3>1. ServersOf(u) = {}
      BY <1>2, <2>1 DEF ServersOf
    <3> QED
      BY <1>2, <1>4, <3>1
  <2>2. ASSUME NEW t \in qsup_servers'
        PROVE  LET usr == qsup_users'[srv'[t].uid]
                   max == srv'[t].max_user_bw
               IN  usr.user_coeff =
                      IF usr.user_req > max
                      THEN coeff_compute(max - usr.user_used_gua,
                                         usr.user_req - usr.user_used_gua)
                      ELSE COEFF_ONE
    <3>1. CASE t \in qsup_servers
      BY <1>1, <1>2, <3>1 DEF UsersKept
    <3>2. CASE t = s /\ ServersOf(u0) = {}
      <4>1. qsup_users'[u0].user_req = 0 /\ qsup_users'[u0].user_coeff = COEFF_ONE
        BY <1>2, <1>4, <3>2
      <4> QED
        BY <1>2, <1>3, <3>2, <4>1
    <3>3. ASSUME NEW x \in ServersOf(u0), t = s
          PROVE  /\ srv'[t].uid = srv[x].uid /\ x \in qsup_servers
                 /\ srv'[t].max_user_bw = srv[x].max_user_bw
      BY <1>2, <1>5, <3>3 DEF ServersOf
    <3> QED
      BY <1>1, <1>2, <3>1, <3>2, <3>3 DEF UsersKept
  <2> QED
    BY <2>1, <2>2 DEF UsersKept
<1>8. LevelsKept' /\ LevelsWithinBound' /\ NoFault'
  BY <1>1, <1>2 DEF LevelsKept, LevelsWithinBound, NoFault
<1> QED
  BY <1>6, <1>7, <1>8 DEF WellInv

\* A request of s, which stays with the same user, level and maximum, or leaves
\* once it asks for nothing.
LEMMA WellAccounts ==
    ASSUME WellInv, TotalsInv', WellConfigured', LevelsWithinBound', UNCHANGED faulted,
           NEW s \in qsup_servers, NEW req \in Bandwidths,
           SetAccounts(s, req) \/ (req = srv[s].req_bw /\ UNCHANGED accounts),
           \A t \in qsup_servers : t # s => srv'[t] = srv[t],
           \/ /\ qsup_servers' = qsup_servers
              /\ srv'[s].uid = srv[s].uid
              /\ srv'[s].level = srv[s].level
              /\ srv'[s].max_user_bw = srv[s].max_user_bw
           \/ qsup_servers' = qsup_servers \ {s}
    PROVE  WellInv'
<1> DEFINE u0 == srv[s].uid
<1>1. /\ TotalsInv /\ TypeOK /\ TotalsAreSums /\ WellConfigured /\ UsersKept /\ NoFault
      /\ TotalsAreSums'
  BY DEF WellInv, TotalsInv
<1>2. /\ LevelsKept'
      /\ \A l \in Levels : qsup_levels'[l].level_req
                             = Total(Capped(l, ReqNext(s, req)), NumUsers)
      /\ \A u \in Uids :
           /\ qsup_users'[u].user_req = SumOf(ServersOf(u), ReqNext(s, req))
           /\ u # u0 => qsup_users'[u] = qsup_users[u]
      /\ LET usr == qsup_users'[u0]
             max == srv[s].max_user_bw
         IN  usr.user_coeff =
                IF usr.user_req > max
                THEN coeff_compute(max - usr.user_used_gua,
                                   usr.user_req - usr.user_used_gua)
                ELSE COEFF_ONE
  BY AccountsNext
<1>3. u0 \in Uids /\ srv[s].max_user_bw \in Nat
  BY <1>1, ListedInUse, ServerFacts DEF Bandwidths
<1>4. \A u \in Uids : ServersOf(u)' = {} => qsup_users'[u].user_req = 0
  BY <1>1, SumEmpty DEF TotalsAreSums
\* The servers that stay are the same to the invariant.
<1>5. /\ qsup_servers' \subseteq qsup_servers
      /\ \A t \in qsup_servers' : /\ srv'[t].uid = srv[t].uid
                                  /\ srv'[t].level = srv[t].level
                                  /\ srv'[t].max_user_bw = srv[t].max_user_bw
      /\ \A t \in qsup_servers : t # s => t \in qsup_servers'
  OBVIOUS
<1>6. LevelReqIsSum'
  <2> SUFFICES ASSUME NEW l \in Levels
               PROVE  qsup_levels'[l].level_req = Total(CappedReq(l)', NumUsers)
    BY DEF LevelReqIsSum
  <2> DEFINE c == Capped(l, ReqNext(s, req))
  <2>1. c = [u \in Uids |-> c[u]] /\ qsup_levels'[l].level_req = Total(c, NumUsers)
    BY <1>2 DEF Capped
  <2>2. ASSUME NEW u \in Uids
        PROVE  \/ \E t \in qsup_servers' :
                     /\ srv'[t].uid = u /\ srv'[t].level = l
                     /\ c[u] = bw_min(qsup_users'[u].user_req, srv'[t].max_user_bw)
               \/ /\ c[u] = 0
                  /\ \A t \in qsup_servers' : srv'[t].uid = u => srv'[t].level # l
    <3>1. ASSUME NEW t \in ServersOf(u), srv[t].level = l
          PROVE  c[u] = bw_min(qsup_users'[u].user_req, srv[t].max_user_bw)
      BY <1>1, <1>2, <3>1, CappedAt
    <3>2. ASSUME NEW t \in qsup_servers', srv[t].uid = u, srv[t].level = l
          PROVE  /\ srv'[t].uid = u /\ srv'[t].level = l
                 /\ c[u] = bw_min(qsup_users'[u].user_req, srv'[t].max_user_bw)
      <4>1. t \in ServersOf(u)
        BY <1>5, <3>2 DEF ServersOf
      <4> QED
        BY <1>5, <3>1, <3>2, <4>1
    <3>3. CASE ~HasAt(l, u)
      <4>1. c[u] = 0
        BY <3>3 DEF Capped
      <4>2. \A t \in qsup_servers' : srv'[t].uid = u => srv'[t].level # l
        BY <1>5, <3>3 DEF HasAt, ServersOf
      <4> QED
        BY <4>1, <4>2
    <3>4. ASSUME HasAt(l, u), \A t \in qsup_servers' : srv[t].uid = u => srv[t].level # l
          PROVE  /\ c[u] = 0
                 /\ \A t \in qsup_servers' : srv'[t].uid = u => srv'[t].level # l
      <4>1. PICK t \in ServersOf(u) : srv[t].level = l
        BY <3>4 DEF HasAt
      <4>2. ServersOf(u)' = {}
        <5>1. \A x \in qsup_servers : srv[x].uid = u => srv[x].level = l
          BY <1>1, <4>1 DEF WellConfigured, ServersOf
        <5> QED
          BY <1>5, <3>4, <5>1 DEF ServersOf
      <4>3. qsup_users'[u].user_req = 0
        BY <1>4, <4>2
      <4>4. srv[t].max_user_bw \in Nat
        BY <1>1, <4>1 DEF ServersOf, TypeOK, Server, Bandwidths
      <4>5. c[u] = 0
        BY <3>1, <4>1, <4>3, <4>4 DEF bw_min
      <4> QED
        BY <1>5, <3>4, <4>5
    <3> HIDE DEF c
    <3> QED
      BY <3>2, <3>3, <3>4
  <2> HIDE DEF c
  <2> QED
    BY <2>1, <2>2, LevelReqNext
<1>7. UsersKept'
  <2>1. ASSUME NEW u \in Uids, ServersOf(u)' = {}
        PROVE  qsup_users'[u].user_coeff = COEFF_ONE
    <3>1. CASE u = u0
      BY <1>2, <1>3, <1>4, <2>1, <3>1
    <3>2. CASE u # u0
      <4>1. ServersOf(u) = {}
        BY <1>5, <2>1, <3>2 DEF ServersOf
      <4> QED
        BY <1>1, <1>2, <3>2, <4>1 DEF UsersKept
    <3> QED
      BY <3>1, <3>2
  <2>2. ASSUME NEW t \in qsup_servers'
        PROVE  LET usr == qsup_users'[srv'[t].uid]
                   max == srv'[t].max_user_bw
               IN  usr.user_coeff =
                      IF usr.user_req > max
                      THEN coeff_compute(max - usr.user_used_gua,
                                         usr.user_req - usr.user_used_gua)
                      ELSE COEFF_ONE
    <3>1. /\ t \in qsup_servers /\ srv[t].uid \in Uids
          /\ srv'[t].uid = srv[t].uid /\ srv'[t].max_user_bw = srv[t].max_user_bw
      BY <1>1, <1>5, <2>2 DEF TypeOK
    <3>2. CASE srv[t].uid = u0
      <4>1. srv[t].max_user_bw = srv[s].max_user_bw
        BY <1>1, <3>1, <3>2 DEF WellConfigured
      <4> QED
        BY <1>2, <3>1, <3>2, <4>1
    <3>3. CASE srv[t].uid # u0
      BY <1>1, <1>2, <3>1, <3>3 DEF UsersKept
    <3> QED
      BY <3>2, <3>3
  <2> QED
    BY <2>1, <2>2 DEF UsersKept
<1> QED
  BY <1>1, <1>2, <1>6, <1>7 DEF WellInv, NoFault

\* A request, which does not fault.
LEMMA WellSetRequiredBw ==
    ASSUME WellInv, TotalsInv', WellConfigured', LevelsWithinBound',
           NEW s \in qsup_servers, NEW bw \in Nat, SetRequiredBw(s, bw)
    PROVE  WellInv'
<1> DEFINE req == Saturated(s, bw)
<1>1. TotalsInv /\ TypeOK /\ WellConfigured /\ LevelReqIsSum
  BY DEF WellInv, TotalsInv
<1>2. req \in Bandwidths
  BY <1>1, ListedInUse, SaturatedType
<1>3. /\ SetAccounts(s, req)
      /\ srv' = [srv EXCEPT ![s] = ServerAfter(s, req)]
      /\ UNCHANGED <<qsup_servers, faulted>>
  BY <1>1, <1>2, NoFaults DEF SetRequiredBw
<1> HIDE DEF req
<1>4. /\ \A t \in qsup_servers : t # s => srv'[t] = srv[t]
      /\ srv'[s].uid = srv[s].uid
      /\ srv'[s].level = srv[s].level
      /\ srv'[s].max_user_bw = srv[s].max_user_bw
  <2>1. srv \in [Servers -> Server] /\ qsup_servers \subseteq Servers
    BY <1>1 DEF TypeOK
  <2>2. srv'[s] = ServerAfter(s, req) /\ \A t \in qsup_servers : t # s => srv'[t] = srv[t]
    BY <1>3, <2>1
  <2>3. srv[s] \in Server
    BY <2>1
  <2> QED
    BY <2>2, <2>3 DEF ServerAfter, Server
<1> QED
  BY <1>2, <1>3, <1>4, WellAccounts

\* A removal, which does not fault either.
LEMMA WellRemoveServer ==
    ASSUME WellInv, TotalsInv', WellConfigured', LevelsWithinBound',
           NEW s \in qsup_servers, NEW left \in Server, RemoveServer(s, left)
    PROVE  WellInv'
<1>1. TotalsInv /\ TypeOK /\ WellConfigured /\ LevelReqIsSum
  BY DEF WellInv, TotalsInv
<1>2. 0 \in Bandwidths
  BY BandwidthAssumption DEF Bandwidths
<1>3. TakeOut(s, left)
  BY <1>1, <1>2, NoFaults DEF RemoveServer, RemoveFaults
<1>4. /\ SetAccounts(s, 0) \/ (0 = srv[s].req_bw /\ UNCHANGED accounts)
      /\ \A t \in qsup_servers : t # s => srv'[t] = srv[t]
      /\ qsup_servers' = qsup_servers \ {s}
      /\ UNCHANGED faulted
  BY <1>1, <1>3 DEF TakeOut, TypeOK
<1> QED
  BY <1>2, <1>4, WellAccounts

\* Every step of the supervisor so configured preserves the invariant.
LEMMA WellNext == WellInv /\ [Next /\ WellConfigured']_vars => WellInv'
<1> SUFFICES ASSUME WellInv, [Next /\ WellConfigured']_vars
             PROVE  WellInv'
  OBVIOUS
<1>1. TotalsInv /\ TypeOK /\ LevelsWithinBound
  BY DEF WellInv, TotalsInv
<1>2. TotalsInv' /\ LevelsWithinBound'
  BY <1>1, TotalsNext, LevelsNext
<1>3. CASE UNCHANGED vars
  <2>1. WellConfigured'
    BY <1>3 DEF WellInv, WellConfigured, ServersOf, ServersAt, GuaBw, SumOf, vars, accounts
  <2> QED
    BY <1>2, <1>3, <2>1, WellUnchanged DEF vars, accounts
<1>4. CASE Next /\ WellConfigured'
  <2>1. CASE Configure
    BY <1>2, <1>4, <2>1, WellConfigure
  <2>2. CASE Serve
    BY <1>1, <1>2, <1>4, <2>2, ServeForm, WellInitServer, WellSetRequiredBw,
       WellRemoveServer
  <2> QED
    BY <1>4, <2>1, <2>2 DEF Next
<1> QED
  BY <1>3, <1>4

\* So it always holds.
LEMMA WellAlways == SpecWell => []WellInv
BY WellInit, WellNext, PTL DEF SpecWell

-----------------------------------------------------------------------------
(* What the invariant says of a state. *)

\* The guarantees in use and the requests, over any listed servers.
LEMMA UsedWithin ==
    ASSUME TotalsInv, NEW S \in SUBSET qsup_servers
    PROVE  /\ ReqBw \in PerServer /\ UsedGuaBw \in PerServer /\ GuaBw \in PerServer
           /\ SumOf(S, UsedGuaBw) \in Nat
           /\ SumOf(S, ReqBw) \in Nat
           /\ SumOf(S, UsedGuaBw) <= SumOf(S, GuaBw)
           /\ SumOf(S, UsedGuaBw) <= SumOf(S, ReqBw)
<1>1. TypeOK /\ UsedGuaCurrent
  BY DEF TotalsInv
<1>2. ReqBw \in PerServer /\ UsedGuaBw \in PerServer /\ GuaBw \in PerServer
  BY <1>1, FieldTypes DEF ReqBw, UsedGuaBw, GuaBw, TypeOK
<1>3. \A f \in PerServer : SumOf(S, f) \in Nat
  BY SumFits, BandwidthAssumption DEF Word
<1>4. \A i \in 1 .. NumServers : i \in S => /\ UsedGuaBw[i] <= GuaBw[i]
                                            /\ UsedGuaBw[i] <= ReqBw[i]
  <2> SUFFICES ASSUME NEW i \in 1 .. NumServers, i \in S
               PROVE  UsedGuaBw[i] <= GuaBw[i] /\ UsedGuaBw[i] <= ReqBw[i]
    OBVIOUS
  <2>1. UsedGuaBw[i] = bw_min(ReqBw[i], GuaBw[i])
    BY <1>1 DEF UsedGuaCurrent, UsedGuaBw, ReqBw, GuaBw, Servers
  <2>2. ReqBw[i] \in Nat /\ GuaBw[i] \in Nat
    BY <1>2, BandwidthAssumption DEF PerServer
  <2> QED
    BY <2>1, <2>2 DEF bw_min
<1>5. SumOf(S, UsedGuaBw) <= SumOf(S, GuaBw)
  BY <1>2, <1>4, ServerSumMono
<1>6. SumOf(S, UsedGuaBw) <= SumOf(S, ReqBw)
  BY <1>2, <1>4, ServerSumMono
<1> QED
  BY <1>2, <1>3, <1>5, <1>6

\* Nothing wraps: the two conjuncts are clauses of the invariant.
LEMMA WellNothingWraps == WellInv => NothingWraps
BY DEF WellInv, LevelsKept, NothingWraps, GuaranteesBacked

\* The kept totals are the sums, so the coefficients are those of the sums.
LEMMA WellRequestsCurrent == WellInv => RequestsCurrent
<1> SUFFICES ASSUME WellInv PROVE RequestsCurrent
  OBVIOUS
<1>1. TypeOK /\ TotalsAreSums /\ LevelReqIsSum /\ UsersKept
  BY DEF WellInv, TotalsInv
<1>2. UserCoeffCurrent
  <2> SUFFICES ASSUME NEW s \in qsup_servers
               PROVE  LET req == SumOf(ServersOf(srv[s].uid), ReqBw)
                          gua == SumOf(ServersOf(srv[s].uid), UsedGuaBw)
                          max == srv[s].max_user_bw
                      IN  qsup_users[srv[s].uid].user_coeff =
                              IF req > max THEN coeff_compute(max - gua, req - gua)
                              ELSE COEFF_ONE
    BY DEF UserCoeffCurrent
  <2>1. srv[s].uid \in Uids
    BY <1>1 DEF TypeOK
  <2>2. /\ qsup_users[srv[s].uid].user_req = SumOf(ServersOf(srv[s].uid), ReqBw)
        /\ qsup_users[srv[s].uid].user_used_gua = SumOf(ServersOf(srv[s].uid), UsedGuaBw)
    BY <1>1, <2>1 DEF TotalsAreSums
  <2> QED
    BY <1>1, <2>2 DEF UsersKept
<1> QED
  BY <1>1, <1>2 DEF RequestsCurrent

\* Under an administrator who keeps to WellConfigured, no division of
\* qsup_set_required_bw faults and every guarantee in use is covered by what its
\* level is assigned, whatever the servers ask for and whenever rules change.
THEOREM WrapsNever == SpecWell => []NothingWraps
BY WellAlways, WellNothingWraps, PTL

\* The requests and coefficients that are kept are those of what the servers
\* ask for now: no history of compressions leaves a trace.
THEOREM RequestsAlwaysCurrent == SpecWell => []RequestsCurrent
BY WellAlways, WellRequestsCurrent, PTL

-----------------------------------------------------------------------------
(* What is approved.  Each server gets its guarantee in use and, of what   *)
(* it asks for beyond, what the two coefficients leave.                    *)

\* What is asked for beyond the guarantee, what the user's coefficient leaves of
\* that, and what the level's coefficient leaves of the rest.
Beyond(s) == srv[s].req_bw - srv[s].used_gua_bw
LeftByUser(s) == coeff_apply(Beyond(s), qsup_users[srv[s].uid].user_coeff)
LeftByLevel(s) == coeff_apply(LeftByUser(s), qsup_levels[srv[s].level].level_coeff)

BeyondBw == [s \in Servers |-> IF s \in qsup_servers THEN Beyond(s) ELSE 0]
ByUserBw == [s \in Servers |-> IF s \in qsup_servers THEN LeftByUser(s) ELSE 0]
ByLevelBw == [s \in Servers |-> IF s \in qsup_servers THEN LeftByLevel(s) ELSE 0]

\* What a server would get if its level were not compressed.
UserBw == [s \in Servers |-> IF s \in qsup_servers
                             THEN srv[s].used_gua_bw + LeftByUser(s) ELSE 0]

\* The coefficient of a user is at most 1.0, and what it leaves of the user's
\* whole excess is at most the user's room.
LEMMA UserCoeffFacts ==
    ASSUME WellInv, NEW s \in qsup_servers
    PROVE  LET S   == ServersOf(srv[s].uid)
               req == SumOf(S, ReqBw)
               gua == SumOf(S, UsedGuaBw)
               max == srv[s].max_user_bw
               c   == qsup_users[srv[s].uid].user_coeff
           IN  /\ req \in Nat /\ gua \in Nat /\ max \in Nat
               /\ gua <= req /\ gua <= max
               /\ c \in 0 .. COEFF_ONE
               /\ req > max => c * (req - gua) <= COEFF_ONE * (max - gua)
<1> DEFINE S == ServersOf(srv[s].uid)
           req == SumOf(S, ReqBw)
           gua == SumOf(S, UsedGuaBw)
           max == srv[s].max_user_bw
           c == qsup_users[srv[s].uid].user_coeff
<1>1. TotalsInv /\ TypeOK /\ WellConfigured
  BY DEF WellInv, TotalsInv
<1>2. S \in SUBSET qsup_servers
  BY DEF ServersOf
<1>3. max \in Nat
  BY <1>1 DEF TypeOK, Server, Bandwidths
<1>4. SumOf(S, GuaBw) <= max
  BY <1>1 DEF WellConfigured
<1>5. c = IF req > max THEN coeff_compute(max - gua, req - gua) ELSE COEFF_ONE
  BY WellRequestsCurrent DEF RequestsCurrent, UserCoeffCurrent
<1> HIDE DEF S
<1>6. req \in Nat /\ gua \in Nat /\ gua <= req /\ gua <= max
  <2>1. SumOf(S, GuaBw) \in Nat
    BY <1>1, <1>2, SumFits, UsedWithin, BandwidthAssumption DEF Word
  <2> QED
    BY <1>1, <1>2, <1>3, <1>4, <2>1, UsedWithin
<1> HIDE DEF req, gua, max, c
<1>7. CASE req > max
  <2> DEFINE a == max - gua
             b == req - gua
  <2>1. a \in Nat /\ b \in Nat \ {0} /\ a <= b
    BY <1>3, <1>6, <1>7
  <2>2. c = coeff_compute(a, b)
    BY <1>5, <1>7
  <2> HIDE DEF a, b
  <2>3. c \in 0 .. COEFF_ONE /\ c * b <= COEFF_ONE * a
    BY <2>1, <2>2, CoeffWithinOne
  <2> QED
    BY <1>3, <1>6, <2>3 DEF a, b, req, gua, max, c, S
<1>8. CASE ~(req > max)
  <2>1. c = COEFF_ONE
    BY <1>5, <1>8
  <2>2. c \in 0 .. COEFF_ONE
    BY <2>1, BandwidthAssumption
  <2> QED
    BY <1>3, <1>6, <1>8, <2>2 DEF req, gua, max, c, S
<1> QED
  BY <1>7, <1>8

\* So is that of a level.
LEMMA LevelCoeffFacts ==
    ASSUME WellInv, NEW l \in Levels
    PROVE  LET lev == qsup_levels[l]
               c   == lev.level_coeff
           IN  /\ lev.level_req \in Nat /\ lev.level_gua \in Nat /\ lev.level_sum \in Nat
               /\ lev.level_gua <= lev.level_sum
               /\ lev.level_sum <= lev.level_req
               /\ c \in 0 .. COEFF_ONE
               /\ lev.level_req > lev.level_gua =>
                     c * (lev.level_req - lev.level_gua)
                       <= COEFF_ONE * (lev.level_sum - lev.level_gua)
<1> DEFINE req == qsup_levels[l].level_req
           gua == qsup_levels[l].level_gua
           sum == qsup_levels[l].level_sum
           c == qsup_levels[l].level_coeff
<1>1. TypeOK /\ LevelsKept
  BY DEF WellInv, TotalsInv
<1>2. req \in Nat /\ gua \in Nat /\ sum \in Nat
  BY <1>1, BandwidthAssumption, BoundType DEF TypeOK, Level, Word
<1>3. /\ gua <= sum
      /\ sum <= req
      /\ c = IF req > gua THEN coeff_compute(sum - gua, req - gua) ELSE COEFF_ONE
  BY <1>1 DEF LevelsKept
<1> HIDE DEF req, gua, sum, c
<1>4. CASE req > gua
  <2> DEFINE a == sum - gua
             b == req - gua
  <2>1. a \in Nat /\ b \in Nat \ {0} /\ a <= b
    BY <1>2, <1>3, <1>4
  <2>2. c = coeff_compute(a, b)
    BY <1>3, <1>4
  <2> HIDE DEF a, b
  <2>3. c \in 0 .. COEFF_ONE /\ c * b <= COEFF_ONE * a
    BY <2>1, <2>2, CoeffWithinOne
  <2> QED
    BY <1>2, <1>3, <2>3 DEF a, b, req, gua, sum, c
<1>5. CASE ~(req > gua)
  <2>1. c = COEFF_ONE
    BY <1>3, <1>5
  <2>2. c \in 0 .. COEFF_ONE
    BY <2>1, BandwidthAssumption
  <2> QED
    BY <1>2, <1>3, <1>5, <2>2 DEF req, gua, sum, c
<1> QED
  BY <1>4, <1>5

\* What one server is left with at each stage.
LEMMA ServerShare ==
    ASSUME WellInv, NEW s \in qsup_servers
    PROVE  /\ srv[s].req_bw \in 0 .. MAX_BW
           /\ srv[s].used_gua_bw \in 0 .. srv[s].req_bw
           /\ srv[s].used_gua_bw = bw_min(srv[s].req_bw, srv[s].gua_bw)
           /\ Beyond(s) \in Nat
           /\ LeftByUser(s) \in 0 .. Beyond(s)
           /\ COEFF_ONE * LeftByUser(s) <= qsup_users[srv[s].uid].user_coeff * Beyond(s)
           /\ LeftByLevel(s) \in 0 .. LeftByUser(s)
           /\ COEFF_ONE * LeftByLevel(s)
                <= qsup_levels[srv[s].level].level_coeff * LeftByUser(s)
           /\ approved_bw(s) = srv[s].used_gua_bw + LeftByLevel(s)
<1> DEFINE req == srv[s].req_bw
           used == srv[s].used_gua_bw
<1>1. TotalsInv /\ TypeOK /\ UsedGuaCurrent
  BY DEF WellInv, TotalsInv
<1>2. /\ s \in Servers
      /\ req \in 0 .. MAX_BW /\ used \in 0 .. MAX_BW
      /\ srv[s].gua_bw \in 0 .. MAX_BW
      /\ srv[s].level \in Levels
  BY <1>1 DEF TypeOK, Server, Bandwidths
<1>3. MAX_BW \in Nat /\ WORD \in Nat /\ MAX_BW < WORD
  BY BandwidthAssumption
<1>4. used = bw_min(req, srv[s].gua_bw)
  BY <1>1, <1>2 DEF UsedGuaCurrent
<1>5. used \in 0 .. req
  BY <1>2, <1>3, <1>4 DEF bw_min
<1>6. Beyond(s) \in Word /\ Beyond(s) \in Nat /\ Beyond(s) = req - used
  BY <1>2, <1>3, <1>5 DEF Beyond, Word
<1>7. /\ LeftByUser(s) \in 0 .. Beyond(s)
      /\ COEFF_ONE * LeftByUser(s) <= qsup_users[srv[s].uid].user_coeff * Beyond(s)
  BY <1>6, UserCoeffFacts, ApplyWithin DEF LeftByUser
<1>8. LeftByUser(s) \in Word
  <2>1. Beyond(s) \in 0 .. WORD - 1
    BY <1>6 DEF Word
  <2> QED
    BY <1>3, <1>7, <2>1 DEF Word
<1>9. /\ LeftByLevel(s) \in 0 .. LeftByUser(s)
      /\ COEFF_ONE * LeftByLevel(s)
           <= qsup_levels[srv[s].level].level_coeff * LeftByUser(s)
  BY <1>2, <1>8, LevelCoeffFacts, ApplyWithin DEF LeftByLevel
<1>10. approved_bw(s) = Wrap(used + LeftByLevel(s))
  BY DEF approved_bw, LeftByLevel, LeftByUser, Beyond
<1> HIDE DEF req, used
<1>11. used + LeftByLevel(s) \in Word
  BY <1>2, <1>3, <1>5, <1>6, <1>7, <1>9 DEF Word
<1>12. approved_bw(s) = used + LeftByLevel(s)
  BY <1>10, <1>11, WrapId
<1> QED
  BY <1>2, <1>4, <1>5, <1>6, <1>7, <1>9, <1>12 DEF req, used

\* As functions over the descriptors: each is one of bandwidths, and they add up.
LEMMA ShareTypes ==
    ASSUME WellInv
    PROVE  /\ BeyondBw \in PerServer /\ ByUserBw \in PerServer /\ ByLevelBw \in PerServer
           /\ UserBw \in PerServer /\ ApprovedBw \in PerServer
           /\ \A i \in 1 .. NumServers : i \in qsup_servers =>
                 /\ ReqBw[i] = UsedGuaBw[i] + BeyondBw[i]
                 /\ UserBw[i] = UsedGuaBw[i] + ByUserBw[i]
                 /\ ApprovedBw[i] = UsedGuaBw[i] + ByLevelBw[i]
                 /\ ByUserBw[i] <= BeyondBw[i]
                 /\ ByLevelBw[i] <= ByUserBw[i]
                 /\ UserBw[i] <= ReqBw[i]
                 /\ ApprovedBw[i] <= UserBw[i]
<1>1. Servers = 1 .. NumServers /\ MAX_BW \in Nat
  BY BandwidthAssumption DEF Servers
<1>2. ASSUME NEW s \in qsup_servers
      PROVE  /\ Beyond(s) \in 0 .. MAX_BW
             /\ LeftByUser(s) \in 0 .. MAX_BW
             /\ LeftByLevel(s) \in 0 .. MAX_BW
             /\ srv[s].used_gua_bw + LeftByUser(s) \in 0 .. MAX_BW
             /\ approved_bw(s) \in 0 .. MAX_BW
             /\ srv[s].req_bw = srv[s].used_gua_bw + Beyond(s)
             /\ srv[s].used_gua_bw + LeftByUser(s) <= srv[s].req_bw
             /\ approved_bw(s) = srv[s].used_gua_bw + LeftByLevel(s)
             /\ approved_bw(s) <= srv[s].used_gua_bw + LeftByUser(s)
             /\ LeftByUser(s) <= Beyond(s)
             /\ LeftByLevel(s) <= LeftByUser(s)
  <2>1. /\ srv[s].req_bw \in 0 .. MAX_BW
        /\ srv[s].used_gua_bw \in 0 .. srv[s].req_bw
        /\ Beyond(s) \in Nat
        /\ LeftByUser(s) \in 0 .. Beyond(s)
        /\ LeftByLevel(s) \in 0 .. LeftByUser(s)
        /\ approved_bw(s) = srv[s].used_gua_bw + LeftByLevel(s)
    BY ServerShare
  <2>2. Beyond(s) = srv[s].req_bw - srv[s].used_gua_bw
    BY DEF Beyond
  <2> DEFINE r == srv[s].req_bw
             u == srv[s].used_gua_bw
             x == Beyond(s)
             y == LeftByUser(s)
             z == LeftByLevel(s)
  <2>3. /\ r \in 0 .. MAX_BW /\ u \in 0 .. r /\ x = r - u
        /\ y \in 0 .. x /\ z \in 0 .. y
    BY <2>1, <2>2
  <2> HIDE DEF r, u, x, y, z
  <2>4. r \in Nat /\ u \in Nat /\ x \in Nat /\ y \in Nat /\ z \in Nat
    BY <1>1, <2>3
  <2>5. /\ x \in 0 .. MAX_BW /\ y \in 0 .. MAX_BW /\ z \in 0 .. MAX_BW
        /\ u + y \in 0 .. MAX_BW /\ u + z \in 0 .. MAX_BW
        /\ r = u + x /\ u + y <= r /\ u + z <= u + y /\ y <= x /\ z <= y
    BY <1>1, <2>3, <2>4
  <2> QED
    BY <2>1, <2>5 DEF r, u, x, y, z
<1>3. /\ BeyondBw \in PerServer /\ ByUserBw \in PerServer /\ ByLevelBw \in PerServer
      /\ UserBw \in PerServer /\ ApprovedBw \in PerServer
  BY <1>1, <1>2 DEF PerServer, BeyondBw, ByUserBw, ByLevelBw, UserBw, ApprovedBw
<1>4. \A i \in 1 .. NumServers : i \in qsup_servers =>
         /\ ReqBw[i] = srv[i].req_bw /\ UsedGuaBw[i] = srv[i].used_gua_bw
         /\ BeyondBw[i] = Beyond(i) /\ ByUserBw[i] = LeftByUser(i)
         /\ ByLevelBw[i] = LeftByLevel(i) /\ ApprovedBw[i] = approved_bw(i)
         /\ UserBw[i] = srv[i].used_gua_bw + LeftByUser(i)
  BY <1>1 DEF ReqBw, UsedGuaBw, BeyondBw, ByUserBw, ByLevelBw, UserBw, ApprovedBw
<1> QED
  BY <1>2, <1>3, <1>4

\* The servers of a user together are left, by the user's coefficient, with no
\* more than they ask for and no more than the user's maximum.
LEMMA UserShare ==
    ASSUME WellInv, NEW s \in qsup_servers
    PROVE  LET S == ServersOf(srv[s].uid)
           IN  SumOf(S, UserBw) <= bw_min(SumOf(S, ReqBw), srv[s].max_user_bw)
<1> DEFINE S == ServersOf(srv[s].uid)
           req == SumOf(S, ReqBw)
           gua == SumOf(S, UsedGuaBw)
           y == SumOf(S, ByUserBw)
           max == srv[s].max_user_bw
           c == qsup_users[srv[s].uid].user_coeff
<1>1. TotalsInv /\ S \in SUBSET qsup_servers
  BY DEF WellInv, ServersOf
<1>2. /\ req \in Nat /\ gua \in Nat /\ max \in Nat
      /\ gua <= req /\ gua <= max
      /\ c \in 0 .. COEFF_ONE
      /\ req > max => c * (req - gua) <= COEFF_ONE * (max - gua)
  BY UserCoeffFacts
<1>3. \A i \in 1 .. NumServers : i \in S => i \in qsup_servers /\ srv[i].uid = srv[s].uid
  BY DEF ServersOf
<1>4. \A i \in 1 .. NumServers : i \in S => COEFF_ONE * ByUserBw[i] <= c * BeyondBw[i]
  <2> SUFFICES ASSUME NEW i \in 1 .. NumServers, i \in S
               PROVE  COEFF_ONE * ByUserBw[i] <= c * BeyondBw[i]
    OBVIOUS
  <2>1. i \in qsup_servers /\ srv[i].uid = srv[s].uid
    BY <1>3
  <2>2. COEFF_ONE * LeftByUser(i) <= c * Beyond(i)
    BY <2>1, ServerShare
  <2>3. ByUserBw[i] = LeftByUser(i) /\ BeyondBw[i] = Beyond(i)
    BY <2>1 DEF ByUserBw, BeyondBw, Servers
  <2> QED
    BY <2>2, <2>3
<1> HIDE DEF S
<1>5. /\ BeyondBw \in PerServer /\ ByUserBw \in PerServer /\ UserBw \in PerServer
      /\ ReqBw \in PerServer /\ UsedGuaBw \in PerServer
  BY <1>1, ShareTypes, UsedWithin
<1>6. SumOf(S, UserBw) = gua + y
  <2>1. \A i \in 1 .. NumServers : i \in S => UserBw[i] = UsedGuaBw[i] + ByUserBw[i]
    BY <1>3, ShareTypes
  <2> QED
    BY <1>5, <2>1, ServerSumAdd
<1>7. req = gua + SumOf(S, BeyondBw)
  <2>1. \A i \in 1 .. NumServers : i \in S => ReqBw[i] = UsedGuaBw[i] + BeyondBw[i]
    BY <1>3, ShareTypes
  <2> QED
    BY <1>5, <2>1, ServerSumAdd
<1>8. SumOf(S, UserBw) <= req
  <2>1. \A i \in 1 .. NumServers : i \in S => UserBw[i] <= ReqBw[i]
    BY <1>3, ShareTypes
  <2> QED
    BY <1>5, <2>1, ServerSumMono
<1>9. y \in Nat /\ SumOf(S, BeyondBw) \in Nat /\ COEFF_ONE \in Nat \ {0}
  BY <1>5, SumFits, BandwidthAssumption DEF Word
<1>10. COEFF_ONE * y <= c * SumOf(S, BeyondBw)
  <2>1. COEFF_ONE \in Int /\ c \in Int
    BY <1>2, <1>9
  <2> HIDE DEF c
  <2> QED
    BY <1>4, <1>5, <2>1, ServerSumRatio
<1>11. SumOf(S, UserBw) <= max
  <2>1. CASE req > max
    <3> DEFINE x == SumOf(S, BeyondBw)
               room == max - gua
    <3>1. x = req - gua
      BY <1>2, <1>7, <1>9
    <3>2. COEFF_ONE * y <= c * x /\ c * x <= COEFF_ONE * room
      BY <1>2, <1>10, <2>1, <3>1
    <3>3. y \in Nat /\ room \in Nat /\ c \in Nat /\ x \in Nat
      BY <1>2, <1>9
    <3> HIDE DEF y, room, c, x
    <3>4. COEFF_ONE * y \in Int /\ c * x \in Int /\ COEFF_ONE * room \in Int
      BY <1>9, <3>3
    <3>5. COEFF_ONE * y <= COEFF_ONE * room
      BY <3>2, <3>4
    <3>6. y <= room
      BY <1>9, <3>3, <3>5, TimesCancel
    <3> QED
      BY <1>2, <1>6, <3>3, <3>6 DEF room
  <2>2. CASE ~(req > max)
    <3>1. SumOf(S, UserBw) \in Nat
      BY <1>2, <1>6, <1>9
    <3> QED
      BY <1>2, <1>8, <2>2, <3>1
  <2> QED
    BY <2>1, <2>2
<1> QED
  BY <1>8, <1>11 DEF bw_min, S

\* The servers of a level together are left, by both coefficients, with no more
\* than the level is assigned.
LEMMA LevelShare ==
    ASSUME WellInv, NEW l \in Levels
    PROVE  SumOf(ServersAt(l), ApprovedBw) <= qsup_levels[l].level_sum
<1> DEFINE S == ServersAt(l)
           y == SumOf(S, ByUserBw)
           z == SumOf(S, ByLevelBw)
           req == qsup_levels[l].level_req
           gua == qsup_levels[l].level_gua
           sum == qsup_levels[l].level_sum
           c == qsup_levels[l].level_coeff
<1>1. TotalsInv /\ TypeOK /\ WellConfigured /\ TotalsAreSums /\ LevelReqIsSum
  BY DEF WellInv, TotalsInv
<1>2. /\ req \in Nat /\ gua \in Nat /\ sum \in Nat
      /\ gua <= sum /\ sum <= req
      /\ c \in 0 .. COEFF_ONE
      /\ req > gua => c * (req - gua) <= COEFF_ONE * (sum - gua)
  BY LevelCoeffFacts
<1>3. \A i \in 1 .. NumServers : i \in S => i \in qsup_servers /\ srv[i].level = l
  BY DEF ServersAt
<1>4. /\ ByLevelBw \in PerServer /\ ByUserBw \in PerServer /\ UserBw \in PerServer
      /\ ReqBw \in PerServer /\ UsedGuaBw \in PerServer /\ ApprovedBw \in PerServer
  BY <1>1, ShareTypes, UsedWithin
<1>5. \A i \in 1 .. NumServers : i \in S => COEFF_ONE * ByLevelBw[i] <= c * ByUserBw[i]
  <2> SUFFICES ASSUME NEW i \in 1 .. NumServers, i \in S
               PROVE  COEFF_ONE * ByLevelBw[i] <= c * ByUserBw[i]
    OBVIOUS
  <2>1. i \in qsup_servers /\ srv[i].level = l
    BY <1>3
  <2>2. COEFF_ONE * LeftByLevel(i) <= c * LeftByUser(i)
    BY <2>1, ServerShare
  <2>3. ByLevelBw[i] = LeftByLevel(i) /\ ByUserBw[i] = LeftByUser(i)
    BY <2>1 DEF ByLevelBw, ByUserBw, Servers
  <2> QED
    BY <2>2, <2>3
\* Before the level's coefficient, they keep to what the level's users ask for.
<1>6. SumOf(S, UserBw) <= req
  <2>1. ASSUME NEW u \in Uids, NEW t \in Servers, t \in ServersOf(u)
        PROVE  SumOf(ServersOf(u), UserBw)
                 <= bw_min(SumOf(ServersOf(u), ReqBw), srv[t].max_user_bw)
    <3>1. t \in qsup_servers /\ srv[t].uid = u
      BY <2>1 DEF ServersOf
    <3> QED
      BY <3>1, UserShare
  <2>2. SumOf(S, UserBw) <= Total(Capped(l, ReqBw), NumUsers)
    BY <1>1, <1>4, <2>1, SumWithinCapped
  <2>3. req = Total(Capped(l, ReqBw), NumUsers)
    BY <1>1, CappedIsReq DEF LevelReqIsSum
  <2> QED
    BY <2>2, <2>3
<1>7. gua = SumOf(S, UsedGuaBw)
  BY <1>1 DEF TotalsAreSums
<1> HIDE DEF S
<1>8. SumOf(S, UserBw) = gua + y
  <2>1. \A i \in 1 .. NumServers : i \in S => UserBw[i] = UsedGuaBw[i] + ByUserBw[i]
    BY <1>3, ShareTypes
  <2> QED
    BY <1>4, <1>7, <2>1, ServerSumAdd
<1>9. SumOf(S, ApprovedBw) = gua + z
  <2>1. \A i \in 1 .. NumServers : i \in S => ApprovedBw[i] = UsedGuaBw[i] + ByLevelBw[i]
    BY <1>3, ShareTypes
  <2> QED
    BY <1>4, <1>7, <2>1, ServerSumAdd
<1>10. z <= y
  <2>1. \A i \in 1 .. NumServers : i \in S => ByLevelBw[i] <= ByUserBw[i]
    BY <1>3, ShareTypes
  <2> QED
    BY <1>4, <2>1, ServerSumMono
<1>11. y \in Nat /\ z \in Nat /\ COEFF_ONE \in Nat \ {0} /\ c \in Nat
  BY <1>2, <1>4, SumFits, BandwidthAssumption DEF Word
<1>12. COEFF_ONE * z <= c * y
  <2>1. COEFF_ONE \in Int /\ c \in Int
    BY <1>11
  <2> HIDE DEF c
  <2> QED
    BY <1>4, <1>5, <2>1, ServerSumRatio
<1>13. y <= req - gua
  BY <1>2, <1>6, <1>8, <1>11
<1>14. z <= sum - gua
  <2>1. CASE req > gua
    <3> DEFINE x == req - gua
               room == sum - gua
    <3>1. y * c <= x * c /\ c * x <= COEFF_ONE * room
      BY <1>2, <1>11, <1>13, <2>1, TimesMono
    <3>2. x \in Nat /\ room \in Nat
      BY <1>2
    <3> HIDE DEF y, z, room, c, x
    <3>3. /\ y * c = c * y /\ x * c = c * x
          /\ COEFF_ONE * z \in Int /\ c * y \in Int /\ c * x \in Int /\ COEFF_ONE * room \in Int
      BY <1>11, <3>2
    <3>4. COEFF_ONE * z <= COEFF_ONE * room
      BY <1>12, <3>1, <3>3
    <3>5. z <= room
      BY <1>11, <3>2, <3>4, TimesCancel
    <3> QED
      BY <3>5 DEF room
  <2>2. CASE ~(req > gua)
    BY <1>2, <1>10, <1>11, <1>13, <2>2
  <2> QED
    BY <2>1, <2>2
<1> QED
  BY <1>2, <1>9, <1>11, <1>14 DEF S

\* What is approved keeps to every bound at once.
LEMMA WellApprovedSound == WellInv => ApprovedSound
<1> SUFFICES ASSUME WellInv PROVE ApprovedSound
  OBVIOUS
<1>1. TypeOK /\ LevelsWithinBound
  BY DEF WellInv, TotalsInv
<1>2. ApprovedBetween
  <2> SUFFICES ASSUME NEW s \in qsup_servers
               PROVE  approved_bw(s) \in bw_min(srv[s].req_bw, srv[s].gua_bw) .. srv[s].req_bw
    BY DEF ApprovedBetween
  <2> DEFINE used == srv[s].used_gua_bw
             req == srv[s].req_bw
             x == Beyond(s)
             y == LeftByUser(s)
             z == LeftByLevel(s)
  <2>1. /\ req \in Nat /\ used \in 0 .. req /\ x \in Nat /\ x = req - used
        /\ y \in 0 .. x /\ z \in 0 .. y
        /\ approved_bw(s) = used + z
        /\ used = bw_min(req, srv[s].gua_bw)
    BY ServerShare, BandwidthAssumption DEF Beyond
  <2> HIDE DEF used, req, x, y, z
  <2>2. used + z \in used .. req
    BY <2>1
  <2> QED
    BY <2>1, <2>2 DEF req
<1>3. ApprovedWithinUser
  <2> SUFFICES ASSUME NEW s \in qsup_servers
               PROVE  SumOf(ServersOf(srv[s].uid), ApprovedBw) <= srv[s].max_user_bw
    BY DEF ApprovedWithinUser
  <2> DEFINE S == ServersOf(srv[s].uid)
  <2>1. /\ ApprovedBw \in PerServer /\ UserBw \in PerServer
        /\ \A i \in 1 .. NumServers : i \in S => ApprovedBw[i] <= UserBw[i]
    BY ShareTypes DEF ServersOf
  <2>2. SumOf(S, UserBw) <= bw_min(SumOf(S, ReqBw), srv[s].max_user_bw)
    BY UserShare
  <2>3. SumOf(S, ReqBw) \in Nat /\ srv[s].max_user_bw \in Nat
    BY UserCoeffFacts
  <2> HIDE DEF S
  <2>4. SumOf(S, ApprovedBw) <= SumOf(S, UserBw)
    BY <2>1, ServerSumMono
  <2>5. SumOf(S, ApprovedBw) \in Nat /\ SumOf(S, UserBw) \in Nat
    BY <2>1, SumFits, BandwidthAssumption DEF Word
  <2>6. SumOf(S, ApprovedBw) <= srv[s].max_user_bw
    BY <2>2, <2>3, <2>4, <2>5 DEF bw_min
  <2> QED
    BY <2>6 DEF S
<1>4. ApprovedWithinLevel
  BY LevelShare DEF ApprovedWithinLevel
<1>5. ApprovedWithinBound
  <2>1. ApprovedBw \in [1 .. NumServers -> Int] /\ ApprovedBw \in PerServer /\ NumServers \in Nat
    BY ShareTypes, PerServerInt
  <2>2. \A i \in 1 .. NumServers :
           /\ i \in qsup_servers <=> i \in ServersAt(0) \/ i \in ServersAt(1)
           /\ ~(i \in ServersAt(0) /\ i \in ServersAt(1))
    BY <1>1 DEF ServersAt, TypeOK, Server, Servers, Levels
  <2>3. SumOf(qsup_servers, ApprovedBw)
          = SumOf(ServersAt(0), ApprovedBw) + SumOf(ServersAt(1), ApprovedBw)
    BY <2>1, <2>2, SumUnion DEF SumOf
  <2>4. /\ SumOf(ServersAt(0), ApprovedBw) <= qsup_levels[0].level_sum
        /\ SumOf(ServersAt(1), ApprovedBw) <= qsup_levels[1].level_sum
        /\ qsup_levels[0].level_sum \in Nat /\ qsup_levels[1].level_sum \in Nat
    BY LevelShare, LevelCoeffFacts DEF Levels
  <2>5. SumOf(ServersAt(0), ApprovedBw) \in Nat /\ SumOf(ServersAt(1), ApprovedBw) \in Nat
    BY <2>1, SumFits, BandwidthAssumption DEF Word
  <2>6. U_LUB \in Nat
    BY BoundType, BandwidthAssumption
  <2> QED
    BY <1>1, <2>3, <2>4, <2>5, <2>6 DEF LevelsWithinBound, ApprovedWithinBound
<1> QED
  BY <1>2, <1>3, <1>4, <1>5 DEF ApprovedSound

\* Whatever the two coefficients truncate, each server gets between the guarantee
\* it uses and what it asks for, and the servers of a user, of a level and of the
\* system keep to the user's maximum, the level's assignment and U_LUB.
THEOREM ApprovalsSound == SpecWell => []ApprovedSound
BY WellAlways, WellApprovedSound, PTL

-----------------------------------------------------------------------------
(* Level 0 is out of reach of level 1. *)

\* What a level 0 server is granted depends on its own user and on level 0
\* alone, and a server of level 1 has another user and another level.
LEMMA IsolationAccounts ==
    ASSUME WellInv, NEW s \in qsup_servers, NEW t \in qsup_servers, NEW req \in Bandwidths,
           srv[s].level = 0, srv[t].level = 1,
           qsup_levels = Recompute(qsup_levels),
           SetAccounts(t, req) \/ UNCHANGED accounts,
           srv'[s] = srv[s]
    PROVE  approved_bw(s)' = approved_bw(s)
<1>1. TotalsInv /\ TypeOK /\ WellConfigured
  BY DEF WellInv, TotalsInv
<1>2. /\ srv[s].uid \in Uids /\ srv[t].uid # srv[s].uid
      /\ qsup_users \in [Uids -> User]
      /\ qsup_levels \in [Levels -> Level]
      /\ 0 \in Levels /\ 1 \in Levels
  BY <1>1 DEF TypeOK, WellConfigured, Levels
<1>3. CASE SetAccounts(t, req)
  <2> DEFINE levels == LevelsBefore(t, req)
  <2>1. qsup_users'[srv[s].uid] = qsup_users[srv[s].uid]
    BY <1>2, <1>3 DEF SetAccounts
  <2>2. qsup_levels' = Recompute(levels)
    BY <1>3 DEF SetAccounts, LevelsAfter
  <2>3. levels[0] = qsup_levels[0]
    BY <1>2 DEF LevelsBefore
  <2> HIDE DEF levels
  <2>4. Recompute(levels)[0] = Recompute(qsup_levels)[0]
    BY <1>2, <2>3 DEF Recompute, Assigned, LevelRoom
  <2>5. qsup_levels'[0] = qsup_levels[0]
    BY <2>2, <2>4
  <2> QED
    BY <2>1, <2>5 DEF approved_bw
<1>4. CASE UNCHANGED accounts
  BY <1>4 DEF approved_bw, accounts
<1> QED
  BY <1>3, <1>4

\* A step that changes a server of level 1 leaves those of level 0 with what
\* they had.
LEMMA IsolationStep ==
    WellInv /\ [Next /\ WellConfigured']_vars
      => [\A s \in qsup_servers, t \in qsup_servers :
            /\ srv'[t] # srv[t]
            /\ srv[s].level = 0 /\ srv[t].level = 1
            /\ qsup_levels = Recompute(qsup_levels)
            => approved_bw(s)' = approved_bw(s)]_vars
<1> SUFFICES ASSUME WellInv, Next,
                    NEW s \in qsup_servers, NEW t \in qsup_servers,
                    srv'[t] # srv[t],
                    srv[s].level = 0, srv[t].level = 1,
                    qsup_levels = Recompute(qsup_levels)
             PROVE  approved_bw(s)' = approved_bw(s)
  OBVIOUS
<1>1. TotalsInv /\ TypeOK /\ 0 \in Bandwidths
  BY BandwidthAssumption DEF WellInv, TotalsInv, Bandwidths
<1>2. s # t /\ srv \in [Servers -> Server]
  BY <1>1 DEF TypeOK
<1>3. ~Configure
  BY DEF Configure, AddLevelRule, AddGroupRule, AddUserRule, ReserveSpare
<1>4. ASSUME NEW x \in Servers, NEW uid, NEW gid, NEW p, InitServer(x, uid, gid, p)
      PROVE  FALSE
  <2>1. x # t
    BY <1>4 DEF InitServer
  <2>2. \E new : srv' = [srv EXCEPT ![x] = new]
    BY <1>4 DEF InitServer
  <2>3. srv'[t] = srv[t]
    BY <1>2, <2>1, <2>2
  <2> QED
    BY <2>3
<1>5. ASSUME NEW x \in qsup_servers, NEW bw \in Nat, SetRequiredBw(x, bw)
      PROVE  approved_bw(s)' = approved_bw(s)
  <2> DEFINE req == Saturated(x, bw)
  <2>1. req \in Bandwidths
    BY <1>1, ListedInUse, SaturatedType
  <2>2. SetAccounts(x, req) /\ srv' = [srv EXCEPT ![x] = ServerAfter(x, req)]
    BY <1>5 DEF SetRequiredBw, Fault
  <2> HIDE DEF req
  <2>3. x = t /\ srv'[s] = srv[s]
    BY <1>2, <2>2
  <2> QED
    BY <2>1, <2>2, <2>3, IsolationAccounts
<1>6. ASSUME NEW x \in qsup_servers, NEW left \in Server, RemoveServer(x, left)
      PROVE  approved_bw(s)' = approved_bw(s)
  <2>1. /\ SetAccounts(x, 0) \/ UNCHANGED accounts
        /\ srv' = [srv EXCEPT ![x] = left]
    BY <1>6 DEF RemoveServer, TakeOut, Fault
  <2>2. x = t /\ srv'[s] = srv[s]
    BY <1>2, <2>1
  <2> QED
    BY <1>1, <2>1, <2>2, IsolationAccounts
<1> QED
  BY <1>1, <1>3, <1>4, <1>5, <1>6, ServeForm DEF Next

\* A request, or the end, of a server of level 1 changes nothing of what the
\* servers of level 0 get.
THEOREM Level0Isolated == SpecWell => PriorityIsolation
BY WellAlways, IsolationStep, PTL DEF SpecWell, PriorityIsolation
=============================================================================
