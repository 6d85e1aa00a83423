-------------------------- MODULE AddressPathProofs --------------------------
(***************************************************************************)
(* Theorems about how addresses are taken apart, queued and randomized,    *)
(* for every size of the memory and both mappings.                         *)
(***************************************************************************)
EXTENDS AddressPath, WellFoundedInduction, TLAPS

-----------------------------------------------------------------------------
(* Induction over the numbers, by the least counterexample, and functions  *)
(* defined by recursion over them.                                         *)

LEMMA Least ==
    ASSUME NEW T \in SUBSET Nat, T # {}
    PROVE  \E n \in T : \A m \in T : n <= m
  <1> DEFINE R == {ss \in Nat \X Nat : ss[1] < ss[2]}
  <1>1. IsWellFoundedOn(R, Nat)
    BY NatLessThanWellFounded DEF OpToRel
  <1>2. PICK n \in T : \A m \in T : ~ (<<m, n>> \in R)
    BY <1>1, WFMin
  <1>3. ASSUME NEW m \in T PROVE n <= m
    <2>1. <<m, n>> \in Nat \X Nat /\ <<m, n>> \notin R
      BY <1>2
    <2>2. ~(<<m, n>>[1] < <<m, n>>[2])
      BY <2>1
    <2>3. ~(m < n) /\ m \in Nat /\ n \in Nat
      BY <2>2
    <2> QED
      BY <2>3
  <1> QED
    BY <1>3

LEMMA Induction ==
    ASSUME NEW T, 0 \in T, \A n \in Nat : n \in T => n + 1 \in T
    PROVE  Nat \subseteq T
  <1> SUFFICES ASSUME Nat \ T # {} PROVE FALSE
    OBVIOUS
  <1>1. PICK n \in Nat \ T : \A m \in Nat \ T : n <= m
    BY Least
  <1>2. n - 1 \in Nat \ T
    BY <1>1
  <1> QED
    BY <1>1, <1>2

Descends(B, c, step, back) ==
    /\ B \in SUBSET Nat /\ c \in Nat /\ step \in [Nat -> Nat]
    /\ back \in [Nat -> Nat]
    /\ \A n \in Nat \ B : back[n] < n

\* f is c on B and elsewhere follows from its value at a smaller number.
Follows(f, T, B, c, step, back) ==
    /\ f \in [T -> Nat]
    /\ \A n \in T : f[n] = IF n \in B THEN c ELSE step[f[back[n]]]

LEMMA FollowsOnce ==
    ASSUME NEW B, NEW c, NEW step, NEW back, Descends(B, c, step, back),
           NEW a \in Nat, NEW f, Follows(f, 0 .. a, B, c, step, back),
           NEW b \in Nat, NEW g, Follows(g, 0 .. b, B, c, step, back)
    PROVE  \A n \in (0 .. a) \cap (0 .. b) : f[n] = g[n]
  <1> DEFINE T == {n \in (0 .. a) \cap (0 .. b) : f[n] # g[n]}
  <1> SUFFICES ASSUME T # {} PROVE FALSE
    OBVIOUS
  <1>1. T \in SUBSET Nat
    OBVIOUS
  <1>2. PICK n \in T : \A m \in T : n <= m
    BY ONLY <1>1, T # {}, Least
  <1>3. n \in Nat /\ n \in 0 .. a /\ n \in 0 .. b /\ f[n] # g[n]
    OBVIOUS
  <1>4. n \notin B
    BY <1>3 DEF Follows
  <1>5. back[n] \in Nat /\ back[n] < n
    BY <1>3, <1>4 DEF Descends
  <1>6. back[n] \in (0 .. a) \cap (0 .. b)
    BY <1>3, <1>5
  <1>7. f[back[n]] = g[back[n]]
    <2>1. ~(n <= back[n])
      BY ONLY <1>3, <1>5
    <2>2. back[n] \notin T
      BY <1>2, <2>1
    <2> QED
      BY <1>6, <2>2
  <1>8. f[n] = step[f[back[n]]] /\ g[n] = step[g[back[n]]]
    BY <1>3, <1>4 DEF Follows
  <1> QED
    BY <1>3, <1>7, <1>8

LEMMA FollowsSome ==
    ASSUME NEW B, NEW c, NEW step, NEW back, Descends(B, c, step, back)
    PROVE  \A a \in Nat : \E f : Follows(f, 0 .. a, B, c, step, back)
  <1> DEFINE T == {a \in Nat : \E f : Follows(f, 0 .. a, B, c, step, back)}
  <1>1. 0 \in T
    <2> DEFINE f == [n \in 0 .. 0 |-> c]
    <2>1. 0 \in B /\ c \in Nat
      BY DEF Descends
    <2>2. Follows(f, 0 .. 0, B, c, step, back)
      BY <2>1 DEF Follows
    <2> QED
      BY <2>2
  <1>2. ASSUME NEW a \in Nat, a \in T PROVE a + 1 \in T
    <2>1. PICK f : Follows(f, 0 .. a, B, c, step, back)
      BY <1>2
    <2> DEFINE top == IF a + 1 \in B THEN c ELSE step[f[back[a + 1]]]
               g == [n \in 0 .. a + 1 |-> IF n = a + 1 THEN top ELSE f[n]]
    <2>2. f \in [0 .. a -> Nat]
      BY <2>1 DEF Follows
    <2>3. a + 1 \notin B => back[a + 1] \in 0 .. a
      <3>1. a + 1 \in Nat /\ back[a + 1] \in Nat
        BY DEF Descends
      <3>2. a + 1 \notin B => back[a + 1] < a + 1
        BY <3>1 DEF Descends
      <3> QED
        BY <3>1, <3>2
    <2>4. top \in Nat
      <3>1. CASE a + 1 \in B
        BY <3>1 DEF Descends
      <3>2. CASE a + 1 \notin B
        <4>1. f[back[a + 1]] \in Nat
          BY <2>2, <2>3, <3>2
        <4> QED
          BY <3>2, <4>1 DEF Descends
      <3> QED
        BY <3>1, <3>2
    <2> HIDE DEF top
    <2>5. /\ g \in [0 .. a + 1 -> Nat] /\ g[a + 1] = top
          /\ \A n \in 0 .. a : g[n] = f[n]
      <3>1. \A n \in 0 .. a + 1 : n # a + 1 => n \in 0 .. a
        OBVIOUS
      <3>2. \A n \in 0 .. a : n \in 0 .. a + 1 /\ n # a + 1
        OBVIOUS
      <3>3. ASSUME NEW n \in 0 .. a + 1
            PROVE  (IF n = a + 1 THEN top ELSE f[n]) \in Nat
        <4>1. CASE n = a + 1
          BY <2>4, <4>1
        <4>2. CASE n # a + 1
          BY <2>2, <3>1, <4>2
        <4> QED
          BY <4>1, <4>2
      <3>4. a + 1 \in 0 .. a + 1
        OBVIOUS
      <3> QED
        BY <3>2, <3>3, <3>4
    <2> HIDE DEF g
    <2>6. ASSUME NEW n \in 0 .. a + 1
          PROVE  g[n] = IF n \in B THEN c ELSE step[g[back[n]]]
      <3>1. n \notin B => back[n] \in 0 .. a
        <4>1. n \in Nat /\ back[n] \in Nat
          BY DEF Descends
        <4>2. n \notin B => back[n] < n
          BY <4>1 DEF Descends
        <4> QED
          BY <4>1, <4>2
      <3>2. CASE n = a + 1
        BY <2>5, <3>1, <3>2 DEF top
      <3>3. CASE n \in 0 .. a
        BY <2>1, <2>5, <3>1, <3>3 DEF Follows
      <3> QED
        BY <3>2, <3>3
    <2>7. Follows(g, 0 .. a + 1, B, c, step, back)
      BY <2>5, <2>6 DEF Follows
    <2> QED
      BY <2>7
  <1> HIDE DEF T
  <1>3. Nat \subseteq T
    BY <1>1, <1>2, Induction
  <1> QED
    BY <1>3 DEF T

LEMMA Recursion ==
    ASSUME NEW B, NEW c, NEW step, NEW back, Descends(B, c, step, back)
    PROVE  \E f : Follows(f, Nat, B, c, step, back)
  <1> DEFINE Some(a, g) == Follows(g, 0 .. a, B, c, step, back)
             part == [a \in Nat |-> CHOOSE g : Some(a, g)]
             f == [n \in Nat |-> part[n][n]]
  <1>1. ASSUME NEW a \in Nat PROVE Some(a, part[a])
    <2>1. \E g : Some(a, g)
      BY FollowsSome
    <2>2. part[a] = CHOOSE g : Some(a, g)
      OBVIOUS
    <2> HIDE DEF Some, part
    <2> QED
      BY <2>1, <2>2
  <1> HIDE DEF part
  <1>2. ASSUME NEW a \in Nat, NEW n \in 0 .. a PROVE part[a][n] = f[n]
    <2>1. Some(a, part[a]) /\ Some(n, part[n])
      BY <1>1
    <2>2. n \in Nat /\ n \in (0 .. a) \cap (0 .. n)
      OBVIOUS
    <2>3. \A m \in (0 .. a) \cap (0 .. n) : part[a][m] = part[n][m]
      <3>1. /\ Follows(part[a], 0 .. a, B, c, step, back)
            /\ Follows(part[n], 0 .. n, B, c, step, back)
        BY <1>1, <2>2
      <3> QED
        BY ONLY <2>2, <3>1, a \in Nat, Descends(B, c, step, back), FollowsOnce
    <2> QED
      BY <2>3
  <1>3. ASSUME NEW n \in Nat
        PROVE  f[n] \in Nat /\ f[n] = IF n \in B THEN c ELSE step[f[back[n]]]
    <2>1. part[n] \in [0 .. n -> Nat]
      BY <1>1 DEF Follows
    <2>2. part[n][n] = IF n \in B THEN c ELSE step[part[n][back[n]]]
      BY <1>1 DEF Follows
    <2>3. ASSUME n \notin B
          PROVE  part[n][back[n]] = f[back[n]]
      <3>1. back[n] \in 0 .. n
        <4>1. back[n] \in Nat /\ back[n] < n
          BY <2>3 DEF Descends
        <4> QED
          BY <4>1
      <3> QED
        BY <1>2, <3>1
    <2>4. f[n] = part[n][n] /\ part[n][n] \in Nat
      <3>1. n \in 0 .. n
        OBVIOUS
      <3> QED
        BY <2>1, <3>1
    <2> QED
      BY <2>2, <2>3, <2>4
  <1>4. f \in [Nat -> Nat]
    BY <1>3
  <1> HIDE DEF f
  <1> QED
    BY <1>3, <1>4 DEF Follows

-----------------------------------------------------------------------------
(* Powers of two and logarithms.                                           *)

LEMMA WeightSolved ==
    Weight = [n \in Nat |-> IF n = 0 THEN 1 ELSE 2 * Weight[n - 1]]
  <1> DEFINE Solves(f) == f = [n \in Nat |-> IF n = 0 THEN 1 ELSE 2 * f[n - 1]]
             step == [x \in Nat |-> 2 * x]
             back == [n \in Nat |-> IF n = 0 THEN 0 ELSE n - 1]
  <1>1. Descends({0}, 1, step, back)
    BY DEF Descends
  <1>2. PICK f : Follows(f, Nat, {0}, 1, step, back)
    BY <1>1, Recursion
  <1>3. ASSUME NEW n \in Nat
        PROVE  f[n] = IF n = 0 THEN 1 ELSE 2 * f[n - 1]
    <2>1. f \in [Nat -> Nat] /\ f[n] = IF n \in {0} THEN 1 ELSE step[f[back[n]]]
      BY <1>2 DEF Follows
    <2>2. CASE n # 0
      <3>1. n - 1 \in Nat /\ back[n] = n - 1
        BY <2>2
      <3>2. step[f[n - 1]] = 2 * f[n - 1]
        BY <2>1, <3>1
      <3> QED
        BY <2>1, <2>2, <3>1, <3>2
    <2> QED
      BY <2>1, <2>2
  <1>4. Solves(f)
    <2>1. f \in [Nat -> Nat]
      BY <1>2 DEF Follows
    <2> QED
      BY <1>3, <2>1
  <1>5. Weight = CHOOSE g : Solves(g)
    BY DEF Weight
  <1> HIDE DEF Solves
  <1>6. Solves(Weight)
    BY <1>4, <1>5
  <1> QED
    BY <1>6 DEF Solves

LEMMA WeightFacts ==
    /\ Weight[0] = 1
    /\ \A n \in Nat : Weight[n] \in Nat \ {0} /\ Weight[n + 1] = 2 * Weight[n]
  <1>1. Weight[0] = 1
    BY WeightSolved
  <1>2. ASSUME NEW n \in Nat PROVE Weight[n + 1] = 2 * Weight[n]
    <2>1. n + 1 \in Nat /\ n + 1 # 0 /\ (n + 1) - 1 = n
      OBVIOUS
    <2> QED
      BY <2>1, WeightSolved
  <1> DEFINE T == {n \in Nat : Weight[n] \in Nat \ {0}}
  <1>3. 0 \in T
    BY <1>1
  <1>4. ASSUME NEW n \in Nat, n \in T PROVE n + 1 \in T
    BY <1>2, <1>4
  <1> HIDE DEF T
  <1>5. Nat \subseteq T
    BY <1>3, <1>4, Induction
  <1> QED
    BY <1>1, <1>2, <1>5 DEF T

LEMMA WeightSum ==
    ASSUME NEW m \in Nat, NEW n \in Nat
    PROVE  Weight[m + n] = Weight[m] * Weight[n]
  <1> DEFINE T == {k \in Nat : Weight[m + k] = Weight[m] * Weight[k]}
  <1>1. 0 \in T
    BY WeightFacts
  <1>2. ASSUME NEW k \in Nat, k \in T PROVE k + 1 \in T
    <2>1. /\ Weight[m + k] = Weight[m] * Weight[k]
          /\ Weight[(m + k) + 1] = 2 * Weight[m + k]
          /\ Weight[k + 1] = 2 * Weight[k]
          /\ Weight[m] \in Nat /\ Weight[k] \in Nat
      BY <1>2, WeightFacts
    <2>2. m + (k + 1) = (m + k) + 1
      OBVIOUS
    <2>3. 2 * (Weight[m] * Weight[k]) = Weight[m] * (2 * Weight[k])
      BY <2>1
    <2> QED
      BY <2>1, <2>2, <2>3
  <1> HIDE DEF T
  <1>3. Nat \subseteq T
    BY <1>1, <1>2, Induction
  <1> QED
    BY <1>3 DEF T

LEMMA LogSolved ==
    log_base2 = [n \in Nat |-> IF n <= 1 THEN 0 ELSE 1 + log_base2[n \div 2]]
  <1> DEFINE Solves(f) == f = [n \in Nat |-> IF n <= 1 THEN 0
                                             ELSE 1 + f[n \div 2]]
             step == [x \in Nat |-> 1 + x]
             back == [n \in Nat |-> n \div 2]
  <1>1. Descends({0, 1}, 0, step, back)
    <2>1. \A n \in Nat : n \div 2 \in Nat /\ (n \notin {0, 1} => n \div 2 < n)
      OBVIOUS
    <2> QED
      BY <2>1 DEF Descends
  <1>2. PICK f : Follows(f, Nat, {0, 1}, 0, step, back)
    BY <1>1, Recursion
  <1>3. ASSUME NEW n \in Nat
        PROVE  f[n] = IF n <= 1 THEN 0 ELSE 1 + f[n \div 2]
    <2>1. f \in [Nat -> Nat] /\ f[n] = IF n \in {0, 1} THEN 0 ELSE step[f[back[n]]]
      BY <1>2 DEF Follows
    <2>2. n \in {0, 1} <=> n <= 1
      OBVIOUS
    <2>3. n \div 2 \in Nat /\ back[n] = n \div 2
      OBVIOUS
    <2>4. step[f[n \div 2]] = 1 + f[n \div 2]
      BY <2>1, <2>3
    <2> QED
      BY <2>1, <2>2, <2>3, <2>4
  <1>4. Solves(f)
    <2>1. f \in [Nat -> Nat]
      BY <1>2 DEF Follows
    <2> QED
      BY <1>3, <2>1
  <1>5. log_base2 = CHOOSE g : Solves(g)
    BY DEF log_base2
  <1> HIDE DEF Solves
  <1>6. Solves(log_base2)
    BY <1>4, <1>5
  <1> QED
    BY <1>6 DEF Solves

\* The fields cover no more than the parts there are.
LEMMA LogFacts ==
    ASSUME NEW n \in Nat \ {0}
    PROVE  log_base2[n] \in Nat /\ Weight[log_base2[n]] <= n
  <1> DEFINE Good(k) == log_base2[k] \in Nat /\ Weight[log_base2[k]] <= k
             T == {k \in Nat \ {0} : ~Good(k)}
  <1> SUFFICES ASSUME T # {} PROVE FALSE
    OBVIOUS
  <1>1. T \in SUBSET Nat
    OBVIOUS
  <1>2. PICK k \in T : \A m \in T : k <= m
    BY ONLY <1>1, T # {}, Least
  <1>3. CASE k = 1
    <2>1. log_base2[1] = 0
      BY LogSolved
    <2> QED
      BY <1>3, <2>1, WeightFacts
  <1>4. CASE k # 1
    <2> PICK h : h = k \div 2
      OBVIOUS
    <2>1. h \in Nat \ {0} /\ h < k /\ 2 * h <= k /\ ~(k <= 1) /\ k \in Nat
      BY <1>4
    <2>2. Good(h)
      <3>1. h \notin T
        BY <1>2, <2>1
      <3> QED
        BY <2>1, <3>1
    <2>3. log_base2[k] = 1 + log_base2[h]
      BY <2>1, LogSolved
    <2>4. log_base2[k] \in Nat /\ Weight[log_base2[k]] = 2 * Weight[log_base2[h]]
      <3>1. log_base2[k] = log_base2[h] + 1
        BY <2>2, <2>3
      <3> QED
        BY <2>2, <3>1, WeightFacts
    <2>5. Weight[log_base2[h]] \in Nat
      BY <2>2, WeightFacts
    <2> QED
      BY <2>1, <2>2, <2>4, <2>5
  <1> QED
    BY <1>3, <1>4

-----------------------------------------------------------------------------
(* Division.                                                               *)

LEMMA DivMod ==
    ASSUME NEW x \in Nat, NEW r \in Nat \ {0}
    PROVE  /\ x \div r \in Nat /\ x % r \in 0 .. r - 1
           /\ x = r * (x \div r) + (x % r)
  <1>1. x \div r \in Nat /\ x % r \in 0 .. r - 1
    OBVIOUS
  <1>2. x = r * (x \div r) + (x % r)
    BY SMTT(60)
  <1> QED
    BY <1>1, <1>2

LEMMA DivModOf ==
    ASSUME NEW q \in Nat, NEW r \in Nat \ {0}, NEW s \in 0 .. r - 1
    PROVE  (r * q + s) \div r = q /\ (r * q + s) % r = s
    OBVIOUS

LEMMA DivLess ==
    ASSUME NEW x \in Nat, NEW r \in Nat \ {0}, NEW m \in Nat, x < r * m
    PROVE  x \div r < m
    OBVIOUS

\* The low m * n values of a number decide its low m values and those above.
LEMMA LowPart ==
    ASSUME NEW m \in Nat \ {0}, NEW n \in Nat \ {0}, NEW a \in Nat
    PROVE  /\ a % m = (a % (m * n)) % m
           /\ (a \div m) % n = (a % (m * n)) \div m
  <1> PICK w, q, s : w = m * n /\ q = a \div w /\ s = a % w
    OBVIOUS
  <1>1. w \in Nat \ {0}
    OBVIOUS
  <1>2. q \in Nat /\ s \in 0 .. w - 1 /\ a = w * q + s
    BY ONLY <1>1, a \in Nat, w = m * n, q = a \div w, s = a % w, DivMod
  <1> PICK x, y : x = s \div m /\ y = s % m
    OBVIOUS
  <1>3. s \in Nat /\ s < m * n
    BY <1>2
  <1>4. x \in Nat /\ y \in 0 .. m - 1 /\ s = m * x + y /\ x < n
    BY ONLY <1>3, m \in Nat \ {0}, n \in Nat \ {0}, x = s \div m, y = s % m,
            DivMod, DivLess
  <1>5. a = m * (n * q + x) + y
    <2>1. w * q = m * (n * q)
      BY ONLY <1>2, m \in Nat, n \in Nat, w = m * n
    <2>2. m * (n * q + x) = m * (n * q) + m * x
      BY <1>2, <1>4
    <2>3. m * (n * q) \in Nat /\ m * x \in Nat
      BY <1>2, <1>4
    <2> QED
      BY <1>2, <1>4, <2>1, <2>2, <2>3
  <1> PICK z : z = n * q + x
    OBVIOUS
  <1>6. z \in Nat /\ z % n = x
    <2>1. x \in 0 .. n - 1
      BY <1>4
    <2>2. (n * q + x) % n = x
      BY ONLY <1>2, <2>1, n \in Nat \ {0}, DivModOf
    <2> QED
      BY <1>2, <1>4, <2>2
  <1>7. a \div m = z /\ a % m = y
    <2>1. a = m * z + y
      BY <1>5
    <2>2. (m * z + y) \div m = z /\ (m * z + y) % m = y
      BY ONLY <1>4, <1>6, m \in Nat \ {0}, DivModOf
    <2> QED
      BY <2>1, <2>2
  <1> QED
    BY <1>6, <1>7

-----------------------------------------------------------------------------
(* Taking an address apart.                                                *)

\* The bits of the i-th field, and how many values they have.
Bits(i) == Width[Order[i]]

Values(i) == Weight[Bits(i)]

OffsetBits == log_base2[CACHE_LINE_SIZE]

LEMMA SizeFacts ==
    /\ \A f \in FieldNames : /\ Size[f] \in Nat \ {0} /\ Width[f] \in Nat
                             /\ Weight[Width[f]] \in Nat \ {0}
                             /\ Weight[Width[f]] <= Size[f]
    /\ CACHE_LINE_SIZE \in Nat \ {0} /\ OffsetBits \in Nat
    /\ CACHE_LINE_SIZE = Weight[OffsetBits]
  <1>1. \A f \in FieldNames : Size[f] \in Nat \ {0}
    BY SizeAssumption DEF Size, FieldNames
  <1>2. ASSUME NEW f \in FieldNames
        PROVE  /\ Width[f] \in Nat /\ Weight[Width[f]] \in Nat \ {0}
               /\ Weight[Width[f]] <= Size[f]
    <2>1. Width[f] = log_base2[Size[f]]
      BY DEF Width
    <2> QED
      BY <1>1, <2>1, LogFacts, WeightFacts
  <1>3. CACHE_LINE_SIZE \in Nat /\ CACHE_LINE_SIZE = Weight[OffsetBits]
    BY SizeAssumption DEF OffsetBits
  <1>4. CACHE_LINE_SIZE # 0
    <2>1. ASSUME CACHE_LINE_SIZE = 0 PROVE FALSE
      <3>1. log_base2[0] = 0
        BY LogSolved
      <3> QED
        BY <1>3, <2>1, <3>1, WeightFacts DEF OffsetBits
    <2> QED
      BY <2>1
  <1>5. OffsetBits \in Nat
    BY <1>3, <1>4, LogFacts DEF OffsetBits
  <1> QED
    BY <1>1, <1>2, <1>3, <1>4, <1>5

LEMMA OrderFacts ==
    /\ \A i \in 1 .. 5 : Order[i] \in FieldNames
    /\ \A f \in FieldNames : \E i \in 1 .. 5 : Order[i] = f
    /\ \A i, j \in 1 .. 5 : Order[i] = Order[j] => i = j
  <1>1. CASE ADDRESS_MAPPING = 1
    BY <1>1 DEF Order, FieldNames
  <1>2. CASE ADDRESS_MAPPING # 1
    BY <1>2 DEF Order, FieldNames
  <1> QED
    BY <1>1, <1>2

LEMMA BitsFacts ==
    /\ \A i \in 1 .. 5 : Bits(i) \in Nat /\ Values(i) \in Nat \ {0}
    /\ ADDRESS_BITS \in Nat
    /\ OffsetBits + (Bits(1) + (Bits(2) + (Bits(3) + (Bits(4) + (Bits(5) + 0)))))
           = ADDRESS_BITS
  <1>1. \A i \in 1 .. 5 : Bits(i) \in Nat /\ Values(i) \in Nat \ {0}
    BY SizeFacts, OrderFacts DEF Bits, Values
  <1>2. /\ OffsetBits \in Nat
        /\ Width["column"] \in Nat /\ Width["channel"] \in Nat
        /\ Width["bank"] \in Nat /\ Width["rank"] \in Nat /\ Width["row"] \in Nat
    BY SizeFacts DEF FieldNames
  <1>3. OffsetBits + Width["column"] + Width["channel"] + Width["bank"]
            + Width["rank"] + Width["row"] = ADDRESS_BITS
    BY MappingAssumption DEF OffsetBits
  <1>4. CASE ADDRESS_MAPPING = 1
    <2>1. /\ Bits(1) = Width["column"] /\ Bits(2) = Width["channel"]
          /\ Bits(3) = Width["bank"] /\ Bits(4) = Width["rank"]
          /\ Bits(5) = Width["row"]
      BY <1>4 DEF Bits, Order
    <2> QED
      BY <1>1, <1>2, <1>3, <2>1
  <1>5. CASE ADDRESS_MAPPING # 1
    <2>1. /\ Bits(1) = Width["channel"] /\ Bits(2) = Width["bank"]
          /\ Bits(3) = Width["rank"] /\ Bits(4) = Width["column"]
          /\ Bits(5) = Width["row"]
      BY <1>5 DEF Bits, Order
    <2> QED
      BY <1>1, <1>2, <1>3, <2>1
  <1> QED
    BY <1>4, <1>5

LEMMA RestExists ==
    ASSUME NEW a
    PROVE  Rest(a) = [i \in 0 .. 5 |-> IF i = 0 THEN a \div CACHE_LINE_SIZE
                                       ELSE Rest(a)[i - 1] \div Values(i)]
  <1> DEFINE first == a \div CACHE_LINE_SIZE
             Out(x, i) == x \div Values(i)
             Solves(f) == f = [i \in 0 .. 5 |-> IF i = 0 THEN first
                                                ELSE Out(f[i - 1], i)]
  <1>1. Rest(a) = CHOOSE f : Solves(f)
    BY SizeFacts, Zenon DEF Rest, Values, Bits, OffsetBits
  <1> HIDE DEF first, Out
  <1> DEFINE r1 == Out(first, 1)
             r2 == Out(r1, 2)
             r3 == Out(r2, 3)
             r4 == Out(r3, 4)
             r5 == Out(r4, 5)
             g == [i \in 0 .. 5 |->
                      IF i = 0 THEN first ELSE IF i = 1 THEN r1
                      ELSE IF i = 2 THEN r2 ELSE IF i = 3 THEN r3
                      ELSE IF i = 4 THEN r4 ELSE r5]
  <1>2. Solves(g)
    <2>1. /\ g[0] = first /\ g[1] = r1 /\ g[2] = r2 /\ g[3] = r3 /\ g[4] = r4
          /\ g[5] = r5 /\ g = [i \in 0 .. 5 |-> g[i]]
      OBVIOUS
    <2> HIDE DEF g
    <2>2. ASSUME NEW i \in 0 .. 5
          PROVE  g[i] = IF i = 0 THEN first ELSE Out(g[i - 1], i)
      <3>1. i = 0 \/ i = 1 \/ i = 2 \/ i = 3 \/ i = 4 \/ i = 5
        OBVIOUS
      <3> QED
        BY <2>1, <3>1
    <2> QED
      BY <2>1, <2>2
  <1> HIDE DEF g, Solves
  <1>3. Solves(Rest(a))
    BY <1>1, <1>2
  <1> QED
    BY <1>3 DEF Solves, first, Out

LEMMA RestSolved ==
    ASSUME NEW a \in Nat
    PROVE  /\ Rest(a)[0] = a \div CACHE_LINE_SIZE
           /\ \A i \in 1 .. 5 : Rest(a)[i] = Rest(a)[i - 1] \div Values(i)
           /\ \A i \in 0 .. 5 : Rest(a)[i] \in Nat
  <1> DEFINE f == Rest(a)
  <1>1. f = [i \in 0 .. 5 |-> IF i = 0 THEN a \div CACHE_LINE_SIZE
                              ELSE f[i - 1] \div Values(i)]
    BY RestExists
  <1> HIDE DEF f
  <1>2. f[0] = a \div CACHE_LINE_SIZE
    BY <1>1
  <1>3. ASSUME NEW i \in 1 .. 5 PROVE f[i] = f[i - 1] \div Values(i)
    <2>1. i \in 0 .. 5 /\ i # 0
      OBVIOUS
    <2> QED
      BY <1>1, <2>1
  <1>4. f[0] \in Nat
    <2>1. CACHE_LINE_SIZE \in Nat \ {0}
      BY SizeFacts
    <2>2. a \div CACHE_LINE_SIZE \in Nat
      BY ONLY <2>1, a \in Nat, DivMod
    <2> QED
      BY <1>2, <2>2
  <1>5. ASSUME NEW i \in 1 .. 5, f[i - 1] \in Nat PROVE f[i] \in Nat
    <2>1. Values(i) \in Nat \ {0}
      BY BitsFacts
    <2> HIDE DEF Values
    <2>2. f[i - 1] \div Values(i) \in Nat
      BY ONLY <2>1, <1>5, DivMod
    <2> QED
      BY <1>3, <2>2
  <1>6. f[1] \in Nat
    BY <1>4, <1>5
  <1>7. f[2] \in Nat
    BY <1>5, <1>6
  <1>8. f[3] \in Nat
    BY <1>5, <1>7
  <1>9. f[4] \in Nat
    BY <1>5, <1>8
  <1>10. f[5] \in Nat
    BY <1>5, <1>9
  <1>11. \A i \in 0 .. 5 : f[i] \in Nat
    <2>1. \A i \in 0 .. 5 : i = 0 \/ i = 1 \/ i = 2 \/ i = 3 \/ i = 4 \/ i = 5
      OBVIOUS
    <2> QED
      BY <1>4, <1>6, <1>7, <1>8, <1>9, <1>10, <2>1
  <1> QED
    BY <1>2, <1>3, <1>11 DEF f

LEMMA AddressFacts ==
    /\ Addresses \subseteq Nat
    /\ Weight[PHYSICAL_BITS] \in Nat /\ Weight[ADDRESS_BITS] \in Nat \ {0}
    /\ \A a \in Nat : a \in Addresses <=> a < Weight[PHYSICAL_BITS]
  <1>1. Weight[PHYSICAL_BITS] \in Nat /\ Weight[ADDRESS_BITS] \in Nat \ {0}
    BY BitsFacts, MappingAssumption, WeightFacts
  <1> QED
    BY <1>1 DEF Addresses

\* The i-th field.
LEMMA FieldFacts ==
    ASSUME NEW a \in Addresses, NEW i \in 1 .. 5
    PROVE  /\ DramAddress[a][Order[i]] = Rest(a)[i - 1] % Values(i)
           /\ DramAddress[a] \in [FieldNames -> Nat]
  <1> DEFINE at(f) == CHOOSE j \in 1 .. 5 : Order[j] = f
  <1>1. \A f \in FieldNames :
            DramAddress[a][f] = Rest(a)[at(f) - 1] % Weight[Width[f]]
    BY DEF DramAddress
  <1>2. Order[i] \in FieldNames /\ at(Order[i]) = i
    BY OrderFacts
  <1>3. DramAddress[a][Order[i]] = Rest(a)[i - 1] % Values(i)
    BY <1>1, <1>2 DEF Values, Bits
  <1>4. ASSUME NEW f \in FieldNames
        PROVE  DramAddress[a][f] \in Nat
    <2>1. at(f) \in 1 .. 5
      BY OrderFacts
    <2>2. Rest(a)[at(f) - 1] \in Nat
      <3>1. at(f) - 1 \in 0 .. 5
        BY <2>1
      <3> QED
        BY <3>1, RestSolved, AddressFacts
    <2>3. Weight[Width[f]] \in Nat \ {0}
      BY SizeFacts
    <2> PICK x, w : x = Rest(a)[at(f) - 1] /\ w = Weight[Width[f]]
      OBVIOUS
    <2>4. x % w \in Nat
      BY <2>2, <2>3
    <2> QED
      BY <1>1, <2>4
  <1>5. DramAddress[a] = [f \in FieldNames |-> DramAddress[a][f]]
    BY DEF DramAddress
  <1> QED
    BY <1>3, <1>4, <1>5

\* Every part of the place of an address exists.
LEMMA PartsExist ==
    ASSUME NEW a \in Addresses, NEW f \in FieldNames
    PROVE  DramAddress[a][f] \in 0 .. Size[f] - 1
  <1>1. PICK i \in 1 .. 5 : Order[i] = f
    BY OrderFacts
  <1> PICK x, w : x = Rest(a)[i - 1] /\ w = Values(i)
    OBVIOUS
  <1>2. DramAddress[a][f] = x % w
    BY <1>1, FieldFacts
  <1>3. x \in Nat
    <2>1. i - 1 \in 0 .. 5
      OBVIOUS
    <2> QED
      BY <2>1, AddressFacts, RestSolved
  <1>4. w \in Nat \ {0} /\ w <= Size[f] /\ Size[f] \in Nat
    BY <1>1, SizeFacts DEF Values, Bits
  <1>5. x % w \in 0 .. w - 1
    BY <1>3, <1>4
  <1> QED
    BY <1>2, <1>4, <1>5

\* The bits that the fields above the i-th hold together.
BitsAbove(i) ==
    CASE i = 0 -> Bits(1) + (Bits(2) + (Bits(3) + (Bits(4) + (Bits(5) + 0))))
      [] i = 1 -> Bits(2) + (Bits(3) + (Bits(4) + (Bits(5) + 0)))
      [] i = 2 -> Bits(3) + (Bits(4) + (Bits(5) + 0))
      [] i = 3 -> Bits(4) + (Bits(5) + 0)
      [] i = 4 -> Bits(5) + 0
      [] i = 5 -> 0

\* What those bits are.
Above(a, i) == Rest(a)[i] % Weight[BitsAbove(i)]

LEMMA AboveFacts ==
    /\ \A i \in 0 .. 5 : BitsAbove(i) \in Nat
    /\ \A i \in 1 .. 5 : BitsAbove(i - 1) = Bits(i) + BitsAbove(i)
    /\ BitsAbove(5) = 0
    /\ OffsetBits + BitsAbove(0) = ADDRESS_BITS
  <1> DEFINE n(i) == BitsAbove(i)
  <1>1. /\ Bits(1) \in Nat /\ Bits(2) \in Nat /\ Bits(3) \in Nat
        /\ Bits(4) \in Nat /\ Bits(5) \in Nat
    BY BitsFacts
  <1>2. /\ n(5) = 0 /\ n(4) = Bits(5) + n(5) /\ n(3) = Bits(4) + n(4)
        /\ n(2) = Bits(3) + n(3) /\ n(1) = Bits(2) + n(2)
        /\ n(0) = Bits(1) + n(1)
    BY DEF BitsAbove
  <1>3. OffsetBits + n(0) = ADDRESS_BITS
    BY BitsFacts DEF BitsAbove
  <1> HIDE DEF n
  <1>4. \A i \in 0 .. 5 : n(i) \in Nat
    <2>1. /\ n(5) \in Nat /\ n(4) \in Nat /\ n(3) \in Nat /\ n(2) \in Nat
          /\ n(1) \in Nat /\ n(0) \in Nat
      BY <1>1, <1>2
    <2>2. \A i \in 0 .. 5 : i = 0 \/ i = 1 \/ i = 2 \/ i = 3 \/ i = 4 \/ i = 5
      OBVIOUS
    <2> QED
      BY <2>1, <2>2
  <1>5. \A i \in 1 .. 5 : n(i - 1) = Bits(i) + n(i)
    <2>1. \A i \in 1 .. 5 : \/ i = 1 /\ i - 1 = 0
                            \/ i = 2 /\ i - 1 = 1
                            \/ i = 3 /\ i - 1 = 2
                            \/ i = 4 /\ i - 1 = 3
                            \/ i = 5 /\ i - 1 = 4
      OBVIOUS
    <2> QED
      BY <1>2, <2>1
  <1> QED
    BY <1>2, <1>3, <1>4, <1>5 DEF n

\* The bits above the (i-1)-th field are those of the i-th and those above it.
LEMMA FieldBack ==
    ASSUME NEW a \in Addresses, NEW b \in Addresses, NEW i \in 1 .. 5
    PROVE  Above(a, i - 1) = Above(b, i - 1)
           <=> /\ Above(a, i) = Above(b, i)
               /\ DramAddress[a][Order[i]] = DramAddress[b][Order[i]]
  <1> PICK x, y, m, n : /\ x = Rest(a)[i - 1] /\ y = Rest(b)[i - 1]
                        /\ m = Values(i) /\ n = Weight[BitsAbove(i)]
    OBVIOUS
  <1>1. x \in Nat /\ y \in Nat
    <2>1. i - 1 \in 0 .. 5
      OBVIOUS
    <2> QED
      BY <2>1, AddressFacts, RestSolved
  <1>2. m \in Nat \ {0} /\ n \in Nat \ {0}
    BY BitsFacts, AboveFacts, WeightFacts
  <1>3. /\ Above(a, i) = (x \div m) % n /\ Above(b, i) = (y \div m) % n
    BY AddressFacts, RestSolved DEF Above
  <1>4. /\ Above(a, i - 1) = x % (m * n) /\ Above(b, i - 1) = y % (m * n)
    <2>1. BitsAbove(i - 1) = Bits(i) + BitsAbove(i)
      BY AboveFacts
    <2>2. Bits(i) \in Nat /\ BitsAbove(i) \in Nat
      BY BitsFacts, AboveFacts
    <2>3. Weight[Bits(i) + BitsAbove(i)] = Weight[Bits(i)] * Weight[BitsAbove(i)]
      BY ONLY <2>2, WeightSum
    <2>4. Weight[BitsAbove(i - 1)] = m * n
      BY <2>1, <2>3 DEF Values
    <2> QED
      BY <2>4 DEF Above
  <1>5. /\ DramAddress[a][Order[i]] = x % m /\ DramAddress[b][Order[i]] = y % m
    BY FieldFacts
  <1>6. /\ x % m = (x % (m * n)) % m /\ (x \div m) % n = (x % (m * n)) \div m
        /\ y % m = (y % (m * n)) % m /\ (y \div m) % n = (y % (m * n)) \div m
    BY ONLY <1>1, <1>2, LowPart
  <1> PICK u, v : u = x % (m * n) /\ v = y % (m * n)
    OBVIOUS
  <1>7. u \in Nat /\ v \in Nat
    <2> PICK w : w = m * n
      OBVIOUS
    <2>1. w \in Nat \ {0}
      BY ONLY <1>2, w = m * n
    <2>2. x % w \in Nat /\ y % w \in Nat
      BY ONLY <1>1, <2>1
    <2> QED
      BY <2>2
  <1>8. u = m * (u \div m) + (u % m) /\ v = m * (v \div m) + (v % m)
    BY ONLY <1>2, <1>7, DivMod
  <1>9. u = v <=> (u \div m = v \div m /\ u % m = v % m)
    BY ONLY <1>8
  <1> HIDE DEF DramAddress, Above
  <1> QED
    BY <1>3, <1>4, <1>5, <1>6, <1>9

\* The line in the memory is what the fields hold.
LEMMA LineInMemory ==
    ASSUME NEW a \in Addresses
    PROVE  Line(InMemory(a)) = Above(a, 0)
  <1> PICK m, n : m = CACHE_LINE_SIZE /\ n = Weight[BitsAbove(0)]
    OBVIOUS
  <1>1. a \in Nat /\ m \in Nat \ {0} /\ n \in Nat \ {0}
    BY AddressFacts, SizeFacts, AboveFacts, WeightFacts
  <1>2. Weight[ADDRESS_BITS] = m * n
    <2>1. OffsetBits \in Nat /\ BitsAbove(0) \in Nat
      BY SizeFacts, AboveFacts
    <2>2. Weight[OffsetBits + BitsAbove(0)] = Weight[OffsetBits] * Weight[BitsAbove(0)]
      BY ONLY <2>1, WeightSum
    <2> QED
      BY <2>2, SizeFacts, AboveFacts
  <1>3. (a \div m) % n = (a % (m * n)) \div m
    BY ONLY <1>1, LowPart
  <1>4. Rest(a)[0] = a \div m
    BY <1>1, RestSolved
  <1> QED
    BY <1>2, <1>3, <1>4 DEF Line, InMemory, Above

\* A place in the DRAM holds one line of the memory, and it has one place.
LEMMA SamePlace ==
    ASSUME NEW a \in Addresses, NEW b \in Addresses
    PROVE  DramAddress[a] = DramAddress[b]
           <=> Line(InMemory(a)) = Line(InMemory(b))
  <1> DEFINE same(i) == Above(a, i) = Above(b, i)
             field(i) == DramAddress[a][Order[i]] = DramAddress[b][Order[i]]
  <1>1. \A i \in 1 .. 5 : same(i - 1) <=> same(i) /\ field(i)
    BY FieldBack
  <1>2. same(5)
    <2>1. Rest(a)[5] \in Nat /\ Rest(b)[5] \in Nat
      BY AddressFacts, RestSolved
    <2>2. Weight[BitsAbove(5)] = 1
      BY AboveFacts, WeightFacts
    <2> QED
      BY <2>1, <2>2 DEF Above
  <1>3. same(0) <=> Line(InMemory(a)) = Line(InMemory(b))
    BY LineInMemory
  <1>4. DramAddress[a] = DramAddress[b] <=> \A i \in 1 .. 5 : field(i)
    <2>1. (\A i \in 1 .. 5 : field(i)) =>
              \A f \in FieldNames : DramAddress[a][f] = DramAddress[b][f]
      BY OrderFacts
    <2> QED
      BY <2>1, FieldFacts
  <1> HIDE DEF same, field
  <1>5. /\ same(0) <=> same(1) /\ field(1)
        /\ same(1) <=> same(2) /\ field(2)
        /\ same(2) <=> same(3) /\ field(3)
        /\ same(3) <=> same(4) /\ field(4)
        /\ same(4) <=> same(5) /\ field(5)
    <2>1. 1 - 1 = 0 /\ 2 - 1 = 1 /\ 3 - 1 = 2 /\ 4 - 1 = 3 /\ 5 - 1 = 4
      OBVIOUS
    <2> QED
      BY <1>1, <2>1
  <1>6. (\A i \in 1 .. 5 : field(i))
            <=> field(1) /\ field(2) /\ field(3) /\ field(4) /\ field(5)
    <2>1. \A i \in 1 .. 5 : i = 1 \/ i = 2 \/ i = 3 \/ i = 4 \/ i = 5
      OBVIOUS
    <2> QED
      BY <2>1
  <1> QED
    BY <1>2, <1>3, <1>4, <1>5, <1>6

-----------------------------------------------------------------------------
(* The queues.                                                             *)

Request == [op : {"READ", "WRITE"}, address : Addresses, cpu : BOOLEAN,
            channel : 0 .. NUM_CHANNELS - 1]

\* A request is in a queue that a lookup of its address could have chosen.
QueueInv ==
    /\ pending \in Seq(Request)
    /\ \A i \in DOMAIN pending :
          pending[i].channel \in Channels(pending[i].address, pending[i].cpu)

LEMMA ChannelsExist ==
    ASSUME NEW a \in Addresses, NEW cpu \in BOOLEAN
    PROVE  Channels(a, cpu) \subseteq 0 .. NUM_CHANNELS - 1
  <1>1. /\ DramAddress[a].channel \in 0 .. NUM_CHANNELS - 1
        /\ NUM_CHANNELS \in Nat \ {0}
    <2>1. "channel" \in FieldNames /\ Size["channel"] = NUM_CHANNELS
      BY DEF FieldNames, Size
    <2> QED
      BY <2>1, PartsExist, SizeFacts
  <1>2. DEDICATED_CH => DEDICATED_CH_NUM \in 1 .. NUM_CHANNELS - 1
    BY MappingAssumption
  <1> HIDE DEF DramAddress
  <1> QED
    BY <1>1, <1>2 DEF Channels

LEMMA InsertKeeps ==
    ASSUME QueueInv, NEW op \in {"READ", "WRITE"}, NEW a \in Addresses,
           NEW cpu \in BOOLEAN, Insert(op, a, cpu)
    PROVE  QueueInv'
  <1>1. PICK channel \in Channels(a, cpu) :
            pending' = Append(pending, [op |-> op, address |-> a, cpu |-> cpu,
                                        channel |-> channel])
    BY DEF Insert
  <1> DEFINE q == [op |-> op, address |-> a, cpu |-> cpu, channel |-> channel]
  <1>2. q \in Request
    BY ChannelsExist DEF Request
  <1>3. q.channel \in Channels(q.address, q.cpu)
    BY <1>1
  <1> HIDE DEF q
  <1>4. /\ pending' \in Seq(Request)
        /\ \A i \in DOMAIN pending' : \/ i \in DOMAIN pending
                                         /\ pending'[i] = pending[i]
                                      \/ pending'[i] = q
    BY <1>1, <1>2 DEF QueueInv, q
  <1> QED
    BY <1>3, <1>4 DEF QueueInv

LEMMA ServedKeeps ==
    ASSUME QueueInv, NEW i \in DOMAIN pending, Served(i)
    PROVE  QueueInv'
  <1>1. pending' = SubSeq(pending, 1, i - 1) \o SubSeq(pending, i + 1, Len(pending))
    BY DEF Served, RemoveAt
  <1>2. pending \in Seq(Request) /\ i \in 1 .. Len(pending) /\ Len(pending) \in Nat
    BY DEF QueueInv
  <1>3. /\ pending' \in Seq(Request)
        /\ \A k \in DOMAIN pending' : \E j \in DOMAIN pending :
              pending'[k] = pending[j]
    <2> DEFINE s == SubSeq(pending, 1, i - 1)
               t == SubSeq(pending, i + 1, Len(pending))
    <2>1. /\ s \in Seq(Request) /\ Len(s) = i - 1
          /\ \A k \in 1 .. i - 1 : s[k] = pending[k]
      BY <1>2
    <2>2. /\ t \in Seq(Request) /\ Len(t) = Len(pending) - i
          /\ \A k \in 1 .. Len(pending) - i : t[k] = pending[i + k]
      BY <1>2
    <2> HIDE DEF s, t
    <2>3. s \o t \in Seq(Request) /\ Len(s \o t) = Len(pending) - 1
      BY <1>2, <2>1, <2>2
    <2>4. ASSUME NEW k \in 1 .. Len(pending) - 1
          PROVE  \E j \in 1 .. Len(pending) : (s \o t)[k] = pending[j]
      <3>1. CASE k <= i - 1
        BY <1>2, <2>1, <2>2, <3>1, SMTT(30)
      <3>2. CASE k > i - 1
        <4>1. /\ (s \o t)[k] = t[k - (i - 1)]
              /\ k - (i - 1) \in 1 .. Len(pending) - i
          BY <1>2, <2>1, <2>2, <3>2, SMTT(30)
        <4>2. i + (k - (i - 1)) \in 1 .. Len(pending)
          BY <1>2, <4>1
        <4> QED
          BY <2>2, <4>1, <4>2
      <3>3. k <= i - 1 \/ k > i - 1
        BY ONLY <1>2, k \in 1 .. Len(pending) - 1
      <3> QED
        BY <3>1, <3>2, <3>3
    <2>5. DOMAIN (s \o t) = 1 .. Len(pending) - 1 /\ DOMAIN pending = 1 .. Len(pending)
      BY <1>2, <2>3
    <2> QED
      BY <1>1, <2>3, <2>4, <2>5 DEF s, t
  <1> QED
    BY <1>3 DEF QueueInv

LEMMA QueueInvariant == PathSpec => []QueueInv
  <1>1. PathInit => QueueInv
    BY DEF PathInit, ChannelInit, QueueInv
  <1>2. QueueInv /\ [PathNext]_pathVars => QueueInv'
    <2> SUFFICES ASSUME QueueInv, [PathNext]_pathVars PROVE QueueInv'
      OBVIOUS
    <2>1. CASE pending' = pending
      BY <2>1 DEF QueueInv
    <2>2. ASSUME NEW a \in LineAddresses,
                 ReadAccess(a) \/ WriteAccess(a) \/ WriteBack(a)
          PROVE  QueueInv'
      <3>1. a \in Addresses
        BY DEF LineAddresses
      <3>2. \/ pending' = pending
            \/ Insert("READ", a, FALSE) \/ Insert("WRITE", a, FALSE)
        BY <2>2 DEF ReadAccess, WriteAccess, WriteBack
      <3> QED
        BY <2>1, <3>1, <3>2, InsertKeeps
    <2>3. ASSUME NEW a \in Addresses, Translation(a) PROVE QueueInv'
      BY <2>3, InsertKeeps DEF Translation
    <2>4. ASSUME NEW i \in DOMAIN pending, Served(i) PROVE QueueInv'
      BY <2>4, ServedKeeps
    <2> QED
      BY <2>1, <2>2, <2>3, <2>4 DEF PathNext, ChannelNext, pathVars
  <1> QED
    BY <1>1, <1>2, PTL DEF PathSpec

\* Without channels of their own, the requests for an address are in its
\* channel.
LEMMA PlaceOfRequest ==
    ASSUME ~DEDICATED_CH, QueueInv, NEW i \in DOMAIN pending
    PROVE  /\ pending[i] \in Request
           /\ pending[i].channel = DramAddress[pending[i].address].channel
           /\ Place(pending[i]) = DramAddress[pending[i].address]
  <1>1. pending[i] \in Request
    BY DEF QueueInv
  <1>2. pending[i].channel = DramAddress[pending[i].address].channel
    BY DEF QueueInv, Channels
  <1>3. DramAddress[pending[i].address] \in [FieldNames -> Nat]
    BY <1>1, FieldFacts DEF Request
  <1> HIDE DEF DramAddress
  <1> QED
    BY <1>1, <1>2, <1>3 DEF Place

\* A row hit and a bank conflict are found on the places of the requests:
\* without dedicated channels, with every mapping, every size of the memory and
\* addresses of any number of bits, two requests have the same place exactly
\* when they are for the same line of the memory, which is the same line when
\* the memory has all the physical addresses, and the rank, bank, row and
\* column they name exist.
THEOREM PlacesHoldLines ==
    ASSUME ~DEDICATED_CH
    PROVE  PathSpec => []PlacesAreLines
  <1>1. QueueInv => PlacesAreLines
    <2> SUFFICES ASSUME QueueInv, NEW i \in DOMAIN pending,
                        NEW j \in DOMAIN pending
                 PROVE  /\ Place(pending[i]) = Place(pending[j])
                             <=> Line(InMemory(pending[i].address))
                                     = Line(InMemory(pending[j].address))
                        /\ \A f \in FieldNames :
                              Place(pending[i])[f] \in 0 .. Size[f] - 1
      BY DEF PlacesAreLines
    <2>1. /\ pending[i].address \in Addresses /\ pending[j].address \in Addresses
          /\ Place(pending[i]) = DramAddress[pending[i].address]
          /\ Place(pending[j]) = DramAddress[pending[j].address]
      BY PlaceOfRequest DEF Request
    <2> HIDE DEF Place, DramAddress, Line, InMemory
    <2> QED
      BY <2>1, SamePlace, PartsExist
  <1> QED
    BY <1>1, QueueInvariant, PTL

\* With dedicated channels, the translations have those to themselves,
\* whatever is drawn for each request.
THEOREM TranslationsAreAlone ==
    ASSUME DEDICATED_CH
    PROVE  PathSpec => []TranslationsHaveTheirChannels
  <1>1. QueueInv => TranslationsHaveTheirChannels
    <2> SUFFICES ASSUME QueueInv, NEW i \in DOMAIN pending
                 PROVE  /\ pending[i].channel \in 0 .. NUM_CHANNELS - 1
                        /\ pending[i].cpu
                               <=> pending[i].channel < DEDICATED_CH_NUM
      BY DEF TranslationsHaveTheirChannels
    <2>1. pending[i] \in Request
      BY DEF QueueInv
    <2>2. pending[i].channel \in Channels(pending[i].address, pending[i].cpu)
      BY DEF QueueInv
    <2> PICK c, p, d : /\ c = pending[i].channel /\ p = pending[i].cpu
                       /\ d = DramAddress[pending[i].address].channel
      OBVIOUS
    <2>3. c \in 0 .. NUM_CHANNELS - 1 /\ p \in BOOLEAN
      BY <2>1 DEF Request
    <2>4. c \in IF p THEN 0 .. DEDICATED_CH_NUM - 1
                ELSE IF d < DEDICATED_CH_NUM
                THEN DEDICATED_CH_NUM .. NUM_CHANNELS - 1 ELSE {d}
      BY <2>2 DEF Channels
    <2>5. /\ DEDICATED_CH_NUM \in Int /\ NUM_CHANNELS \in Nat
      BY MappingAssumption, SizeAssumption
    <2>6. d \in Int
      <3>1. "channel" \in FieldNames
        BY DEF FieldNames
      <3> QED
        BY <2>1, <3>1, FieldFacts DEF Request
    <2>7. p <=> c < DEDICATED_CH_NUM
      <3>1. CASE p
        BY <2>3, <2>4, <2>5, <3>1
      <3>2. CASE ~p
        BY <2>3, <2>4, <2>5, <2>6, <3>2
      <3> QED
        BY <3>1, <3>2
    <2> QED
      BY <2>3, <2>7
  <1> QED
    BY <1>1, QueueInvariant, PTL

-----------------------------------------------------------------------------
(* The randomizer.                                                         *)

\* Every entry is in the table.
Complete(table) ==
    /\ table \in [Entries -> Entries]
    /\ \A e \in Entries : \E k \in Entries : table[k] = e

TablesInv ==
    /\ DOMAIN rand_table = 0 .. numcores - 1
    /\ rand_table = [j \in 0 .. numcores - 1 |-> rand_table[j]]
    /\ \A j \in 0 .. numcores - 1 : Complete(rand_table[j])
    /\ jj \in Nat
    /\ kk \in Entries

LEMMA EntryFacts ==
    /\ numcores \in Nat \ {0} /\ MAX_TABLE_LEN \in Nat \ {0}
    /\ Entries = 0 .. MAX_TABLE_LEN - 1
  BY RandomizerAssumption DEF Entries

LEMMA SwappedKeeps ==
    ASSUME NEW table, Complete(table), NEW k \in Entries, NEW v \in Entries
    PROVE  Complete(Swapped(table, k, v))
  <1> DEFINE swapped == Swapped(table, k, v)
  <1>1. swapped \in [Entries -> Entries]
    BY DEF Swapped, Complete
  <1>2. /\ swapped[v] = table[k]
        /\ v # k => swapped[k] = table[v]
        /\ \A i \in Entries \ {k, v} : swapped[i] = table[i]
    BY DEF Swapped, Complete
  <1>3. ASSUME NEW e \in Entries PROVE \E i \in Entries : swapped[i] = e
    <2>1. PICK i \in Entries : table[i] = e
      BY DEF Complete
    <2> HIDE DEF swapped
    <2>2. CASE i = k
      BY <1>2, <2>1, <2>2
    <2>3. CASE i = v /\ i # k
      BY <1>2, <2>1, <2>3
    <2>4. CASE i \notin {k, v}
      BY <1>2, <2>1, <2>4
    <2> QED
      BY <2>2, <2>3, <2>4
  <1> QED
    BY <1>1, <1>3 DEF Complete

LEMMA TablesInvariant == PathSpec => []TablesInv
  <1>1. PathInit => TablesInv
    <2> SUFFICES ASSUME PathInit PROVE TablesInv
      OBVIOUS
    <2>1. /\ rand_table = [j \in 0 .. numcores - 1 |-> [k \in Entries |-> k]]
          /\ jj = 0 /\ kk = 0
      BY DEF PathInit, RandomizerInit
    <2>2. 0 \in Entries
      BY EntryFacts
    <2>3. Complete([k \in Entries |-> k])
      BY DEF Complete
    <2> QED
      BY <2>1, <2>2, <2>3 DEF TablesInv
  <1>2. TablesInv /\ [PathNext]_pathVars => TablesInv'
    <2> SUFFICES ASSUME TablesInv, [PathNext]_pathVars PROVE TablesInv'
      OBVIOUS
    <2>1. CASE UNCHANGED randomizerVars
      BY <2>1 DEF randomizerVars, TablesInv
    <2>2. CASE Swap
      <3>1. PICK v \in Entries :
                rand_table' = [rand_table EXCEPT
                                  ![jj] = Swapped(rand_table[jj], kk, v)]
        BY <2>2 DEF Swap
      <3>2. jj \in 0 .. numcores - 1 /\ kk \in Entries
        BY <2>2, EntryFacts DEF Swap, TablesInv
      <3>3. Complete(Swapped(rand_table[jj], kk, v))
        BY <3>2, SwappedKeeps DEF TablesInv
      <3>4. /\ rand_table' = [j \in 0 .. numcores - 1 |-> rand_table'[j]]
            /\ DOMAIN rand_table' = 0 .. numcores - 1
            /\ rand_table'[jj] = Swapped(rand_table[jj], kk, v)
            /\ \A j \in (0 .. numcores - 1) \ {jj} : rand_table'[j] = rand_table[j]
        BY <3>1, <3>2 DEF TablesInv
      <3>7. \A j \in 0 .. numcores - 1 : Complete(rand_table'[j])
        BY <3>3, <3>4 DEF TablesInv
      <3>8. jj' \in Nat /\ kk' \in Entries
        <4>1. kk' = (kk + 1) % MAX_TABLE_LEN /\ (jj' = jj + 1 \/ jj' = jj)
          BY <2>2 DEF Swap
        <4>2. (kk + 1) % MAX_TABLE_LEN \in 0 .. MAX_TABLE_LEN - 1
          <5>1. kk + 1 \in Nat
            BY <3>2, EntryFacts
          <5> QED
            BY ONLY <5>1, EntryFacts, DivMod
        <4>3. jj \in Nat
          BY DEF TablesInv
        <4> QED
          BY <4>1, <4>2, <4>3, EntryFacts
      <3> QED
        BY <3>4, <3>7, <3>8 DEF TablesInv
    <2> QED
      BY <2>1, <2>2 DEF PathNext, pathVars
  <1> QED
    BY <1>1, <1>2, PTL DEF PathSpec

LEMMA Joined ==
    ASSUME NEW q \in Nat, NEW m \in Nat, q < m, NEW r \in Nat \ {0},
           NEW s \in 0 .. r - 1
    PROVE  r * q + s \in Nat /\ r * q + s < r * m
  <1>1. q + 1 <= m
    OBVIOUS
  <1>2. r * (q + 1) <= r * m
    BY <1>1
  <1>3. r * (q + 1) = r * q + r
    OBVIOUS
  <1>4. r * q \in Nat /\ r * m \in Nat
    OBVIOUS
  <1> QED
    BY <1>2, <1>3, <1>4

\* a with k for what the table replaces.
Replaced(a, k) ==
    (((a \div Weight[LowBits]) \div MAX_TABLE_LEN) * MAX_TABLE_LEN + k)
        * Weight[LowBits] + (a % Weight[LowBits])

Entry(a) == (a \div Weight[LowBits]) % MAX_TABLE_LEN

LEMMA LowFacts ==
    /\ LowBits \in Nat /\ Weight[LowBits] \in Nat \ {0}
    /\ \E r \in Nat :
          Weight[PHYSICAL_BITS] = Weight[LowBits] * (MAX_TABLE_LEN * r)
  <1>1. LowBits \in Nat
    <2>1. {"channel", "column"} \subseteq FieldNames
      BY DEF FieldNames
    <2> QED
      BY <2>1, SizeFacts DEF LowBits, OffsetBits
  <1> PICK t, u : t = log_base2[MAX_TABLE_LEN] /\ u = PHYSICAL_BITS - (LowBits + t)
    OBVIOUS
  <1>2. t \in Nat /\ MAX_TABLE_LEN = Weight[t]
    BY EntryFacts, LogFacts, RandomizerAssumption
  <1>3. u \in Nat /\ PHYSICAL_BITS = LowBits + (t + u) /\ t + u \in Nat
    <2>1. LowBits + t <= PHYSICAL_BITS /\ PHYSICAL_BITS \in Nat
      BY RandomizerAssumption, MappingAssumption
    <2> QED
      BY <1>1, <1>2, <2>1
  <1>4. Weight[LowBits + (t + u)] = Weight[LowBits] * Weight[t + u]
    BY ONLY <1>1, <1>3, WeightSum
  <1>5. Weight[t + u] = Weight[t] * Weight[u]
    BY ONLY <1>2, <1>3, WeightSum
  <1>6. Weight[u] \in Nat /\ Weight[LowBits] \in Nat \ {0}
    BY <1>1, <1>3, WeightFacts
  <1>7. Weight[PHYSICAL_BITS] = Weight[LowBits] * (MAX_TABLE_LEN * Weight[u])
    BY <1>2, <1>3, <1>4, <1>5
  <1> QED
    BY <1>1, <1>6, <1>7

LEMMA ReplacedFacts ==
    ASSUME NEW a \in Addresses, NEW k \in Entries
    PROVE  /\ Replaced(a, k) \in Addresses
           /\ Replaced(a, k) % Weight[LowBits] = a % Weight[LowBits]
           /\ Entry(Replaced(a, k)) = k
           /\ Replaced(Replaced(a, k), Entry(a)) = a
           /\ Entry(a) \in Entries
  <1> PICK low, len, top : /\ low = Weight[LowBits] /\ len = MAX_TABLE_LEN
                           /\ top = Weight[PHYSICAL_BITS]
    OBVIOUS
  <1>1. low \in Nat \ {0} /\ len \in Nat \ {0} /\ k \in 0 .. len - 1
    BY LowFacts, EntryFacts
  <1>2. a \in Nat /\ a < top /\ top \in Nat
    <2>1. Weight[PHYSICAL_BITS] \in Nat
      BY AddressFacts
    <2> QED
      BY <2>1 DEF Addresses
  <1>3. PICK r \in Nat : top = low * (len * r)
    BY LowFacts
  <1> PICK above, below, high, entry :
          /\ above = a \div low /\ below = a % low
          /\ high = above \div len /\ entry = above % len
    OBVIOUS
  <1>4. /\ above \in Nat /\ below \in 0 .. low - 1
        /\ a = low * above + below
    BY ONLY <1>1, <1>2, above = a \div low, below = a % low, DivMod
  <1>5. len * r \in Nat
    BY <1>1
  <1>6. above < len * r
    <2> PICK m : m = len * r
      OBVIOUS
    <2>1. a < low * m /\ m \in Nat
      BY <1>2, <1>3, <1>5
    <2>2. a \div low < m
      BY ONLY <1>1, <1>2, <2>1, DivLess
    <2> QED
      BY <2>2
  <1>7. /\ high \in Nat /\ entry \in 0 .. len - 1 /\ above = len * high + entry
        /\ high < r
    BY ONLY <1>1, <1>4, <1>6, r \in Nat, high = above \div len,
            entry = above % len, DivMod, DivLess
  <1> PICK n, b : n = len * high + k /\ b = low * n + below
    OBVIOUS
  <1>8. n \in Nat /\ n < len * r
    BY ONLY <1>1, <1>7, r \in Nat, n = len * high + k, Joined
  <1>9. b \in Nat /\ b < top
    <2> PICK m : m = len * r
      OBVIOUS
    <2>1. m \in Nat /\ n < m /\ top = low * m
      BY <1>3, <1>5, <1>8
    <2>2. low * n + below \in Nat /\ low * n + below < low * m
      BY ONLY <1>1, <1>4, <1>8, <2>1, Joined
    <2> QED
      BY <2>1, <2>2
  <1>10. b \div low = n /\ b % low = below
    BY ONLY <1>1, <1>4, <1>8, b = low * n + below, DivModOf
  <1>11. n \div len = high /\ n % len = k
    BY ONLY <1>1, <1>7, n = len * high + k, DivModOf
  <1>12. Replaced(a, k) = b
    <2>1. Replaced(a, k) = (high * len + k) * low + below
      BY DEF Replaced
    <2>2. high * len = len * high
      BY <1>1, <1>7
    <2>3. n * low = low * n
      BY ONLY <1>1, <1>8
    <2> QED
      BY <2>1, <2>2, <2>3
  <1>13. Replaced(b, entry) = a
    <2>1. Replaced(b, entry) = (high * len + entry) * low + below
      BY <1>10, <1>11 DEF Replaced
    <2>2. high * len + entry = above
      <3>1. high * len = len * high
        BY <1>1, <1>7
      <3> QED
        BY <1>7, <3>1
    <2>3. above * low = low * above
      BY <1>1, <1>4
    <2> QED
      BY <1>4, <2>1, <2>2, <2>3
  <1>14. b \in Addresses
    BY <1>2, <1>9 DEF Addresses
  <1>15. Entry(a) = entry /\ Entry(b) = k /\ entry \in Entries
    BY <1>7, <1>10, <1>11, EntryFacts DEF Entry
  <1> QED
    BY <1>10, <1>12, <1>13, <1>14, <1>15

\* The low bits decide the channel, and with mapping 1 the column.
LEMMA KeptFields ==
    ASSUME NEW a \in Addresses, NEW b \in Addresses,
           a % Weight[LowBits] = b % Weight[LowBits]
    PROVE  /\ DramAddress[a].channel = DramAddress[b].channel
           /\ ADDRESS_MAPPING = 1
              => DramAddress[a].column = DramAddress[b].column
  <1> PICK line, x, y : /\ line = CACHE_LINE_SIZE
                        /\ x = a \div line /\ y = b \div line
    OBVIOUS
  <1>1. /\ line \in Nat \ {0} /\ line = Weight[OffsetBits]
        /\ OffsetBits \in Nat /\ a \in Nat /\ b \in Nat
    BY SizeFacts, AddressFacts
  <1>2. x \in Nat /\ y \in Nat
    BY ONLY <1>1, x = a \div line, y = b \div line, DivMod
  <1>3. Rest(a)[0] = x /\ Rest(b)[0] = y
    BY <1>1, RestSolved
  <1>4. \A i \in 1 .. 5 : /\ DramAddress[a][Order[i]] = Rest(a)[i - 1] % Values(i)
                          /\ DramAddress[b][Order[i]] = Rest(b)[i - 1] % Values(i)
    BY FieldFacts
  <1>5. CASE ADDRESS_MAPPING # 1
    <2> PICK n : n = Values(1)
      OBVIOUS
    <2>1. Order[1] = "channel"
      BY <1>5 DEF Order
    <2>2. n \in Nat \ {0} /\ Bits(1) \in Nat
      BY BitsFacts
    <2>3. Weight[LowBits] = line * n
      <3>1. LowBits = OffsetBits + Bits(1)
        <4>1. LowBits = OffsetBits + Width["channel"] + 0
          BY <1>5 DEF LowBits, OffsetBits
        <4>2. Bits(1) = Width["channel"]
          BY <2>1 DEF Bits
        <4> QED
          BY <1>1, <2>2, <4>1, <4>2
      <3>2. Weight[OffsetBits + Bits(1)] = Weight[OffsetBits] * Weight[Bits(1)]
        BY ONLY <1>1, <2>2, WeightSum
      <3> QED
        BY <1>1, <3>1, <3>2 DEF Values
    <2>4. DramAddress[a].channel = x % n /\ DramAddress[b].channel = y % n
      <3>1. /\ DramAddress[a][Order[1]] = Rest(a)[1 - 1] % Values(1)
            /\ DramAddress[b][Order[1]] = Rest(b)[1 - 1] % Values(1)
        BY <1>4
      <3>2. 1 - 1 = 0
        OBVIOUS
      <3> HIDE DEF DramAddress
      <3> QED
        BY <1>3, <2>1, <3>1, <3>2
    <2>5. /\ (a \div line) % n = (a % (line * n)) \div line
          /\ (b \div line) % n = (b % (line * n)) \div line
      BY ONLY <1>1, <2>2, LowPart
    <2>6. x % n = y % n
      BY <2>3, <2>5
    <2> QED
      BY <1>5, <2>4, <2>6
  <1>6. CASE ADDRESS_MAPPING = 1
    <2> PICK m, n : m = Values(1) /\ n = Values(2)
      OBVIOUS
    <2>1. Order[1] = "column" /\ Order[2] = "channel"
      BY <1>6 DEF Order
    <2>2. /\ m \in Nat \ {0} /\ n \in Nat \ {0}
          /\ Bits(1) \in Nat /\ Bits(2) \in Nat
      BY BitsFacts
    <2>3. Weight[LowBits] = line * (m * n)
      <3>1. LowBits = OffsetBits + (Bits(1) + Bits(2))
        <4>1. LowBits = OffsetBits + Width["channel"] + Width["column"]
          BY <1>6 DEF LowBits, OffsetBits
        <4>2. Bits(1) = Width["column"] /\ Bits(2) = Width["channel"]
          BY <2>1 DEF Bits
        <4> QED
          BY <1>1, <2>2, <4>1, <4>2
      <3>2. Bits(1) + Bits(2) \in Nat
        BY <2>2
      <3>3. Weight[OffsetBits + (Bits(1) + Bits(2))]
                = Weight[OffsetBits] * Weight[Bits(1) + Bits(2)]
        BY ONLY <1>1, <3>2, WeightSum
      <3>4. Weight[Bits(1) + Bits(2)] = Weight[Bits(1)] * Weight[Bits(2)]
        BY ONLY <2>2, WeightSum
      <3> QED
        BY <1>1, <3>1, <3>3, <3>4 DEF Values
    <2>4. /\ DramAddress[a].column = x % m /\ DramAddress[b].column = y % m
          /\ DramAddress[a].channel = (x \div m) % n
          /\ DramAddress[b].channel = (y \div m) % n
      <3>1. /\ DramAddress[a][Order[1]] = Rest(a)[1 - 1] % Values(1)
            /\ DramAddress[b][Order[1]] = Rest(b)[1 - 1] % Values(1)
            /\ DramAddress[a][Order[2]] = Rest(a)[2 - 1] % Values(2)
            /\ DramAddress[b][Order[2]] = Rest(b)[2 - 1] % Values(2)
        BY <1>4
      <3>2. 1 - 1 = 0 /\ 2 - 1 = 1
        OBVIOUS
      <3>3. Rest(a)[1] = x \div m /\ Rest(b)[1] = y \div m
        <4>1. /\ Rest(a)[1] = Rest(a)[1 - 1] \div Values(1)
              /\ Rest(b)[1] = Rest(b)[1 - 1] \div Values(1)
          BY <1>1, RestSolved
        <4> QED
          BY <1>3, <3>2, <4>1
      <3> HIDE DEF DramAddress
      <3> QED
        BY <1>3, <2>1, <3>1, <3>2, <3>3
    <2> PICK w : w = m * n
      OBVIOUS
    <2>5. w \in Nat \ {0}
      BY ONLY <2>2, w = m * n
    <2>6. /\ (a \div line) % w = (a % (line * w)) \div line
          /\ (b \div line) % w = (b % (line * w)) \div line
      BY ONLY <1>1, <2>5, LowPart
    <2>7. x % w = y % w
      BY <2>3, <2>6
    <2>8. /\ x % m = (x % (m * n)) % m /\ (x \div m) % n = (x % (m * n)) \div m
          /\ y % m = (y % (m * n)) % m /\ (y \div m) % n = (y % (m * n)) \div m
      BY ONLY <1>2, <2>2, LowPart
    <2>9. x % m = y % m /\ (x \div m) % n = (y \div m) % n
      BY <2>7, <2>8
    <2> QED
      BY <2>4, <2>9
  <1> QED
    BY <1>5, <1>6

\* The addresses a core uses stay apart when they are randomized: with tables
\* of any length that is a power of two and any shuffle, the randomized
\* addresses are all the addresses, and each keeps its channel (and with
\* mapping 1 its column).
THEOREM RandomizerKeepsAddressesApart ==
    PathSpec => []RandomizedAddressesStayApart
  <1>1. TablesInv => RandomizedAddressesStayApart
    <2> SUFFICES ASSUME TablesInv, NEW j \in 0 .. numcores - 1
                 PROVE  /\ {Randomized(a, j) : a \in Addresses} = Addresses
                        /\ \A a \in Addresses :
                              /\ DramAddress[a].channel
                                     = DramAddress[Randomized(a, j)].channel
                              /\ ADDRESS_MAPPING = 1 =>
                                    DramAddress[a].column
                                        = DramAddress[Randomized(a, j)].column
      BY DEF RandomizedAddressesStayApart
    <2> PICK table : table = rand_table[j]
      OBVIOUS
    <2>1. /\ table \in [Entries -> Entries]
          /\ \A e \in Entries : \E k \in Entries : table[k] = e
      BY DEF TablesInv, Complete
    <2>2. ASSUME NEW a \in Addresses
          PROVE  /\ Randomized(a, j) = Replaced(a, table[Entry(a)])
                 /\ table[Entry(a)] \in Entries
      <3>1. Randomized(a, j) = Replaced(a, table[Entry(a)])
        BY DEF Randomized, Replaced, Entry
      <3>2. \E k \in Entries : k \in Entries
        BY EntryFacts
      <3>3. Entry(a) \in Entries
        BY <3>2, ReplacedFacts
      <3> QED
        BY <2>1, <3>1, <3>3
    <2> HIDE DEF Randomized
    <2>3. ASSUME NEW a \in Addresses
          PROVE  /\ Randomized(a, j) \in Addresses
                 /\ DramAddress[a].channel = DramAddress[Randomized(a, j)].channel
                 /\ ADDRESS_MAPPING = 1 =>
                       DramAddress[a].column
                           = DramAddress[Randomized(a, j)].column
      <3>1. /\ Replaced(a, table[Entry(a)]) \in Addresses
            /\ Replaced(a, table[Entry(a)]) % Weight[LowBits]
                   = a % Weight[LowBits]
        BY <2>2, ReplacedFacts
      <3> PICK b : b = Replaced(a, table[Entry(a)])
        OBVIOUS
      <3> HIDE DEF DramAddress
      <3>2. /\ DramAddress[a].channel = DramAddress[b].channel
            /\ ADDRESS_MAPPING = 1
               => DramAddress[a].column = DramAddress[b].column
        BY <3>1, KeptFields
      <3> QED
        BY <2>2, <3>1, <3>2
    <2>4. ASSUME NEW b \in Addresses
          PROVE  \E a \in Addresses : Randomized(a, j) = b
      <3>1. Entry(b) \in Entries
        <4>1. \E k \in Entries : k \in Entries
          BY EntryFacts
        <4> QED
          BY <4>1, ReplacedFacts
      <3>2. PICK k \in Entries : table[k] = Entry(b)
        BY <2>1, <3>1
      <3>3. /\ Replaced(b, k) \in Addresses /\ Entry(Replaced(b, k)) = k
            /\ Replaced(Replaced(b, k), Entry(b)) = b
        BY ReplacedFacts
      <3>4. Randomized(Replaced(b, k), j) = b
        BY <2>2, <3>2, <3>3
      <3> QED
        BY <3>3, <3>4
    <2> HIDE DEF DramAddress
    <2> QED
      BY <2>3, <2>4
  <1> QED
    BY <1>1, TablesInvariant, PTL
=============================================================================
