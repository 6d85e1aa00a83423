--------------------------- MODULE HashTableProofs ---------------------------
(***************************************************************************)
(* Theorems about HashTable, for every number of buckets and blocks and    *)
(* every set of keys: chains and free list own each block once, keys are   *)
(* in their buckets, and the table is a Dictionary.                        *)
(***************************************************************************)
EXTENDS HashTable, WellFoundedInduction, FiniteSetTheorems,
        SequenceTheorems, TLAPS

-----------------------------------------------------------------------------
(* Induction over the numbers, by the least counterexample.                *)

LEMMA Least ==
    ASSUME NEW T \in SUBSET Nat, T # {}
    PROVE  \E n \in T : \A m \in T : n <= m
  <1> DEFINE R == {ss \in Nat \X Nat : ss[1] < ss[2]}
  <1>1. IsWellFoundedOn(R, Nat)
    BY NatLessThanWellFounded DEF OpToRel
  <1>2. PICK n \in T : \A m \in T : ~ (<<m, n>> \in R)
    BY <1>1, WFMin
  <1>3. ASSUME NEW m \in T PROVE n <= m
    <2>1. <<m, n>> \in Nat \X Nat /\ <<m, n>> \notin R
      BY <1>2
    <2>2. ~(<<m, n>>[1] < <<m, n>>[2])
      BY <2>1
    <2>3. ~(m < n) /\ m \in Nat /\ n \in Nat
      BY <2>2
    <2> QED
      BY <2>3
  <1> QED
    BY <1>3

LEMMA Induction ==
    ASSUME NEW T, 0 \in T, \A n \in Nat : n \in T => n + 1 \in T
    PROVE  Nat \subseteq T
  <1> SUFFICES ASSUME Nat \ T # {} PROVE FALSE
    OBVIOUS
  <1>1. PICK n \in Nat \ T : \A m \in Nat \ T : n <= m
    BY Least
  <1>2. n - 1 \in Nat \ T
    BY <1>1
  <1> QED
    BY <1>1, <1>2

-----------------------------------------------------------------------------
(* What Links computes.                                                    *)

Cells == Blocks \cup {NULL}

Followed(bl, g, at) ==
    IF at[1] = NULL \/ at[2] = 0 THEN <<>>
    ELSE <<at[1]>> \o g[<<bl[at[1]].next, at[2] - 1>>]

\* The recursive definition of Links has a solution.
LEMMA LinksExist ==
    ASSUME NEW bl \in [Blocks -> [key : Nat, next : Cells]], NEW m \in Nat
    PROVE  \E g : g = [at \in Cells \X (0 .. m) |-> Followed(bl, g, at)]
  <1> DEFINE Solves(g, k) ==
                 g = [at \in Cells \X (0 .. k) |-> Followed(bl, g, at)]
             T == {k \in Nat : \E g : Solves(g, k)}
  <1>1. 0 \in T
    <2> DEFINE g == [at \in Cells \X (0 .. 0) |-> <<>>]
    <2>1. ASSUME NEW at \in Cells \X (0 .. 0)
          PROVE  Followed(bl, g, at) = <<>>
      <3>1. at[2] = 0
        OBVIOUS
      <3> QED
        BY <3>1 DEF Followed
    <2>2. Solves(g, 0)
      BY <2>1
    <2> QED
      BY <2>2
  <1>2. ASSUME NEW k \in Nat, k \in T PROVE k + 1 \in T
    <2>1. PICK g : Solves(g, k)
      BY <1>2
    <2> DEFINE h == [at \in Cells \X (0 .. k + 1) |-> Followed(bl, g, at)]
    <2>2. ASSUME NEW at \in Cells \X (0 .. k)
          PROVE  h[at] = g[at]
      <3>1. at \in Cells \X (0 .. k + 1)
        OBVIOUS
      <3>2. h[at] = Followed(bl, g, at)
        BY <3>1
      <3> QED
        BY <2>1, <3>2
    <2>3. ASSUME NEW at \in Cells \X (0 .. k + 1)
          PROVE  Followed(bl, h, at) = Followed(bl, g, at)
      <3>1. CASE at[1] = NULL \/ at[2] = 0
        BY <3>1 DEF Followed
      <3>2. CASE ~(at[1] = NULL \/ at[2] = 0)
        <4>1. bl[at[1]].next \in Cells /\ at[2] - 1 \in 0 .. k
          BY <3>2 DEF Cells
        <4>2. <<bl[at[1]].next, at[2] - 1>> \in Cells \X (0 .. k)
          BY <4>1
        <4>3. h[<<bl[at[1]].next, at[2] - 1>>] = g[<<bl[at[1]].next, at[2] - 1>>]
          BY <4>2, <2>2
        <4> QED
          BY <4>3 DEF Followed
      <3> QED
        BY <3>1, <3>2
    <2>4. Solves(h, k + 1)
      BY <2>3
    <2> HIDE DEF h
    <2> QED
      BY <2>4
  <1>3. m \in T
    <2> HIDE DEF T
    <2> QED
      BY <1>1, <1>2, Induction
  <1> QED
    BY <1>3

\* The solution the definition takes.
LEMMA LinksSolved ==
    ASSUME NEW bl \in [Blocks -> [key : Nat, next : Cells]]
    PROVE  \E from :
              /\ from = [at \in Cells \X (0 .. MAX_BLOCKS + 1) |->
                            Followed(bl, from, at)]
              /\ \A first : Links(bl, first) = from[<<first, MAX_BLOCKS + 1>>]
  <1> DEFINE from == CHOOSE g : g = [at \in Cells \X (0 .. MAX_BLOCKS + 1) |->
                                        Followed(bl, g, at)]
  <1>1. MAX_BLOCKS + 1 \in Nat
    BY HashAssumption
  <1>2. from = [at \in Cells \X (0 .. MAX_BLOCKS + 1) |-> Followed(bl, from, at)]
    BY <1>1, LinksExist
  <1>3. ASSUME NEW first
        PROVE  Links(bl, first) = from[<<first, MAX_BLOCKS + 1>>]
    BY DEF Links, Followed, Cells
  <1> HIDE DEF from
  <1> QED
    BY <1>2, <1>3

\* The k-th block of a sequence, and what the link behind the last one holds.
Nth(s, k) == IF k <= Len(s) THEN s[k] ELSE NULL

\* The links from first on go through the blocks of s and end there.
Walk(bl, first, s) ==
    /\ s \in Seq(Blocks)
    /\ Len(s) <= MAX_BLOCKS
    /\ first = Nth(s, 1)
    /\ \A k \in 1 .. Len(s) : bl[s[k]].next = Nth(s, k + 1)

Suffix(s, k) == SubSeq(s, k, Len(s))

LEMMA SuffixCases ==
    ASSUME NEW s \in Seq(Blocks)
    PROVE  /\ Suffix(s, Len(s) + 1) = <<>>
           /\ Suffix(s, 1) = s
           /\ \A k \in 1 .. Len(s) : Suffix(s, k) = <<s[k]>> \o Suffix(s, k + 1)
  <1>1. Suffix(s, Len(s) + 1) = <<>> /\ Suffix(s, 1) = s
    BY DEF Suffix
  <1>2. ASSUME NEW k \in 1 .. Len(s)
        PROVE  Suffix(s, k) = <<s[k]>> \o Suffix(s, k + 1)
    BY DEF Suffix
  <1> QED
    BY <1>1, <1>2

\* Links follows a walk, whatever else the blocks hold.
LEMMA LinksOfWalk ==
    ASSUME NEW bl \in [Blocks -> [key : Nat, next : Cells]],
           NEW first \in Cells, NEW s, Walk(bl, first, s)
    PROVE  Links(bl, first) = s
  <1>1. PICK from :
            /\ from = [at \in Cells \X (0 .. MAX_BLOCKS + 1) |->
                          Followed(bl, from, at)]
            /\ \A b : Links(bl, b) = from[<<b, MAX_BLOCKS + 1>>]
    BY LinksSolved
  <1>2. s \in Seq(Blocks) /\ Len(s) \in Nat /\ Len(s) <= MAX_BLOCKS
    BY DEF Walk
  <1>3. MAX_BLOCKS \in Nat /\ NULL \notin Blocks
    BY HashAssumption DEF Blocks
  <1> DEFINE T == {j \in Nat : \A m \in 0 .. MAX_BLOCKS + 1, k \in 1 .. Len(s) + 1 :
                      k + j = Len(s) + 1 /\ m > j =>
                          from[<<Nth(s, k), m>>] = Suffix(s, k)}
  <1>4. ASSUME NEW m \in 0 .. MAX_BLOCKS + 1, NEW b \in Cells
        PROVE  /\ b = NULL => from[<<b, m>>] = <<>>
               /\ b # NULL /\ m > 0 =>
                      from[<<b, m>>] = <<b>> \o from[<<bl[b].next, m - 1>>]
    <2>1. <<b, m>> \in Cells \X (0 .. MAX_BLOCKS + 1)
      OBVIOUS
    <2>2. from[<<b, m>>] = Followed(bl, from, <<b, m>>)
      BY <1>1, <2>1
    <2> QED
      BY <2>2 DEF Followed
  <1>5. 0 \in T
    <2> SUFFICES ASSUME NEW m \in 0 .. MAX_BLOCKS + 1, m > 0
                 PROVE  from[<<Nth(s, Len(s) + 1), m>>] = Suffix(s, Len(s) + 1)
      BY <1>2
    <2>1. Nth(s, Len(s) + 1) = NULL
      BY <1>2 DEF Nth
    <2> QED
      BY <1>2, <1>4, <2>1, SuffixCases DEF Cells
  <1>6. ASSUME NEW j \in Nat, j \in T PROVE j + 1 \in T
    <2> SUFFICES ASSUME NEW m \in 0 .. MAX_BLOCKS + 1, NEW k \in 1 .. Len(s) + 1,
                        k + (j + 1) = Len(s) + 1, m > j + 1
                 PROVE  from[<<Nth(s, k), m>>] = Suffix(s, k)
      OBVIOUS
    <2>1. k \in 1 .. Len(s) /\ k + 1 \in 1 .. Len(s) + 1
      BY <1>2
    <2>2. Nth(s, k) = s[k] /\ s[k] \in Blocks /\ bl[s[k]].next = Nth(s, k + 1)
      BY <1>2, <2>1 DEF Nth, Walk
    <2>3. from[<<s[k], m>>] = <<s[k]>> \o from[<<Nth(s, k + 1), m - 1>>]
      <3>1. s[k] \in Cells /\ s[k] # NULL /\ m > 0
        BY <1>3, <2>2 DEF Cells
      <3>2. from[<<s[k], m>>] = <<s[k]>> \o from[<<bl[s[k]].next, m - 1>>]
        BY <1>4, <3>1
      <3> QED
        BY <2>2, <3>2
    <2>4. from[<<Nth(s, k + 1), m - 1>>] = Suffix(s, k + 1)
      <3>1. (k + 1) + j = Len(s) + 1 /\ m - 1 \in 0 .. MAX_BLOCKS + 1 /\ m - 1 > j
        BY <1>2, <1>3
      <3> QED
        BY <1>6, <2>1, <3>1
    <2> QED
      BY <1>2, <2>1, <2>2, <2>3, <2>4, SuffixCases, SMTT(30)
  <1>7. Len(s) \in T
    <2> HIDE DEF T
    <2> QED
      BY <1>2, <1>5, <1>6, Induction
  <1>8. from[<<Nth(s, 1), MAX_BLOCKS + 1>>] = Suffix(s, 1)
    <2>1. /\ MAX_BLOCKS + 1 \in 0 .. MAX_BLOCKS + 1 /\ 1 \in 1 .. Len(s) + 1
          /\ 1 + Len(s) = Len(s) + 1 /\ MAX_BLOCKS + 1 > Len(s)
      BY <1>2, <1>3
    <2> QED
      BY <1>7, <2>1
  <1> QED
    BY <1>1, <1>2, <1>8, SuffixCases DEF Walk

-----------------------------------------------------------------------------
(* Sequences without repetition.                                           *)

LEMMA ConcatSets ==
    ASSUME NEW S, NEW s \in Seq(S), NEW t \in Seq(S)
    PROVE  /\ s \o t \in Seq(S)
           /\ ToSet(s \o t) = ToSet(s) \cup ToSet(t)
           /\ IsInjective(s) /\ IsInjective(t) /\ ToSet(s) \cap ToSet(t) = {}
                  => IsInjective(s \o t)
  <1>1. /\ s \o t \in Seq(S)
        /\ Len(s) \in Nat /\ Len(t) \in Nat
        /\ DOMAIN s = 1 .. Len(s) /\ DOMAIN t = 1 .. Len(t)
        /\ DOMAIN (s \o t) = 1 .. Len(s) + Len(t)
        /\ \A i \in 1 .. Len(s) + Len(t) :
              (s \o t)[i] = IF i <= Len(s) THEN s[i] ELSE t[i - Len(s)]
    OBVIOUS
  <1> DEFINE st == s \o t
  <1>2. st = s \o t
    OBVIOUS
  <1> HIDE DEF st
  <1>3. /\ DOMAIN st = 1 .. Len(s) + Len(t)
        /\ \A i \in 1 .. Len(s) : i \in DOMAIN st /\ st[i] = s[i]
        /\ \A i \in 1 .. Len(t) : /\ i + Len(s) \in DOMAIN st
                                  /\ st[i + Len(s)] = t[i]
        /\ \A i \in DOMAIN st : \/ i \in 1 .. Len(s) /\ st[i] = s[i]
                                \/ /\ i - Len(s) \in 1 .. Len(t)
                                   /\ st[i] = t[i - Len(s)]
    BY <1>1, <1>2
  <1>4. ToSet(st) = ToSet(s) \cup ToSet(t)
    <2>1. ASSUME NEW x \in ToSet(st) PROVE x \in ToSet(s) \cup ToSet(t)
      BY <1>1, <1>3, <2>1 DEF ToSet
    <2>2. ASSUME NEW x \in ToSet(s) PROVE x \in ToSet(st)
      BY <1>1, <1>3, <2>2 DEF ToSet
    <2>3. ASSUME NEW x \in ToSet(t) PROVE x \in ToSet(st)
      BY <1>1, <1>3, <2>3 DEF ToSet
    <2> QED
      BY <2>1, <2>2, <2>3
  <1>5. ASSUME IsInjective(s), IsInjective(t), ToSet(s) \cap ToSet(t) = {},
               NEW i \in DOMAIN st, NEW j \in DOMAIN st, st[i] = st[j]
        PROVE  i = j
    <2>1. CASE i \in 1 .. Len(s) /\ j \in 1 .. Len(s)
      <3>1. st[i] = s[i] /\ st[j] = s[j]
        BY <1>3, <2>1
      <3> QED
        BY <1>1, <1>5, <2>1, <3>1 DEF IsInjective
    <2>2. CASE i - Len(s) \in 1 .. Len(t) /\ j - Len(s) \in 1 .. Len(t)
      <3>1. st[i] = t[i - Len(s)] /\ st[j] = t[j - Len(s)]
        BY <1>1, <1>3, <2>2
      <3>2. i - Len(s) = j - Len(s)
        BY <1>1, <1>5, <2>2, <3>1 DEF IsInjective
      <3> QED
        BY <1>1, <1>3, <3>2
    <2>3. ASSUME NEW m \in DOMAIN st, NEW n \in DOMAIN st, st[m] = st[n],
                 m \in 1 .. Len(s), n - Len(s) \in 1 .. Len(t)
          PROVE  FALSE
      <3>1. st[m] = s[m] /\ st[n] = t[n - Len(s)]
        BY <1>1, <1>3, <2>3
      <3>2. s[m] \in ToSet(s) /\ t[n - Len(s)] \in ToSet(t)
        BY <1>1, <2>3 DEF ToSet
      <3> QED
        BY <1>5, <2>3, <3>1, <3>2
    <2>4. /\ i \in 1 .. Len(s) \/ i - Len(s) \in 1 .. Len(t)
          /\ j \in 1 .. Len(s) \/ j - Len(s) \in 1 .. Len(t)
      BY <1>3
    <2> QED
      BY <1>5, <2>1, <2>2, <2>3, <2>4
  <1>6. IsInjective(s) /\ IsInjective(t) /\ ToSet(s) \cap ToSet(t) = {}
            => IsInjective(st)
    BY <1>5 DEF IsInjective
  <1> QED
    BY <1>1, <1>2, <1>4, <1>6

LEMMA ReverseSets ==
    ASSUME NEW S, NEW s \in Seq(S)
    PROVE  /\ Reverse(s) \in Seq(S)
           /\ ToSet(Reverse(s)) = ToSet(s)
           /\ IsInjective(s) => IsInjective(Reverse(s))
  <1> DEFINE r == [i \in 1 .. Len(s) |-> s[Len(s) - i + 1]]
  <1>1. /\ Len(s) \in Nat /\ DOMAIN s = 1 .. Len(s) /\ DOMAIN r = 1 .. Len(s)
        /\ \A i \in 1 .. Len(s) : /\ Len(s) - i + 1 \in 1 .. Len(s)
                                  /\ r[i] = s[Len(s) - i + 1] /\ s[i] \in S
    OBVIOUS
  <1>2. r = Reverse(s)
    BY DEF Reverse
  <1>3. r \in Seq(S)
    <2>1. r \in [1 .. Len(s) -> S]
      BY <1>1
    <2> QED
      BY <1>1, <2>1
  <1> HIDE DEF r
  <1>4. ToSet(r) = ToSet(s)
    <2>1. ASSUME NEW x \in ToSet(r) PROVE x \in ToSet(s)
      BY <1>1, <2>1 DEF ToSet
    <2>2. ASSUME NEW i \in DOMAIN s PROVE s[i] \in ToSet(r)
      <3>1. Len(s) - i + 1 \in 1 .. Len(s) /\ Len(s) - (Len(s) - i + 1) + 1 = i
        BY <1>1
      <3>2. r[Len(s) - i + 1] = s[i]
        BY <1>1, <3>1
      <3> QED
        BY <1>1, <3>1, <3>2 DEF ToSet
    <2> QED
      BY <2>1, <2>2 DEF ToSet
  <1>5. ASSUME IsInjective(s), NEW i \in DOMAIN r, NEW j \in DOMAIN r, r[i] = r[j]
        PROVE  i = j
    <2>1. Len(s) - i + 1 = Len(s) - j + 1
      BY <1>1, <1>5 DEF IsInjective
    <2> QED
      BY <1>1, <2>1
  <1> QED
    BY <1>2, <1>3, <1>4, <1>5 DEF IsInjective

\* The concatenation of the first i sequences, as FlattenSeq computes it.
Joined(seqs, g, i) == IF i = 1 THEN seqs[i] ELSE g[i - 1] \o seqs[i]

LEMMA JoinExists ==
    ASSUME NEW seqs, NEW m \in Nat
    PROVE  \E g : g = [i \in 1 .. m |-> Joined(seqs, g, i)]
  <1> DEFINE Solves(g, k) == g = [i \in 1 .. k |-> Joined(seqs, g, i)]
             T == {k \in Nat : \E g : Solves(g, k)}
  <1>1. 0 \in T
    <2> DEFINE g == [i \in 1 .. 0 |-> <<>>]
    <2>1. Solves(g, 0)
      OBVIOUS
    <2> HIDE DEF g
    <2> QED
      BY <2>1
  <1>2. ASSUME NEW k \in Nat, k \in T PROVE k + 1 \in T
    <2>1. PICK g : Solves(g, k)
      BY <1>2
    <2> DEFINE h == [i \in 1 .. k + 1 |-> Joined(seqs, g, i)]
    <2>2. ASSUME NEW i \in 1 .. k PROVE h[i] = g[i]
      BY <2>1
    <2>5. h = [i \in 1 .. k + 1 |-> Joined(seqs, g, i)]
      OBVIOUS
    <2> HIDE DEF h
    <2>3. ASSUME NEW i \in 1 .. k + 1
          PROVE  Joined(seqs, h, i) = Joined(seqs, g, i)
      <3>1. CASE i = 1
        BY <3>1 DEF Joined
      <3>2. CASE i # 1
        <4>1. i - 1 \in 1 .. k
          BY <3>2
        <4>2. h[i - 1] = g[i - 1]
          BY <4>1, <2>2
        <4> QED
          BY <3>2, <4>2 DEF Joined
      <3> QED
        BY <3>1, <3>2
    <2>4. Solves(h, k + 1)
      BY <2>3, <2>5
    <2> QED
      BY <2>4
  <1>3. m \in T
    <2> HIDE DEF T
    <2> QED
      BY <1>1, <1>2, Induction
  <1> QED
    BY <1>3

\* A sequence of sequences without common elements or repetition.
Apart(seqs) ==
    /\ \A i \in DOMAIN seqs : IsInjective(seqs[i])
    /\ \A i, j \in DOMAIN seqs : i # j => ToSet(seqs[i]) \cap ToSet(seqs[j]) = {}

LEMMA FlattenSets ==
    ASSUME NEW S, NEW n \in Nat \ {0}, NEW seqs \in [1 .. n -> Seq(S)]
    PROVE  /\ FlattenSeq(seqs) \in Seq(S)
           /\ ToSet(FlattenSeq(seqs)) = UNION {ToSet(seqs[i]) : i \in 1 .. n}
           /\ Apart(seqs) => IsInjective(FlattenSeq(seqs))
  <1> DEFINE flatten == CHOOSE g : g = [i \in 1 .. n |-> Joined(seqs, g, i)]
  <1>1. flatten = [i \in 1 .. n |-> Joined(seqs, flatten, i)]
    BY JoinExists
  <1>2. Len(seqs) = n /\ DOMAIN seqs = 1 .. n
    BY LenProperties
  <1>3. FlattenSeq(seqs) = flatten[n]
    BY <1>2 DEF FlattenSeq, Joined
  <1> HIDE DEF flatten
  <1> DEFINE Union(k) == UNION {ToSet(seqs[i]) : i \in 1 .. k}
             Good(k) == /\ flatten[k] \in Seq(S)
                        /\ ToSet(flatten[k]) = Union(k)
                        /\ Apart(seqs) => IsInjective(flatten[k])
             T == {k \in Nat : k < n => Good(k + 1)}
  <1>4. 0 \in T
    <2>1. flatten[1] = seqs[1] /\ 1 \in 1 .. n
      BY <1>1 DEF Joined
    <2>2. Union(1) = ToSet(seqs[1])
      OBVIOUS
    <2>3. Good(1)
      BY <1>2, <2>1, <2>2 DEF Apart
    <2> HIDE DEF Good
    <2> QED
      BY <2>3
  <1>5. ASSUME NEW k \in Nat, k \in T PROVE k + 1 \in T
    <2> SUFFICES ASSUME k + 1 < n PROVE Good(k + 2)
      <3>1. k + 2 = (k + 1) + 1 /\ k + 1 \in Nat
        OBVIOUS
      <3> HIDE DEF Good
      <3> QED
        BY <3>1
    <2>1. Good(k + 1)
      <3> HIDE DEF Good
      <3> QED
        BY <1>5
    <2>2. flatten[k + 2] = flatten[k + 1] \o seqs[k + 2]
      <3>1. k + 2 \in 1 .. n /\ k + 2 # 1 /\ (k + 2) - 1 = k + 1
        OBVIOUS
      <3>2. flatten[k + 2] = Joined(seqs, flatten, k + 2)
        BY <1>1, <3>1
      <3> QED
        BY <3>1, <3>2 DEF Joined
    <2>3. seqs[k + 2] \in Seq(S) /\ k + 2 \in 1 .. n
      OBVIOUS
    <2>4. Union(k + 2) = Union(k + 1) \cup ToSet(seqs[k + 2])
      <3>1. 1 .. k + 2 = (1 .. k + 1) \cup {k + 2}
        OBVIOUS
      <3> QED
        BY <3>1
    <2>5. ASSUME Apart(seqs)
          PROVE  Union(k + 1) \cap ToSet(seqs[k + 2]) = {}
      <3>1. ASSUME NEW i \in 1 .. k + 1
            PROVE  ToSet(seqs[i]) \cap ToSet(seqs[k + 2]) = {}
        BY <1>2, <2>3, <2>5 DEF Apart
      <3> QED
        BY <3>1
    <2>6. Apart(seqs) => IsInjective(seqs[k + 2])
      BY <1>2, <2>3 DEF Apart
    <2>7. /\ flatten[k + 1] \in Seq(S) /\ ToSet(flatten[k + 1]) = Union(k + 1)
          /\ Apart(seqs) => IsInjective(flatten[k + 1])
      BY <2>1
    <2> HIDE DEF Union
    <2>8. /\ flatten[k + 2] \in Seq(S)
          /\ ToSet(flatten[k + 2]) = ToSet(flatten[k + 1]) \cup ToSet(seqs[k + 2])
          /\ IsInjective(flatten[k + 1]) /\ IsInjective(seqs[k + 2])
             /\ ToSet(flatten[k + 1]) \cap ToSet(seqs[k + 2]) = {}
                 => IsInjective(flatten[k + 2])
      BY <2>2, <2>3, <2>7, ConcatSets
    <2> QED
      BY <2>4, <2>5, <2>6, <2>7, <2>8
  <1>6. n - 1 \in T
    <2> HIDE DEF T
    <2>1. Nat \subseteq T
      BY <1>4, <1>5, Induction
    <2> QED
      BY <2>1
  <1>7. Good(n)
    <2>1. n - 1 < n /\ (n - 1) + 1 = n
      OBVIOUS
    <2> HIDE DEF Good
    <2> QED
      BY <1>6, <2>1
  <1> QED
    BY <1>3, <1>7

-----------------------------------------------------------------------------
(* The table with its chains named.                                        *)

Buckets == 0 .. buckets - 1

All(c) == UNION {ToSet(c[i]) : i \in Buckets}

Owned(c, free, taken) ==
    /\ All(c) \cup ToSet(free) = 1 .. taken
    /\ All(c) \cap ToSet(free) = {}
    /\ IsInjective(free)
    /\ \A i \in Buckets : IsInjective(c[i])
    /\ \A i, j \in Buckets : i # j => ToSet(c[i]) \cap ToSet(c[j]) = {}

Keyed(c, bl, n) ==
    /\ \A i \in Buckets : \A b \in ToSet(c[i]) : HASH_INDEX(bl[b].key) = i
    /\ \A a, b \in All(c) : bl[a].key = bl[b].key => a = b
    /\ n = Cardinality(All(c))

Chained(c, ent, bl) == \A i \in Buckets : Walk(bl, ent[i], c[i])

TableTyped ==
    /\ entries \in [Buckets -> Cells]
    /\ block \in [Blocks -> [key : Nat, next : Cells]]
    /\ smalloc_free_list \in Seq(Blocks)
    /\ raw \in 0 .. MAX_BLOCKS

\* c names the chains.
ChainsAre(c) ==
    /\ c \in [Buckets -> Seq(Blocks)]
    /\ Chained(c, entries, block)
    /\ Owned(c, smalloc_free_list, raw)
    /\ Keyed(c, block, count)

HashInv == TableTyped /\ \E c : ChainsAre(c)

LEMMA Indices == buckets \in Nat \ {0} /\ MAX_BLOCKS \in Nat /\ NULL \notin Blocks
    BY HashAssumption DEF Blocks

LEMMA IndexOfKey ==
    ASSUME NEW key \in Keys
    PROVE  key \in Nat /\ HASH_INDEX(key) \in Buckets
  <1>1. key \in Nat /\ buckets \in Nat \ {0}
    BY HashAssumption
  <1>2. key % buckets \in 0 .. buckets - 1
    BY <1>1
  <1> QED
    BY <1>1, <1>2 DEF HASH_INDEX, Buckets

LEMMA ChainsFollow ==
    ASSUME TableTyped, NEW c, ChainsAre(c)
    PROVE  /\ \A i \in Buckets : Chain(i) = c[i]
           /\ InChains = All(c)
  <1>1. ASSUME NEW i \in Buckets PROVE Chain(i) = c[i]
    <2>1. Walk(block, entries[i], c[i]) /\ entries[i] \in Cells
      BY DEF ChainsAre, Chained, TableTyped
    <2> QED
      BY <2>1, LinksOfWalk DEF Chain, TableTyped
  <1> QED
    BY <1>1 DEF InChains, All, Buckets

\* A chain without repetition is no longer than the blocks there are.
LEMMA ChainIsShort ==
    ASSUME NEW s \in Seq(Blocks), IsInjective(s)
    PROVE  Len(s) <= MAX_BLOCKS
  <1>1. Len(s) \in Nat /\ DOMAIN s = 1 .. Len(s) /\ MAX_BLOCKS \in Nat
    BY Indices
  <1>2. s \in Injection(1 .. Len(s), Blocks)
    BY <1>1 DEF Injection, IsInjective
  <1>3. /\ IsFiniteSet(Blocks) /\ Cardinality(Blocks) = MAX_BLOCKS
        /\ IsFiniteSet(1 .. Len(s)) /\ Cardinality(1 .. Len(s)) = Len(s)
    <2>1. 1 \in Int /\ MAX_BLOCKS \in Int /\ Len(s) \in Int
      BY <1>1
    <2>2. /\ IsFiniteSet(1 .. MAX_BLOCKS) /\ IsFiniteSet(1 .. Len(s))
          /\ Cardinality(1 .. MAX_BLOCKS) =
                 IF 1 > MAX_BLOCKS THEN 0 ELSE MAX_BLOCKS - 1 + 1
          /\ Cardinality(1 .. Len(s)) = IF 1 > Len(s) THEN 0 ELSE Len(s) - 1 + 1
      BY ONLY <2>1, FS_Interval
    <2> QED
      BY <1>1, <2>2 DEF Blocks
  <1> QED
    BY <1>2, <1>3, FS_Injection

-----------------------------------------------------------------------------
(* How a walk changes with the links.                                      *)

\* A walk does not see the links of other blocks.
LEMMA WalkStays ==
    ASSUME NEW bl, NEW bl2, NEW first, NEW s, Walk(bl, first, s),
           \A b \in ToSet(s) : bl2[b].next = bl[b].next
    PROVE  Walk(bl2, first, s)
  <1>1. \A k \in 1 .. Len(s) : s[k] \in ToSet(s)
    BY DEF Walk, ToSet
  <1> QED
    BY <1>1 DEF Walk

LEMMA AppendFacts ==
    ASSUME NEW s \in Seq(Blocks), NEW b \in Blocks
    PROVE  /\ Append(s, b) \in Seq(Blocks)
           /\ ToSet(Append(s, b)) = ToSet(s) \cup {b}
           /\ IsInjective(s) /\ b \notin ToSet(s) => IsInjective(Append(s, b))
  <1>1. <<b>> \in Seq(Blocks) /\ ToSet(<<b>>) = {b} /\ IsInjective(<<b>>)
    BY DEF ToSet, IsInjective
  <1>2. Append(s, b) = s \o <<b>>
    OBVIOUS
  <1> DEFINE t == <<b>>
  <1>3. t \in Seq(Blocks) /\ ToSet(t) = {b} /\ IsInjective(t)
    BY <1>1
  <1> HIDE DEF t
  <1>4. /\ s \o t \in Seq(Blocks)
        /\ ToSet(s \o t) = ToSet(s) \cup {b}
        /\ IsInjective(s) /\ ToSet(s) \cap {b} = {} => IsInjective(s \o t)
    BY <1>3, ConcatSets
  <1>5. Append(s, b) = s \o t
    BY <1>2 DEF t
  <1> QED
    BY <1>4, <1>5

\* A block whose link ends the chain is linked to the last one.
LEMMA WalkAppend ==
    ASSUME NEW bl, NEW bl2, NEW first, NEW s, Walk(bl, first, s),
           IsInjective(s), NEW b \in Blocks, b \notin ToSet(s),
           bl2[b].next = NULL,
           s # <<>> => bl2[Last(s)].next = b,
           \A a \in ToSet(s) : s = <<>> \/ a = Last(s) \/ bl2[a].next = bl[a].next
    PROVE  Walk(bl2, IF s = <<>> THEN b ELSE first, Append(s, b))
  <1> DEFINE t == Append(s, b)
             n == Len(s)
  <1>1. /\ s \in Seq(Blocks) /\ n \in Nat /\ DOMAIN s = 1 .. n
        /\ t \in Seq(Blocks) /\ Len(t) = n + 1
        /\ \A k \in 1 .. n : t[k] = s[k]
        /\ t[n + 1] = b
        /\ (s = <<>> <=> n = 0)
    BY DEF Walk
  <1>2. IsInjective(t)
    BY <1>1, AppendFacts
  <1>3. Len(t) <= MAX_BLOCKS
    BY <1>1, <1>2, ChainIsShort
  <1>7. n \in Nat
    BY <1>1
  <1> HIDE DEF t, n
  <1>4. (IF s = <<>> THEN b ELSE first) = Nth(t, 1)
    <2>1. CASE s = <<>>
      BY <1>1, <2>1 DEF Nth
    <2>2. CASE s # <<>>
      <3>1. first = s[1] /\ 1 \in 1 .. n /\ 1 <= n + 1
        BY <1>1, <2>2 DEF Walk, Nth, n
      <3> QED
        BY <1>1, <2>2, <3>1 DEF Nth
    <2> QED
      BY <2>1, <2>2
  <1>5. ASSUME NEW k \in 1 .. n + 1
        PROVE  bl2[t[k]].next = Nth(t, k + 1)
    <2>1. CASE k = n + 1
      <3>1. Nth(t, k + 1) = NULL /\ t[k] = b
        BY <1>1, <2>1 DEF Nth
      <3> QED
        BY <3>1
    <2>2. CASE k = n /\ n # 0
      <3>1. t[k] = Last(s) /\ Nth(t, k + 1) = b /\ s # <<>>
        BY <1>1, <2>2 DEF Nth, Last, n
      <3> QED
        BY <3>1
    <2>3. CASE k \in 1 .. n - 1
      <3>1. /\ k \in 1 .. n /\ k + 1 \in 1 .. n /\ n \in 1 .. n /\ k # n
            /\ k + 1 <= n /\ k + 1 <= n + 1
        BY <1>7, <2>3
      <3>5. /\ t[k] = s[k] /\ t[k + 1] = s[k + 1] /\ s[k] \in ToSet(s)
            /\ Last(s) = s[n] /\ s # <<>>
        <4>1. t[k] = s[k] /\ t[k + 1] = s[k + 1] /\ s[k] \in ToSet(s)
          BY <1>1, <3>1 DEF ToSet
        <4>2. Last(s) = s[n]
          BY DEF Last, n
        <4>3. n # 0
          BY <1>7, <3>1
        <4> QED
          BY <1>1, <4>1, <4>2, <4>3
      <3>2. s[k] # Last(s)
        BY <1>1, <3>1, <3>5 DEF IsInjective
      <3>3. bl2[s[k]].next = Nth(s, k + 1)
        BY <3>1, <3>2, <3>5, SMTT(30) DEF Walk, n
      <3>4. Nth(s, k + 1) = Nth(t, k + 1)
        BY <1>1, <3>1, <3>5 DEF Nth, n
      <3> QED
        BY <3>3, <3>4, <3>5
    <2> QED
      BY <1>7, <2>1, <2>2, <2>3
  <1>6. Walk(bl2, IF s = <<>> THEN b ELSE first, t)
    BY <1>1, <1>3, <1>4, <1>5 DEF Walk
  <1> QED
    BY <1>6 DEF t

Without(s, n) == [k \in 1 .. Len(s) - 1 |-> IF k < n THEN s[k] ELSE s[k + 1]]

LEMMA WithoutFacts ==
    ASSUME NEW s \in Seq(Blocks), NEW n \in 1 .. Len(s)
    PROVE  /\ Without(s, n) \in Seq(Blocks) /\ Len(Without(s, n)) = Len(s) - 1
           /\ \A k \in 1 .. Len(s) - 1 :
                 Without(s, n)[k] = IF k < n THEN s[k] ELSE s[k + 1]
           /\ IsInjective(s) => /\ IsInjective(Without(s, n))
                                /\ ToSet(Without(s, n)) = ToSet(s) \ {s[n]}
  <1> DEFINE t == Without(s, n)
             m == Len(s)
  <1>1. /\ m \in Nat \ {0} /\ DOMAIN s = 1 .. m /\ n \in 1 .. m
        /\ \A k \in 1 .. m : s[k] \in Blocks
    OBVIOUS
  <1>2. /\ DOMAIN t = 1 .. m - 1
        /\ \A k \in 1 .. m - 1 : t[k] = IF k < n THEN s[k] ELSE s[k + 1]
    BY DEF Without
  <1>3. /\ \A k \in 1 .. m - 1 : k < n => t[k] = s[k] /\ k \in 1 .. m
        /\ \A k \in 1 .. m - 1 : ~(k < n) => t[k] = s[k + 1] /\ k + 1 \in 1 .. m
    BY <1>1, <1>2
  <1>4. t \in Seq(Blocks) /\ Len(t) = m - 1
    <2>1. \A k \in 1 .. m - 1 : t[k] \in Blocks
      BY <1>1, <1>3
    <2>2. t \in [1 .. m - 1 -> Blocks] /\ m - 1 \in Nat
      BY <1>1, <2>1 DEF Without
    <2> QED
      BY <2>2, LenProperties
  <1> HIDE DEF t
  <1>5. ASSUME IsInjective(s), NEW j \in DOMAIN t, NEW k \in DOMAIN t, t[j] = t[k]
        PROVE  j = k
    <2> DEFINE Old(i) == IF i < n THEN i ELSE i + 1
    <2>1. \A i \in 1 .. m - 1 : Old(i) \in 1 .. m /\ t[i] = s[Old(i)]
      BY <1>1, <1>3
    <2>2. Old(j) = Old(k)
      BY <1>1, <1>2, <1>5, <2>1 DEF IsInjective
    <2> QED
      BY <1>1, <1>2, <2>2
  <1>6. ASSUME IsInjective(s)
        PROVE  ToSet(t) = ToSet(s) \ {s[n]}
    <2>1. ASSUME NEW k \in 1 .. m - 1 PROVE t[k] \in ToSet(s) \ {s[n]}
      <3>1. CASE k < n
        BY <1>1, <1>3, <1>6, <3>1 DEF ToSet, IsInjective
      <3>2. CASE ~(k < n)
        <4>1. t[k] = s[k + 1] /\ k + 1 \in 1 .. m /\ k + 1 # n
          BY <1>1, <1>3, <3>2
        <4> QED
          BY <1>1, <1>6, <4>1 DEF ToSet, IsInjective
      <3> QED
        BY <3>1, <3>2
    <2>2. ASSUME NEW k \in 1 .. m, s[k] # s[n] PROVE s[k] \in ToSet(t)
      <3>1. CASE k < n
        <4>1. k \in 1 .. m - 1 /\ t[k] = s[k]
          BY <1>1, <1>3, <3>1
        <4> QED
          BY <1>2, <4>1 DEF ToSet
      <3>2. CASE k > n
        <4>1. k - 1 \in 1 .. m - 1 /\ ~(k - 1 < n) /\ (k - 1) + 1 = k
          BY <1>1, <3>2
        <4>2. t[k - 1] = s[k]
          BY <1>3, <4>1
        <4> QED
          BY <1>2, <4>1, <4>2 DEF ToSet
      <3> QED
        BY <1>1, <2>2, <3>1, <3>2
    <2> QED
      BY <1>1, <1>2, <2>1, <2>2 DEF ToSet
  <1> QED
    BY <1>2, <1>4, <1>5, <1>6 DEF IsInjective, t

\* The block before the n-th one is linked to the one behind it.
LEMMA WalkWithout ==
    ASSUME NEW bl, NEW bl2, NEW first, NEW s, Walk(bl, first, s),
           IsInjective(s), NEW n \in 1 .. Len(s),
           \A k \in 1 .. Len(s) :
               bl2[s[k]].next = IF k = n - 1 THEN bl[s[n]].next ELSE bl[s[k]].next
    PROVE  Walk(bl2, IF n = 1 THEN bl[s[n]].next ELSE first, Without(s, n))
  <1> DEFINE t == Without(s, n)
             m == Len(s)
  <1>1. /\ s \in Seq(Blocks) /\ m \in Nat /\ n \in 1 .. m
        /\ m <= MAX_BLOCKS /\ MAX_BLOCKS \in Nat
    BY Indices DEF Walk
  <1>2. /\ t \in Seq(Blocks) /\ Len(t) = m - 1
        /\ \A k \in 1 .. m - 1 : t[k] = IF k < n THEN s[k] ELSE s[k + 1]
    BY <1>1, WithoutFacts
  <1>3. /\ first = Nth(s, 1)
        /\ \A k \in 1 .. m : bl[s[k]].next = Nth(s, k + 1)
    BY DEF Walk
  <1>4. \A k \in 1 .. m : bl2[s[k]].next =
            IF k = n - 1 THEN bl[s[n]].next ELSE bl[s[k]].next
    OBVIOUS
  <1>5. \A k : /\ k <= m => Nth(s, k) = s[k]
               /\ ~(k <= m) => Nth(s, k) = NULL
               /\ k <= m - 1 => Nth(t, k) = t[k]
               /\ ~(k <= m - 1) => Nth(t, k) = NULL
    BY <1>2 DEF Nth
  <1>6. m \in Nat /\ n \in Nat /\ 1 <= n /\ n <= m
    BY <1>1
  <1> HIDE DEF t, m
  <1>7. ASSUME NEW k \in 1 .. m
        PROVE  /\ k < n => Nth(t, k) = Nth(s, k)
               /\ ~(k < n) => Nth(t, k) = Nth(s, k + 1)
    <2>1. CASE k < n
      <3>1. k \in 1 .. m - 1 /\ k <= m - 1 /\ k <= m
        BY <1>6, <2>1
      <3> QED
        BY <1>2, <1>5, <2>1, <3>1
    <2>2. CASE ~(k < n) /\ k = m
      <3>1. ~(k <= m - 1) /\ ~(k + 1 <= m)
        BY <1>6, <2>2
      <3> QED
        BY <1>5, <2>2, <3>1
    <2>3. CASE ~(k < n) /\ k # m
      <3>1. k \in 1 .. m - 1 /\ k <= m - 1 /\ k + 1 <= m
        BY <1>6, <2>3
      <3> QED
        BY <1>2, <1>5, <2>3, <3>1
    <2> QED
      BY <2>1, <2>2, <2>3
  <1>8. (IF n = 1 THEN bl[s[n]].next ELSE first) = Nth(t, 1)
    <2>1. CASE n = 1
      <3>1. 1 \in 1 .. m /\ ~(1 < n) /\ 1 + 1 = n + 1
        BY <1>6, <2>1
      <3>2. bl[s[n]].next = Nth(s, n + 1)
        BY <1>1, <1>3
      <3> QED
        BY <1>7, <2>1, <3>1, <3>2
    <2>2. CASE n # 1
      <3>1. 1 \in 1 .. m /\ 1 < n
        BY <1>6, <2>2
      <3> QED
        BY <1>3, <1>7, <2>2, <3>1
    <2> QED
      BY <2>1, <2>2
  <1>9. ASSUME NEW k \in 1 .. m - 1
        PROVE  bl2[t[k]].next = Nth(t, k + 1)
    <2>1. k \in 1 .. m /\ k + 1 \in 1 .. m /\ k \in 1 .. m - 1
      BY <1>6
    <2>2. CASE k < n /\ k # n - 1
      <3>1. k + 1 < n
        BY <1>6, <2>2
      <3>2. t[k] = s[k] /\ bl2[s[k]].next = Nth(s, k + 1)
        BY <1>2, <1>3, <1>4, <2>1, <2>2
      <3> QED
        BY <1>7, <2>1, <3>1, <3>2
    <2>3. CASE k = n - 1
      <3>1. k < n /\ ~(k + 1 < n) /\ k + 1 = n
        BY <1>6, <2>3
      <3>2. t[k] = s[k] /\ bl2[s[k]].next = bl[s[n]].next
        BY <1>2, <1>4, <2>1, <2>3, <3>1
      <3>3. bl[s[n]].next = Nth(s, n + 1) /\ Nth(t, k + 1) = Nth(s, n + 1)
        BY <1>1, <1>3, <1>7, <2>1, <3>1
      <3> QED
        BY <3>2, <3>3
    <2>4. CASE ~(k < n)
      <3>1. ~(k + 1 < n) /\ k + 1 # n - 1
        BY <1>6, <2>4
      <3>2. t[k] = s[k + 1] /\ bl2[s[k + 1]].next = Nth(s, (k + 1) + 1)
        BY <1>2, <1>3, <1>4, <2>1, <2>4, <3>1
      <3> QED
        BY <1>7, <2>1, <3>1, <3>2
    <2> QED
      BY <1>6, <2>2, <2>3, <2>4
  <1>10. Len(t) <= MAX_BLOCKS
    BY <1>1, <1>2
  <1> QED
    BY <1>2, <1>8, <1>9, <1>10 DEF Walk, t

LEMMA WalkEmpty ==
    ASSUME NEW bl PROVE Walk(bl, NULL, <<>>)
    BY Indices DEF Walk, Nth

-----------------------------------------------------------------------------
(* Creating an entry.                                                      *)

LEMMA AllIsFinite ==
    ASSUME NEW c, NEW free, NEW taken \in 0 .. MAX_BLOCKS, Owned(c, free, taken)
    PROVE  /\ IsFiniteSet(All(c)) /\ Cardinality(All(c)) \in Nat
           /\ All(c) \subseteq 1 .. taken
  <1>1. All(c) \subseteq 1 .. taken
    BY DEF Owned
  <1>2. IsFiniteSet(1 .. taken)
    <2>1. 1 \in Int /\ taken \in Int
      OBVIOUS
    <2> QED
      BY ONLY <2>1, FS_Interval
  <1>3. IsFiniteSet(All(c))
    BY <1>1, <1>2, FS_Subset
  <1> QED
    BY <1>1, <1>3, FS_CardinalityType

LEMMA TailFacts ==
    ASSUME NEW s \in Seq(Blocks), s # <<>>
    PROVE  /\ Tail(s) \in Seq(Blocks) /\ Head(s) \in ToSet(s)
           /\ IsInjective(s) => /\ IsInjective(Tail(s))
                                /\ ToSet(Tail(s)) = ToSet(s) \ {Head(s)}
  <1>1. /\ Len(s) \in Nat \ {0} /\ 1 \in 1 .. Len(s) /\ Head(s) = s[1]
        /\ DOMAIN s = 1 .. Len(s)
    OBVIOUS
  <1>2. Tail(s) = Without(s, 1)
    <2>1. /\ Tail(s) \in Seq(Blocks) /\ Len(Tail(s)) = Len(s) - 1
          /\ \A k \in 1 .. Len(s) - 1 : Tail(s)[k] = s[k + 1]
      BY SMTT(30)
    <2>2. /\ Without(s, 1) \in Seq(Blocks) /\ Len(Without(s, 1)) = Len(s) - 1
          /\ \A k \in 1 .. Len(s) - 1 :
                Without(s, 1)[k] = IF k < 1 THEN s[k] ELSE s[k + 1]
      BY <1>1, WithoutFacts
    <2>3. \A k \in 1 .. Len(s) - 1 : ~(k < 1)
      BY <1>1
    <2>4. \A k \in 1 .. Len(s) - 1 : Tail(s)[k] = Without(s, 1)[k]
      BY <2>1, <2>2, <2>3
    <2> QED
      BY <2>1, <2>2, <2>4, SeqEqual
  <1>3. /\ Without(s, 1) \in Seq(Blocks)
        /\ IsInjective(s) => /\ IsInjective(Without(s, 1))
                             /\ ToSet(Without(s, 1)) = ToSet(s) \ {s[1]}
    BY <1>1, WithoutFacts
  <1>4. Head(s) \in ToSet(s)
    BY <1>1 DEF ToSet
  <1> QED
    BY <1>1, <1>2, <1>3, <1>4

\* smalloc hands out a block that is in no chain and takes it off the free list.
LEMMA TakenBlock ==
    ASSUME TableTyped, NEW c, Owned(c, smalloc_free_list, raw),
           NEW b \in Blocks, Allocated(b)
    PROVE  /\ b \notin All(c)
           /\ smalloc_free_list' \in Seq(Blocks) /\ raw' \in 0 .. MAX_BLOCKS
           /\ IsInjective(smalloc_free_list')
           /\ (All(c) \cup {b}) \cup ToSet(smalloc_free_list') = 1 .. raw'
           /\ (All(c) \cup {b}) \cap ToSet(smalloc_free_list') = {}
  <1> DEFINE f == smalloc_free_list
  <1>1. /\ f \in Seq(Blocks) /\ raw \in 0 .. MAX_BLOCKS /\ MAX_BLOCKS \in Nat
        /\ All(c) \cup ToSet(f) = 1 .. raw /\ All(c) \cap ToSet(f) = {}
        /\ IsInjective(f)
    BY Indices DEF TableTyped, Owned
  <1>2. CASE f # <<>>
    <2>1. b = Head(f) /\ f' = Tail(f) /\ raw' = raw
      BY <1>2 DEF Allocated
    <2>2. /\ f' \in Seq(Blocks) /\ b \in ToSet(f)
          /\ IsInjective(f') /\ ToSet(f') = ToSet(f) \ {b}
      BY <1>1, <1>2, <2>1, TailFacts
    <2> QED
      BY <1>1, <2>1, <2>2
  <1>3. CASE f = <<>>
    <2>1. raw < MAX_BLOCKS /\ b = raw + 1 /\ raw' = raw + 1 /\ f' = f
      BY <1>3 DEF Allocated
    <2>2. 1 .. raw' = (1 .. raw) \cup {b} /\ b \notin 1 .. raw
      BY <1>1, <2>1
    <2>3. raw' \in 0 .. MAX_BLOCKS
      BY <1>1, <2>1
    <2> QED
      BY <1>1, <2>1, <2>2, <2>3
  <1> QED
    BY <1>2, <1>3

Grown(c, i, b) == [c EXCEPT ![i] = Append(c[i], b)]

LEMMA GrownFacts ==
    ASSUME NEW c \in [Buckets -> Seq(Blocks)], NEW i \in Buckets, NEW b \in Blocks
    PROVE  /\ Grown(c, i, b) \in [Buckets -> Seq(Blocks)]
           /\ Grown(c, i, b)[i] = Append(c[i], b)
           /\ \A j \in Buckets : j # i => Grown(c, i, b)[j] = c[j]
           /\ ToSet(Grown(c, i, b)[i]) = ToSet(c[i]) \cup {b}
           /\ All(Grown(c, i, b)) = All(c) \cup {b}
  <1> DEFINE d == Grown(c, i, b)
  <1>1. /\ Append(c[i], b) \in Seq(Blocks)
        /\ ToSet(Append(c[i], b)) = ToSet(c[i]) \cup {b}
    BY AppendFacts
  <1>2. /\ d \in [Buckets -> Seq(Blocks)] /\ d[i] = Append(c[i], b)
        /\ \A j \in Buckets : j # i => d[j] = c[j]
    BY <1>1 DEF Grown
  <1> HIDE DEF d
  <1>3. ToSet(d[i]) = ToSet(c[i]) \cup {b}
    BY <1>1, <1>2
  <1>4. \A j \in Buckets : ToSet(d[j]) = IF j = i THEN ToSet(c[j]) \cup {b}
                                         ELSE ToSet(c[j])
    BY <1>2, <1>3
  <1>5. All(d) = All(c) \cup {b}
    BY <1>4 DEF All
  <1> QED
    BY <1>2, <1>3, <1>5 DEF d

LEMMA GrownOwned ==
    ASSUME NEW c \in [Buckets -> Seq(Blocks)], NEW i \in Buckets, NEW b \in Blocks,
           NEW free, NEW taken, Owned(c, free, taken), b \notin All(c),
           NEW free2, NEW taken2, IsInjective(free2),
           (All(c) \cup {b}) \cup ToSet(free2) = 1 .. taken2,
           (All(c) \cup {b}) \cap ToSet(free2) = {}
    PROVE  Owned(Grown(c, i, b), free2, taken2)
  <1> DEFINE d == Grown(c, i, b)
  <1>1. /\ d[i] = Append(c[i], b) /\ \A j \in Buckets : j # i => d[j] = c[j]
        /\ ToSet(d[i]) = ToSet(c[i]) \cup {b} /\ All(d) = All(c) \cup {b}
    <2>1. c \in [Buckets -> Seq(Blocks)] /\ i \in Buckets /\ b \in Blocks
      OBVIOUS
    <2>2. /\ Grown(c, i, b)[i] = Append(c[i], b)
          /\ \A j \in Buckets : j # i => Grown(c, i, b)[j] = c[j]
          /\ ToSet(Grown(c, i, b)[i]) = ToSet(c[i]) \cup {b}
          /\ All(Grown(c, i, b)) = All(c) \cup {b}
      <3>1. Grown(c, i, b)[i] = Append(c[i], b)
        BY ONLY <2>1, GrownFacts
      <3>2. \A j \in Buckets : j # i => Grown(c, i, b)[j] = c[j]
        BY ONLY <2>1, GrownFacts
      <3>3. ToSet(Grown(c, i, b)[i]) = ToSet(c[i]) \cup {b}
        <4>1. c[i] \in Seq(Blocks)
          OBVIOUS
        <4>2. ToSet(Append(c[i], b)) = ToSet(c[i]) \cup {b}
          BY <4>1, AppendFacts
        <4> QED
          BY <3>1, <4>2
      <3>4. All(Grown(c, i, b)) = All(c) \cup {b}
        BY ONLY <2>1, GrownFacts
      <3> QED
        BY <3>1, <3>2, <3>3, <3>4
    <2> QED
      BY <2>2
  <1> HIDE DEF d
  <1>2. \A j \in Buckets : b \notin ToSet(c[j])
    BY DEF All
  <1>3. \A j \in Buckets : IsInjective(d[j])
    <2>1. IsInjective(d[i])
      BY <1>1, <1>2, AppendFacts DEF Owned
    <2> QED
      BY <1>1, <2>1 DEF Owned
  <1>4. ASSUME NEW j \in Buckets, NEW k \in Buckets, j # k
        PROVE  ToSet(d[j]) \cap ToSet(d[k]) = {}
    <2>1. ToSet(c[j]) \cap ToSet(c[k]) = {}
      BY <1>4 DEF Owned
    <2>2. CASE j = i
      BY <1>1, <1>2, <1>4, <2>1, <2>2
    <2>3. CASE k = i
      BY <1>1, <1>2, <1>4, <2>1, <2>3
    <2>4. CASE j # i /\ k # i
      BY <1>1, <2>1, <2>4
    <2> QED
      BY <2>2, <2>3, <2>4
  <1> QED
    BY <1>1, <1>3, <1>4 DEF Owned, d

\* A key is found exactly if some chain has an entry for it.
LEMMA FoundSomewhere ==
    ASSUME TableTyped, NEW c, ChainsAre(c), NEW key \in Keys
    PROVE  /\ ChainOf(key) = c[HASH_INDEX(key)]
           /\ Found(key) <=> \E b \in All(c) : block[b].key = key
  <1> DEFINE i == HASH_INDEX(key)
  <1>1. i \in Buckets /\ ChainOf(key) = c[i]
    BY IndexOfKey, ChainsFollow DEF ChainOf
  <1>2. Found(key) <=> \E b \in ToSet(c[i]) : block[b].key = key
    BY <1>1 DEF Found, ToSet
  <1>3. ASSUME NEW b \in All(c), block[b].key = key
        PROVE  b \in ToSet(c[i])
    <2>1. PICK j \in Buckets : b \in ToSet(c[j])
      BY DEF All
    <2>2. HASH_INDEX(block[b].key) = j
      BY <2>1 DEF ChainsAre, Keyed
    <2> QED
      BY <1>3, <2>1, <2>2
  <1>4. ToSet(c[i]) \subseteq All(c)
    BY <1>1 DEF All
  <1> QED
    BY <1>1, <1>2, <1>3, <1>4

LEMMA GrownKeyed ==
    ASSUME NEW c \in [Buckets -> Seq(Blocks)], NEW i \in Buckets, NEW b \in Blocks,
           b \notin All(c), IsFiniteSet(All(c)), Cardinality(All(c)) \in Nat,
           NEW bl, NEW bl2, NEW n, Keyed(c, bl, n),
           \A a \in All(c) : bl2[a].key = bl[a].key,
           HASH_INDEX(bl2[b].key) = i,
           \A a \in All(c) : bl[a].key # bl2[b].key
    PROVE  Keyed(Grown(c, i, b), bl2, n + 1)
  <1> DEFINE d == Grown(c, i, b)
  <1>1. d[i] = Append(c[i], b) /\ \A j \in Buckets : j # i => d[j] = c[j]
    BY GrownFacts
  <1>2. All(d) = All(c) \cup {b}
    BY GrownFacts
  <1> HIDE DEF d
  <1>3. ToSet(d[i]) = ToSet(c[i]) \cup {b}
    BY <1>1, AppendFacts
  <1>4. ASSUME NEW j \in Buckets, NEW a \in ToSet(d[j])
        PROVE  HASH_INDEX(bl2[a].key) = j
    <2>1. CASE a \in ToSet(c[j])
      <3>1. a \in All(c)
        BY <2>1 DEF All
      <3> QED
        BY <2>1, <3>1 DEF Keyed
    <2>2. CASE a \notin ToSet(c[j])
      <3>1. j = i /\ a = b
        BY <1>1, <1>3, <1>4, <2>2
      <3> QED
        BY <3>1
    <2> QED
      BY <2>1, <2>2
  <1>5. ASSUME NEW a1 \in All(d), NEW a2 \in All(d), bl2[a1].key = bl2[a2].key
        PROVE  a1 = a2
    BY <1>2, <1>5 DEF Keyed
  <1>6. Cardinality(All(d)) = n + 1
    BY <1>2, FS_AddElement DEF Keyed
  <1> QED
    BY <1>4, <1>5, <1>6 DEF Keyed, d

LEMMA GrownChained ==
    ASSUME NEW c \in [Buckets -> Seq(Blocks)], NEW i \in Buckets, NEW b \in Blocks,
           NEW ent, NEW ent2, NEW bl, NEW bl2, NEW free, NEW taken,
           Chained(c, ent, bl), Owned(c, free, taken), b \notin All(c),
           ent2[i] = IF c[i] = <<>> THEN b ELSE ent[i],
           \A j \in Buckets : j # i => ent2[j] = ent[j],
           bl2[b].next = NULL,
           c[i] # <<>> => bl2[Last(c[i])].next = b,
           \A a \in All(c) : (c[i] # <<>> /\ a = Last(c[i])) \/ bl2[a].next = bl[a].next
    PROVE  Chained(Grown(c, i, b), ent2, bl2)
  <1> DEFINE d == Grown(c, i, b)
  <1>1. d[i] = Append(c[i], b) /\ \A j \in Buckets : j # i => d[j] = c[j]
    BY GrownFacts
  <1> HIDE DEF d
  <1>2. \A j \in Buckets : ToSet(c[j]) \subseteq All(c)
    BY DEF All
  <1>3. c[i] # <<>> => Last(c[i]) \in ToSet(c[i])
    <2> SUFFICES ASSUME c[i] # <<>> PROVE Last(c[i]) \in ToSet(c[i])
      OBVIOUS
    <2>1. c[i] \in Seq(Blocks) /\ Len(c[i]) \in DOMAIN c[i]
      OBVIOUS
    <2> QED
      BY <2>1 DEF Last, ToSet
  <1>4. Walk(bl2, ent2[i], d[i])
    <2>1. Walk(bl, ent[i], c[i]) /\ IsInjective(c[i]) /\ b \notin ToSet(c[i])
      BY <1>2 DEF Chained, Owned
    <2>2. \A a \in ToSet(c[i]) : c[i] = <<>> \/ a = Last(c[i])
                                 \/ bl2[a].next = bl[a].next
      BY <1>2
    <2>3. Walk(bl2, IF c[i] = <<>> THEN b ELSE ent[i], Append(c[i], b))
      BY <2>1, <2>2, WalkAppend
    <2> QED
      BY <1>1, <2>3
  <1>5. ASSUME NEW j \in Buckets, j # i
        PROVE  Walk(bl2, ent2[j], d[j])
    <2>1. ToSet(c[j]) \cap ToSet(c[i]) = {} /\ Walk(bl, ent[j], c[j])
      BY <1>5 DEF Chained, Owned
    <2>2. \A a \in ToSet(c[j]) : bl2[a].next = bl[a].next
      BY <1>2, <1>3, <2>1
    <2>3. Walk(bl2, ent[j], c[j])
      BY <2>1, <2>2, WalkStays
    <2> QED
      BY <1>1, <1>5, <2>3
  <1> QED
    BY <1>4, <1>5 DEF Chained, d

\* What hash_table_access_create does if the key is new: block b is taken for
\* it and added to its chain.
Creates(c, key, b) ==
    /\ b \in Blocks \ All(c)
    /\ TableTyped'
    /\ ChainsAre(Grown(c, HASH_INDEX(key), b))'
    /\ block'[b].key = key
    /\ \A a \in All(c) : block'[a].key = block[a].key

LEMMA CreateKeeps ==
    ASSUME TableTyped, NEW c, ChainsAre(c), NEW key \in Keys,
           ~Found(key), AccessCreate(key)
    PROVE  \E b : Creates(c, key, b)
  <1> DEFINE i == HASH_INDEX(key)
             last == Last(c[i])
  <1>1. PICK b \in Blocks :
            /\ Allocated(b)
            /\ LET chain == ChainOf(key)
                   new   == [block EXCEPT ![b] = [key |-> key, next |-> NULL]]
               IN  IF chain = <<>>
                   THEN /\ entries' = [entries EXCEPT ![HASH_INDEX(key)] = b]
                        /\ block' = new
                   ELSE /\ block' = [new EXCEPT ![Last(chain)].next = b]
                        /\ UNCHANGED entries
    BY DEF AccessCreate
  <1>2. count' = count + 1
    BY DEF AccessCreate
  <1>3. /\ i \in Buckets /\ key \in Nat /\ ChainOf(key) = c[i]
        /\ \A a \in All(c) : block[a].key # key
    BY IndexOfKey, FoundSomewhere
  <1>4. /\ c \in [Buckets -> Seq(Blocks)] /\ Chained(c, entries, block)
        /\ Owned(c, smalloc_free_list, raw) /\ Keyed(c, block, count)
        /\ c[i] \in Seq(Blocks)
    BY <1>3 DEF ChainsAre
  <1>5. /\ entries \in [Buckets -> Cells]
        /\ block \in [Blocks -> [key : Nat, next : Cells]]
        /\ raw \in 0 .. MAX_BLOCKS
        /\ NULL \in Cells /\ b \in Cells
    BY DEF TableTyped, Cells
  <1>6. /\ b \notin All(c)
        /\ smalloc_free_list' \in Seq(Blocks) /\ raw' \in 0 .. MAX_BLOCKS
        /\ IsInjective(smalloc_free_list')
        /\ (All(c) \cup {b}) \cup ToSet(smalloc_free_list') = 1 .. raw'
        /\ (All(c) \cup {b}) \cap ToSet(smalloc_free_list') = {}
    BY <1>1, <1>4, TakenBlock
  <1>7. /\ c[i] # <<>> => last \in ToSet(c[i]) /\ last \in Blocks
        /\ ToSet(c[i]) \subseteq All(c)
    <2>1. ToSet(c[i]) \subseteq All(c)
      BY <1>3 DEF All
    <2>2. ASSUME c[i] # <<>> PROVE last \in ToSet(c[i]) /\ last \in Blocks
      <3>1. Len(c[i]) \in DOMAIN c[i]
        BY <1>4, <2>2
      <3> QED
        BY <1>4, <3>1 DEF Last, ToSet
    <2> QED
      BY <2>1, <2>2
  <1> HIDE DEF last, i
  <1>8. /\ block' \in [Blocks -> [key : Nat, next : Cells]]
        /\ block'[b].key = key /\ block'[b].next = NULL
        /\ \A a \in Blocks \ {b} : block'[a].key = block[a].key
        /\ \A a \in Blocks \ {b} : (c[i] # <<>> /\ a = last)
                                   \/ block'[a].next = block[a].next
        /\ c[i] # <<>> => block'[last].next = b
        /\ entries' \in [Buckets -> Cells]
        /\ entries'[i] = IF c[i] = <<>> THEN b ELSE entries[i]
        /\ \A j \in Buckets : j # i => entries'[j] = entries[j]
    <2>1. CASE c[i] = <<>>
      <3>1. /\ entries' = [entries EXCEPT ![i] = b]
            /\ block' = [block EXCEPT ![b] = [key |-> key, next |-> NULL]]
        BY <1>1, <1>3, <2>1 DEF i
      <3> QED
        BY <1>3, <1>5, <2>1, <3>1
    <2>2. CASE c[i] # <<>>
      <3> DEFINE new == [block EXCEPT ![b] = [key |-> key, next |-> NULL]]
      <3>1. /\ entries' = entries
            /\ block' = [new EXCEPT ![last].next = b]
        BY <1>1, <1>3, <2>2 DEF i, last
      <3>2. last # b /\ last \in Blocks
        BY <1>6, <1>7, <2>2
      <3>3. /\ new \in [Blocks -> [key : Nat, next : Cells]]
            /\ new[b].key = key /\ new[b].next = NULL
            /\ \A a \in Blocks \ {b} : new[a] = block[a]
        BY <1>3, <1>5
      <3> HIDE DEF new
      <3>4. block' = [new EXCEPT ![last] = [new[last] EXCEPT !.next = b]]
        BY <3>1
      <3>5. /\ [new[last] EXCEPT !.next = b] \in [key : Nat, next : Cells]
            /\ [new[last] EXCEPT !.next = b].next = b
            /\ [new[last] EXCEPT !.next = b].key = new[last].key
        BY <1>5, <3>2, <3>3
      <3>6. /\ block' \in [Blocks -> [key : Nat, next : Cells]]
            /\ \A a \in Blocks \ {last} : block'[a] = new[a]
            /\ block'[last].next = b /\ block'[last].key = new[last].key
        BY <3>2, <3>3, <3>4, <3>5
      <3> QED
        BY <1>3, <1>5, <2>2, <3>1, <3>2, <3>3, <3>6
    <2> QED
      BY <2>1, <2>2
  <1>9. TableTyped'
    BY <1>6, <1>8 DEF TableTyped
  <1>10. \A a \in All(c) : a \in Blocks \ {b}
    BY <1>4, <1>5, <1>6, AllIsFinite, Indices, SMTT(30) DEF Blocks
  <1>11. Chained(Grown(c, i, b), entries', block')
    <2>1. /\ c[i] # <<>> => block'[Last(c[i])].next = b
          /\ \A a \in All(c) : \/ c[i] # <<>> /\ a = Last(c[i])
                               \/ block'[a].next = block[a].next
      BY <1>8, <1>10 DEF last
    <2>2. /\ entries'[i] = IF c[i] = <<>> THEN b ELSE entries[i]
          /\ \A j \in Buckets : j # i => entries'[j] = entries[j]
          /\ block'[b].next = NULL
      BY <1>8
    <2>3. /\ c \in [Buckets -> Seq(Blocks)] /\ i \in Buckets /\ b \in Blocks
          /\ Chained(c, entries, block)
          /\ Owned(c, smalloc_free_list, raw) /\ b \notin All(c)
      BY <1>3, <1>4, <1>6
    <2> QED
      BY ONLY <2>1, <2>2, <2>3, GrownChained
  <1>12. Owned(Grown(c, i, b), smalloc_free_list', raw')
    BY <1>3, <1>4, <1>6, GrownOwned
  <1>13. Keyed(Grown(c, i, b), block', count')
    <2>1. /\ IsFiniteSet(All(c)) /\ Cardinality(All(c)) \in Nat
          /\ HASH_INDEX(block'[b].key) = i
          /\ \A a \in All(c) : block'[a].key = block[a].key
          /\ \A a \in All(c) : block[a].key # block'[b].key
      BY <1>3, <1>4, <1>5, <1>8, <1>10, AllIsFinite DEF i
    <2> QED
      BY <1>2, <1>3, <1>4, <1>6, <2>1, GrownKeyed
  <1>14. Grown(c, i, b) \in [Buckets -> Seq(Blocks)]
    BY <1>3, <1>4, GrownFacts
  <1>15. ChainsAre(Grown(c, i, b))'
    BY <1>11, <1>12, <1>13, <1>14 DEF ChainsAre
  <1>16. Creates(c, key, b)
    BY <1>6, <1>8, <1>9, <1>10, <1>15 DEF Creates, i
  <1> QED
    BY <1>16

-----------------------------------------------------------------------------
(* Deleting an entry, and all.                                             *)

\* sfree
LEMMA FreedBlocks ==
    ASSUME NEW free \in Seq(Blocks), NEW bs \in Seq(Blocks)
    PROVE  /\ Reverse(bs) \o free \in Seq(Blocks)
           /\ ToSet(Reverse(bs) \o free) = ToSet(bs) \cup ToSet(free)
           /\ IsInjective(bs) /\ IsInjective(free) /\ ToSet(bs) \cap ToSet(free) = {}
                  => IsInjective(Reverse(bs) \o free)
  <1> DEFINE r == Reverse(bs)
  <1>1. /\ r \in Seq(Blocks) /\ ToSet(r) = ToSet(bs)
        /\ IsInjective(bs) => IsInjective(r)
    BY ReverseSets
  <1> HIDE DEF r
  <1>2. /\ r \o free \in Seq(Blocks)
        /\ ToSet(r \o free) = ToSet(r) \cup ToSet(free)
        /\ IsInjective(r) /\ IsInjective(free) /\ ToSet(r) \cap ToSet(free) = {}
               => IsInjective(r \o free)
    BY <1>1, ConcatSets
  <1>3. /\ r \o free \in Seq(Blocks)
        /\ ToSet(r \o free) = ToSet(bs) \cup ToSet(free)
        /\ IsInjective(bs) /\ IsInjective(free) /\ ToSet(bs) \cap ToSet(free) = {}
               => IsInjective(r \o free)
    BY <1>1, <1>2
  <1> QED
    BY <1>3 DEF r

Shrunk(c, i, n) == [c EXCEPT ![i] = Without(c[i], n)]

LEMMA ShrunkFacts ==
    ASSUME NEW c \in [Buckets -> Seq(Blocks)], NEW i \in Buckets,
           NEW n \in 1 .. Len(c[i]), NEW free, NEW taken, Owned(c, free, taken)
    PROVE  /\ Shrunk(c, i, n) \in [Buckets -> Seq(Blocks)]
           /\ Shrunk(c, i, n)[i] = Without(c[i], n)
           /\ \A j \in Buckets : j # i => Shrunk(c, i, n)[j] = c[j]
           /\ \A j \in Buckets : IsInjective(Shrunk(c, i, n)[j])
           /\ \A j \in Buckets : ToSet(Shrunk(c, i, n)[j]) = ToSet(c[j]) \ {c[i][n]}
           /\ All(Shrunk(c, i, n)) = All(c) \ {c[i][n]}
           /\ c[i][n] \in ToSet(c[i]) /\ c[i][n] \in All(c) /\ c[i][n] \in Blocks
  <1> DEFINE d == Shrunk(c, i, n)
             b == c[i][n]
  <1>1. /\ c[i] \in Seq(Blocks) /\ IsInjective(c[i])
        /\ \A j \in Buckets : IsInjective(c[j])
        /\ \A j \in Buckets : j # i => ToSet(c[j]) \cap ToSet(c[i]) = {}
    BY DEF Owned
  <1>2. b \in ToSet(c[i]) /\ b \in Blocks
    BY <1>1 DEF ToSet
  <1>3. b \in All(c)
    BY <1>2 DEF All
  <1>4. /\ Without(c[i], n) \in Seq(Blocks) /\ IsInjective(Without(c[i], n))
        /\ ToSet(Without(c[i], n)) = ToSet(c[i]) \ {b}
    BY <1>1, WithoutFacts
  <1>5. /\ d \in [Buckets -> Seq(Blocks)] /\ d[i] = Without(c[i], n)
        /\ \A j \in Buckets : j # i => d[j] = c[j]
    BY <1>4 DEF Shrunk
  <1> HIDE DEF d, b
  <1>6. ASSUME NEW j \in Buckets
        PROVE  IsInjective(d[j]) /\ ToSet(d[j]) = ToSet(c[j]) \ {b}
    <2>1. CASE j = i
      <3>1. d[j] = Without(c[i], n)
        BY <1>5, <2>1
      <3> QED
        BY <1>4, <2>1, <3>1
    <2>2. CASE j # i
      <3>1. d[j] = c[j]
        BY <1>5, <2>2
      <3> QED
        BY <1>1, <1>2, <2>2, <3>1
    <2> QED
      BY <2>1, <2>2
  <1>7. All(d) = All(c) \ {b}
    <2>1. \A j \in Buckets : ToSet(d[j]) = ToSet(c[j]) \ {b}
      BY <1>6
    <2>2. ASSUME NEW x \in All(d) PROVE x \in All(c) \ {b}
      <3>1. PICK j \in Buckets : x \in ToSet(d[j])
        BY DEF All
      <3>2. x \in ToSet(c[j]) /\ x # b
        BY <2>1, <3>1
      <3> QED
        BY <3>2 DEF All
    <2>3. ASSUME NEW x \in All(c) \ {b} PROVE x \in All(d)
      <3>1. PICK j \in Buckets : x \in ToSet(c[j])
        BY DEF All
      <3>2. x \in ToSet(d[j])
        BY <2>1, <3>1
      <3> QED
        BY <3>2 DEF All
    <2> QED
      BY <2>2, <2>3
  <1> QED
    BY <1>2, <1>3, <1>5, <1>6, <1>7 DEF d, b

LEMMA PlaceOfKey ==
    ASSUME TableTyped, NEW c, ChainsAre(c), NEW key \in Keys, Found(key)
    PROVE  /\ Place(key) \in 1 .. Len(c[HASH_INDEX(key)])
           /\ block[c[HASH_INDEX(key)][Place(key)]].key = key
  <1> DEFINE s == c[HASH_INDEX(key)]
  <1>1. ChainOf(key) = s
    BY FoundSomewhere
  <1>2. DOMAIN s = 1 .. Len(s)
    BY IndexOfKey DEF ChainsAre
  <1> HIDE DEF s
  <1>3. \E n \in DOMAIN s : block[s[n]].key = key
    BY <1>1 DEF Found
  <1>4. Place(key) \in DOMAIN s /\ block[s[Place(key)]].key = key
    BY <1>1, <1>3 DEF Place
  <1> QED
    BY <1>2, <1>4 DEF s

\* What hash_table_access_delete does: the block of the key leaves its chain.
Deletes(c, key, b, d) ==
    /\ b \in All(c) /\ block[b].key = key
    /\ TableTyped'
    /\ ChainsAre(d)'
    /\ All(d) = All(c) \ {b}
    /\ \A a \in All(c) : block'[a].key = block[a].key

LEMMA DeleteKeeps ==
    ASSUME TableTyped, NEW c, ChainsAre(c), NEW key \in Keys, AccessDelete(key)
    PROVE  \E b, d : Deletes(c, key, b, d)
  <1> PICK n : n = Place(key)
    OBVIOUS
  <1> DEFINE i == HASH_INDEX(key)
             b == c[i][n]
             before == c[i][n - 1]
             d == Shrunk(c, i, n)
             f == smalloc_free_list
  <1>1. /\ i \in Buckets /\ ChainOf(key) = c[i]
        /\ n \in 1 .. Len(c[i]) /\ block[b].key = key
    BY IndexOfKey, FoundSomewhere, PlaceOfKey DEF AccessDelete
  <1>2. /\ c \in [Buckets -> Seq(Blocks)] /\ Chained(c, entries, block)
        /\ Owned(c, f, raw) /\ Keyed(c, block, count)
        /\ c[i] \in Seq(Blocks) /\ Len(c[i]) \in Nat
        /\ DOMAIN c[i] = 1 .. Len(c[i])
    BY <1>1 DEF ChainsAre
  <1>3. /\ entries \in [Buckets -> Cells]
        /\ block \in [Blocks -> [key : Nat, next : Cells]]
        /\ raw \in 0 .. MAX_BLOCKS /\ f \in Seq(Blocks)
    BY DEF TableTyped
  <1>4. /\ IF n = 1
           THEN /\ entries' = [entries EXCEPT ![i] = block[b].next]
                /\ UNCHANGED block
           ELSE /\ block' = [block EXCEPT ![before].next = block[b].next]
                /\ UNCHANGED entries
        /\ f' = Reverse(<<b>>) \o f /\ count' = count - 1 /\ raw' = raw
    BY <1>1 DEF AccessDelete, Freed
  <1>5. /\ d \in [Buckets -> Seq(Blocks)] /\ d[i] = Without(c[i], n)
        /\ \A j \in Buckets : j # i => d[j] = c[j]
        /\ \A j \in Buckets : IsInjective(d[j])
        /\ \A j \in Buckets : ToSet(d[j]) = ToSet(c[j]) \ {b}
        /\ All(d) = All(c) \ {b}
        /\ b \in ToSet(c[i]) /\ b \in All(c) /\ b \in Blocks
    <2>1. /\ c \in [Buckets -> Seq(Blocks)] /\ i \in Buckets
          /\ n \in 1 .. Len(c[i]) /\ Owned(c, f, raw)
      BY <1>1, <1>2
    <2> HIDE DEF i, f
    <2>2. /\ d \in [Buckets -> Seq(Blocks)] /\ d[i] = Without(c[i], n)
          /\ \A j \in Buckets : j # i => d[j] = c[j]
          /\ \A j \in Buckets : IsInjective(d[j])
          /\ All(d) = All(c) \ {b}
      BY ONLY <2>1, ShrunkFacts
    <2>4. b \in ToSet(c[i]) /\ b \in All(c) /\ b \in Blocks
      BY ONLY <2>1, ShrunkFacts
    <2>5. /\ c[i] \in Seq(Blocks) /\ IsInjective(c[i])
          /\ \A j \in Buckets : j # i => ToSet(c[j]) \cap ToSet(c[i]) = {}
      BY <2>1 DEF Owned
    <2>6. ToSet(Without(c[i], n)) = ToSet(c[i]) \ {b}
      BY <2>1, <2>5, WithoutFacts
    <2> HIDE DEF d, b
    <2>3. ASSUME NEW j \in Buckets PROVE ToSet(d[j]) = ToSet(c[j]) \ {b}
      <3>1. CASE j = i
        BY <2>2, <2>6, <3>1
      <3>2. CASE j # i
        <4>1. d[j] = c[j] /\ b \notin ToSet(c[j])
          BY <2>2, <2>4, <2>5, <3>2
        <4> QED
          BY <4>1
      <3> QED
        BY <3>1, <3>2
    <2> QED
      BY <2>2, <2>3, <2>4
  <1>6. n # 1 => /\ n - 1 \in 1 .. Len(c[i])
                 /\ before \in ToSet(c[i]) /\ before \in Blocks
    <2> SUFFICES ASSUME n # 1 PROVE /\ n - 1 \in 1 .. Len(c[i])
                                    /\ before \in ToSet(c[i]) /\ before \in Blocks
      OBVIOUS
    <2>1. n - 1 \in 1 .. Len(c[i])
      BY <1>1, <1>2
    <2> QED
      BY <1>2, <2>1 DEF ToSet
  <1>7. /\ IsFiniteSet(All(c)) /\ Cardinality(All(c)) \in Nat
        /\ All(c) \subseteq Blocks
    BY <1>2, <1>3, AllIsFinite, Indices DEF Blocks
  <1>8. /\ \A j \in Buckets : IsInjective(c[j]) /\ ToSet(c[j]) \subseteq All(c)
        /\ \A j \in Buckets : j # i => ToSet(c[j]) \cap ToSet(c[i]) = {}
    BY <1>1, <1>2 DEF Owned, All
  <1> HIDE DEF i, b, before, d, f
  <1>9. /\ block' \in [Blocks -> [key : Nat, next : Cells]]
        /\ \A a \in Blocks : block'[a].key = block[a].key
        /\ \A a \in Blocks : block'[a].next =
               IF n # 1 /\ a = before THEN block[b].next ELSE block[a].next
        /\ entries' \in [Buckets -> Cells]
        /\ entries'[i] = IF n = 1 THEN block[b].next ELSE entries[i]
        /\ \A j \in Buckets : j # i => entries'[j] = entries[j]
    <2>1. block[b].next \in Cells
      BY <1>3, <1>5
    <2>2. CASE n = 1
      BY <1>1, <1>3, <1>4, <2>1, <2>2
    <2>3. CASE n # 1
      <3>1. /\ entries' = entries /\ before \in Blocks
            /\ block' = [block EXCEPT ![before] =
                             [block[before] EXCEPT !.next = block[b].next]]
        BY <1>4, <1>6, <2>3
      <3>2. /\ [block[before] EXCEPT !.next = block[b].next]
                   \in [key : Nat, next : Cells]
            /\ [block[before] EXCEPT !.next = block[b].next].next = block[b].next
            /\ [block[before] EXCEPT !.next = block[b].next].key = block[before].key
        BY <1>3, <2>1, <3>1
      <3>3. /\ block' \in [Blocks -> [key : Nat, next : Cells]]
            /\ \A a \in Blocks \ {before} : block'[a] = block[a]
            /\ block'[before].next = block[b].next
            /\ block'[before].key = block[before].key
        BY <1>3, <3>1, <3>2
      <3> QED
        BY <1>1, <1>3, <2>3, <3>1, <3>3
    <2> QED
      BY <2>2, <2>3
  <1>10. /\ f' \in Seq(Blocks) /\ ToSet(f') = {b} \cup ToSet(f)
         /\ IsInjective(f')
    <2> DEFINE bs == <<b>>
    <2>1. bs \in Seq(Blocks) /\ ToSet(bs) = {b} /\ IsInjective(bs)
      BY <1>5 DEF ToSet, IsInjective
    <2>2. f' = Reverse(bs) \o f
      BY <1>4
    <2> HIDE DEF bs
    <2>3. IsInjective(f) /\ ToSet(bs) \cap ToSet(f) = {}
      BY <1>2, <1>5, <2>1 DEF Owned
    <2> QED
      BY <1>3, <2>1, <2>2, <2>3, FreedBlocks
  <1>11. TableTyped'
    BY <1>3, <1>4, <1>9, <1>10 DEF TableTyped, f
  <1>12. Owned(d, f', raw')
    <2>1. /\ All(d) \cup ToSet(f') = 1 .. raw' /\ All(d) \cap ToSet(f') = {}
      <3>1. /\ All(c) \cup ToSet(f) = 1 .. raw /\ All(c) \cap ToSet(f) = {}
        BY <1>2 DEF Owned
      <3>2. /\ All(d) = All(c) \ {b} /\ b \in All(c)
            /\ ToSet(f') = {b} \cup ToSet(f) /\ raw' = raw
        BY <1>4, <1>5, <1>10
      <3> QED
        BY ONLY <3>1, <3>2
    <2>2. ASSUME NEW j \in Buckets, NEW k \in Buckets, j # k
          PROVE  ToSet(d[j]) \cap ToSet(d[k]) = {}
      <3>1. ToSet(c[j]) \cap ToSet(c[k]) = {}
        BY <1>2, <2>2 DEF Owned
      <3> QED
        BY <1>5, <3>1
    <2> QED
      BY <1>5, <1>10, <2>1, <2>2 DEF Owned
  <1>13. Keyed(d, block', count')
    <2>1. ASSUME NEW j \in Buckets, NEW a \in ToSet(d[j])
          PROVE  HASH_INDEX(block'[a].key) = j
      <3>1. a \in ToSet(c[j]) /\ a \in Blocks
        BY <1>5, <1>7, <1>8
      <3> QED
        BY <1>2, <1>9, <3>1 DEF Keyed
    <2>2. ASSUME NEW a1 \in All(d), NEW a2 \in All(d), block'[a1].key = block'[a2].key
          PROVE  a1 = a2
      <3>1. a1 \in All(c) /\ a2 \in All(c) /\ a1 \in Blocks /\ a2 \in Blocks
        BY <1>5, <1>7
      <3> QED
        BY <1>2, <1>9, <2>2, <3>1 DEF Keyed
    <2>3. Cardinality(All(d)) = Cardinality(All(c)) - 1
      BY <1>5, <1>7, FS_RemoveElement
    <2> QED
      BY <1>2, <1>4, <2>1, <2>2, <2>3 DEF Keyed
  <1>14. Chained(d, entries', block')
    <2>1. Walk(block', entries'[i], d[i])
      <3>1. Walk(block, entries[i], c[i]) /\ IsInjective(c[i])
        BY <1>1, <1>2, <1>8 DEF Chained
      <3>2. ASSUME NEW k \in 1 .. Len(c[i])
            PROVE  block'[c[i][k]].next = IF k = n - 1 THEN block[b].next
                                          ELSE block[c[i][k]].next
        <4>1. c[i][k] \in Blocks /\ k \in DOMAIN c[i]
          BY <1>2
        <4>2. n # 1 => n - 1 \in DOMAIN c[i]
          BY <1>2, <1>6
        <4>3. n # 1 /\ c[i][k] = before <=> k = n - 1
          BY <1>1, <1>2, <3>1, <4>1, <4>2 DEF IsInjective, before
        <4> QED
          BY <1>9, <4>1, <4>3
      <3>3. Walk(block', IF n = 1 THEN block[c[i][n]].next ELSE entries[i],
                 Without(c[i], n))
        BY <1>1, <3>1, <3>2, WalkWithout DEF b
      <3> QED
        BY <1>5, <1>9, <3>3 DEF b
    <2>2. ASSUME NEW j \in Buckets, j # i
          PROVE  Walk(block', entries'[j], d[j])
      <3>1. Walk(block, entries[j], c[j])
        BY <1>2 DEF Chained
      <3>2. \A a \in ToSet(c[j]) : block'[a].next = block[a].next
        BY <1>6, <1>7, <1>8, <1>9, <2>2
      <3>3. Walk(block', entries[j], c[j])
        BY <3>1, <3>2, WalkStays
      <3> QED
        BY <1>5, <1>9, <2>2, <3>3
    <2> QED
      BY <2>1, <2>2 DEF Chained
  <1>15. ChainsAre(d)'
    BY <1>5, <1>12, <1>13, <1>14 DEF ChainsAre, f, d, i
  <1>16. Deletes(c, key, b, d)
    BY <1>1, <1>5, <1>7, <1>9, <1>11, <1>15 DEF Deletes
  <1> QED
    BY <1>16

\* hash_table_clear frees every chain, bucket by bucket.
LEMMA ClearKeeps ==
    ASSUME TableTyped, NEW c, ChainsAre(c), Clear
    PROVE  TableTyped' /\ ChainsAre([i \in Buckets |-> <<>>])'
  <1> DEFINE d == [i \in Buckets |-> <<>>]
             seqs == [i \in 1 .. buckets |-> Chain(i - 1)]
             f == smalloc_free_list
  <1>1. /\ buckets \in Nat \ {0} /\ \A i \in 1 .. buckets : i - 1 \in Buckets
        /\ \A i \in Buckets : i + 1 \in 1 .. buckets /\ (i + 1) - 1 = i
    BY Indices DEF Buckets
  <1>2. /\ c \in [Buckets -> Seq(Blocks)] /\ Owned(c, f, raw)
        /\ f \in Seq(Blocks) /\ raw \in 0 .. MAX_BLOCKS
        /\ block \in [Blocks -> [key : Nat, next : Cells]]
    BY DEF ChainsAre, TableTyped
  <1>3. /\ entries' = [i \in Buckets |-> NULL] /\ block' = block /\ raw' = raw
        /\ f' = Reverse(FlattenSeq(seqs)) \o f /\ count' = 0
    BY DEF Clear, Freed, Buckets
  <1>4. \A i \in 1 .. buckets : seqs[i] = c[i - 1]
    BY <1>1, ChainsFollow
  <1>5. seqs \in [1 .. buckets -> Seq(Blocks)]
    BY <1>1, <1>2, ChainsFollow
  <1> HIDE DEF seqs
  <1>6. /\ FlattenSeq(seqs) \in Seq(Blocks)
        /\ ToSet(FlattenSeq(seqs)) = All(c) /\ IsInjective(FlattenSeq(seqs))
    <2>1. Apart(seqs)
      <3>1. ASSUME NEW i \in DOMAIN seqs PROVE IsInjective(seqs[i])
        <4>1. i \in 1 .. buckets /\ seqs[i] = c[i - 1] /\ i - 1 \in Buckets
          BY <1>1, <1>4, <1>5
        <4> QED
          BY <1>2, <4>1 DEF Owned
      <3>2. ASSUME NEW i \in DOMAIN seqs, NEW j \in DOMAIN seqs, i # j
            PROVE  ToSet(seqs[i]) \cap ToSet(seqs[j]) = {}
        <4>1. /\ i \in 1 .. buckets /\ seqs[i] = c[i - 1] /\ i - 1 \in Buckets
              /\ j \in 1 .. buckets /\ seqs[j] = c[j - 1] /\ j - 1 \in Buckets
          BY <1>1, <1>4, <1>5
        <4>2. i - 1 # j - 1
          BY <1>1, <3>2, <4>1
        <4>3. ToSet(c[i - 1]) \cap ToSet(c[j - 1]) = {}
          BY <1>2, <4>1, <4>2 DEF Owned
        <4> QED
          BY <4>1, <4>3
      <3> QED
        BY <3>1, <3>2 DEF Apart
    <2> DEFINE U == UNION {ToSet(seqs[i]) : i \in 1 .. buckets}
    <2>2. /\ FlattenSeq(seqs) \in Seq(Blocks) /\ IsInjective(FlattenSeq(seqs))
          /\ ToSet(FlattenSeq(seqs)) = U
      BY <1>1, <1>5, <2>1, FlattenSets
    <2>3. U = All(c)
      <3>1. ASSUME NEW x \in U PROVE x \in All(c)
        <4>1. PICK i \in 1 .. buckets : x \in ToSet(seqs[i])
          OBVIOUS
        <4>2. x \in ToSet(c[i - 1]) /\ i - 1 \in Buckets
          BY <1>1, <1>4, <4>1
        <4> QED
          BY <4>2 DEF All
      <3>2. ASSUME NEW x \in All(c) PROVE x \in U
        <4>1. PICK j \in Buckets : x \in ToSet(c[j])
          BY DEF All
        <4>2. seqs[j + 1] = c[j] /\ j + 1 \in 1 .. buckets
          <5>1. j + 1 \in 1 .. buckets /\ (j + 1) - 1 = j
            BY <1>1
          <5>2. seqs[j + 1] = c[(j + 1) - 1]
            BY <1>4, <5>1
          <5> QED
            BY <5>1, <5>2
        <4>3. x \in ToSet(seqs[j + 1])
          BY <4>1, <4>2
        <4> QED
          BY <4>2, <4>3
      <3> QED
        BY <3>1, <3>2
    <2> QED
      BY <2>2, <2>3
  <1>7. /\ f' \in Seq(Blocks) /\ ToSet(f') = All(c) \cup ToSet(f)
        /\ IsInjective(f')
    <2>1. IsInjective(f) /\ All(c) \cap ToSet(f) = {}
      BY <1>2 DEF Owned
    <2> QED
      BY <1>2, <1>3, <1>6, <2>1, FreedBlocks
  <1>8. TableTyped'
    BY <1>2, <1>3, <1>7 DEF TableTyped, Cells
  <1>9. /\ d \in [Buckets -> Seq(Blocks)]
        /\ \A i \in Buckets : d[i] = <<>> /\ ToSet(d[i]) = {} /\ IsInjective(d[i])
        /\ All(d) = {}
    BY DEF ToSet, IsInjective, All
  <1>10. Owned(d, f', raw')
    BY <1>2, <1>3, <1>7, <1>9 DEF Owned
  <1>11. Keyed(d, block', count')
    BY <1>3, <1>9, FS_EmptySet DEF Keyed
  <1>12. Chained(d, entries', block')
    BY <1>3, <1>9, WalkEmpty DEF Chained
  <1> QED
    BY <1>8, <1>9, <1>10, <1>11, <1>12 DEF ChainsAre

-----------------------------------------------------------------------------
(* The theorems.                                                           *)

LEMMA InitKeeps ==
    ASSUME HashInit
    PROVE  TableTyped /\ ChainsAre([i \in Buckets |-> <<>>])
  <1> DEFINE d == [i \in Buckets |-> <<>>]
  <1>1. /\ entries = [i \in Buckets |-> NULL]
        /\ block = [b \in Blocks |-> [key |-> 0, next |-> NULL]]
        /\ count = 0 /\ smalloc_free_list = <<>> /\ raw = 0
    BY DEF HashInit, Buckets
  <1>2. TableTyped
    BY <1>1, Indices DEF TableTyped, Cells
  <1>3. /\ d \in [Buckets -> Seq(Blocks)]
        /\ \A i \in Buckets : d[i] = <<>> /\ ToSet(d[i]) = {} /\ IsInjective(d[i])
        /\ All(d) = {}
    BY DEF ToSet, IsInjective, All
  <1>4. Owned(d, smalloc_free_list, raw)
    BY <1>1, <1>3 DEF Owned, ToSet, IsInjective
  <1>5. Keyed(d, block, count)
    BY <1>1, <1>3, FS_EmptySet DEF Keyed
  <1>6. Chained(d, entries, block)
    BY <1>1, <1>3, WalkEmpty DEF Chained
  <1> QED
    BY <1>2, <1>3, <1>4, <1>5, <1>6 DEF ChainsAre

LEMMA HashInvariant == HashSpec => []HashInv
  <1>1. HashInit => HashInv
    BY InitKeeps DEF HashInv
  <1>2. HashInv /\ [HashNext]_hashVars => HashInv'
    <2> SUFFICES ASSUME HashInv, [HashNext]_hashVars PROVE HashInv'
      OBVIOUS
    <2>1. PICK c : ChainsAre(c)
      BY DEF HashInv
    <2>2. TableTyped
      BY DEF HashInv
    <2>3. CASE UNCHANGED hashVars
      <3>1. TableTyped'
        BY <2>2, <2>3 DEF TableTyped, hashVars
      <3>2. ChainsAre(c)'
        BY <2>1, <2>3 DEF ChainsAre, hashVars
      <3> QED
        BY <3>1, <3>2 DEF HashInv
    <2>4. ASSUME NEW key \in Keys, AccessCreate(key) PROVE HashInv'
      <3>1. CASE Found(key)
        BY <2>3, <2>4, <3>1 DEF AccessCreate
      <3>2. CASE ~Found(key)
        BY <2>1, <2>2, <2>4, <3>2, CreateKeeps DEF HashInv, Creates
      <3> QED
        BY <3>1, <3>2
    <2>5. ASSUME NEW key \in Keys, AccessDelete(key) PROVE HashInv'
      BY <2>1, <2>2, <2>5, DeleteKeeps DEF HashInv, Deletes
    <2>6. CASE Clear
      BY <2>1, <2>2, <2>6, ClearKeeps DEF HashInv
    <2> QED
      BY <2>3, <2>4, <2>5, <2>6 DEF HashNext
  <1> QED
    BY <1>1, <1>2, PTL DEF HashSpec

\* Every block taken from the heap is in one chain or on the free list, once,
\* for every number of buckets and blocks and every set of keys.
THEOREM BlocksHaveOneOwner == HashSpec => []BlocksAreOwnedOnce
  <1>1. HashInv => BlocksAreOwnedOnce
    <2> SUFFICES ASSUME TableTyped, NEW c, ChainsAre(c) PROVE BlocksAreOwnedOnce
      BY DEF HashInv
    <2>1. /\ \A i \in Buckets : Chain(i) = c[i]
          /\ InChains = All(c)
      BY ChainsFollow
    <2> QED
      BY <2>1 DEF ChainsAre, Owned, BlocksAreOwnedOnce, Buckets
  <1> QED
    BY <1>1, HashInvariant, PTL

\* Keys are in their own bucket, have one entry, and are counted.
THEOREM KeysAreInPlace == HashSpec => []ChainsHoldTheirKeys
  <1>1. HashInv => ChainsHoldTheirKeys
    <2> SUFFICES ASSUME TableTyped, NEW c, ChainsAre(c) PROVE ChainsHoldTheirKeys
      BY DEF HashInv
    <2>1. /\ \A i \in Buckets : Chain(i) = c[i]
          /\ InChains = All(c)
      BY ChainsFollow
    <2> QED
      BY <2>1 DEF ChainsAre, Keyed, ChainsHoldTheirKeys, Buckets
  <1> QED
    BY <1>1, HashInvariant, PTL

-----------------------------------------------------------------------------
(* The table is a dictionary.                                              *)

OneEach(c, bl) == \A a, b \in All(c) : bl[a].key = bl[b].key => a = b

\* The data of the keys, when c names the chains and bl holds the blocks.
Held(c, bl) == [key \in {bl[b].key : b \in All(c)} |->
                   CHOOSE b \in All(c) : bl[b].key = key]

Holds(h, c, bl) ==
    /\ h = [key \in DOMAIN h |-> h[key]]
    /\ DOMAIN h = {bl[b].key : b \in All(c)}
    /\ \A b \in All(c) : h[bl[b].key] = b

LEMMA HeldFacts ==
    ASSUME NEW c, NEW bl, OneEach(c, bl)
    PROVE  Holds(Held(c, bl), c, bl)
  <1>1. DOMAIN Held(c, bl) = {bl[b].key : b \in All(c)}
    BY DEF Held
  <1>2. ASSUME NEW b \in All(c) PROVE Held(c, bl)[bl[b].key] = b
    <2>1. Held(c, bl)[bl[b].key] = CHOOSE a \in All(c) : bl[a].key = bl[b].key
      BY DEF Held
    <2> QED
      BY <2>1 DEF OneEach
  <1>3. Held(c, bl) = [key \in DOMAIN Held(c, bl) |-> Held(c, bl)[key]]
    BY DEF Held
  <1> QED
    BY <1>1, <1>2, <1>3 DEF Holds

LEMMA ContentsHold ==
    ASSUME TableTyped, NEW c, ChainsAre(c)
    PROVE  Holds(Contents, c, block)
  <1>1. InChains = All(c)
    BY ChainsFollow
  <1>2. OneEach(c, block)
    BY DEF ChainsAre, Keyed, OneEach
  <1>3. Contents = Held(c, block)
    BY <1>1 DEF Contents, Held
  <1> QED
    BY <1>2, <1>3, HeldFacts

LEMMA ContentsHoldNext ==
    ASSUME TableTyped', NEW c, ChainsAre(c)'
    PROVE  Holds(Contents', c, block')
  <1>1. ASSUME NEW i \in Buckets PROVE Links(block', entries'[i]) = c[i]
    <2>1. /\ Walk(block', entries'[i], c[i]) /\ entries'[i] \in Cells
          /\ block' \in [Blocks -> [key : Nat, next : Cells]]
      BY DEF ChainsAre, Chained, TableTyped
    <2> QED
      BY <2>1, LinksOfWalk
  <1>2. InChains' = All(c)
    BY <1>1 DEF InChains, Chain, All, Buckets
  <1>3. OneEach(c, block')
    BY DEF ChainsAre, Keyed, OneEach
  <1>4. Contents' = Held(c, block')
    BY <1>2 DEF Contents, Held
  <1> QED
    BY <1>3, <1>4, HeldFacts

LEMMA CreateIsCreate ==
    ASSUME TableTyped, NEW c, ChainsAre(c), NEW key \in Keys,
           ~Found(key), AccessCreate(key)
    PROVE  Table!Create(key)
  <1>1. PICK b : Creates(c, key, b)
    BY CreateKeeps
  <1> DEFINE d == Grown(c, HASH_INDEX(key), b)
  <1>2. /\ b \in Blocks \ All(c) /\ block'[b].key = key
        /\ \A a \in All(c) : block'[a].key = block[a].key
        /\ TableTyped' /\ ChainsAre(d)'
    BY <1>1 DEF Creates
  <1>3. All(d) = All(c) \cup {b}
    <2>1. /\ c \in [Buckets -> Seq(Blocks)] /\ HASH_INDEX(key) \in Buckets
          /\ b \in Blocks
      BY <1>2, IndexOfKey DEF ChainsAre
    <2> HIDE DEF d
    <2> QED
      BY ONLY <2>1, GrownFacts DEF d
  <1> HIDE DEF d
  <1>4. Holds(Contents, c, block) /\ Holds(Contents', d, block')
    BY <1>2, ContentsHold, ContentsHoldNext
  <1>5. key \notin DOMAIN Contents
    BY <1>4, FoundSomewhere DEF Holds
  <1>6. Contents' = [k \in DOMAIN Contents \cup {key} |->
                        IF k = key THEN b ELSE Contents[k]]
    <2>1. DOMAIN Contents' = DOMAIN Contents \cup {key}
      BY <1>2, <1>3, <1>4 DEF Holds
    <2>2. Contents'[key] = b
      BY <1>2, <1>3, <1>4 DEF Holds
    <2>3. ASSUME NEW k \in DOMAIN Contents PROVE Contents'[k] = Contents[k]
      <3>1. PICK a \in All(c) : k = block[a].key
        BY <1>4 DEF Holds
      <3> QED
        BY <1>2, <1>3, <1>4, <3>1 DEF Holds
    <2>4. Contents' = [k \in DOMAIN Contents' |-> Contents'[k]]
      BY <1>4 DEF Holds
    <2> QED
      BY <1>5, <2>1, <2>2, <2>3, <2>4
  <1>7. b \in Blocks \ Table!Range(Contents)
    BY <1>2, <1>4 DEF Holds, Table!Range
  <1> QED
    BY <1>5, <1>6, <1>7 DEF Table!Create

LEMMA DeleteIsDelete ==
    ASSUME TableTyped, NEW c, ChainsAre(c), NEW key \in Keys, AccessDelete(key)
    PROVE  Table!Delete(key)
  <1>1. PICK b, d : Deletes(c, key, b, d)
    BY DeleteKeeps
  <1>2. /\ b \in All(c) /\ block[b].key = key
        /\ \A a \in All(c) : block'[a].key = block[a].key
        /\ TableTyped' /\ ChainsAre(d)' /\ All(d) = All(c) \ {b}
    BY <1>1 DEF Deletes
  <1>3. Holds(Contents, c, block) /\ Holds(Contents', d, block')
    BY <1>2, ContentsHold, ContentsHoldNext
  <1>4. key \in DOMAIN Contents
    BY <1>2, <1>3 DEF Holds
  <1>5. Contents' = [k \in DOMAIN Contents \ {key} |-> Contents[k]]
    <2>1. DOMAIN Contents' = DOMAIN Contents \ {key}
      <3>1. /\ DOMAIN Contents = {block[a].key : a \in All(c)}
            /\ DOMAIN Contents' = {block'[a].key : a \in All(d)}
        BY <1>3 DEF Holds
      <3>2. {block'[a].key : a \in All(d)} = {block[a].key : a \in All(d)}
        BY <1>2
      <3>3. \A a \in All(c) : block[a].key = key => a = b
        BY <1>2 DEF ChainsAre, Keyed
      <3> QED
        BY <1>2, <3>1, <3>2, <3>3
    <2>2. ASSUME NEW k \in DOMAIN Contents' PROVE Contents'[k] = Contents[k]
      <3>1. PICK a \in All(d) : k = block'[a].key
        BY <1>3 DEF Holds
      <3> QED
        BY <1>2, <1>3, <3>1 DEF Holds
    <2>3. Contents' = [k \in DOMAIN Contents' |-> Contents'[k]]
      BY <1>3 DEF Holds
    <2> QED
      BY <2>1, <2>2, <2>3
  <1> QED
    BY <1>4, <1>5 DEF Table!Delete, Table!Restrict

LEMMA EmptyHolds ==
    ASSUME NEW h, NEW bl, Holds(h, [i \in Buckets |-> <<>>], bl)
    PROVE  h = <<>>
  <1> DEFINE d == [i \in Buckets |-> <<>>]
  <1>1. \A i \in Buckets : ToSet(d[i]) = {}
    BY DEF ToSet
  <1>2. All(d) = {}
    BY <1>1 DEF All
  <1>3. DOMAIN h = {} /\ h = [key \in DOMAIN h |-> h[key]]
    BY <1>2 DEF Holds
  <1> QED
    BY <1>3

\* Whatever chain the keys share and whatever blocks were freed and taken again
\* before, each operation of the table is the dictionary's, or changes nothing:
\* a new key gets a block no other key has, and creating or deleting a key
\* leaves the blocks of all others alone.
THEOREM TableIsADictionary == HashSpec => ImplementsDictionary
  <1>1. HashInit => Contents = <<>>
    BY InitKeeps, ContentsHold, EmptyHolds
  <1> DEFINE Step == Table!Clear \/ \E key \in Keys :
                        Table!Create(key) \/ Table!Delete(key)
  <1>2. HashInv /\ [HashNext]_hashVars => [Step]_Contents
    <2> SUFFICES ASSUME HashInv, [HashNext]_hashVars PROVE [Step]_Contents
      OBVIOUS
    <2>1. PICK c : ChainsAre(c)
      BY DEF HashInv
    <2>2. TableTyped
      BY DEF HashInv
    <2>3. CASE UNCHANGED hashVars
      BY <2>3 DEF hashVars, Contents, InChains, Chain
    <2>4. ASSUME NEW key \in Keys, AccessCreate(key) PROVE [Step]_Contents
      <3>1. CASE Found(key)
        BY <2>3, <2>4, <3>1 DEF AccessCreate
      <3>2. CASE ~Found(key)
        BY <2>1, <2>2, <2>4, <3>2, CreateIsCreate
      <3> QED
        BY <3>1, <3>2
    <2>5. ASSUME NEW key \in Keys, AccessDelete(key) PROVE [Step]_Contents
      BY <2>1, <2>2, <2>5, DeleteIsDelete
    <2>6. CASE Clear
      <3>1. TableTyped' /\ ChainsAre([i \in Buckets |-> <<>>])'
        BY <2>1, <2>2, <2>6, ClearKeeps
      <3>2. Contents' = <<>>
        BY <3>1, ContentsHoldNext, EmptyHolds
      <3> QED
        BY <3>2 DEF Table!Clear
    <2> QED
      BY <2>3, <2>4, <2>5, <2>6 DEF HashNext
  <1> QED
    BY <1>1, <1>2, HashInvariant, PTL DEF HashSpec, ImplementsDictionary, Table!Spec
=============================================================================
