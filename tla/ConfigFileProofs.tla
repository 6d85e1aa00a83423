--------------------------- MODULE ConfigFileProofs ---------------------------
(***************************************************************************)
(* A theorem about how the two files with the settings are read, for all   *)
(* files, however many lines they have and whatever is written on them.    *)
(***************************************************************************)
EXTENDS ConfigFile, SequenceTheorems, WellFoundedInduction, TLAPS

-----------------------------------------------------------------------------
(* The keywords: one that begins another is asked for before it.           *)

Places == 1 .. 45
\* The fragments of keyword i begin those of keyword j.
Begins(i, j) ==
    /\ Len(Keywords[i]) <= Len(Keywords[j])
    /\ \A n \in 1 .. Len(Keywords[i]) : Keywords[i][n] = Keywords[j][n]

LEMMA KeywordForms ==
    \A i \in Places : /\ Len(Keywords[i]) \in 1 .. 4
                      /\ DOMAIN Keywords[i] = 1 .. Len(Keywords[i])
  <1> DEFINE k(i) == Keywords[i]
  <1>1. \A i \in Places : \/ k(i) = <<k(i)[1]>>
                          \/ k(i) = <<k(i)[1], k(i)[2]>>
                          \/ k(i) = <<k(i)[1], k(i)[2], k(i)[3]>>
                          \/ k(i) = <<k(i)[1], k(i)[2], k(i)[3], k(i)[4]>>
    BY SMTT(60) DEF Keywords, Multiplier, Places
  <1> HIDE DEF k
  <1>2. \A i \in Places : /\ Len(k(i)) \in 1 .. 4
                      /\ DOMAIN k(i) = 1 .. Len(k(i))
    BY <1>1
  <1> QED
    BY <1>2 DEF k

LEMMA Beginning ==
    ASSUME NEW i \in Places, NEW j \in Places,
           IsPrefix(Keywords[i], Keywords[j])
    PROVE  Begins(i, j)
  <1> PICK s, t : s = Keywords[i] /\ t = Keywords[j]
    OBVIOUS
  <1>1. /\ Len(s) \in Nat /\ Len(t) \in Nat
        /\ DOMAIN s = 1 .. Len(s) /\ DOMAIN t = 1 .. Len(t)
    BY KeywordForms
  <1>2. Len(s) <= Len(t) /\ SubSeq(s, 1, Len(s)) = SubSeq(t, 1, Len(s))
    BY DEF IsPrefix
  <1>3. ASSUME NEW n \in 1 .. Len(s) PROVE s[n] = t[n]
    <2>1. SubSeq(s, 1, Len(s))[n] = s[n]
      BY <1>1
    <2>2. SubSeq(t, 1, Len(s))[n] = t[n]
      BY <1>1, <1>2
    <2> QED
      BY <1>2, <2>1, <2>2
  <1> QED
    BY <1>2, <1>3 DEF Begins

LEMMA Groups ==
    ASSUME NEW i \in Places, NEW j \in Places, Keywords[i][1] = Keywords[j][1]
    PROVE  \/ i = j
           \/ \E G \in {14 .. 32, 34 .. 42, 6 .. 10, 3 .. 4, {43, 45}, {12, 44}} :
                 i \in G /\ j \in G
  <1> DEFINE h(n) == Keywords[n][1]
  <1>1. \A n \in Places :
            /\ h(n) = "T_" <=> n \in 14 .. 32
            /\ h(n) = "IDD" <=> n \in 34 .. 42
            /\ h(n) = "NUM_" <=> n \in 6 .. 10
            /\ h(n) = "MAX_" <=> n \in 3 .. 4
            /\ h(n) = "WQ_" <=> n \in {43, 45}
            /\ h(n) = "ADDRESS_" <=> n \in {12, 44}
    BY DEF Keywords, Multiplier, Places
  <1>2. \A n, m \in {1, 2, 5, 11, 13, 33} : h(n) = h(m) => n = m
    BY DEF Keywords, Multiplier
  <1> HIDE DEF h
  <1>3. h(i) = h(j)
    BY DEF h
  <1>4. \A n \in Places : n \in 14 .. 32 \cup 34 .. 42 \cup 6 .. 10 \cup 3 .. 4
                    \cup {43, 45} \cup {12, 44} \cup {1, 2, 5, 11, 13, 33}
    BY DEF Places
  <1> QED
    BY <1>1, <1>2, <1>3, <1>4

LEMMA Fragments ==
    ASSUME NEW i \in Places, NEW j \in Places, Begins(i, j)
    PROVE  /\ Keywords[i][1] = Keywords[j][1]
           /\ Len(Keywords[i]) > 1 => Keywords[i][2] = Keywords[j][2]
           /\ Len(Keywords[i]) > 2 => Keywords[i][3] = Keywords[j][3]
           /\ Len(Keywords[i]) > 3 => Keywords[i][4] = Keywords[j][4]
           /\ Len(Keywords[i]) <= Len(Keywords[j])
  <1> PICK l : l = Len(Keywords[i])
    OBVIOUS
  <1>1. l \in 1 .. 4
    BY KeywordForms
  <1>2. \A n \in 1 .. l : Keywords[i][n] = Keywords[j][n]
    BY DEF Begins
  <1>3. 1 \in 1 .. l /\ (l > 1 => 2 \in 1 .. l) /\ (l > 2 => 3 \in 1 .. l)
        /\ (l > 3 => 4 \in 1 .. l)
    BY <1>1
  <1> QED
    BY <1>2, <1>3 DEF Begins

LEMMA GroupT ==
    ASSUME NEW i \in 14 .. 32, NEW j \in 14 .. 32, Begins(i, j)
    PROVE  i <= j
  <1> DEFINE R == {14, 15, 17, 18, 19, 23, 25, 26, 28}
             at(n, c) == Keywords[n][c]
             l(n) == Len(Keywords[n])
  <1>1. \A n \in 14 .. 32 : at(n, 2) = "R" <=> n \in R
    BY DEF Keywords
  <1>2. \A n \in 14 .. 32 : at(n, 2) = "C" <=> n \in {16, 24, 27}
    BY DEF Keywords
  <1>3. \A n \in 14 .. 32 : at(n, 2) = "W" <=> n \in {21, 22}
    BY DEF Keywords
  <1>4. \A n \in 14 .. 32 : at(n, 2) = "XP" <=> n \in {30, 31}
    BY DEF Keywords
  <1>5. \A m, n \in {20, 29, 32} : at(m, 2) = at(n, 2) => m = n
    BY DEF Keywords
  <1>6. \A n \in R : at(n, 3) = "C" <=> n \in {14, 17}
    BY DEF Keywords
  <1>7. \A n \in R : at(n, 3) = "T" <=> n \in {23, 28}
    BY DEF Keywords
  <1>8. \A m, n \in {15, 18, 19, 25, 26} : at(m, 3) = at(n, 3) => m = n
    BY SMTT(30) DEF Keywords
  <1>9. \A m, n \in {16, 24, 27} : at(m, 3) = at(n, 3) => m = n
    BY DEF Keywords
  <1>10. at(21, 3) # at(22, 3) /\ at(23, 4) # at(28, 4)
    BY DEF Keywords
  <1>11. /\ \A n \in 14 .. 32 : l(n) \in 2 .. 4
         /\ \A n \in R \cup {16, 24, 27, 21, 22} : l(n) \in 3 .. 4
    BY DEF Keywords
  <1>12. l(14) = 3 /\ l(17) = 4 /\ l(23) = 4 /\ l(28) = 4 /\ l(30) = 2 /\ l(31) = 3
    BY SMTT(30) DEF Keywords
  <1>13. /\ l(i) <= l(j)
         /\ l(i) > 1 => at(i, 2) = at(j, 2)
         /\ l(i) > 2 => at(i, 3) = at(j, 3)
         /\ l(i) > 3 => at(i, 4) = at(j, 4)
    <2>1. i \in Places /\ j \in Places
      BY DEF Places
    <2> QED
      BY <2>1, Fragments
  <1> HIDE DEF at, l
  <1>14. at(i, 2) = at(j, 2)
    BY <1>11, <1>13
  <1>15. i \in R => at(i, 3) = at(j, 3) /\ j \in R
    BY <1>1, <1>11, <1>13, <1>14
  <1>16. CASE i \in {14, 17}
    <2>1. j \in {14, 17}
      BY <1>6, <1>15, <1>16
    <2> QED
      BY <2>1, <1>16, <1>12, <1>13
  <1>17. CASE i \in {23, 28}
    <2>1. j \in {23, 28}
      BY <1>7, <1>15, <1>17
    <2>2. at(i, 4) = at(j, 4)
      BY <1>12, <1>13, <1>17
    <2> QED
      BY <2>1, <2>2, <1>17, <1>10
  <1>18. CASE i \in {15, 18, 19, 25, 26}
    <2>1. j \in {15, 18, 19, 25, 26}
      BY <1>6, <1>7, <1>15, <1>18
    <2> QED
      BY <2>1, <1>8, <1>15, <1>18
  <1>19. CASE i \in {16, 24, 27}
    BY <1>2, <1>9, <1>11, <1>13, <1>14, <1>19
  <1>20. CASE i \in {21, 22}
    BY <1>3, <1>10, <1>11, <1>13, <1>14, <1>20
  <1>21. CASE i \in {30, 31}
    <2>1. j \in {30, 31}
      BY <1>4, <1>14, <1>21
    <2> QED
      BY <2>1, <1>12, <1>13, <1>21
  <1>22. CASE i \in {20, 29, 32}
    <2>1. j \in {20, 29, 32}
      BY <1>1, <1>2, <1>3, <1>4, <1>14, <1>22
    <2> QED
      BY <1>5, <1>14, <1>22, <2>1
  <1> QED
    BY <1>16, <1>17, <1>18, <1>19, <1>20, <1>21, <1>22

LEMMA GroupIDD ==
    ASSUME NEW i \in 34 .. 42, NEW j \in 34 .. 42, Begins(i, j)
    PROVE  i = j
  <1> DEFINE at(n, c) == Keywords[n][c]
             l(n) == Len(Keywords[n])
  <1>1. \A n \in 34 .. 42 : at(n, 2) = "2" <=> n \in 35 .. 37
    BY DEF Keywords
  <1>2. \A n \in 34 .. 42 : at(n, 2) = "3" <=> n \in 38 .. 39
    BY DEF Keywords
  <1>3. \A n \in 34 .. 42 : at(n, 2) = "4" <=> n \in 40 .. 41
    BY DEF Keywords
  <1>4. at(34, 2) # at(42, 2) /\ at(35, 3) # at(37, 3) /\ at(36, 3) # at(37, 3)
        /\ at(38, 3) # at(39, 3) /\ at(40, 3) # at(41, 3) /\ at(35, 4) # at(36, 4)
    BY DEF Keywords
  <1>5. /\ \A n \in 34 .. 42 : l(n) \in 2 .. 4
        /\ \A n \in 35 .. 41 : l(n) \in 3 .. 4
        /\ l(35) = 4 /\ l(36) = 4
    BY DEF Keywords
  <1>6. /\ l(i) <= l(j)
        /\ l(i) > 1 => at(i, 2) = at(j, 2)
        /\ l(i) > 2 => at(i, 3) = at(j, 3)
        /\ l(i) > 3 => at(i, 4) = at(j, 4)
    <2>1. i \in Places /\ j \in Places
      BY DEF Places
    <2> QED
      BY <2>1, Fragments
  <1> HIDE DEF at, l
  <1>7. at(i, 2) = at(j, 2)
    BY <1>5, <1>6
  <1>8. CASE i \in 35 .. 37
    <2>1. j \in 35 .. 37 /\ at(i, 3) = at(j, 3)
      BY <1>1, <1>5, <1>6, <1>7, <1>8
    <2> QED
      BY <2>1, <1>4, <1>5, <1>6, <1>8
  <1>9. CASE i \in 38 .. 39
    <2>1. j \in 38 .. 39 /\ at(i, 3) = at(j, 3)
      BY <1>2, <1>5, <1>6, <1>7, <1>9
    <2> QED
      BY <2>1, <1>4, <1>9
  <1>10. CASE i \in 40 .. 41
    <2>1. j \in 40 .. 41 /\ at(i, 3) = at(j, 3)
      BY <1>3, <1>5, <1>6, <1>7, <1>10
    <2> QED
      BY <2>1, <1>4, <1>10
  <1>11. CASE i \in {34, 42}
    <2>1. j \in {34, 42}
      BY <1>1, <1>2, <1>3, <1>7, <1>11
    <2> QED
      BY <2>1, <1>4, <1>7, <1>11
  <1> QED
    BY <1>8, <1>9, <1>10, <1>11

LEMMA OtherGroups ==
    ASSUME NEW G \in {6 .. 10, 3 .. 4, {43, 45}, {12, 44}},
           NEW i \in G, NEW j \in G, Begins(i, j)
    PROVE  i = j
  <1> DEFINE at(n) == Keywords[n][2]
             l(n) == Len(Keywords[n])
  <1>1. \A m, n \in {6, 8, 10} : at(m) = at(n) /\ m # n => {m, n} = {6, 10}
    BY DEF Keywords
  <1>2. at(7) = at(9) /\ at(7) # at(6) /\ at(7) # at(8) /\ at(6) # at(8) /\ at(3) # at(4)
        /\ at(43) # at(45) /\ at(12) # at(44)
    BY DEF Keywords
  <1>3. at(6) = at(10)
    BY DEF Keywords
  <1>4. Keywords[7][3] # Keywords[9][3] /\ Keywords[6][3] # Keywords[10][3]
    BY DEF Keywords
  <1>5. /\ \A n \in {3, 4, 8, 12, 43, 44, 45} : l(n) = 2
        /\ \A n \in {6, 7, 9, 10} : l(n) = 3
    BY DEF Keywords
  <1>6. /\ l(i) > 1 => at(i) = at(j)
        /\ l(i) > 2 => Keywords[i][3] = Keywords[j][3]
    <2>1. i \in Places /\ j \in Places
      BY DEF Places
    <2> QED
      BY <2>1, Fragments
  <1> HIDE DEF at, l
  <1>7. i \in {3, 4, 8, 12, 43, 44, 45, 6, 7, 9, 10}
    OBVIOUS
  <1>8. at(i) = at(j)
    BY <1>5, <1>6, <1>7
  <1>9. CASE i \in {3, 4, 8, 12, 43, 44, 45}
    BY <1>2, <1>3, <1>8, <1>9
  <1>10. CASE i \in {6, 7, 9, 10}
    <2>1. j \in 6 .. 10 /\ Keywords[i][3] = Keywords[j][3]
      BY <1>5, <1>6, <1>10
    <2> QED
      BY <2>1, <1>2, <1>3, <1>4, <1>8, <1>10
  <1> QED
    BY <1>7, <1>9, <1>10

LEMMA KeywordsApart ==
    ASSUME NEW i \in Places, NEW j \in Places, IsPrefix(Keywords[i], Keywords[j])
    PROVE  i <= j
  <1>1. Begins(i, j)
    BY Beginning
  <1>2. Keywords[i][1] = Keywords[j][1]
    BY <1>1, Fragments
  <1>3. CASE i = j
    BY <1>3 DEF Places
  <1>4. ASSUME NEW G \in {14 .. 32, 34 .. 42, 6 .. 10, 3 .. 4, {43, 45}, {12, 44}},
               i \in G, j \in G
        PROVE  i <= j
    <2>1. CASE G = 14 .. 32
      BY <1>1, <1>4, <2>1, GroupT
    <2>2. CASE G = 34 .. 42
      BY <1>1, <1>4, <2>2, GroupIDD
    <2>3. CASE G \in {6 .. 10, 3 .. 4, {43, 45}, {12, 44}}
      BY <1>1, <1>4, <2>3, OtherGroups DEF Places
    <2> QED
      BY <1>4, <2>1, <2>2, <2>3
  <1> QED
    BY <1>2, <1>3, <1>4, Groups

LEMMA Smallest ==
    ASSUME NEW P \in SUBSET Int, NEW i \in P, \A j \in P : i <= j
    PROVE  Min(P) = i
  <1>1. \E x \in P : \A y \in P : x <= y
    OBVIOUS
  <1>2. Min(P) \in P /\ \A y \in P : Min(P) <= y
    BY <1>1 DEF Min
  <1>3. Min(P) \in Int /\ i \in Int /\ i <= Min(P) /\ Min(P) <= i
    BY <1>2
  <1> QED
    BY <1>3

LEMMA KeywordDomain == DOMAIN Keywords = Places
  BY DEF Keywords, Places

\* A keyword stands for itself.
LEMMA TokenIsKeyword ==
    ASSUME NEW k \in Settings
    PROVE  Matching(Word(k)) # {} /\ Token(Word(k)) = k
  <1>1. PICK x \in Places : k = Keywords[x]
    BY KeywordDomain DEF Settings
  <1> DEFINE P == Matching(Word(k))
  <1>2. Len(k) \in Nat
    BY <1>1, KeywordForms
  <1>3. IsPrefix(k, Keywords[x])
    BY <1>1, <1>2 DEF IsPrefix
  <1>4. \A i : i \in P <=> i \in Places /\ IsPrefix(k, Keywords[i])
    BY KeywordDomain DEF Matching, Word
  <1>5. x \in P
    BY <1>3, <1>4
  <1>6. \A i \in P : x <= i
    BY <1>1, <1>4, KeywordsApart
  <1>7. P \in SUBSET Int
    BY <1>4 DEF Places
  <1> HIDE DEF P
  <1>8. Min(P) = x
    BY <1>5, <1>6, <1>7, Smallest
  <1> QED
    BY <1>1, <1>5, <1>8 DEF P, Token

LEMMA KeywordIsNoComment ==
    ASSUME NEW k \in Settings
    PROVE  ~IsComment(Word(k))
  <1> SUFFICES ASSUME IsPrefix(<<"//">>, k) PROVE FALSE
    BY DEF IsComment, Word
  <1>1. PICK i \in Places : k = Keywords[i]
    BY KeywordDomain DEF Settings
  <1>2. k[1] # "//"
    BY <1>1 DEF Keywords, Multiplier, Places
  <1>3. Len(k) \in 1 .. 4 /\ DOMAIN k = 1 .. Len(k)
    BY <1>1, KeywordForms
  <1>4. SubSeq(<<"//">>, 1, 1) = SubSeq(k, 1, 1)
    BY DEF IsPrefix
  <1>5. SubSeq(<<"//">>, 1, 1)[1] = "//"
    OBVIOUS
  <1>6. SubSeq(k, 1, 1)[1] = k[1]
    BY <1>3
  <1> QED
    BY <1>2, <1>4, <1>5, <1>6

LEMMA SettingFacts ==
    /\ Multiplier \in Settings /\ ~IsTiming(Multiplier)
    /\ \A k \in Settings : ~IsComment(Word(k))
    /\ \A k : Format(k) \in {"int", "float"}
  <1>1. Keywords[1] = Multiplier /\ Multiplier[1] = "PROCESSOR_CLK_MULTIPLIER"
    BY DEF Keywords, Multiplier
  <1>2. Multiplier \in Settings
    BY <1>1, KeywordDomain DEF Settings, Places
  <1>3. ~IsTiming(Multiplier)
    BY DEF IsTiming, Multiplier
  <1>4. ASSUME NEW k \in Settings PROVE ~IsComment(Word(k))
    BY KeywordIsNoComment
  <1>5. \A k : Format(k) \in {"int", "float"}
    BY DEF Format
  <1> QED
    BY <1>2, <1>3, <1>4, <1>5

-----------------------------------------------------------------------------
(* What is left of a file: where the next item and the next line begin.    *)

\* What a file holds.
Marks == Items \cup {EndOfLine}

LEMMA ItemFacts ==
    /\ \A x \in Items : x # EndOfLine /\ x \in Marks
    /\ EndOfLine \in Marks
    /\ \A c \in Seq(Items) : c \in Seq(Marks)
    /\ <<EndOfLine>> \in Seq(Marks) /\ Len(<<EndOfLine>>) = 1
  <1>1. \A x \in Items : x # EndOfLine
    <2>1. \A x \in Items : x.kind # "end of line"
      BY DEF Items
    <2>2. EndOfLine.kind = "end of line"
      BY DEF EndOfLine
    <2> QED
      BY <2>1, <2>2
  <1>2. <<EndOfLine>> \in Seq(Marks) /\ Len(<<EndOfLine>>) = 1
    BY DEF Marks
  <1>3. \A c \in Seq(Items) : c \in Seq(Marks)
    BY SeqMonotonic DEF Marks
  <1> QED
    BY <1>1, <1>2, <1>3 DEF Marks

LEMMA FromFirst ==
    ASSUME NEW s \in Seq(Marks), NEW P \in SUBSET DOMAIN s, NEW i \in P,
           \A j \in P : i <= j
    PROVE  From(s, P) = SubSeq(s, i, Len(s)) /\ i \in 1 .. Len(s)
  <1>1. P \in SUBSET Int /\ i \in 1 .. Len(s)
    OBVIOUS
  <1>2. Min(P) = i
    BY <1>1, Smallest
  <1> QED
    BY <1>1, <1>2 DEF From

LEMMA Joins ==
    ASSUME NEW c \in Seq(Marks), NEW s \in Seq(Marks)
    PROVE  LET t == c \o (<<EndOfLine>> \o s)
           IN  /\ t \in Seq(Marks) /\ Len(t) = Len(c) + 1 + Len(s)
               /\ \A i \in 1 .. Len(c) : t[i] = c[i]
               /\ t[Len(c) + 1] = EndOfLine
               /\ \A i \in 1 .. Len(s) : t[Len(c) + 1 + i] = s[i]
  <1> DEFINE e == <<EndOfLine>> \o s
             t == c \o e
  <1>1. Len(c) \in Nat /\ Len(s) \in Nat
    OBVIOUS
  <1>2. /\ e \in Seq(Marks) /\ Len(e) = 1 + Len(s) /\ e[1] = EndOfLine
        /\ \A i \in 1 .. Len(s) : e[1 + i] = s[i]
    <2>1. /\ e \in Seq(Marks) /\ Len(e) = 1 + Len(s)
          /\ \A i \in 1 .. 1 + Len(s) : e[i] = IF i <= 1 THEN <<EndOfLine>>[i] ELSE s[i - 1]
      BY ItemFacts, ConcatProperties
    <2> HIDE DEF e
    <2>2. e[1] = EndOfLine
      BY <1>1, <2>1
    <2>3. ASSUME NEW i \in 1 .. Len(s) PROVE e[1 + i] = s[i]
      <3>1. 1 + i \in 1 .. 1 + Len(s) /\ ~(1 + i <= 1) /\ (1 + i) - 1 = i
        BY <1>1
      <3> QED
        BY <2>1, <3>1
    <2> QED
      BY <2>1, <2>2, <2>3
  <1> HIDE DEF e
  <1>3. /\ t \in Seq(Marks) /\ Len(t) = Len(c) + Len(e)
        /\ \A i \in 1 .. Len(c) + Len(e) : t[i] = IF i <= Len(c) THEN c[i] ELSE e[i - Len(c)]
    <2>1. e \in Seq(Marks)
      BY <1>2
    <2> QED
      BY ONLY c \in Seq(Marks), <2>1, ConcatProperties
  <1> HIDE DEF t
  <1>4. ASSUME NEW i \in 1 .. Len(c) PROVE t[i] = c[i]
    <2>1. i \in 1 .. Len(c) + Len(e) /\ i <= Len(c)
      BY <1>1, <1>2
    <2> QED
      BY <1>3, <2>1
  <1>5. ASSUME NEW i \in 1 .. 1 + Len(s) PROVE t[Len(c) + i] = e[i]
    <2>1. Len(c) + i \in 1 .. Len(c) + Len(e) /\ ~(Len(c) + i <= Len(c))
          /\ (Len(c) + i) - Len(c) = i
      BY <1>1, <1>2
    <2> QED
      BY <1>3, <2>1
  <1>6. t[Len(c) + 1] = EndOfLine
    BY <1>1, <1>2, <1>5
  <1>7. ASSUME NEW i \in 1 .. Len(s) PROVE t[Len(c) + 1 + i] = s[i]
    <2>1. 1 + i \in 1 .. 1 + Len(s) /\ Len(c) + (1 + i) = Len(c) + 1 + i
      BY <1>1
    <2> QED
      BY <1>2, <1>5, <2>1
  <1>8. Len(t) = Len(c) + 1 + Len(s)
    BY <1>1, <1>2, <1>3
  <1> QED
    BY <1>3, <1>4, <1>6, <1>7, <1>8 DEF t, e

\* The place after c and the end of the line, and all places after it.
LEMMA AfterEnd ==
    ASSUME NEW c \in Seq(Marks), NEW s \in Seq(Marks), NEW k \in 1 .. Len(s) + 1
    PROVE  LET t == c \o (<<EndOfLine>> \o s)
           IN  SubSeq(t, Len(c) + 1 + k, Len(t)) = SubSeq(s, k, Len(s))
  <1> PICK t : t = c \o (<<EndOfLine>> \o s)
    OBVIOUS
  <1> PICK l : l = Len(c) + 1
    OBVIOUS
  <1> PICK m : m = Len(s)
    OBVIOUS
  <1>1. /\ t \in Seq(Marks) /\ Len(t) = l + m
        /\ \A i \in 1 .. m : t[l + i] = s[i]
    BY Joins
  <1>2. l \in Nat /\ m \in Nat /\ k \in 1 .. m + 1
    OBVIOUS
  <1>3. \A i \in l + k .. l + m : t[i] \in Marks
    <2>1. ASSUME NEW i \in l + k .. l + m PROVE i \in 1 .. Len(t)
      BY <1>1, <1>2
    <2> QED
      BY <1>1, <2>1, ElementOfSeq
  <1>4. \A i \in k .. m : s[i] \in Marks
    <2>1. ASSUME NEW i \in k .. m PROVE i \in 1 .. Len(s)
      BY <1>2
    <2> QED
      BY <2>1, ElementOfSeq
  <1> PICK a, b : a = SubSeq(t, l + k, l + m) /\ b = SubSeq(s, k, m)
    OBVIOUS
  <1>5. /\ a \in Seq(Marks) /\ Len(a) = IF l + k <= l + m THEN (l + m) - (l + k) + 1 ELSE 0
        /\ \A i \in 1 .. (l + m) - (l + k) + 1 : a[i] = t[l + k + i - 1]
    <2>1. l + k \in Int /\ l + m \in Int
      BY <1>2
    <2> QED
      BY ONLY <1>3, <2>1, a = SubSeq(t, l + k, l + m), SubSeqProperties
  <1>6. /\ b \in Seq(Marks) /\ Len(b) = IF k <= m THEN m - k + 1 ELSE 0
        /\ \A i \in 1 .. m - k + 1 : b[i] = s[k + i - 1]
    <2>1. k \in Int /\ m \in Int
      BY <1>2
    <2> QED
      BY ONLY <1>4, <2>1, b = SubSeq(s, k, m), SubSeqProperties
  <1>7. Len(a) = Len(b) /\ Len(b) \in Nat /\ Len(b) <= m - k + 1
    <2>1. /\ Len(a) = IF l + k <= l + m THEN (l + m) - (l + k) + 1 ELSE 0
          /\ Len(b) = IF k <= m THEN m - k + 1 ELSE 0
      BY <1>5, <1>6
    <2> QED
      BY ONLY <1>2, <2>1
  <1>8. ASSUME NEW i \in 1 .. Len(a) PROVE a[i] = b[i]
    <2>1. /\ i \in 1 .. (l + m) - (l + k) + 1 /\ i \in 1 .. m - k + 1
          /\ l + k + i - 1 = l + (k + i - 1) /\ k + i - 1 \in 1 .. m
      BY <1>2, <1>7
    <2> QED
      BY <1>1, <1>5, <1>6, <2>1
  <1>9. a = b
    <2>1. a \in Seq(Marks) /\ b \in Seq(Marks) /\ Len(a) = Len(b)
      BY <1>5, <1>6, <1>7
    <2> QED
      BY ONLY <2>1, <1>8, SeqEqual
  <1> QED
    BY <1>1, <1>9

(* Induction over the numbers, by the least counterexample.                *)

LEMMA Least ==
    ASSUME NEW T \in SUBSET Nat, T # {}
    PROVE  \E n \in T : \A m \in T : n <= m
  <1> DEFINE R == {ss \in Nat \X Nat : ss[1] < ss[2]}
  <1>1. IsWellFoundedOn(R, Nat)
    BY NatLessThanWellFounded DEF OpToRel
  <1>2. PICK n \in T : \A m \in T : ~ (<<m, n>> \in R)
    BY <1>1, WFMin
  <1>3. ASSUME NEW m \in T PROVE n <= m
    <2>1. <<m, n>> \in Nat \X Nat /\ <<m, n>> \notin R
      BY <1>2
    <2>2. ~(<<m, n>>[1] < <<m, n>>[2])
      BY <2>1
    <2>3. ~(m < n) /\ m \in Nat /\ n \in Nat
      BY <2>2
    <2> QED
      BY <2>3
  <1> QED
    BY <1>3

LEMMA Induction ==
    ASSUME NEW T, 0 \in T, \A n \in Nat : n \in T => n + 1 \in T
    PROVE  Nat \subseteq T
  <1> SUFFICES ASSUME Nat \ T # {} PROVE FALSE
    OBVIOUS
  <1>1. PICK n \in Nat \ T : \A m \in Nat \ T : n <= m
    BY Least
  <1>2. n - 1 \in Nat \ T
    BY <1>1
  <1> QED
    BY <1>1, <1>2


\* s holds c, which is left of a line, and then the later lines.
Line(c, later, s) ==
    \/ s = c \o (<<EndOfLine>> \o later)
    \/ later = <<>> /\ s = c

LEMMA LineSkipped ==
    ASSUME NEW later \in Seq(Marks), NEW s, Line(<<>>, later, s)
    PROVE  s \in Seq(Marks) /\ NextItem(s) = NextItem(later)
  <1>1. CASE later = <<>> /\ s = <<>>
    BY <1>1
  <1>2. CASE s = <<>> \o (<<EndOfLine>> \o later)
    <2> DEFINE Q(x) == {i \in DOMAIN x : x[i] # EndOfLine}
    <2> PICK m : m = Len(later)
      OBVIOUS
    <2>1. <<>> \in Seq(Marks) /\ Len(<<>>) = 0 /\ m \in Nat
      BY EmptySeq
    <2>2. /\ s \in Seq(Marks) /\ Len(s) = 1 + m /\ s[1] = EndOfLine
          /\ \A i \in 1 .. m : s[1 + i] = later[i]
      BY <1>2, <2>1, Joins
    <2>3. DOMAIN s = 1 .. 1 + m /\ DOMAIN later = 1 .. m
      BY <2>2
    <2>4. ASSUME NEW i PROVE i \in Q(s) <=> i - 1 \in Q(later) /\ i \in 1 .. 1 + m
      <3>1. CASE i = 1
        BY <2>1, <2>2, <2>3, <3>1
      <3>2. CASE i \in 2 .. 1 + m
        <4>1. i - 1 \in 1 .. m /\ i = 1 + (i - 1)
          BY <2>1, <3>2
        <4> QED
          BY <2>2, <2>3, <3>2, <4>1
      <3> QED
        BY <2>1, <2>3, <3>1, <3>2
    <2>5. Q(s) \in SUBSET DOMAIN s /\ Q(later) \in SUBSET DOMAIN later
      OBVIOUS
    <2>6. NextItem(s) = From(s, Q(s)) /\ NextItem(later) = From(later, Q(later))
      BY DEF NextItem
    <2> HIDE DEF Q
    <2>7. CASE Q(later) = {}
      <3>1. Q(s) = {}
        BY <2>4, <2>7
      <3> QED
        BY <2>2, <2>6, <2>7, <3>1 DEF From
    <2>8. CASE Q(later) # {}
      <3>1. Q(later) \in SUBSET Nat
        BY <2>1, <2>3, <2>5
      <3>2. PICK i \in Q(later) : \A j \in Q(later) : i <= j
        BY <2>8, <3>1, Least
      <3>3. i \in 1 .. m
        BY <2>3, <2>5
      <3>4. From(later, Q(later)) = SubSeq(later, i, m)
        BY <2>5, <3>2, FromFirst
      <3>5. 1 + i \in Q(s)
        <4>1. (1 + i) - 1 = i /\ 1 + i \in 1 .. 1 + m
          BY <2>1, <3>3
        <4> QED
          BY <2>4, <4>1
      <3>6. ASSUME NEW j \in Q(s) PROVE 1 + i <= j
        <4>1. j - 1 \in Q(later) /\ j \in 1 .. 1 + m
          BY <2>4
        <4>2. i <= j - 1
          BY <3>2, <4>1
        <4> QED
          BY <3>3, <4>1, <4>2, <2>1
      <3>7. From(s, Q(s)) = SubSeq(s, 1 + i, Len(s))
        BY ONLY <2>2, <2>5, <3>5, <3>6, FromFirst
      <3>8. SubSeq(s, 0 + 1 + i, Len(s)) = SubSeq(later, i, m)
        <4>1. i \in 1 .. m + 1
          BY <2>1, <3>3
        <4> QED
          BY <1>2, <2>1, <4>1, AfterEnd
      <3>9. 0 + 1 + i = 1 + i
        BY <3>3
      <3> QED
        BY <2>2, <2>6, <3>4, <3>7, <3>8, <3>9
    <2> QED
      BY <2>7, <2>8
  <1> QED
    BY <1>1, <1>2 DEF Line

LEMMA LineItem ==
    ASSUME NEW c \in Seq(Items), c # <<>>, NEW later \in Seq(Marks),
           NEW s, Line(c, later, s)
    PROVE  /\ s \in Seq(Marks) /\ s # <<>> /\ NextItem(s) = s /\ Head(s) = c[1]
           /\ Tail(s) \in Seq(Marks) /\ Line(Tail(c), later, Tail(s))
  <1> DEFINE e == <<EndOfLine>> \o later
  <1>1. c \in Seq(Marks) /\ c[1] \in Items /\ Len(c) \in Nat \ {0}
        /\ <<EndOfLine>> \in Seq(Marks)
    BY ItemFacts
  <1>2. e \in Seq(Marks)
    BY ONLY <1>1, later \in Seq(Marks), ConcatProperties
  <1> HIDE DEF e
  <1>3. s \in Seq(Marks) /\ Len(s) >= 1 /\ Len(s) \in Nat /\ s[1] = c[1]
    <2>1. CASE s = c
      BY <1>1, <2>1
    <2>2. CASE s = c \o e
      <3>1. /\ s \in Seq(Marks) /\ Len(s) = Len(c) + Len(e)
            /\ \A i \in 1 .. Len(c) + Len(e) : s[i] = IF i <= Len(c) THEN c[i] ELSE e[i - Len(c)]
        BY ONLY <1>1, <1>2, <2>2, ConcatProperties
      <3>2. Len(e) \in Nat
        BY <1>2
      <3>3. 1 \in 1 .. Len(c) + Len(e) /\ 1 <= Len(c)
        BY <1>1, <3>2
      <3> QED
        BY <3>1, <3>3
    <2> QED
      BY <2>1, <2>2 DEF Line, e
  <1>4. s # <<>> /\ Head(s) = c[1] /\ Tail(s) \in Seq(Marks)
    BY <1>3
  <1>5. NextItem(s) = s
    <2> DEFINE Q == {i \in DOMAIN s : s[i] # EndOfLine}
    <2>1. Q \in SUBSET DOMAIN s /\ 1 \in Q /\ \A j \in Q : 1 <= j
      BY <1>1, <1>3, ItemFacts
    <2>2. NextItem(s) = From(s, Q)
      BY DEF NextItem
    <2> HIDE DEF Q
    <2>3. From(s, Q) = SubSeq(s, 1, Len(s))
      BY <1>3, <2>1, FromFirst
    <2> QED
      BY <1>3, <2>2, <2>3, SubSeqFull
  <1>6. Line(Tail(c), later, Tail(s))
    <2>1. CASE later = <<>> /\ s = c
      BY <2>1 DEF Line
    <2>2. CASE s = c \o e
      <3>1. Tail(c) \in Seq(Marks) /\ c = <<c[1]>> \o Tail(c) /\ <<c[1]>> \in Seq(Marks)
        <4>1. Tail(c) \in Seq(Marks) /\ <<c[1]>> \in Seq(Marks) /\ Len(Tail(c)) = Len(c) - 1
              /\ \A i \in 1 .. Len(Tail(c)) : Tail(c)[i] = c[i + 1]
          BY <1>1
        <4>2. /\ <<c[1]>> \o Tail(c) \in Seq(Marks)
              /\ Len(<<c[1]>> \o Tail(c)) = Len(<<c[1]>>) + Len(Tail(c))
              /\ \A i \in 1 .. Len(<<c[1]>>) + Len(Tail(c)) : (<<c[1]>> \o Tail(c))[i] =
                     IF i <= Len(<<c[1]>>) THEN <<c[1]>>[i] ELSE Tail(c)[i - Len(<<c[1]>>)]
          BY ONLY <4>1, ConcatProperties
        <4> QED
          BY <1>1, <4>1, <4>2
      <3>2. s = <<c[1]>> \o (Tail(c) \o e)
        <4>1. s = (<<c[1]>> \o Tail(c)) \o e
          BY <2>2, <3>1
        <4> QED
          BY ONLY <1>2, <3>1, <4>1, ConcatAssociative
      <3>3. Tail(c) \o e \in Seq(Marks)
        BY ONLY <1>2, <3>1, ConcatProperties
      <3>4. Tail(s) = Tail(c) \o e
        BY <3>1, <3>2, <3>3
      <3> QED
        BY <3>4 DEF Line, e
    <2> QED
      BY <2>1, <2>2 DEF Line, e
  <1> QED
    BY <1>3, <1>4, <1>5, <1>6

LEMMA LineEnd ==
    ASSUME NEW c \in Seq(Items), NEW later \in Seq(Marks), NEW s, Line(c, later, s)
    PROVE  s \in Seq(Marks) /\ SkipComment(s) = later
  <1> DEFINE Q == {i \in DOMAIN s : s[i] = EndOfLine}
  <1>1. c \in Seq(Marks) /\ Len(c) \in Nat /\ DOMAIN c = 1 .. Len(c)
    BY ItemFacts
  <1>2. \A i \in 1 .. Len(c) : c[i] # EndOfLine
    BY ItemFacts
  <1>3. CASE later = <<>> /\ s = c
    <2>1. Q = {}
      BY <1>1, <1>2, <1>3
    <2> QED
      BY <1>1, <1>3, <2>1 DEF SkipComment, From
  <1>4. CASE s = c \o (<<EndOfLine>> \o later)
    <2> PICK l : l = Len(c) + 1
      OBVIOUS
    <2>1. /\ s \in Seq(Marks) /\ Len(s) = l + Len(later)
          /\ \A i \in 1 .. Len(c) : s[i] = c[i]
          /\ s[l] = EndOfLine
      BY <1>1, <1>4, Joins
    <2>2. Len(later) \in Nat /\ l \in Nat /\ Len(s) \in Nat
      BY <1>1, <2>1
    <2>3. l \in Q
      BY <1>1, <2>1, <2>2
    <2>4. \A j \in Q : l <= j
      <3>1. ASSUME NEW j \in Q PROVE ~(j \in 1 .. Len(c))
        BY <1>2, <2>1
      <3> QED
        BY <1>1, <2>1, <3>1
    <2>5. Q \in SUBSET DOMAIN s
      OBVIOUS
    <2>6. SkipComment(s) = IF From(s, Q) = <<>> THEN <<>> ELSE Tail(From(s, Q))
      BY DEF SkipComment
    <2> HIDE DEF Q
    <2>7. From(s, Q) = SubSeq(s, l, Len(s))
      BY <2>1, <2>3, <2>4, <2>5, FromFirst
    <2>8. SubSeq(s, l, Len(s)) # <<>> /\ Tail(SubSeq(s, l, Len(s))) = SubSeq(s, l + 1, Len(s))
      <3>1. l \in 1 .. Len(s) /\ Len(s) \in l .. Len(s)
        BY <1>1, <2>1, <2>2
      <3>2. Tail(SubSeq(s, l, Len(s))) = SubSeq(s, l + 1, Len(s))
        BY ONLY <2>1, <3>1, HeadTailOfSubSeq
      <3>3. SubSeq(s, l, Len(s)) = <<s[l]>> \o SubSeq(s, l + 1, Len(s))
        BY ONLY <2>1, <3>1, SubSeqRecursiveFirst
      <3>4. SubSeq(s, l + 1, Len(s)) \in Seq(Marks) /\ <<s[l]>> \in Seq(Marks)
        BY <2>1, <2>2, <3>1
      <3>5. SubSeq(s, l, Len(s)) # <<>>
        <4>1. PICK u : u = SubSeq(s, l + 1, Len(s))
          OBVIOUS
        <4>2. <<s[l]>> \o u # <<>>
          BY <3>4, <4>1
        <4> QED
          BY ONLY <3>3, <4>1, <4>2
      <3> QED
        BY ONLY <3>2, <3>5
    <2>9. SubSeq(s, l + 1, Len(s)) = SubSeq(later, 1, Len(later))
      <3>1. 1 \in 1 .. Len(later) + 1
        BY <2>2
      <3> QED
        BY <1>1, <1>4, <3>1, AfterEnd
    <2>10. SubSeq(later, 1, Len(later)) = later
      BY SubSeqFull
    <2> QED
      BY <2>1, <2>6, <2>7, <2>8, <2>9, <2>10
  <1> QED
    BY <1>3, <1>4 DEF Line

\* The concatenation of the first i sequences, as FlattenSeq computes it.
Joined(seqs, g, i) == IF i = 1 THEN seqs[i] ELSE g[i - 1] \o seqs[i]

LEMMA JoinExists ==
    ASSUME NEW seqs, NEW m \in Nat
    PROVE  \E g : g = [i \in 1 .. m |-> Joined(seqs, g, i)]
  <1> DEFINE Solves(g, k) == g = [i \in 1 .. k |-> Joined(seqs, g, i)]
             T == {k \in Nat : \E g : Solves(g, k)}
  <1>1. 0 \in T
    <2> DEFINE g == [i \in 1 .. 0 |-> <<>>]
    <2>1. Solves(g, 0)
      OBVIOUS
    <2> HIDE DEF g
    <2> QED
      BY <2>1
  <1>2. ASSUME NEW k \in Nat, k \in T PROVE k + 1 \in T
    <2>1. PICK g : Solves(g, k)
      BY <1>2
    <2> DEFINE h == [i \in 1 .. k + 1 |-> Joined(seqs, g, i)]
    <2>2. ASSUME NEW i \in 1 .. k PROVE h[i] = g[i]
      BY <2>1
    <2>5. h = [i \in 1 .. k + 1 |-> Joined(seqs, g, i)]
      OBVIOUS
    <2> HIDE DEF h
    <2>3. ASSUME NEW i \in 1 .. k + 1
          PROVE  Joined(seqs, h, i) = Joined(seqs, g, i)
      <3>1. CASE i = 1
        BY <3>1 DEF Joined
      <3>2. CASE i # 1
        <4>1. i - 1 \in 1 .. k
          BY <3>2
        <4>2. h[i - 1] = g[i - 1]
          BY <4>1, <2>2
        <4> QED
          BY <3>2, <4>2 DEF Joined
      <3> QED
        BY <3>1, <3>2
    <2>4. Solves(h, k + 1)
      BY <2>3, <2>5
    <2> QED
      BY <2>4
  <1>3. m \in T
    <2> HIDE DEF T
    <2> QED
      BY <1>1, <1>2, Induction
  <1> QED
    BY <1>3

LEMMA FrontOfJoin ==
    ASSUME NEW s \in Seq(Marks), NEW e \in Marks
    PROVE  Front(s \o <<e>>) = s
  <1> PICK t : t = s \o <<e>>
    OBVIOUS
  <1>1. <<e>> \in Seq(Marks) /\ Len(<<e>>) = 1 /\ Len(s) \in Nat
    OBVIOUS
  <1>2. t \in Seq(Marks) /\ Len(t) = Len(s) + 1
    BY <1>1, ConcatProperties
  <1>3. Front(t) = SubSeq(t, 1, Len(s))
    BY <1>1, <1>2 DEF Front
  <1>4. CASE s = <<>>
    <2>1. Len(s) = 0
      BY <1>4
    <2> QED
      BY <1>3, <1>4, <2>1, SubSeqEmpty
  <1>5. CASE s # <<>>
    <2>1. 1 \in 1 .. Len(s) /\ Len(s) \in 1 .. Len(s)
      BY <1>1, <1>5
    <2>2. SubSeq(t, 1, Len(s)) = SubSeq(s, 1, Len(s))
      BY <1>1, <2>1, SubSeqOfConcat1
    <2> QED
      BY <1>3, <2>2, SubSeqFull
  <1> QED
    BY <1>4, <1>5

\* What comes after k lines of F, if behind them comes tail.
Chain(F, r, k, tail) ==
    /\ r \in [0 .. k -> Seq(Marks)] /\ r[k] = tail
    /\ \A j \in 1 .. k : r[j - 1] = F[j] \o (<<EndOfLine>> \o r[j])

\* h[k]: the first k lines of F
Opening(F, h, k) ==
    /\ h \in [0 .. k -> Seq(Marks)] /\ h[0] = <<>>
    /\ \A j \in 1 .. k : h[j] = h[j - 1] \o (F[j] \o <<EndOfLine>>)

Chained(F, h, k) ==
    \A u \in Seq(Marks) : \E r : Chain(F, r, k, u) /\ r[0] = h[k] \o u

LEMMA ChainExists ==
    ASSUME NEW F \in Seq(Seq(Items)), NEW h, Opening(F, h, Len(F)),
           NEW k \in 0 .. Len(F)
    PROVE  Chained(F, h, k)
  <1> DEFINE T == {m \in Nat : m <= Len(F) => Chained(F, h, m)}
  <1>1. 0 \in T
    <2> SUFFICES ASSUME NEW u \in Seq(Marks)
                 PROVE  \E r : Chain(F, r, 0, u) /\ r[0] = h[0] \o u
      BY DEF Chained
    <2> PICK r : r = [j \in 0 .. 0 |-> u]
      OBVIOUS
    <2>1. r[0] = u /\ Chain(F, r, 0, u)
      BY DEF Chain
    <2>2. h[0] \o u = u
      BY ConcatEmptySeq DEF Opening
    <2> QED
      BY <2>1, <2>2
  <1>2. ASSUME NEW m \in Nat, m \in T PROVE m + 1 \in T
    <2>10. m <= Len(F) => Chained(F, h, m)
      BY <1>2
    <2> HIDE DEF T
    <2> SUFFICES m + 1 <= Len(F) => Chained(F, h, m + 1)
      BY DEF T
    <2> SUFFICES ASSUME m + 1 <= Len(F), NEW u \in Seq(Marks)
                 PROVE  \E r : Chain(F, r, m + 1, u) /\ r[0] = h[m + 1] \o u
      BY DEF Chained
    <2> PICK c, e : c = F[m + 1] /\ e = <<EndOfLine>>
      OBVIOUS
    <2> PICK v : v = c \o (e \o u)
      OBVIOUS
    <2>1. m + 1 \in 1 .. Len(F) /\ (m + 1) - 1 = m /\ m \in 0 .. Len(F)
      OBVIOUS
    <2>2. c \in Seq(Marks) /\ e \in Seq(Marks)
      BY <2>1, ItemFacts
    <2>3. e \o u \in Seq(Marks) /\ c \o e \in Seq(Marks)
      BY <2>2, ConcatProperties
    <2>4. v \in Seq(Marks)
      BY <2>2, <2>3, ConcatProperties
    <2>5. PICK r : Chain(F, r, m, v) /\ r[0] = h[m] \o v
      <3>1. Chained(F, h, m)
        BY <2>10, <2>1
      <3> QED
        BY <2>4, <3>1 DEF Chained
    <2> PICK s : s = [j \in 0 .. m + 1 |-> IF j = m + 1 THEN u ELSE r[j]]
      OBVIOUS
    <2>6. s[m + 1] = u /\ \A j \in 0 .. m : s[j] = r[j] /\ r[j] \in Seq(Marks)
      <3>1. \A j \in 0 .. m : r[j] \in Seq(Marks)
        BY <2>5 DEF Chain
      <3>2. ASSUME NEW j \in 0 .. m PROVE s[j] = r[j]
        <4>1. j \in 0 .. m + 1 /\ j # m + 1
          OBVIOUS
        <4> QED
          BY <4>1
      <3>3. m + 1 \in 0 .. m + 1
        OBVIOUS
      <3> QED
        BY <3>1, <3>2, <3>3
    <2>7. s \in [0 .. m + 1 -> Seq(Marks)]
      <3>1. ASSUME NEW j \in 0 .. m + 1 PROVE s[j] \in Seq(Marks)
        <4>1. j = m + 1 \/ j \in 0 .. m
          OBVIOUS
        <4> QED
          BY <2>6, <4>1
      <3> QED
        BY <3>1
    <2>8. ASSUME NEW j \in 1 .. m + 1
          PROVE  s[j - 1] = F[j] \o (<<EndOfLine>> \o s[j])
      <3>1. CASE j = m + 1
        <4>1. s[m] = v
          <5>1. m \in 0 .. m
            OBVIOUS
          <5> QED
            BY <2>5, <2>6, <5>1 DEF Chain
        <4> QED
          BY <2>1, <2>6, <3>1, <4>1
      <3>2. CASE j \in 1 .. m
        <4>1. j \in 0 .. m /\ j - 1 \in 0 .. m
          BY <3>2
        <4> QED
          BY <2>5, <2>6, <3>2, <4>1 DEF Chain
      <3>3. j = m + 1 \/ j \in 1 .. m
        OBVIOUS
      <3> QED
        BY ONLY <3>1, <3>2, <3>3
    <2>9. s[0] = h[m + 1] \o u
      <3>1. h[m + 1] = h[m] \o (c \o e) /\ h[m] \in Seq(Marks)
        BY <2>1 DEF Opening
      <3>2. (h[m] \o (c \o e)) \o u = h[m] \o ((c \o e) \o u)
        <4> PICK x, y : x = h[m] /\ y = c \o e
          OBVIOUS
        <4>1. x \in Seq(Marks) /\ y \in Seq(Marks)
          BY <2>3, <3>1
        <4>2. (x \o y) \o u = x \o (y \o u)
          BY ONLY <4>1, u \in Seq(Marks), ConcatAssociative, SMTT(30)
        <4> QED
          BY <4>2
      <3>3. (c \o e) \o u = v
        BY ONLY <2>2, u \in Seq(Marks), v = c \o (e \o u), ConcatAssociative,
              SMTT(30)
      <3>4. s[0] = r[0]
        BY <2>6
      <3> QED
        BY <2>5, <3>1, <3>2, <3>3, <3>4
    <2> QED
      BY <2>6, <2>7, <2>8, <2>9 DEF Chain
  <1>3. k \in T
    <2>1. k \in Nat
      OBVIOUS
    <2> HIDE DEF T
    <2>2. Nat \subseteq T
      BY ONLY <1>1, <1>2, Induction
    <2> QED
      BY ONLY <2>1, <2>2
  <1> QED
    BY <1>3

\* The lines of F as FlattenSeq puts them together.
LEMMA OpeningExists ==
    ASSUME NEW F \in Seq(Seq(Items)), F # <<>>
    PROVE  \E h : /\ Opening(F, h, Len(F))
                  /\ h[Len(F)] = FlattenSeq([i \in DOMAIN F |-> F[i] \o <<EndOfLine>>])
  <1> DEFINE parts == [i \in DOMAIN F |-> F[i] \o <<EndOfLine>>]
  <1> PICK n : n = Len(F)
    OBVIOUS
  <1>1. n \in Nat \ {0} /\ DOMAIN F = 1 .. n
    BY EmptySeq, LenProperties
  <1>2. ASSUME NEW i \in 1 .. n
        PROVE  parts[i] = F[i] \o <<EndOfLine>> /\ parts[i] \in Seq(Marks)
    <2>1. F[i] \in Seq(Marks) /\ <<EndOfLine>> \in Seq(Marks)
      BY <1>1, ItemFacts
    <2> QED
      BY <1>1, <2>1, ConcatProperties
  <1>3. parts \in [1 .. n -> Seq(Marks)]
    BY <1>1, <1>2
  <1> HIDE DEF parts
  <1>4. Len(parts) = n
    BY <1>1, <1>3
  <1> DEFINE flat == CHOOSE g : g = [i \in 1 .. n |-> Joined(parts, g, i)]
  <1>5. flat = [i \in 1 .. n |-> Joined(parts, flat, i)]
    BY <1>1, JoinExists
  <1>6. FlattenSeq(parts) = flat[n]
    BY <1>1, <1>4 DEF FlattenSeq, Joined
  <1> HIDE DEF flat
  <1> PICK h : h = [k \in 0 .. n |-> IF k = 0 THEN <<>> ELSE flat[k]]
    OBVIOUS
  <1>7. h[0] = <<>> /\ \A k \in 1 .. n : h[k] = flat[k]
    BY <1>1
  <1>8. ASSUME NEW k \in 1 .. n
        PROVE  \/ flat[k] = h[k - 1] \o parts[k]
               \/ flat[k] = parts[k] /\ k = 1
    <2>1. flat[k] = Joined(parts, flat, k)
      BY <1>5
    <2>2. CASE k = 1
      BY <2>1, <2>2 DEF Joined
    <2>3. CASE k # 1
      <3>1. k - 1 \in 1 .. n
        BY <1>1, <2>3
      <3> QED
        <4>1. flat[k] = flat[k - 1] \o parts[k]
          BY <2>1, <2>3 DEF Joined
        <4>2. h[k - 1] = flat[k - 1]
          BY <1>7, <3>1
        <4> QED
          BY ONLY <4>1, <4>2
    <2> QED
      BY <2>2, <2>3
  <1>9. ASSUME NEW k \in 1 .. n PROVE h[k] = h[k - 1] \o parts[k]
    <2>1. CASE k = 1
      <3>1. h[k - 1] \o parts[k] = parts[k]
        <4>1. h[k - 1] = <<>> /\ parts[k] \in Seq(Marks)
          BY <1>2, <1>7, <2>1
        <4> QED
          BY ONLY <4>1, ConcatEmptySeq
      <3> QED
        BY <1>7, <1>8, <3>1
    <2>2. CASE k # 1
      BY <1>7, <1>8, <2>2
    <2> QED
      BY <2>1, <2>2
  <1> DEFINE T == {k \in Nat : k <= n => h[k] \in Seq(Marks)}
  <1>10. 0 \in T
    BY <1>7, EmptySeq
  <1>11. ASSUME NEW k \in Nat, k \in T PROVE k + 1 \in T
    <2> SUFFICES ASSUME k + 1 <= n PROVE h[k + 1] \in Seq(Marks)
      OBVIOUS
    <2>1. h[k] \in Seq(Marks) /\ k + 1 \in 1 .. n /\ (k + 1) - 1 = k
      BY <1>1, <1>11
    <2>2. h[k + 1] = h[k] \o parts[k + 1] /\ parts[k + 1] \in Seq(Marks)
      BY <1>2, <1>9, <2>1
    <2> QED
      BY ONLY <2>1, <2>2, ConcatProperties
  <1>12. ASSUME NEW k \in 0 .. n PROVE h[k] \in Seq(Marks)
    <2>1. Nat \subseteq T
      <3> HIDE DEF T
      <3> QED
        BY <1>10, <1>11, Induction
    <2> QED
      BY <1>1, <2>1
  <1>13. h \in [0 .. n -> Seq(Marks)]
    BY <1>12
  <1>14. Opening(F, h, n)
    BY <1>2, <1>7, <1>9, <1>13 DEF Opening
  <1>15. h[n] = FlattenSeq(parts)
    BY <1>1, <1>6, <1>7
  <1> QED
    BY <1>14, <1>15 DEF parts

\* r[k]: what comes after the first k lines of a file
Remains(F, r) ==
    /\ r \in [0 .. Len(F) -> Seq(Marks)] /\ r[Len(F)] = <<>>
    /\ \A k \in 1 .. Len(F) : Line(F[k], r[k], r[k - 1])

LEMMA WrittenRemains ==
    ASSUME NEW F \in Seq(Seq(Items)), F # <<>>, NEW ended \in BOOLEAN
    PROVE  \E r : Remains(F, r) /\ r[0] = Written(F, ended)
  <1> PICK n : n = Len(F)
    OBVIOUS
  <1>1. n \in Nat \ {0} /\ n \in 0 .. n /\ n - 1 \in 0 .. n /\ n \in 1 .. n
    BY EmptySeq, LenProperties
  <1>2. PICK h : /\ Opening(F, h, n)
                 /\ h[n] = FlattenSeq([i \in DOMAIN F |-> F[i] \o <<EndOfLine>>])
    BY OpeningExists
  <1>3. h[n] \in Seq(Marks) /\ h[n - 1] \in Seq(Marks)
    BY <1>1, <1>2 DEF Opening
  <1>4. CASE ended
    <2>1. <<>> \in Seq(Marks)
      BY EmptySeq
    <2>2. PICK r : Chain(F, r, n, <<>>) /\ r[0] = h[n] \o <<>>
      <3>1. n \in 0 .. Len(F) /\ Opening(F, h, Len(F))
        BY <1>1, <1>2
      <3>2. Chained(F, h, n)
        BY <3>1, ChainExists
      <3> QED
        BY <2>1, <3>2 DEF Chained
    <2>3. r[0] = h[n]
      BY <1>3, <2>2, ConcatEmptySeq
    <2>4. Remains(F, r)
      BY <2>2 DEF Chain, Remains, Line
    <2> QED
      BY <1>2, <1>4, <2>3, <2>4 DEF Written
  <1>5. CASE ~ended
    <2> PICK c, e : c = F[n] /\ e = <<EndOfLine>>
      OBVIOUS
    <2>1. c \in Seq(Marks) /\ e \in Seq(Marks)
      BY <1>1, ItemFacts
    <2>2. PICK r : Chain(F, r, n - 1, c) /\ r[0] = h[n - 1] \o c
      <3>1. n - 1 \in 0 .. Len(F) /\ Opening(F, h, Len(F))
        BY <1>1, <1>2
      <3>2. Chained(F, h, n - 1)
        BY <3>1, ChainExists
      <3> QED
        BY <2>1, <3>2 DEF Chained
    <2>3. Written(F, ended) = r[0]
      <3>1. h[n] = h[n - 1] \o (c \o e)
        BY <1>1, <1>2 DEF Opening
      <3>2. h[n] = r[0] \o e
        <4> PICK x : x = h[n - 1]
          OBVIOUS
        <4>1. (x \o c) \o e = x \o (c \o e)
          <5>1. x \in Seq(Marks)
            BY <1>3
          <5> QED
            BY ONLY <2>1, <5>1, ConcatAssociative, SMTT(30)
        <4> QED
          BY <2>2, <3>1, <4>1
      <3>3. r[0] \in Seq(Marks)
        BY <1>3, <2>1, <2>2, ConcatProperties
      <3>4. Front(h[n]) = r[0]
        BY <3>2, <3>3, ItemFacts, FrontOfJoin
      <3> QED
        BY <1>2, <1>5, <3>4 DEF Written
    <2> PICK s : s = [j \in 0 .. n |-> IF j = n THEN <<>> ELSE r[j]]
      OBVIOUS
    <2>4. s[n] = <<>> /\ \A j \in 0 .. n - 1 : s[j] = r[j] /\ r[j] \in Seq(Marks)
      <3>1. \A j \in 0 .. n - 1 : r[j] \in Seq(Marks)
        BY <2>2 DEF Chain
      <3>2. ASSUME NEW j \in 0 .. n - 1 PROVE s[j] = r[j]
        <4>1. j \in 0 .. n /\ j # n
          BY <1>1
        <4> QED
          BY <4>1
      <3> QED
        BY <1>1, <3>1, <3>2
    <2>5. s \in [0 .. n -> Seq(Marks)]
      <3>1. ASSUME NEW j \in 0 .. n PROVE s[j] \in Seq(Marks)
        <4>1. j = n \/ j \in 0 .. n - 1
          BY <1>1
        <4> QED
          BY <2>4, <4>1, EmptySeq
      <3> QED
        BY <3>1
    <2>6. ASSUME NEW j \in 1 .. n PROVE Line(F[j], s[j], s[j - 1])
      <3>1. CASE j = n
        <4>1. s[n - 1] = c
          BY <1>1, <2>2, <2>4 DEF Chain
        <4> QED
          BY <2>4, <3>1, <4>1 DEF Line
      <3>2. CASE j \in 1 .. n - 1
        <4>1. j \in 0 .. n - 1 /\ j - 1 \in 0 .. n - 1
          BY <1>1, <3>2
        <4> QED
          BY <2>2, <2>4, <3>2, <4>1 DEF Chain, Line
      <3> QED
        BY <1>1, <3>1, <3>2
    <2>7. s[0] = r[0]
      BY <1>1, <2>4
    <2> QED
      BY <2>3, <2>4, <2>5, <2>6, <2>7 DEF Remains
  <1> QED
    BY <1>4, <1>5

\* Nothing is written on the lines after n up to m.
Blank(F, n, m) == \A j \in n + 1 .. m : F[j] = <<>>

LEMMA RemainsFacts ==
    ASSUME NEW F \in Seq(Seq(Items)), NEW r, Remains(F, r), NEW k \in 1 .. Len(F)
    PROVE  /\ F[k] \in Seq(Items) /\ r[k] \in Seq(Marks) /\ r[k - 1] \in Seq(Marks)
           /\ Line(F[k], r[k], r[k - 1])
  <1>1. k \in 0 .. Len(F) /\ k - 1 \in 0 .. Len(F)
    OBVIOUS
  <1>2. r[k] \in Seq(Marks) /\ r[k - 1] \in Seq(Marks)
    BY <1>1 DEF Remains
  <1>3. F[k] \in Seq(Items)
    OBVIOUS
  <1>4. Line(F[k], r[k], r[k - 1])
    BY DEF Remains
  <1> QED
    BY <1>2, <1>3, <1>4

LEMMA BlankSkipped ==
    ASSUME NEW F \in Seq(Seq(Items)), NEW r, Remains(F, r),
           NEW n \in 0 .. Len(F), NEW m \in n .. Len(F), Blank(F, n, m)
    PROVE  NextItem(r[m]) = NextItem(r[n])
  <1> PICK x : x = NextItem(r[n])
    OBVIOUS
  <1> DEFINE T == {i \in Nat : n + i <= m => NextItem(r[n + i]) = x}
  <1>1. 0 \in T
    <2>1. n + 0 = n
      OBVIOUS
    <2> QED
      BY <2>1
  <1>2. ASSUME NEW i \in Nat, i \in T PROVE i + 1 \in T
    <2> SUFFICES ASSUME n + (i + 1) <= m PROVE NextItem(r[n + (i + 1)]) = x
      OBVIOUS
    <2> PICK k : k = n + (i + 1)
      OBVIOUS
    <2>1. k \in 1 .. Len(F) /\ k \in n + 1 .. m /\ k - 1 = n + i /\ n + i <= m
      OBVIOUS
    <2>2. NextItem(r[k - 1]) = x
      BY <1>2, <2>1
    <2>3. F[k] = <<>>
      BY <2>1 DEF Blank
    <2>4. Line(<<>>, r[k], r[k - 1]) /\ r[k] \in Seq(Marks)
      BY <2>1, <2>3, RemainsFacts
    <2>5. NextItem(r[k - 1]) = NextItem(r[k])
      BY ONLY <2>4, LineSkipped
    <2> QED
      BY <2>2, <2>5
  <1>3. m - n \in Nat /\ n + (m - n) = m /\ m <= m
    OBVIOUS
  <1>4. m - n \in T
    <2> HIDE DEF T
    <2>1. Nat \subseteq T
      BY ONLY <1>1, <1>2, Induction
    <2> QED
      BY ONLY <1>3, <2>1
  <1> QED
    BY <1>3, <1>4

\* The next item is the first one of the next line that is not blank.
LEMMA NextPlace ==
    ASSUME NEW F \in Seq(Seq(Items)), NEW r, Remains(F, r), NEW n \in 0 .. Len(F)
    PROVE  \/ Blank(F, n, Len(F)) /\ NextItem(r[n]) = <<>>
           \/ \E m \in n + 1 .. Len(F) :
                  /\ Blank(F, n, m - 1) /\ F[m] # <<>>
                  /\ NextItem(r[n]) = r[m - 1] /\ r[m - 1] # <<>>
  <1> DEFINE Q == {j \in n + 1 .. Len(F) : F[j] # <<>>}
  <1>1. CASE Q = {}
    <2>1. Blank(F, n, Len(F))
      BY <1>1 DEF Blank
    <2>2. NextItem(r[Len(F)]) = NextItem(r[n])
      <3>1. Len(F) \in n .. Len(F)
        OBVIOUS
      <3> QED
        BY <2>1, <3>1, BlankSkipped
    <2>3. NextItem(<<>>) = <<>>
      BY DEF NextItem, From
    <2> QED
      BY <2>1, <2>2, <2>3 DEF Remains
  <1>2. CASE Q # {}
    <2>1. Q \in SUBSET Nat
      OBVIOUS
    <2>2. PICK m \in Q : \A j \in Q : m <= j
      BY ONLY <1>2, <2>1, Least
    <2>3. m \in 1 .. Len(F) /\ m \in n + 1 .. Len(F) /\ F[m] # <<>> /\ m - 1 \in n .. Len(F)
      OBVIOUS
    <2>4. Blank(F, n, m - 1)
      <3> SUFFICES ASSUME NEW j \in n + 1 .. m - 1 PROVE F[j] = <<>>
        BY DEF Blank
      <3>1. j \in n + 1 .. Len(F) /\ ~(m <= j)
        BY <2>3
      <3> QED
        BY <2>2, <3>1
    <2> HIDE DEF Q
    <2>5. NextItem(r[m - 1]) = NextItem(r[n])
      BY <2>3, <2>4, BlankSkipped
    <2>6. /\ F[m] \in Seq(Items) /\ r[m] \in Seq(Marks) /\ Line(F[m], r[m], r[m - 1])
      BY <2>3, RemainsFacts
    <2>7. NextItem(r[m - 1]) = r[m - 1] /\ r[m - 1] # <<>>
      BY ONLY <2>3, <2>6, LineItem
    <2> QED
      BY <2>3, <2>4, <2>5, <2>7
  <1> QED
    BY <1>1, <1>2

-----------------------------------------------------------------------------
(* The values of the settings after some of the lines have been read.      *)

\* Line i is the last of the first m lines that sets k; 0: none does.
IsLast(A, m, k, i) ==
    /\ i \in 0 .. m
    /\ i # 0 => Sets(A[i], k)
    /\ \A j \in i + 1 .. m : ~Sets(A[j], k)

Factor(k, s) == IF IsTiming(k) THEN s[Multiplier] ELSE 1

\* The settings s hold what the first m lines of A say.
Done(A, m, s) ==
    \A k \in Settings :
        \E i : IsLast(A, m, k, i)
               /\ s[k] = IF i = 0 THEN 0 ELSE A[i][2].value * Factor(k, s)

LEMMA DoneFurther ==
    ASSUME NEW A, NEW s, NEW m \in Nat, NEW p \in Nat, m <= p, Done(A, m, s),
           \A j \in m + 1 .. p : \A k \in Settings : ~Sets(A[j], k)
    PROVE  Done(A, p, s)
  <1> SUFFICES ASSUME NEW k \in Settings
               PROVE  \E i : IsLast(A, p, k, i)
                             /\ s[k] = IF i = 0 THEN 0 ELSE A[i][2].value * Factor(k, s)
    BY DEF Done
  <1>1. PICK i : IsLast(A, m, k, i)
                 /\ s[k] = IF i = 0 THEN 0 ELSE A[i][2].value * Factor(k, s)
    BY DEF Done
  <1>2. i \in 0 .. m /\ (i # 0 => Sets(A[i], k)) /\ \A j \in i + 1 .. m : ~Sets(A[j], k)
    BY <1>1 DEF IsLast
  <1>3. i \in 0 .. p
    BY <1>2
  <1>4. ASSUME NEW j \in i + 1 .. p PROVE ~Sets(A[j], k)
    <2>1. j \in i + 1 .. m \/ j \in m + 1 .. p
      BY <1>2
    <2> QED
      BY <1>2, <2>1
  <1> QED
    BY <1>1, <1>2, <1>3, <1>4 DEF IsLast

LEMMA DoneOther ==
    ASSUME NEW A, NEW B, NEW s, NEW m \in Nat, Done(A, m, s),
           \A j \in 1 .. m : B[j] = A[j]
    PROVE  Done(B, m, s)
  <1> SUFFICES ASSUME NEW k \in Settings
               PROVE  \E i : IsLast(B, m, k, i)
                             /\ s[k] = IF i = 0 THEN 0 ELSE B[i][2].value * Factor(k, s)
    BY DEF Done
  <1>1. PICK i : IsLast(A, m, k, i)
                 /\ s[k] = IF i = 0 THEN 0 ELSE A[i][2].value * Factor(k, s)
    BY DEF Done
  <1>2. i \in 0 .. m /\ (i # 0 => Sets(A[i], k)) /\ \A j \in i + 1 .. m : ~Sets(A[j], k)
    BY <1>1 DEF IsLast
  <1>3. i # 0 => B[i] = A[i]
    BY <1>2
  <1>4. ASSUME NEW j \in i + 1 .. m PROVE ~Sets(B[j], k)
    <2>1. j \in 1 .. m
      BY <1>2
    <2> QED
      BY <1>2, <2>1
  <1> QED
    BY <1>1, <1>2, <1>3, <1>4 DEF IsLast

LEMMA SetsOnce ==
    ASSUME NEW line, NEW k \in Settings, NEW l \in Settings, Sets(line, k), Sets(line, l)
    PROVE  k = l
  <1>1. Word(k) = Word(l)
    BY DEF Sets
  <1> QED
    BY <1>1, TokenIsKeyword

\* What a line says that is well formed.
LEMMA WellFormedLine ==
    ASSUME NEW A, WellFormed(A), NEW i \in DOMAIN A, IsSetting(A[i])
    PROVE  \E k \in Settings :
               /\ Sets(A[i], k) /\ Len(A[i]) > 1 /\ A[i][2].kind = "number"
               /\ Len(A[i]) > 2 => IsComment(A[i][3])
               /\ IsTiming(k) => \A j \in DOMAIN A : Sets(A[j], Multiplier) => j < i
  BY DEF WellFormed

LEMMA DoneSet ==
    ASSUME NEW A \in Seq(Seq(Items)), WellFormed(A), NEW m \in 0 .. Len(A) - 1,
           NEW s, DOMAIN s = Settings, Done(A, m, s),
           NEW k \in Settings, Sets(A[m + 1], k),
           NEW t, t = [s EXCEPT ![k] = A[m + 1][2].value * Factor(k, s)]
    PROVE  Done(A, m + 1, t)
  <1>1. t[k] = A[m + 1][2].value * Factor(k, s)
        /\ \A l \in Settings : l # k => t[l] = s[l]
    OBVIOUS
  <1>2. Factor(k, t) = Factor(k, s)
    BY <1>1, SettingFacts DEF Factor
  <1> SUFFICES ASSUME NEW l \in Settings
               PROVE  \E i : IsLast(A, m + 1, l, i)
                             /\ t[l] = IF i = 0 THEN 0 ELSE A[i][2].value * Factor(l, t)
    BY DEF Done
  <1>3. CASE l = k
    <2>1. IsLast(A, m + 1, k, m + 1)
      BY DEF IsLast
    <2> QED
      BY <1>1, <1>2, <1>3, <2>1
  <1>4. CASE l # k
    <2>1. PICK i : IsLast(A, m, l, i)
                   /\ s[l] = IF i = 0 THEN 0 ELSE A[i][2].value * Factor(l, s)
      BY DEF Done
    <2>2. i \in 0 .. m /\ (i # 0 => Sets(A[i], l)) /\ \A j \in i + 1 .. m : ~Sets(A[j], l)
      BY <2>1 DEF IsLast
    <2>3. ~Sets(A[m + 1], l)
      BY <1>4, SetsOnce
    <2>4. IsLast(A, m + 1, l, i)
      <3>1. ASSUME NEW j \in i + 1 .. m + 1 PROVE ~Sets(A[j], l)
        <4>1. j = m + 1 \/ j \in i + 1 .. m
          BY <2>2
        <4> QED
          BY <2>2, <2>3, <4>1
      <3>2. i \in 0 .. m + 1
        BY <2>2
      <3> QED
        BY <2>2, <3>1, <3>2 DEF IsLast
    <2>5. i # 0 => Factor(l, t) = Factor(l, s)
      <3>1. CASE k # Multiplier \/ ~IsTiming(l)
        BY <1>1, <3>1, SettingFacts DEF Factor
      <3>2. CASE k = Multiplier /\ IsTiming(l) /\ i # 0
        <4>1. Sets(A[i], l) /\ i \in DOMAIN A /\ i < m + 1 /\ m + 1 \in DOMAIN A
          BY <2>2, <3>2
        <4>2. IsSetting(A[i])
          BY <4>1, SettingFacts DEF IsSetting, Sets
        <4>3. PICK h \in Settings :
                  /\ Sets(A[i], h)
                  /\ IsTiming(h) => \A j \in DOMAIN A : Sets(A[j], Multiplier) => j < i
          BY <4>1, <4>2, WellFormedLine
        <4>4. h = l
          BY <4>1, <4>3, SetsOnce
        <4>5. m + 1 < i
          BY <3>2, <4>1, <4>3, <4>4
        <4> QED
          BY <2>2, <4>1, <4>5
      <3> QED
        BY <3>1, <3>2
    <2> QED
      BY <1>1, <1>4, <2>1, <2>4, <2>5
  <1> QED
    BY <1>3, <1>4

LEMMA DoneEnd ==
    ASSUME NEW A \in Seq(Seq(Items)), NEW s, Done(A, Len(A), s), NEW k \in Settings
    PROVE  LET last == LastLine(A, k)
           IN  s[k] = IF last = 0 THEN 0 ELSE A[last][2].value * Factor(k, s)
  <1>1. PICK i : IsLast(A, Len(A), k, i)
                 /\ s[k] = IF i = 0 THEN 0 ELSE A[i][2].value * Factor(k, s)
    BY DEF Done
  <1>2. /\ i \in 0 .. Len(A) /\ (i # 0 => Sets(A[i], k))
        /\ \A j \in i + 1 .. Len(A) : ~Sets(A[j], k)
    BY <1>1 DEF IsLast
  <1> DEFINE P == {j \in DOMAIN A : Sets(A[j], k)} \cup {0}
  <1>3. i \in P
    BY <1>2
  <1>4. ASSUME NEW j \in P PROVE i >= j /\ j \in Nat
    <2>1. CASE j = 0
      BY <1>2, <2>1
    <2>2. CASE j \in 1 .. Len(A) /\ Sets(A[j], k)
      <3>1. ~(j \in i + 1 .. Len(A))
        BY <1>2, <2>2
      <3> QED
        BY <1>2, <2>2, <3>1
    <2> QED
      BY <2>1, <2>2
  <1>5. LastLine(A, k) = Max(P)
    BY DEF LastLine
  <1> HIDE DEF P
  <1>6. Max(P) \in P /\ \A j \in P : Max(P) >= j
    <2>1. \E x \in P : \A j \in P : x >= j
      BY <1>3, <1>4
    <2> QED
      BY <2>1 DEF Max
  <1>7. Max(P) \in Nat /\ Max(P) >= i /\ i >= Max(P)
    BY <1>3, <1>4, <1>6
  <1>8. LastLine(A, k) = i
    BY <1>2, <1>5, <1>7
  <1> QED
    BY <1>1, <1>8

LEMMA WellFormedBeginning ==
    ASSUME NEW A \in Seq(Seq(Items)), NEW B \in Seq(Seq(Items)), WellFormed(A \o B)
    PROVE  WellFormed(A)
  <1> PICK C : C = A \o B
    OBVIOUS
  <1>1. \A i \in DOMAIN A : i \in DOMAIN C /\ C[i] = A[i] /\ i \in Nat
    OBVIOUS
  <1> SUFFICES ASSUME NEW i \in DOMAIN A, IsSetting(A[i])
               PROVE  \E k \in Settings :
                   /\ Sets(A[i], k) /\ Len(A[i]) > 1 /\ A[i][2].kind = "number"
                   /\ Len(A[i]) > 2 => IsComment(A[i][3])
                   /\ IsTiming(k) => \A j \in DOMAIN A : Sets(A[j], Multiplier) => j < i
    BY DEF WellFormed
  <1>2. i \in DOMAIN C /\ C[i] = A[i]
    BY <1>1
  <1>3. PICK k \in Settings :
             /\ Sets(C[i], k) /\ Len(C[i]) > 1 /\ C[i][2].kind = "number"
             /\ Len(C[i]) > 2 => IsComment(C[i][3])
             /\ IsTiming(k) => \A j \in DOMAIN C : Sets(C[j], Multiplier) => j < i
    BY <1>2, WellFormedLine
  <1>4. IsTiming(k) => \A j \in DOMAIN A : Sets(A[j], Multiplier) => j < i
    BY <1>1, <1>3
  <1> QED
    BY <1>2, <1>3, <1>4

-----------------------------------------------------------------------------
(* The invariant: some lines of the file have been read, the settings hold *)
(* what they say, and the word read last is a comment or its setting would *)
(* be given the value it has.                                              *)

Opened == IF reading = 0 THEN <<>> ELSE IF reading = 1 THEN lines[1] ELSE lines[1] \o lines[2]

\* How many lines are in the files before.
Base == IF reading = 2 THEN Len(lines[1]) ELSE 0

TypeOK ==
    /\ reading \in 0 .. 2
    /\ lines \in Seq(Seq(Seq(Items))) /\ Len(lines) = reading
    /\ \A i \in 1 .. reading : lines[i] # <<>> /\ lines[i][1] # <<>>
    /\ settings = [k \in Settings |-> settings[k]]
    /\ DOMAIN input = {"int", "float"}

\* If s is left of F, lines 1 to n have been read but for a comment.
Place(F, r, n, s) ==
    /\ n \in 0 .. Len(F)
    /\ \/ s = r[n]
       \/ \E c \in Seq(Items) : Line(c, r[n], s) /\ (c # <<>> => IsComment(c[1]))

\* To take the word for one that follows changes no setting.
Recent(word, number, s) ==
    \/ IsComment(word)
    \/ \E k \in Settings : word = Word(k) /\ s[k] = number[Format(k)] * Factor(k, s)

AtStart == reading = 0 => rest = <<>> /\ Done(<<>>, 0, settings)

AtPlace ==
    reading # 0 =>
        \E r, n : /\ Remains(lines[reading], r) /\ Place(lines[reading], r, n, rest)
                  /\ Done(Opened, Base + n, settings)
                  /\ Recent(input_string, input, settings) \/ (n = 0 /\ rest = r[0])

Reader == WellFormed(Opened) => AtStart /\ AtPlace

LEMMA OpenedLines ==
    ASSUME TypeOK, reading # 0
    PROVE  /\ Opened \in Seq(Seq(Items)) /\ lines[reading] \in Seq(Seq(Items))
           /\ Base \in Nat /\ Len(Opened) = Base + Len(lines[reading])
           /\ \A j \in 1 .. Len(lines[reading]) :
                  Opened[Base + j] = lines[reading][j] /\ Base + j \in DOMAIN Opened
           /\ lines[reading] # <<>> /\ lines[reading][1] # <<>>
  <1>1. reading \in 1 .. Len(lines)
    BY DEF TypeOK
  <1>2. lines[reading] \in Seq(Seq(Items)) /\ lines[reading] # <<>> /\ lines[reading][1] # <<>>
    BY <1>1 DEF TypeOK
  <1>3. CASE reading = 1
    <2>1. Opened = lines[1] /\ Base = 0
      BY <1>3 DEF Opened, Base
    <2> QED
      BY <1>2, <1>3, <2>1
  <1>4. CASE reading = 2
    <2> PICK A, B : A = lines[1] /\ B = lines[2]
      OBVIOUS
    <2>1. A \in Seq(Seq(Items)) /\ B \in Seq(Seq(Items))
      <3>1. lines \in Seq(Seq(Seq(Items))) /\ 1 \in 1 .. Len(lines) /\ 2 \in 1 .. Len(lines)
        BY <1>4 DEF TypeOK
      <3> QED
        BY ONLY <3>1, A = lines[1], B = lines[2], ElementOfSeq
    <2>2. Opened = A \o B /\ Base = Len(A) /\ Len(A) \in Nat
      BY <1>4, <2>1 DEF Opened, Base
    <2>3. /\ A \o B \in Seq(Seq(Items)) /\ Len(A \o B) = Len(A) + Len(B)
          /\ \A j \in 1 .. Len(A) + Len(B) :
                 (A \o B)[j] = IF j <= Len(A) THEN A[j] ELSE B[j - Len(A)]
      BY ONLY <2>1, ConcatProperties
    <2>4. ASSUME NEW j \in 1 .. Len(B)
          PROVE  (A \o B)[Len(A) + j] = B[j] /\ Len(A) + j \in DOMAIN (A \o B)
      <3> PICK a, b : a = Len(A) /\ b = Len(B)
        OBVIOUS
      <3>1. a \in Nat /\ b \in Nat /\ j \in 1 .. b
        BY <2>1
      <3>2. a + j \in 1 .. a + b /\ ~(a + j <= a) /\ (a + j) - a = j
        BY ONLY <3>1
      <3>3. (A \o B)[a + j] = B[j]
        BY <2>3, <3>2
      <3>4. DOMAIN (A \o B) = 1 .. a + b
        BY <2>3
      <3> QED
        BY <3>2, <3>3, <3>4
    <2> QED
      BY <1>2, <1>4, <2>2, <2>3, <2>4
  <1> QED
    BY <1>1, <1>3, <1>4 DEF TypeOK

\* Lines that are blank, or hold a comment, set nothing.
LEMMA NoSetting ==
    ASSUME NEW line, ~IsSetting(line), NEW k \in Settings
    PROVE  ~Sets(line, k)
  BY SettingFacts DEF IsSetting, Sets

\* Blank lines may be added to those that have been read.
LEMMA DoneBlank ==
    ASSUME TypeOK, reading # 0, NEW n \in Nat, NEW m \in Nat, n <= m,
           m <= Len(lines[reading]), Blank(lines[reading], n, m),
           Done(Opened, Base + n, settings)
    PROVE  Done(Opened, Base + m, settings)
  <1> PICK b : b = Base
    OBVIOUS
  <1>1. b \in Nat /\ \A j \in 1 .. Len(lines[reading]) : Opened[b + j] = lines[reading][j]
    BY OpenedLines
  <1>2. ASSUME NEW j \in b + n + 1 .. b + m, NEW k \in Settings
        PROVE  ~Sets(Opened[j], k)
    <2>1. j - b \in n + 1 .. m /\ j = b + (j - b)
      BY <1>1
    <2>2. Len(lines[reading]) \in Nat
      BY OpenedLines
    <2>3. j - b \in 1 .. Len(lines[reading])
      BY <2>1, <2>2
    <2>4. Opened[j] = <<>>
      BY <1>1, <2>1, <2>3 DEF Blank
    <2> QED
      BY <2>4 DEF Sets
  <1>3. b + n \in Nat /\ b + m \in Nat /\ b + n <= b + m
    BY <1>1
  <1> QED
    BY <1>2, <1>3, DoneFurther

\* Where the next item is: a comment, or the first of a later line.
LEMMA AtItem ==
    ASSUME NEW F \in Seq(Seq(Items)), NEW r, Remains(F, r), NEW n, Place(F, r, n, rest)
    PROVE  \/ NextItem(rest) = NextItem(r[n])
           \/ /\ rest # <<>> /\ NextItem(rest) = rest /\ IsComment(Head(rest))
              /\ SkipComment(Tail(rest)) = r[n]
  <1>1. n \in 0 .. Len(F) /\ r[n] \in Seq(Marks)
    BY DEF Place, Remains
  <1>2. CASE rest = r[n]
    BY <1>2
  <1>3. ASSUME NEW c \in Seq(Items), Line(c, r[n], rest), c # <<>> => IsComment(c[1])
        PROVE  \/ NextItem(rest) = NextItem(r[n])
               \/ /\ rest # <<>> /\ NextItem(rest) = rest /\ IsComment(Head(rest))
                  /\ SkipComment(Tail(rest)) = r[n]
    <2>1. CASE c = <<>>
      BY <1>1, <1>3, <2>1, LineSkipped
    <2>2. CASE c # <<>>
      <3>1. /\ rest # <<>> /\ NextItem(rest) = rest /\ IsComment(Head(rest))
            /\ Line(Tail(c), r[n], Tail(rest))
        BY <1>1, <1>3, <2>2, LineItem
      <3>2. Tail(c) \in Seq(Items)
        BY <2>2
      <3>3. SkipComment(Tail(rest)) = r[n]
        BY <1>1, <3>1, <3>2, LineEnd
      <3> QED
        BY <3>1, <3>3
    <2> QED
      BY <2>1, <2>2
  <1> QED
    BY <1>2, <1>3 DEF Place

\* At the end of a file, the settings hold what is written in it.
LEMMA DoneAtEnd ==
    ASSUME TypeOK, Reader, WellFormed(Opened), rest = <<>>
    PROVE  Done(Opened, Len(Opened), settings)
  <1>1. CASE reading = 0
    BY <1>1 DEF Reader, AtStart, Opened
  <1>2. CASE reading # 0
    <2> PICK F : F = lines[reading]
      OBVIOUS
    <2>1. F \in Seq(Seq(Items)) /\ Len(Opened) = Base + Len(F)
      BY <1>2, OpenedLines
    <2>2. PICK r, n : /\ Remains(F, r) /\ Place(F, r, n, rest)
                      /\ Done(Opened, Base + n, settings)
      BY <1>2 DEF Reader, AtPlace
    <2>3. NextItem(r[n]) = <<>>
      <3>1. NextItem(<<>>) = <<>>
        BY DEF NextItem, From
      <3> QED
        BY <2>1, <2>2, <3>1, AtItem
    <2>4. n \in 0 .. Len(F)
      BY <2>2 DEF Place
    <2>5. Blank(F, n, Len(F))
      BY <2>1, <2>2, <2>3, <2>4, NextPlace
    <2>6. n \in Nat /\ Len(F) \in Nat /\ n <= Len(F) /\ Len(F) <= Len(F)
      BY <2>1, <2>4
    <2>7. Done(Opened, Base + Len(F), settings)
      BY <1>2, <2>2, <2>5, <2>6, DoneBlank
    <2> QED
      BY <2>1, <2>7
  <1> QED
    BY <1>1, <1>2

-----------------------------------------------------------------------------
(* The steps.                                                              *)

LEMMA InitReader == Init => TypeOK /\ Reader
  <1> SUFFICES ASSUME Init PROVE TypeOK /\ Reader
    OBVIOUS
  <1>1. TypeOK
    BY EmptySeq DEF Init, TypeOK
  <1>2. Done(<<>>, 0, settings)
    <2> SUFFICES ASSUME NEW k \in Settings
                 PROVE  IsLast(<<>>, 0, k, 0) /\ settings[k] = 0
      BY DEF Done
    <2> QED
      BY DEF Init, IsLast
  <1> QED
    BY <1>1, <1>2 DEF Init, Reader, AtStart, AtPlace

LEMMA FilesAreLines ==
    ASSUME NEW L \in {ConfigLines, ChipLines}, NEW file \in Files(L)
    PROVE  file \in Seq(Seq(Items)) /\ file # <<>>
  <1>1. PICK n \in 1 .. MAX_LINES : file \in [1 .. n -> L]
    BY DEF Files
  <1>2. n \in Nat /\ n >= 1
    BY FilesAssumption
  <1>3. \A i \in 1 .. n : file[i] \in Seq(Items)
    BY <1>1, FilesAssumption
  <1>4. file \in [1 .. n -> Seq(Items)]
    BY <1>1, <1>3
  <1> QED
    BY <1>2, <1>4

LEMMA OpenReader ==
    ASSUME TypeOK, Reader, Open
    PROVE  TypeOK' /\ Reader'
  <1>1. PICK file \in Files(IF reading = 0 THEN ConfigLines ELSE ChipLines),
             ended \in BOOLEAN :
            /\ file[1] # <<>>
            /\ lines' = Append(lines, file)
            /\ rest' = Written(file, ended)
    BY DEF Open
  <1>2. file \in Seq(Seq(Items)) /\ file # <<>>
    BY <1>1, FilesAreLines
  <1>3. /\ reading \in 0 .. 1 /\ reading' = reading + 1 /\ settings' = settings
        /\ rest = <<>> /\ DOMAIN input' = {"int", "float"}
    BY DEF Open, TypeOK
  <1>4. /\ lines' \in Seq(Seq(Seq(Items))) /\ Len(lines') = reading'
        /\ lines'[reading'] = file
        /\ \A i \in 1 .. reading : lines'[i] = lines[i]
    BY <1>1, <1>2, <1>3, AppendProperties DEF TypeOK
  <1>5. TypeOK'
    <2>1. ASSUME NEW i \in 1 .. reading' PROVE lines'[i] # <<>> /\ lines'[i][1] # <<>>
      <3>1. i = reading' \/ i \in 1 .. reading
        BY <1>3
      <3> QED
        BY <1>1, <1>2, <1>4, <3>1 DEF TypeOK
    <2> QED
      BY <1>3, <1>4, <2>1 DEF TypeOK
  <1>6. Opened \in Seq(Seq(Items)) /\ Opened' = Opened \o file /\ Base' = Len(Opened)
    <2>1. CASE reading = 0
      <3>1. Opened = <<>> /\ Opened' = file /\ Base' = 0
        BY <1>3, <1>4, <2>1 DEF Opened, Base
      <3> QED
        BY <1>2, <3>1, ConcatEmptySeq, EmptySeq
    <2>2. CASE reading = 1
      <3>1. Opened = lines[1] /\ lines'[1] = lines[1] /\ lines'[2] = file
        BY <1>3, <1>4, <2>2 DEF Opened
      <3>2. Opened' = lines[1] \o file /\ Base' = Len(lines[1])
        BY <1>3, <2>2, <3>1 DEF Opened, Base
      <3>3. Opened \in Seq(Seq(Items))
        BY <2>2, OpenedLines
      <3> QED
        BY <3>1, <3>2, <3>3
    <2> QED
      BY <1>3, <2>1, <2>2
  <1>7. ASSUME WellFormed(Opened')
        PROVE  \E r, n : /\ Remains(file, r) /\ Place(file, r, n, rest')
                         /\ Done(Opened', Base' + n, settings)
                         /\ n = 0 /\ rest' = r[0]
    <2>1. WellFormed(Opened)
      BY <1>2, <1>6, <1>7, WellFormedBeginning
    <2>2. Done(Opened, Len(Opened), settings)
      BY <1>3, <2>1, DoneAtEnd
    <2>3. Done(Opened', Len(Opened), settings)
      <3>1. Len(Opened) \in Nat /\ \A j \in 1 .. Len(Opened) : Opened'[j] = Opened[j]
        BY <1>2, <1>6
      <3> QED
        BY <2>2, <3>1, DoneOther
    <2>4. PICK r : Remains(file, r) /\ r[0] = Written(file, ended)
      BY <1>2, WrittenRemains
    <2>5. Base' + 0 = Len(Opened) /\ 0 \in 0 .. Len(file)
      BY <1>2, <1>6
    <2>6. Place(file, r, 0, rest')
      BY <1>1, <2>4, <2>5 DEF Place
    <2> QED
      BY <1>1, <2>3, <2>4, <2>5, <2>6
  <1>8. reading' # 0
    BY <1>3
  <1>9. Reader'
    BY <1>3, <1>4, <1>7, <1>8 DEF Reader, AtStart, AtPlace
  <1> QED
    BY <1>5, <1>9

LEMMA ReadTypes ==
    ASSUME TypeOK, Read
    PROVE  TypeOK' /\ Opened' = Opened /\ Base' = Base
  <1>1. lines' = lines /\ reading' = reading
    BY DEF Read
  <1>2. DOMAIN input' = {"int", "float"}
    BY DEF TypeOK, Read, ReadComment, ReadUnknown, ReadSetting
  <1>3. settings' = [k \in Settings |-> settings'[k]]
    <2>1. settings = [k \in Settings |-> settings[k]]
      BY DEF TypeOK
    <2>2. settings' = settings \/ \E k, v : settings' = [settings EXCEPT ![k] = v]
      BY DEF Read, ReadComment, ReadUnknown, ReadSetting
    <2> QED
      BY <2>1, <2>2
  <1> QED
    BY <1>1, <1>2, <1>3 DEF TypeOK, Opened, Base

\* A comment is skipped, whatever is left of its line.
LEMMA ReadingComment ==
    ASSUME Read, IsComment(Current)
    PROVE  /\ rest' = SkipComment(AfterWord) /\ IsComment(input_string')
           /\ settings' = settings
  BY DEF Read, ReadComment, ReadUnknown, ReadSetting

\* A keyword with its number.
LEMMA ReadingSetting ==
    ASSUME TypeOK, Read, NEW k \in Settings, Current = Word(k),
           NextItem(AfterWord) = AfterWord, AfterWord # <<>>,
           Head(AfterWord).kind = "number"
    PROVE  /\ rest' = Tail(AfterWord) /\ input_string' = Word(k)
           /\ input'[Format(k)] = Head(AfterWord).value
           /\ settings' =
                  [settings EXCEPT ![k] = Head(AfterWord).value * Factor(k, settings)]
  <1>1. ~IsComment(Current) /\ Matching(Current) # {} /\ Token(Current) = k
    BY TokenIsKeyword, SettingFacts
  <1>2. ReadSetting /\ input_string' = Word(k)
    BY <1>1 DEF Read, ReadComment, ReadUnknown
  <1>3. /\ rest' = Tail(AfterWord)
        /\ input' = [input EXCEPT ![Format(k)] = Head(AfterWord).value]
        /\ settings' = [settings EXCEPT ![k] = input'[Format(k)] * Factor(k, settings)]
    BY <1>1, <1>2 DEF ReadSetting, Factor
  <1>4. input'[Format(k)] = Head(AfterWord).value
    BY <1>3, SettingFacts DEF TypeOK
  <1> QED
    BY <1>2, <1>3, <1>4

\* At the end of the file both calls of fscanf fail, and nothing changes.
LEMMA ReadAgain ==
    ASSUME TypeOK, Read, NextItem(rest) = <<>>, Recent(input_string, input, settings)
    PROVE  /\ rest' = <<>> /\ settings' = settings
           /\ Recent(input_string', input', settings')
  <1>1. Current = input_string /\ AfterWord = <<>> /\ input_string' = input_string
    BY DEF Current, AfterWord, Read
  <1>2. SkipComment(<<>>) = <<>> /\ NextItem(<<>>) = <<>>
    BY DEF SkipComment, NextItem, From
  <1>3. CASE IsComment(input_string)
    <2>1. rest' = <<>> /\ settings' = settings
      BY <1>1, <1>2, <1>3, ReadingComment
    <2> QED
      BY <1>1, <1>3, <2>1 DEF Recent
  <1>4. ASSUME NEW k \in Settings, input_string = Word(k),
               settings[k] = input[Format(k)] * Factor(k, settings)
        PROVE  /\ rest' = <<>> /\ settings' = settings
               /\ Recent(input_string', input', settings')
    <2>1. ~IsComment(Current) /\ Matching(Current) # {} /\ Token(Current) = k
      BY <1>1, <1>4, TokenIsKeyword, SettingFacts
    <2>2. ReadSetting
      BY <2>1 DEF Read, ReadComment, ReadUnknown
    <2>3. /\ rest' = <<>> /\ input' = input
          /\ settings' = [settings EXCEPT ![k] = input'[Format(k)] * Factor(k, settings)]
      BY <1>1, <1>2, <2>1, <2>2 DEF ReadSetting, Factor
    <2>4. settings' = settings
      BY <1>4, <2>3 DEF TypeOK
    <2> QED
      BY <1>1, <1>4, <2>3, <2>4 DEF Recent
  <1> QED
    BY <1>3, <1>4 DEF Recent

LEMMA ReadLine ==
    ASSUME TypeOK, reading # 0, WellFormed(Opened), Read,
           NEW F, F = lines[reading], NEW r, Remains(F, r), NEW n \in Nat,
           Done(Opened, Base + n, settings),
           NEW m \in n + 1 .. Len(F), Blank(F, n, m - 1), F[m] # <<>>,
           NextItem(rest) = r[m - 1]
    PROVE  /\ Place(F, r, m, rest') /\ Done(Opened, Base + m, settings')
           /\ Recent(input_string', input', settings')
  <1> PICK w, c, a, b : w = r[m - 1] /\ c = F[m] /\ a = Tail(c) /\ b = Base
    OBVIOUS
  <1>1. F \in Seq(Seq(Items)) /\ Len(F) \in Nat
    BY OpenedLines
  <1>2. m \in 1 .. Len(F) /\ m \in 0 .. Len(F) /\ m - 1 \in Nat /\ n <= m - 1
        /\ m - 1 <= Len(F)
    BY <1>1
  <1>3. /\ c \in Seq(Items) /\ c # <<>> /\ r[m] \in Seq(Marks) /\ Line(c, r[m], w)
    BY <1>1, <1>2, RemainsFacts
  <1>4. /\ w # <<>> /\ Head(w) = c[1] /\ Tail(w) \in Seq(Marks)
        /\ Line(a, r[m], Tail(w)) /\ a \in Seq(Items)
    <2>1. /\ w # <<>> /\ Head(w) = c[1] /\ Tail(w) \in Seq(Marks)
          /\ Line(Tail(c), r[m], Tail(w))
      BY ONLY <1>3, LineItem
    <2>2. a \in Seq(Items)
      BY <1>3
    <2> QED
      BY <2>1, <2>2
  <1>5. Current = c[1] /\ AfterWord = Tail(w)
    BY <1>4 DEF Current, AfterWord
  <1>6. /\ Opened \in Seq(Seq(Items)) /\ b \in Nat /\ b + m \in DOMAIN Opened
        /\ Opened[b + m] = c
    BY <1>2, OpenedLines
  <1>7. b + (m - 1) \in Nat /\ b + m \in Nat /\ (b + (m - 1)) + 1 = b + m
        /\ b + (m - 1) \in 0 .. Len(Opened) - 1
    BY <1>2, <1>6
  <1>8. Done(Opened, b + (m - 1), settings)
    BY <1>2, DoneBlank
  <1>9. CASE IsComment(c[1])
    <2>1. rest' = SkipComment(Tail(w)) /\ IsComment(input_string') /\ settings' = settings
      BY <1>5, <1>9, ReadingComment
    <2>2. rest' = r[m]
      BY <1>3, <1>4, <2>1, LineEnd
    <2>3. ASSUME NEW j \in b + (m - 1) + 1 .. b + m, NEW k \in Settings
          PROVE  ~Sets(Opened[j], k)
      <3>1. j = b + m
        BY <1>7
      <3>2. ~IsSetting(c)
        BY <1>9 DEF IsSetting
      <3> QED
        BY <1>6, <3>1, <3>2, NoSetting
    <2>4. Done(Opened, b + m, settings)
      <3>1. b + (m - 1) <= b + m
        BY <1>7
      <3> QED
        BY ONLY <1>7, <1>8, <2>3, <3>1, DoneFurther
    <2> QED
      BY <1>2, <2>1, <2>2, <2>4 DEF Place, Recent
  <1>10. CASE ~IsComment(c[1])
    <2>1. IsSetting(Opened[b + m])
      BY <1>3, <1>6, <1>10 DEF IsSetting
    <2>2. PICK k \in Settings :
              /\ Sets(c, k) /\ Len(c) > 1 /\ c[2].kind = "number"
              /\ Len(c) > 2 => IsComment(c[3])
      BY <1>6, <2>1, WellFormedLine
    <2>3. c[1] = Word(k)
      BY <2>2 DEF Sets
    <2>4. a # <<>> /\ a[1] = c[2] /\ (Tail(a) # <<>> => Tail(a)[1] = c[3] /\ Len(c) > 2)
          /\ Tail(a) \in Seq(Items)
      <3>1. /\ a \in Seq(Items) /\ Len(a) = Len(c) - 1 /\ Len(c) \in Nat
            /\ \A i \in 1 .. Len(a) : a[i] = c[i + 1]
        BY <1>3, HeadTailProperties
      <3>2. a # <<>> /\ a[1] = c[2]
        <4>1. 1 \in 1 .. Len(a) /\ 1 + 1 = 2
          BY ONLY <2>2, <3>1
        <4>2. a[1] = c[2]
          BY <3>1, <4>1
        <4>3. Len(<<>>) = 0
          OBVIOUS
        <4> QED
          BY ONLY <4>1, <4>2, <4>3
      <3>3. /\ Tail(a) \in Seq(Items) /\ Len(Tail(a)) = Len(a) - 1
            /\ \A i \in 1 .. Len(Tail(a)) : Tail(a)[i] = a[i + 1]
        BY ONLY <3>1, <3>2, HeadTailProperties
      <3>4. ASSUME Tail(a) # <<>> PROVE Tail(a)[1] = c[3] /\ Len(c) > 2
        <4>1. Len(Tail(a)) \in Nat \ {0}
          BY ONLY <3>3, <3>4, EmptySeq
        <4>2. 1 \in 1 .. Len(Tail(a)) /\ 2 \in 1 .. Len(a) /\ Len(c) > 2
          <5> PICK x, y, z : x = Len(Tail(a)) /\ y = Len(a) /\ z = Len(c)
            OBVIOUS
          <5>1. x \in Nat \ {0} /\ x = y - 1 /\ y = z - 1 /\ z \in Nat
            BY <3>1, <3>3, <4>1
          <5>2. 1 \in 1 .. x /\ 2 \in 1 .. y /\ z > 2
            BY ONLY <5>1
          <5> QED
            BY <5>2
        <4> QED
          BY <3>1, <3>3, <4>2
      <3> QED
        BY <3>2, <3>3, <3>4
    <2>5. /\ Tail(w) # <<>> /\ NextItem(Tail(w)) = Tail(w) /\ Head(Tail(w)) = c[2]
          /\ Line(Tail(a), r[m], Tail(Tail(w)))
      <3>1. r[m] \in Seq(Marks) /\ Line(a, r[m], Tail(w)) /\ a \in Seq(Items) /\ a # <<>>
        BY <1>3, <1>4, <2>4
      <3>2. /\ Tail(w) # <<>> /\ NextItem(Tail(w)) = Tail(w) /\ Head(Tail(w)) = a[1]
            /\ Line(Tail(a), r[m], Tail(Tail(w)))
        BY ONLY <3>1, LineItem
      <3> QED
        BY <2>4, <3>2
    <2>6. /\ rest' = Tail(Tail(w)) /\ input_string' = Word(k)
          /\ input'[Format(k)] = c[2].value
          /\ settings' = [settings EXCEPT ![k] = c[2].value * Factor(k, settings)]
      BY <1>5, <2>2, <2>3, <2>5, ReadingSetting
    <2>7. Place(F, r, m, rest')
      BY <1>2, <2>2, <2>4, <2>5, <2>6 DEF Place
    <2>8. DOMAIN settings = Settings
      BY DEF TypeOK
    <2>9. Done(Opened, b + m, settings')
      <3> PICK t : t = settings'
        OBVIOUS
      <3> PICK p : p = b + (m - 1)
        OBVIOUS
      <3>1. p \in 0 .. Len(Opened) - 1 /\ p + 1 = b + m
        BY <1>7
      <3>2. Opened[p + 1] = c
        BY <1>6, <3>1
      <3>3. Done(Opened, p, settings) /\ Sets(Opened[p + 1], k)
        BY <1>8, <2>2, <3>2
      <3>4. t = [settings EXCEPT ![k] = Opened[p + 1][2].value * Factor(k, settings)]
        BY <2>6, <3>2
      <3>5. Done(Opened, p + 1, t)
        BY <1>6, <2>8, <3>1, <3>3, <3>4, DoneSet
      <3> QED
        BY <3>1, <3>5
    <2>10. settings'[k] = c[2].value * Factor(k, settings)
           /\ \A l \in Settings : l # k => settings'[l] = settings[l]
      BY <2>6, <2>8
    <2>11. Factor(k, settings') = Factor(k, settings)
      BY <2>10, SettingFacts DEF Factor
    <2>12. Recent(input_string', input', settings')
      BY <2>6, <2>10, <2>11 DEF Recent
    <2> QED
      BY <2>7, <2>9, <2>12
  <1> QED
    BY <1>9, <1>10

LEMMA ReadReader ==
    ASSUME TypeOK, Reader, Read
    PROVE  TypeOK' /\ Reader'
  <1>1. TypeOK' /\ Opened' = Opened /\ Base' = Base
    BY ReadTypes
  <1>2. lines' = lines /\ reading' = reading /\ rest # <<>>
    BY DEF Read
  <1> SUFFICES ASSUME WellFormed(Opened) PROVE AtStart' /\ AtPlace'
    BY <1>1 DEF Reader
  <1>3. reading # 0
    BY <1>2 DEF Reader, AtStart
  <1> PICK F : F = lines[reading]
    OBVIOUS
  <1>4. F \in Seq(Seq(Items)) /\ Len(F) \in Nat /\ F # <<>> /\ F[1] # <<>>
    BY <1>3, OpenedLines
  <1>5. PICK r, n : /\ Remains(F, r) /\ Place(F, r, n, rest)
                    /\ Done(Opened, Base + n, settings)
                    /\ Recent(input_string, input, settings) \/ (n = 0 /\ rest = r[0])
    BY <1>3 DEF Reader, AtPlace
  <1>6. n \in 0 .. Len(F)
    BY <1>5 DEF Place
  <1> SUFFICES \E m : /\ Place(F, r, m, rest') /\ Done(Opened, Base + m, settings')
                      /\ Recent(input_string', input', settings')
    BY <1>1, <1>2, <1>3, <1>5 DEF AtStart, AtPlace
  <1>7. CASE /\ NextItem(rest) = rest /\ IsComment(Head(rest))
             /\ SkipComment(Tail(rest)) = r[n]
    <2>1. IsComment(Current) /\ AfterWord = Tail(rest)
      BY <1>2, <1>7 DEF Current, AfterWord
    <2>2. rest' = r[n] /\ IsComment(input_string') /\ settings' = settings
      BY <1>7, <2>1, ReadingComment
    <2>3. Place(F, r, n, rest')
      BY <1>6, <2>2 DEF Place
    <2> QED
      BY <1>5, <2>2, <2>3 DEF Recent
  <1>8. ASSUME NextItem(rest) = NextItem(r[n]),
               NEW m \in n + 1 .. Len(F), Blank(F, n, m - 1), F[m] # <<>>,
               NextItem(r[n]) = r[m - 1]
        PROVE  /\ Place(F, r, m, rest') /\ Done(Opened, Base + m, settings')
               /\ Recent(input_string', input', settings')
    <2>1. n \in Nat
      BY <1>6
    <2> QED
      BY <1>3, <1>5, <1>8, <2>1, ReadLine
  <1>9. CASE /\ NextItem(rest) = NextItem(r[n])
             /\ Blank(F, n, Len(F)) /\ NextItem(r[n]) = <<>>
    <2>1. n # 0
      <3>1. 1 \in 0 + 1 .. Len(F)
        BY <1>4
      <3> QED
        BY <1>4, <1>9, <3>1 DEF Blank
    <2>2. /\ rest' = <<>> /\ settings' = settings
          /\ Recent(input_string', input', settings')
      BY <1>5, <1>9, <2>1, ReadAgain
    <2>3. Done(Opened, Base + Len(F), settings)
      <3>1. n \in Nat /\ n <= Len(F) /\ Len(F) <= Len(F)
        BY <1>4, <1>6
      <3> QED
        BY <1>3, <1>4, <1>5, <1>9, <3>1, DoneBlank
    <2>4. Place(F, r, Len(F), rest')
      BY <1>4, <1>5, <2>2 DEF Place, Remains
    <2> QED
      BY <2>2, <2>3, <2>4
  <1>10. \/ NextItem(rest) = NextItem(r[n])
         \/ /\ NextItem(rest) = rest /\ IsComment(Head(rest))
            /\ SkipComment(Tail(rest)) = r[n]
    BY <1>4, <1>5, AtItem
  <1>11. \/ Blank(F, n, Len(F)) /\ NextItem(r[n]) = <<>>
         \/ \E m \in n + 1 .. Len(F) :
                /\ Blank(F, n, m - 1) /\ F[m] # <<>> /\ NextItem(r[n]) = r[m - 1]
    BY <1>4, <1>5, <1>6, NextPlace
  <1> QED
    BY <1>7, <1>8, <1>9, <1>10, <1>11

\* After both files have been read, if they are well formed, every parameter has
\* the value of the last line that names it, and the timings are in processor
\* cycles, for any number of lines and whatever comments and blank lines are among
\* them (read_config_file, called twice by main).
THEOREM SettingsReadAsWritten == Spec => []SettingsAreAsWritten
  <1>1. Init => TypeOK /\ Reader
    BY InitReader
  <1>2. TypeOK /\ Reader /\ [Next]_vars => TypeOK' /\ Reader'
    <2> SUFFICES ASSUME TypeOK, Reader, [Next]_vars PROVE TypeOK' /\ Reader'
      OBVIOUS
    <2>1. CASE Open
      BY <2>1, OpenReader
    <2>2. CASE Read
      BY <2>2, ReadReader
    <2>3. CASE UNCHANGED vars
      BY <2>3 DEF vars, TypeOK, Reader, AtStart, AtPlace, Opened, Base
    <2> QED
      BY <2>1, <2>2, <2>3 DEF Next
  <1>3. TypeOK /\ Reader => SettingsAreAsWritten
    <2> PICK A : A = lines[1] \o lines[2]
      OBVIOUS
    <2> SUFFICES ASSUME TypeOK, Reader, Finished, WellFormed(A), NEW k \in Settings
                 PROVE  settings[k] =
                            IF LastLine(A, k) = 0 THEN 0
                            ELSE A[LastLine(A, k)][2].value * Factor(k, settings)
      BY DEF SettingsAreAsWritten, Factor
    <2>1. reading = 2 /\ rest = <<>> /\ Opened = A
      BY DEF Finished, Opened
    <2>2. A \in Seq(Seq(Items))
      BY <2>1, OpenedLines
    <2>3. Done(A, Len(A), settings)
      BY <2>1, DoneAtEnd
    <2> QED
      BY <2>2, <2>3, DoneEnd
  <1> QED
    BY <1>1, <1>2, <1>3, PTL DEF Spec

-----------------------------------------------------------------------------
(* Each turn of the loop takes something from what is left of the file.    *)

LEMMA FromIsShorter ==
    ASSUME NEW s \in Seq(Marks), NEW P \in SUBSET DOMAIN s
    PROVE  From(s, P) \in Seq(Marks) /\ Len(From(s, P)) <= Len(s)
  <1>1. CASE P = {}
    BY <1>1, EmptySeq DEF From
  <1>2. CASE P # {}
    <2>1. P \in SUBSET Nat
      OBVIOUS
    <2>2. PICK i \in P : \A j \in P : i <= j
      BY ONLY <1>2, <2>1, Least
    <2>3. From(s, P) = SubSeq(s, i, Len(s)) /\ i \in 1 .. Len(s) /\ Len(s) \in Nat
      <3>1. From(s, P) = SubSeq(s, i, Len(s)) /\ i \in 1 .. Len(s)
        BY <2>2, FromFirst
      <3>2. Len(s) \in Nat
        BY LenProperties
      <3> QED
        BY <3>1, <3>2
    <2>4. \A j \in i .. Len(s) : s[j] \in Marks
      BY <2>3
    <2>5. SubSeq(s, i, Len(s)) \in Seq(Marks) /\ Len(SubSeq(s, i, Len(s))) = Len(s) - i + 1
      BY <2>3, <2>4, SubSeqProperties
    <2> QED
      BY <2>3, <2>5
  <1> QED
    BY <1>1, <1>2

LEMMA NextIsShorter ==
    ASSUME NEW s \in Seq(Marks)
    PROVE  /\ NextItem(s) \in Seq(Marks) /\ Len(NextItem(s)) <= Len(s)
           /\ SkipComment(s) \in Seq(Marks) /\ Len(SkipComment(s)) <= Len(s)
  <1> DEFINE P == {i \in DOMAIN s : s[i] # EndOfLine}
             Q == {i \in DOMAIN s : s[i] = EndOfLine}
  <1>1. P \in SUBSET DOMAIN s /\ Q \in SUBSET DOMAIN s
    OBVIOUS
  <1>2. NextItem(s) = From(s, P)
    BY DEF NextItem
  <1>3. SkipComment(s) = IF From(s, Q) = <<>> THEN <<>> ELSE Tail(From(s, Q))
    BY DEF SkipComment
  <1> HIDE DEF P, Q
  <1>4. NextItem(s) \in Seq(Marks) /\ Len(NextItem(s)) <= Len(s)
    BY <1>1, <1>2, FromIsShorter
  <1> PICK u : u = From(s, Q)
    OBVIOUS
  <1>5. u \in Seq(Marks) /\ Len(u) <= Len(s) /\ Len(s) \in Nat
    BY <1>1, FromIsShorter
  <1>6. SkipComment(s) \in Seq(Marks) /\ Len(SkipComment(s)) <= Len(s)
    <2>1. CASE u = <<>>
      BY <1>3, <1>5, <2>1
    <2>2. CASE u # <<>>
      <3>1. SkipComment(s) = Tail(u)
        BY <1>3, <2>2
      <3>2. Tail(u) \in Seq(Marks) /\ Len(Tail(u)) = Len(u) - 1 /\ Len(u) \in Nat
        BY <1>5, <2>2, HeadTailProperties
      <3> QED
        BY <1>5, <3>1, <3>2
    <2> QED
      BY <2>1, <2>2
  <1> QED
    BY <1>4, <1>6

LEMMA ReadShortens ==
    ASSUME rest \in Seq(Marks), Read
    PROVE  rest' \in Seq(Marks) /\ Len(rest') < Len(rest)
  <1> PICK l : l = Len(rest)
    OBVIOUS
  <1> PICK u, v : u = NextItem(rest) /\ v = AfterWord
    OBVIOUS
  <1>1. rest # <<>> /\ l \in Nat \ {0}
    BY EmptySeq DEF Read
  <1>2. u \in Seq(Marks) /\ Len(u) <= l /\ Len(u) \in Nat
    BY NextIsShorter, LenProperties
  <1>3. v \in Seq(Marks) /\ Len(v) < l /\ Len(v) \in Nat
    <2>1. CASE u = <<>>
      <3>1. v = <<>>
        BY <2>1 DEF AfterWord
      <3> QED
        BY <1>1, <3>1, EmptySeq
    <2>2. CASE u # <<>>
      <3>1. v = Tail(u)
        BY <2>2 DEF AfterWord
      <3>2. Tail(u) \in Seq(Marks) /\ Len(Tail(u)) = Len(u) - 1
        BY <1>2, <2>2, HeadTailProperties
      <3>3. Len(v) \in Nat
        BY <3>1, <3>2, LenProperties
      <3> QED
        BY <1>1, <1>2, <3>1, <3>2, <3>3
    <2> QED
      BY <2>1, <2>2
  <1> PICK f, c : f = NextItem(v) /\ c = SkipComment(v)
    OBVIOUS
  <1>4. /\ f \in Seq(Marks) /\ Len(f) <= Len(v) /\ Len(f) \in Nat
        /\ c \in Seq(Marks) /\ Len(c) <= Len(v) /\ Len(c) \in Nat
    BY <1>3, NextIsShorter, LenProperties
  <1>5. rest' \in {c, v, f} \/ (f # <<>> /\ rest' = Tail(f))
    BY DEF Read, ReadComment, ReadUnknown, ReadSetting
  <1>6. CASE rest' \in {c, v, f}
    BY <1>1, <1>3, <1>4, <1>6
  <1>7. CASE f # <<>> /\ rest' = Tail(f)
    <2>1. Tail(f) \in Seq(Marks) /\ Len(Tail(f)) = Len(f) - 1
      BY <1>4, <1>7, HeadTailProperties
    <2> QED
      BY <1>1, <1>3, <1>4, <1>7, <2>1
  <1> QED
    BY <1>5, <1>6, <1>7

\* No turn of the loop of read_config_file leaves the file as it was, whatever is
\* written in it, and at the end of it where both calls of fscanf fail: with the
\* fairness of Spec, this is why reading ends.
THEOREM ReadingShortens == Spec => [][Read => Len(rest') < Len(rest)]_vars
  <1> DEFINE Left == rest \in Seq(Marks)
  <1>1. Init => Left
    BY EmptySeq DEF Init
  <1>2. Left /\ [Next]_vars => Left'
    <2> SUFFICES ASSUME Left, [Next]_vars PROVE Left'
      OBVIOUS
    <2>1. CASE Open
      <3>1. PICK file \in Files(IF reading = 0 THEN ConfigLines ELSE ChipLines),
                 ended \in BOOLEAN : rest' = Written(file, ended)
        BY <2>1 DEF Open
      <3>2. file \in Seq(Seq(Items)) /\ file # <<>>
        BY FilesAreLines
      <3>3. PICK r : Remains(file, r) /\ r[0] = Written(file, ended)
        BY <3>2, WrittenRemains
      <3>4. 0 \in 0 .. Len(file)
        BY <3>2
      <3> QED
        BY <3>1, <3>3, <3>4 DEF Remains
    <2>2. CASE Read
      BY <2>2, ReadShortens
    <2>3. CASE UNCHANGED vars
      BY <2>3 DEF vars
    <2> QED
      BY <2>1, <2>2, <2>3 DEF Next
  <1>3. Left /\ [Next]_vars => [Read => Len(rest') < Len(rest)]_vars
    BY ReadShortens
  <1> QED
    BY <1>1, <1>2, <1>3, PTL DEF Spec
=============================================================================
