----------------------------- MODULE CacheProofs -----------------------------
(***************************************************************************)
(* Theorems about what keeps copies: PageTable and Tlb, for every size of  *)
(* the TLB, number of threads, pages, frames and random tries, and         *)
(* LastLevelCache, for every associativity and every set of tags.  First   *)
(* paging alone, then the LRU positions, the entries, and the invariant of *)
(* TLB and paging together; the last-level cache, which shares nothing     *)
(* with them, comes last.                                                  *)
(***************************************************************************)
EXTENDS Tlb, LastLevelCache, WellFoundedInduction, TLAPS

-----------------------------------------------------------------------------
(* The two tables.                                                         *)

TablesTyped ==
    /\ pt \in [Keys -> Frames \cup {NoFrame, NoEntry}]
    /\ ipt \in [Frames -> [valid : BOOLEAN, ref : BOOLEAN, vpn : Keys \cup {0}]]
    /\ refptr \in Frames
    /\ search \in Pages \cup {NoPage}

PagingInv == TablesTyped /\ TablesAreInverse

\* Page p is to get a frame: it has none, and no other page waits for one.
Wanting(p) ==
    /\ pt[Key(p)] \in {NoFrame, NoEntry}
    /\ search \in {NoPage, p}

\* Every page has a key.
LEMMA KeyTypes ==
    ASSUME NEW p \in Pages
    PROVE  Key(p) \in Keys
    BY DEF Keys

\* No frame is called NoFrame or NoEntry, no page NoPage, and the hand has a
\* first place.
LEMMA Nothing ==
    /\ NoFrame \notin Frames /\ NoEntry \notin Frames /\ NoEntry # NoFrame
    /\ NoPage \notin Pages
    /\ 0 \in Frames
    BY PagingAssumption DEF Frames

\* The hand stays on the table.
LEMMA NextFrameType ==
    ASSUME refptr \in Frames
    PROVE  NextFrame \in Frames
    BY PagingAssumption DEF Frames, NextFrame

\* The heart of the paging: giving a frame to a page without one, and taking
\* it from the page that had it, keeps the tables inverse.
LEMMA InstallInverse ==
    ASSUME TablesTyped, TablesAreInverse, NEW p \in Pages, NEW f \in Frames,
           Wanting(p), Install(p, f)
    PROVE  /\ pt' \in [Keys -> Frames \cup {NoFrame, NoEntry}]
           /\ ipt' \in [Frames -> [valid : BOOLEAN, ref : BOOLEAN, vpn : Keys \cup {0}]]
           /\ TablesAreInverse'
  <1>1. pt' \in [Keys -> Frames \cup {NoFrame, NoEntry}]
    BY DEF Install, TablesTyped
  <1>2. ipt' \in [Frames -> [valid : BOOLEAN, ref : BOOLEAN, vpn : Keys \cup {0}]]
    BY KeyTypes DEF Install, TablesTyped
  <1>3. ASSUME NEW k \in Keys, NEW g \in Frames
        PROVE  pt'[k] = g <=> ipt'[g].valid /\ ipt'[g].vpn = k
    <2>1. Key(p) \in Keys
      BY KeyTypes
    <2>2. pt'[k] = IF k = Key(p) THEN f
                   ELSE IF ipt[f].valid /\ k = ipt[f].vpn THEN NoEntry
                   ELSE pt[k]
      BY DEF Install
    <2>3. ipt'[g] = IF g = f THEN [valid |-> TRUE, ref |-> TRUE, vpn |-> Key(p)]
                    ELSE ipt[g]
      BY DEF Install, TablesTyped
    <2>4. pt[k] = g <=> ipt[g].valid /\ ipt[g].vpn = k
      BY DEF TablesAreInverse
    <2>5. pt[k] = f <=> ipt[f].valid /\ ipt[f].vpn = k
      BY DEF TablesAreInverse
    <2>6. pt[Key(p)] = g <=> ipt[g].valid /\ ipt[g].vpn = Key(p)
      BY <2>1 DEF TablesAreInverse
    <2>7. CASE g = f
      BY <2>2, <2>3, <2>5, <2>7, Nothing
    <2>8. CASE g # f
      BY <2>2, <2>3, <2>4, <2>5, <2>6, <2>8, Nothing DEF Wanting
    <2> QED
      BY <2>7, <2>8
  <1>4. search' = NoPage
    BY DEF Install
  <1>5. ASSUME NEW k \in Keys
        PROVE  pt'[k] # NoFrame
    <2>1. k # Key(p) => pt[k] # NoFrame
      BY DEF TablesAreInverse, Wanting
    <2> QED
      BY <2>1, Nothing DEF Install
  <1> QED
    BY <1>1, <1>2, <1>3, <1>4, <1>5 DEF TablesAreInverse

LEMMA InstallKeeps ==
    ASSUME PagingInv, NEW p \in Pages, NEW f \in Frames,
           Wanting(p), Install(p, f), refptr' \in Frames
    PROVE  PagingInv'
    BY InstallInverse DEF PagingInv, TablesTyped, Install

\* A step that only sets reference bits.
LEMMA ReferenceKeeps ==
    ASSUME PagingInv, NEW f \in Frames, NEW bit \in BOOLEAN,
           ipt' = [ipt EXCEPT ![f].ref = bit], UNCHANGED <<pt, search>>,
           refptr' \in Frames
    PROVE  PagingInv'
  <1>1. TablesTyped'
    BY DEF PagingInv, TablesTyped
  <1>2. \A g \in Frames : ipt'[g].valid = ipt[g].valid /\ ipt'[g].vpn = ipt[g].vpn
    BY DEF PagingInv, TablesTyped
  <1>3. TablesAreInverse'
    BY <1>2 DEF PagingInv, TablesAreInverse
  <1> QED
    BY <1>1, <1>3 DEF PagingInv

\* Between two calls, every entry that is found has a frame.
LEMMA FoundFrame ==
    ASSUME PagingInv, search = NoPage, NEW p \in Pages, pt[Key(p)] # NoEntry
    PROVE  pt[Key(p)] \in Frames
    BY KeyTypes DEF PagingInv, TablesTyped, TablesAreInverse

LEMMA TranslateKeeps ==
    ASSUME PagingInv, NEW p \in Pages, Translate(p)
    PROVE  PagingInv'
  <1>1. refptr \in Frames
    BY DEF PagingInv, TablesTyped
  <1>2. CASE Repeat(p)
    BY <1>2 DEF Repeat, pageVars, PagingInv, TablesTyped, TablesAreInverse
  <1>3. CASE LookUp(p)
    BY <1>1, <1>3, FoundFrame, ReferenceKeeps DEF LookUp, Translate
  <1>4. CASE pt[Key(p)] = NoEntry /\ TakeRandom(p)
    BY <1>1, <1>4, InstallKeeps DEF TakeRandom, Translate, Wanting
  <1>5. CASE pt[Key(p)] = NoEntry /\ StartClock(p)
    <2>1. Key(p) \in Keys /\ p # NoPage /\ search = NoPage
      BY KeyTypes, Nothing DEF Translate
    <2>2. /\ pt' = [pt EXCEPT ![Key(p)] = NoFrame] /\ search' = p
          /\ UNCHANGED <<ipt, refptr>>
      BY <1>5 DEF StartClock
    <2>3. TablesTyped'
      BY <2>1, <2>2 DEF PagingInv, TablesTyped
    <2>4. ASSUME NEW k \in Keys
          PROVE  pt'[k] = IF k = Key(p) THEN NoFrame ELSE pt[k]
      BY <2>2 DEF PagingInv, TablesTyped
    <2>5. TablesAreInverse'
      BY <1>5, <2>1, <2>2, <2>4, Nothing DEF PagingInv, TablesAreInverse
    <2> QED
      BY <2>3, <2>5 DEF PagingInv
  <1> QED
    BY <1>2, <1>3, <1>4, <1>5 DEF Translate, Fault

LEMMA ClockTurnKeeps ==
    ASSUME PagingInv, ClockTurn
    PROVE  PagingInv'
  <1>1. refptr \in Frames /\ refptr' \in Frames
    BY NextFrameType DEF PagingInv, TablesTyped, ClockTurn
  <1>2. search \in Pages /\ Wanting(search)
    BY KeyTypes DEF PagingInv, TablesTyped, TablesAreInverse, ClockTurn, Wanting
  <1>3. CASE Install(search, refptr)
    BY <1>1, <1>2, <1>3, InstallKeeps
  <1>4. CASE ipt' = [ipt EXCEPT ![refptr].ref = FALSE] /\ UNCHANGED <<pt, search>>
    BY <1>1, <1>4, ReferenceKeeps
  <1> QED
    BY <1>3, <1>4 DEF ClockTurn

LEMMA PagingStep == PagingInv /\ [PagingNext]_pageVars => PagingInv'
  <1> SUFFICES ASSUME PagingInv, [PagingNext]_pageVars PROVE PagingInv'
    OBVIOUS
  <1>1. CASE UNCHANGED pageVars
    BY <1>1 DEF pageVars, PagingInv, TablesTyped, TablesAreInverse
  <1> QED
    BY <1>1, TranslateKeeps, ClockTurnKeeps DEF PagingNext

LEMMA PagingInvariant == PagingSpec => []PagingInv
  <1>1. PagingInit => PagingInv
    BY Nothing DEF PagingInit, PagingInv, TablesTyped, TablesAreInverse
  <1> QED
    BY <1>1, PagingStep, PTL DEF PagingSpec

\* The page table and the inverted page table never disagree, and an entry
\* without a frame is there only as long as a frame is searched for it.
THEOREM Inverse == PagingSpec => []TablesAreInverse
  <1>1. PagingInv => TablesAreInverse
    BY DEF PagingInv
  <1> QED
    BY <1>1, PagingInvariant, PTL

-----------------------------------------------------------------------------
(* The frame map.  Pages have frames of their own as long as they have     *)
(* keys of their own.                                                      *)

KeysAreApart == \A p, q \in Pages : Key(p) = Key(q) => p = q

\* Installing a frame is one step of the frame map.
LEMMA InstallAssigns ==
    ASSUME KeysAreApart, PagingInv, NEW p \in Pages, NEW f \in Frames,
           Wanting(p), Install(p, f)
    PROVE  Map!Next
  <1> DEFINE map == [q \in Pages |-> Frame(Key(q))]
  <1>1. map[p] = NoFrame
    BY DEF Wanting, Frame
  <1>2. ASSUME NEW q \in Pages
        PROVE  Frame(Key(q))' = IF q = p THEN f
                                ELSE IF map[q] = f THEN NoFrame ELSE map[q]
    <2>1. Key(q) \in Keys
      BY KeyTypes
    <2>2. Key(q) = Key(p) <=> q = p
      BY DEF KeysAreApart
    <2>3. pt[Key(q)] = f <=> ipt[f].valid /\ ipt[f].vpn = Key(q)
      BY <2>1 DEF PagingInv, TablesAreInverse
    <2>4. pt'[Key(q)] = IF q = p THEN f
                        ELSE IF pt[Key(q)] = f THEN NoEntry ELSE pt[Key(q)]
      BY <2>1, <2>2, <2>3 DEF Install
    <2> QED
      BY <2>4, Nothing DEF Frame
  <1>3. map' = [q \in Pages |-> IF q = p THEN f
                                ELSE IF map[q] = f THEN NoFrame ELSE map[q]]
    BY <1>2
  <1>4. Map!Assign(p, f)
    BY <1>1, <1>3 DEF Map!Assign
  <1> QED
    BY <1>4 DEF Map!Next

LEMMA MapStep ==
    ASSUME KeysAreApart, PagingInv, [PagingNext]_pageVars
    PROVE  [Map!Next]_([p \in Pages |-> Frame(Key(p))])
  <1>1. CASE UNCHANGED pt
    BY <1>1 DEF Frame
  <1>2. ASSUME NEW p \in Pages, Translate(p), pt' # pt
        PROVE  [Map!Next]_([q \in Pages |-> Frame(Key(q))])
    <2>1. /\ pt[Key(p)] = NoEntry /\ search = NoPage
          /\ TakeRandom(p) \/ StartClock(p)
      BY <1>2 DEF Translate, Repeat, LookUp, Fault, pageVars
    <2>2. CASE TakeRandom(p)
      BY <2>1, <2>2, InstallAssigns DEF TakeRandom, Wanting
    <2>3. CASE StartClock(p)
      <3>1. \A k \in Keys : Frame(k)' = Frame(k)
        BY <2>1, <2>3 DEF StartClock, PagingInv, TablesTyped, Frame
      <3> QED
        BY <3>1, KeyTypes
    <2> QED
      BY <2>1, <2>2, <2>3
  <1>3. ASSUME ClockTurn, pt' # pt
        PROVE  Map!Next
    <2>1. search \in Pages /\ Wanting(search) /\ refptr \in Frames
      BY <1>3, KeyTypes
      DEF ClockTurn, PagingInv, TablesTyped, TablesAreInverse, Wanting
    <2>2. Install(search, refptr)
      BY <1>3 DEF ClockTurn
    <2> QED
      BY <2>1, <2>2, InstallAssigns
  <1> QED
    BY <1>1, <1>2, <1>3 DEF PagingNext, pageVars

\* The paging implements the frame map for every number of frames and random
\* tries, if no two pages share a key.
THEOREM PagingIsFrameMap ==
    ASSUME KeysAreApart
    PROVE  PagingSpec => ImplementsFrameMap
  <1>1. PagingInit => Map!Init
    BY KeyTypes DEF PagingInit, Map!Init, Frame
  <1>2. PagingInv /\ [PagingNext]_pageVars
            => [Map!Next]_([p \in Pages |-> Frame(Key(p))])
    BY MapStep
  <1> QED
    BY <1>1, <1>2, PagingInvariant, PTL DEF PagingSpec, ImplementsFrameMap, Map!Spec

-----------------------------------------------------------------------------
(* LRU positions: each of 0 .. n-1 once, and how they move.                *)

IsStack(pos, n) ==
    /\ pos \in [1 .. n -> 0 .. n - 1]
    /\ \A i, j \in 1 .. n : pos[i] = pos[j] => i = j
    /\ \A m \in 0 .. n - 1 : \E i \in 1 .. n : pos[i] = m

\* Where i comes before j, it still does after the step, unless j is used.
KeepsOrder(pos, new, n) ==
    \A i, j \in 1 .. n :
        pos[i] < pos[j] => new[j] = 0 \/ new[i] < new[j]

LEMMA TouchedStack ==
    ASSUME NEW n \in Nat, NEW pos, IsStack(pos, n), NEW row \in 1 .. n, NEW new,
           new = [i \in 1 .. n |-> IF i = row THEN 0
                                   ELSE IF pos[i] < pos[row] THEN pos[i] + 1
                                   ELSE pos[i]]
    PROVE  IsStack(new, n) /\ KeepsOrder(pos, new, n)
  <1>1. \A i \in 1 .. n : pos[i] \in 0 .. n - 1
    BY DEF IsStack
  <1>2. new \in [1 .. n -> 0 .. n - 1]
    <2>1. \A i \in 1 .. n : pos[i] < pos[row] => pos[i] + 1 \in 0 .. n - 1
      BY <1>1
    <2> QED
      BY <1>1, <2>1
  <1>3. \A i \in 1 .. n : new[i] = IF i = row THEN 0
                                   ELSE IF pos[i] < pos[row] THEN pos[i] + 1
                                   ELSE pos[i]
    OBVIOUS
  <1>4. ASSUME NEW i \in 1 .. n, NEW j \in 1 .. n, new[i] = new[j]
        PROVE  i = j
    <2>1. /\ pos[i] \in Int /\ pos[i] >= 0 /\ pos[j] \in Int /\ pos[j] >= 0
          /\ pos[row] \in Int /\ pos[row] >= 0
      BY <1>1
    <2>2. /\ pos[i] = pos[j] => i = j
          /\ pos[i] = pos[row] => i = row
          /\ pos[j] = pos[row] => j = row
      BY DEF IsStack
    <2> QED
      BY <1>4, <1>3, <2>1, <2>2
  <1>5. ASSUME NEW m \in 0 .. n - 1
        PROVE  \E i \in 1 .. n : new[i] = m
    <2>1. CASE m = 0
      BY <2>1
    <2>2. CASE 0 < m /\ m <= pos[row]
      <3>1. m - 1 \in 0 .. n - 1
        BY <2>2
      <3>2. PICK i \in 1 .. n : pos[i] = m - 1
        BY <3>1 DEF IsStack
      <3> QED
        BY <1>1, <2>2, <3>2
    <2>3. CASE m > pos[row]
      <3>1. PICK i \in 1 .. n : pos[i] = m
        BY DEF IsStack
      <3> QED
        BY <1>1, <2>3, <3>1
    <2> QED
      BY <1>1, <2>1, <2>2, <2>3
  <1>6. KeepsOrder(pos, new, n)
    <2> SUFFICES ASSUME NEW i \in 1 .. n, NEW j \in 1 .. n, pos[i] < pos[j]
                 PROVE  new[j] = 0 \/ new[i] < new[j]
      BY DEF KeepsOrder
    <2>1. /\ pos[i] \in Int /\ pos[i] >= 0 /\ pos[j] \in Int
          /\ pos[row] \in Int /\ pos[row] >= 0
      BY <1>1
    <2>2. pos[j] = pos[row] => j = row
      BY DEF IsStack
    <2> QED
      BY <1>3, <2>1, <2>2
  <1> QED
    BY <1>2, <1>4, <1>5, <1>6 DEF IsStack

\* The new entry takes a new row.
LEMMA GrownStack ==
    ASSUME NEW n \in Nat, NEW pos, IsStack(pos, n), NEW new,
           new = [i \in 1 .. n + 1 |-> IF i = n + 1 THEN 0 ELSE pos[i] + 1]
    PROVE  IsStack(new, n + 1) /\ KeepsOrder(pos, new, n)
  <1>1. \A i \in 1 .. n : pos[i] \in 0 .. n - 1
    BY DEF IsStack
  <1>2. /\ new \in [1 .. n + 1 -> 0 .. n]
        /\ \A i \in 1 .. n : new[i] = pos[i] + 1
        /\ new[n + 1] = 0
    BY <1>1
  <1>3. ASSUME NEW i \in 1 .. n + 1, NEW j \in 1 .. n + 1, new[i] = new[j]
        PROVE  i = j
    <2>1. CASE i = n + 1 \/ j = n + 1
      BY <1>1, <1>3, <2>1
    <2>2. CASE i \in 1 .. n /\ j \in 1 .. n
      <3>1. pos[i] + 1 = pos[j] + 1 /\ pos[i] \in Int /\ pos[j] \in Int
        BY <1>1, <1>2, <1>3, <2>2
      <3>2. pos[i] = pos[j]
        BY ONLY <3>1
      <3> QED
        BY <2>2, <3>2 DEF IsStack
    <2> QED
      BY <2>1, <2>2
  <1>4. ASSUME NEW m \in 0 .. n
        PROVE  \E i \in 1 .. n + 1 : new[i] = m
    <2>1. CASE m = 0
      BY <1>2, <2>1
    <2>2. CASE m # 0
      <3>1. PICK i \in 1 .. n : pos[i] = m - 1
        BY <2>2 DEF IsStack
      <3> QED
        BY <1>2, <3>1
    <2> QED
      BY <2>1, <2>2
  <1>5. KeepsOrder(pos, new, n)
    BY <1>1, <1>2 DEF KeepsOrder
  <1>6. 0 .. (n + 1) - 1 = 0 .. n
    OBVIOUS
  <1>7. IsStack(new, n + 1)
    <2>1. \A i, j \in 1 .. n + 1 : new[i] = new[j] => i = j
      BY <1>3
    <2>2. \A m \in 0 .. n : \E i \in 1 .. n + 1 : new[i] = m
      BY <1>4
    <2> QED
      BY ONLY <1>2, <1>6, <2>1, <2>2 DEF IsStack
  <1> QED
    BY <1>5, <1>7

\* The new entry takes the row of the oldest.
LEMMA TurnedStack ==
    ASSUME NEW n \in Nat, NEW pos, IsStack(pos, n), NEW oldest \in 1 .. n,
           pos[oldest] + 1 = n, NEW new,
           new = [i \in 1 .. n |-> IF i = oldest THEN 0 ELSE pos[i] + 1]
    PROVE  /\ IsStack(new, n) /\ KeepsOrder(pos, new, n)
           /\ \A i \in 1 .. n : pos[i] < n - 1 <=> i # oldest
  <1>1. \A i \in 1 .. n : pos[i] \in 0 .. n - 1
    BY DEF IsStack
  <1>2. \A i \in 1 .. n : pos[i] < n - 1 <=> i # oldest
    BY <1>1 DEF IsStack
  <1>3. new \in [1 .. n -> 0 .. n - 1]
    BY <1>1, <1>2
  <1>4. \A i, j \in 1 .. n : new[i] = new[j] => i = j
    BY <1>1 DEF IsStack
  <1>5. ASSUME NEW m \in 0 .. n - 1
        PROVE  \E i \in 1 .. n : new[i] = m
    <2>1. CASE m = 0
      BY <2>1
    <2>2. CASE m # 0
      <3>1. PICK i \in 1 .. n : pos[i] = m - 1
        BY <2>2 DEF IsStack
      <3> QED
        BY <1>1, <3>1
    <2> QED
      BY <2>1, <2>2
  <1>6. KeepsOrder(pos, new, n)
    BY <1>1, <1>2 DEF KeepsOrder
  <1> QED
    BY <1>2, <1>3, <1>4, <1>5, <1>6 DEF IsStack

-----------------------------------------------------------------------------
(* The entries.                                                            *)

EntryType == [tid : Threads, vpn : 0 .. 2^VPN_BITS - 1, pfn : Frames,
              LRU_position : Nat]

Positions == [i \in 1 .. Len(tlb) |-> tlb[i].LRU_position]

Stacked ==
    /\ tlb \in Seq(EntryType)
    /\ Len(tlb) <= TLB_SIZE
    /\ IsStack(Positions, Len(tlb))

NoPageTwice ==
    \A i, j \in Rows : Holds(i, <<tlb[j].tid, tlb[j].vpn>>) => i = j

\* Row i holds the page and the frame it held before the step.
Stays(i) ==
    /\ tlb'[i].tid = tlb[i].tid
    /\ tlb'[i].vpn = tlb[i].vpn
    /\ tlb'[i].pfn = tlb[i].pfn

\* What ReplacesLeastRecent says of a step.
AgesInOrder ==
    \A i, j \in Rows : tlb[i].LRU_position < tlb[j].LRU_position =>
        /\ Stays(i)
        /\ \/ tlb'[j].LRU_position = 0
           \/ tlb'[i].LRU_position < tlb'[j].LRU_position

LEMMA RowNumbers ==
    ASSUME tlb \in Seq(EntryType)
    PROVE  /\ Rows = 1 .. Len(tlb)
           /\ Len(tlb) \in Nat
           /\ \A i \in Rows : tlb[i] \in EntryType
           /\ \A i \in Rows : Positions[i] = tlb[i].LRU_position
    BY DEF Rows, Positions

LEMMA EntryTypes ==
    ASSUME NEW p \in Pages, NEW f \in Frames
    PROVE  /\ Entry(p, f) \in EntryType
           /\ Entry(p, f).LRU_position = 0
           /\ Entry(p, f).pfn = f
           /\ <<Entry(p, f).tid, Entry(p, f).vpn>> = p
    BY DEF Pages, Entry, EntryType

\* A hit makes its row the newest and keeps the order of the others.
LEMMA TouchKeeps ==
    ASSUME Stacked, NoPageTwice, NEW row \in Rows, tlb' = Touched(row)
    PROVE  /\ Stacked' /\ NoPageTwice' /\ AgesInOrder
           /\ Rows' = Rows /\ \A i \in Rows : Stays(i)
  <1> DEFINE n == Len(tlb)
             moved(i) == IF i = row THEN 0
                         ELSE IF tlb[i].LRU_position < tlb[row].LRU_position
                         THEN tlb[i].LRU_position + 1
                         ELSE tlb[i].LRU_position
  <1>1. /\ Rows = 1 .. n /\ n \in Nat
        /\ \A i \in Rows : tlb[i] \in EntryType
        /\ \A i \in Rows : Positions[i] = tlb[i].LRU_position
    BY RowNumbers DEF Stacked
  <1>2. tlb' = [i \in Rows |-> [tlb[i] EXCEPT !.LRU_position = moved(i)]]
    BY DEF Touched
  <1>3. \A i \in Rows : moved(i) \in Nat
    BY <1>1 DEF EntryType
  <1>4. \A i \in Rows : [tlb[i] EXCEPT !.LRU_position = moved(i)] \in EntryType
    BY <1>1, <1>3 DEF EntryType
  <1>5. tlb' \in Seq(EntryType) /\ Len(tlb') = n /\ Rows' = Rows
    BY <1>1, <1>2, <1>4 DEF Rows
  <1>6. \A i \in Rows : Stays(i) /\ tlb'[i].LRU_position = moved(i)
    BY <1>1, <1>2 DEF EntryType, Stays
  <1>7. Positions' = [i \in 1 .. n |-> IF i = row THEN 0
                         ELSE IF Positions[i] < Positions[row]
                         THEN Positions[i] + 1 ELSE Positions[i]]
    BY <1>1, <1>5, <1>6 DEF Positions
  <1> HIDE DEF moved
  <1>8. IsStack(Positions', n) /\ KeepsOrder(Positions, Positions', n)
    <2>1. IsStack(Positions, n)
      BY DEF Stacked
    <2> QED
      BY <1>1, <1>7, <2>1, TouchedStack
  <1>9. Stacked'
    BY <1>5, <1>8 DEF Stacked
  <1>10. \A i \in Rows : Positions'[i] = tlb'[i].LRU_position
    BY <1>1, <1>5 DEF Positions
  <1>11. AgesInOrder
    BY <1>1, <1>6, <1>8, <1>10 DEF AgesInOrder, KeepsOrder
  <1>12. NoPageTwice'
    BY <1>5, <1>6 DEF NoPageTwice, Holds, Stays
  <1> QED
    BY <1>5, <1>6, <1>9, <1>11, <1>12

\* A fill makes every entry older.  The new one takes a new row or that of
\* the oldest.
LEMMA FillKeeps ==
    ASSUME Stacked, NoPageTwice, NEW p \in Pages, NEW f \in Frames,
           \A row \in Rows : ~Holds(row, p), Fill(p, f)
    PROVE  /\ Stacked' /\ NoPageTwice' /\ AgesInOrder
           /\ \E new \in Rows' :
                 /\ tlb'[new] = Entry(p, f)
                 /\ \A i \in Rows' \ {new} : i \in Rows /\ Stays(i)
  <1> DEFINE n == Len(tlb)
             aged == [i \in Rows |-> [tlb[i] EXCEPT !.LRU_position = @ + 1]]
  <1>1. /\ Rows = 1 .. n /\ n \in Nat
        /\ \A i \in Rows : tlb[i] \in EntryType
        /\ \A i \in Rows : Positions[i] = tlb[i].LRU_position
    BY RowNumbers DEF Stacked
  <1>2. \A i \in Rows : /\ aged[i] \in EntryType
                        /\ aged[i].tid = tlb[i].tid
                        /\ aged[i].vpn = tlb[i].vpn
                        /\ aged[i].pfn = tlb[i].pfn
                        /\ aged[i].LRU_position = tlb[i].LRU_position + 1
    BY <1>1 DEF EntryType
  <1>3. aged \in Seq(EntryType) /\ Len(aged) = n /\ DOMAIN aged = Rows
    BY <1>1, <1>2
  <1>4. IsStack(Positions, n) /\ n <= TLB_SIZE
    BY DEF Stacked
  <1>5. ASSUME NEW new \in Rows', tlb'[new] = Entry(p, f),
               \A i \in Rows' \ {new} : i \in Rows /\ Stays(i)
        PROVE  NoPageTwice'
    BY <1>5, EntryTypes DEF NoPageTwice, Holds, Stays
  <1>6. CASE n < TLB_SIZE /\ tlb' = Append(aged, Entry(p, f))
    <2>1. /\ tlb' \in Seq(EntryType)
          /\ Len(tlb') = n + 1
          /\ Rows' = 1 .. n + 1
          /\ tlb'[n + 1] = Entry(p, f)
          /\ \A i \in Rows : tlb'[i] = aged[i]
      BY <1>1, <1>3, <1>6, EntryTypes DEF Rows
    <2>2. \A i \in Rows : Stays(i)
      BY <1>2, <2>1 DEF Stays
    <2>3. \A i \in Rows : tlb'[i].LRU_position = tlb[i].LRU_position + 1
      BY <1>2, <2>1
    <2> HIDE DEF aged
    <2>4. Positions' = [i \in 1 .. n + 1 |->
                           IF i = n + 1 THEN 0 ELSE Positions[i] + 1]
      BY <1>1, <2>1, <2>3, EntryTypes DEF Positions
    <2>5. IsStack(Positions', n + 1) /\ KeepsOrder(Positions, Positions', n)
      BY <1>1, <1>4, <2>4, GrownStack
    <2>6. Stacked'
      <3>1. n + 1 <= TLB_SIZE
        BY <1>1, <1>6, TlbAssumption
      <3> QED
        BY <2>1, <2>5, <3>1 DEF Stacked
    <2>7. \A i \in Rows : Positions'[i] = tlb'[i].LRU_position
      BY <1>1, <2>1 DEF Positions
    <2>8. AgesInOrder
      BY <1>1, <2>2, <2>5, <2>7 DEF AgesInOrder, KeepsOrder
    <2>9. /\ n + 1 \in Rows'
          /\ \A i \in Rows' \ {n + 1} : i \in Rows /\ Stays(i)
      BY <1>1, <2>1, <2>2
    <2> QED
      BY <1>5, <2>1, <2>6, <2>8, <2>9
  <1>7. ASSUME NEW oldest \in Rows, aged[oldest].LRU_position = n,
               tlb' = [aged EXCEPT ![oldest] = Entry(p, f)]
        PROVE  /\ Stacked' /\ AgesInOrder
               /\ Rows' = Rows /\ tlb'[oldest] = Entry(p, f)
               /\ \A i \in Rows \ {oldest} : Stays(i)
    <2>1. /\ tlb' \in Seq(EntryType)
          /\ Len(tlb') = n
          /\ Rows' = Rows
          /\ tlb'[oldest] = Entry(p, f)
          /\ \A i \in Rows \ {oldest} : tlb'[i] = aged[i]
      BY <1>1, <1>3, <1>7, EntryTypes DEF Rows
    <2>2. \A i \in Rows \ {oldest} : Stays(i)
      BY <1>2, <2>1 DEF Stays
    <2>3. \A i \in Rows \ {oldest} :
              tlb'[i].LRU_position = tlb[i].LRU_position + 1
      BY <1>2, <2>1
    <2>4. Positions[oldest] + 1 = n
      BY <1>1, <1>2, <1>7
    <2> HIDE DEF aged
    <2>5. Positions' = [i \in 1 .. n |->
                           IF i = oldest THEN 0 ELSE Positions[i] + 1]
      BY <1>1, <2>1, <2>3, EntryTypes DEF Positions
    <2>6. /\ IsStack(Positions', n) /\ KeepsOrder(Positions, Positions', n)
          /\ \A i \in 1 .. n : Positions[i] < n - 1 <=> i # oldest
      <3> PICK pos, new : pos = Positions /\ new = Positions'
        OBVIOUS
      <3>1. n \in Nat /\ oldest \in 1 .. n /\ IsStack(pos, n)
        BY <1>1, <1>4
      <3>2. /\ pos[oldest] + 1 = n
            /\ new = [i \in 1 .. n |-> IF i = oldest THEN 0 ELSE pos[i] + 1]
        BY <2>4, <2>5
      <3>3. /\ IsStack(new, n) /\ KeepsOrder(pos, new, n)
            /\ \A i \in 1 .. n : pos[i] < n - 1 <=> i # oldest
        BY ONLY <3>1, <3>2, TurnedStack
      <3> QED
        BY <3>3
    <2>7. Stacked'
      BY <1>4, <2>1, <2>6 DEF Stacked
    <2>8. \A i \in Rows : Positions'[i] = tlb'[i].LRU_position
      BY <1>1, <2>1 DEF Positions
    <2>9. ASSUME NEW i \in Rows, NEW j \in Rows, Positions[i] < Positions[j]
          PROVE  i # oldest
      <3>1. Positions[i] \in 0 .. n - 1 /\ Positions[j] \in 0 .. n - 1
        BY <1>1, <1>4 DEF IsStack
      <3> QED
        BY <1>1, <2>4, <2>9, <3>1
    <2>10. AgesInOrder
      BY <1>1, <2>2, <2>6, <2>8, <2>9 DEF AgesInOrder, KeepsOrder
    <2> QED
      BY <2>1, <2>2, <2>7, <2>10
  <1>8. CASE \E oldest \in Rows :
               /\ aged[oldest].LRU_position = n
               /\ tlb' = [aged EXCEPT ![oldest] = Entry(p, f)]
    <2>1. PICK oldest \in Rows :
              /\ aged[oldest].LRU_position = n
              /\ tlb' = [aged EXCEPT ![oldest] = Entry(p, f)]
      BY <1>8
    <2>2. /\ Stacked' /\ AgesInOrder
          /\ Rows' = Rows /\ tlb'[oldest] = Entry(p, f)
          /\ \A i \in Rows \ {oldest} : Stays(i)
      BY <1>7, <2>1
    <2> HIDE DEF aged
    <2> QED
      BY <1>5, <2>2
  <1> QED
    BY <1>6, <1>8 DEF Fill

-----------------------------------------------------------------------------
(* The invariant.  No page gets a second entry, because a page a frame is  *)
(* being searched for has none.  The copies of a translation are right,    *)
(* because as long as no frame is taken away from its page, a frame given  *)
(* out leaves every other entry of the page table as it is.                *)

LastTyped == last_xlation \in [Threads -> [vpn : Keys \cup {0}, pfn : Frames]]

ReplyTyped == reply.page # NoPage => reply.page \in Pages /\ reply.pfn \in Frames

SearchedHasNoEntry ==
    search # NoPage => \A row \in Rows : ~Holds(row, search)

TlbInv ==
    /\ PagingInv /\ LastTyped /\ ReplyTyped
    /\ Stacked /\ NoPageTwice /\ SearchedHasNoEntry
    /\ CopiesAreCurrent

\* What a step of the page table does to copies of its entries.
KeepsCopies ==
    /\ LastTyped'
    /\ ~evicted' =>
          /\ ~evicted
          /\ \A k \in Keys \cup {0}, f \in Frames : Agrees(k, f) => Agrees(k, f)'
          /\ \A t \in Threads :
                \/ last_xlation'[t] = last_xlation[t]
                \/ Agrees(last_xlation[t].vpn, last_xlation[t].pfn)'

LEMMA RememberType ==
    ASSUME LastTyped, NEW p \in Pages, NEW f \in Frames, Remember(p, f)
    PROVE  /\ LastTyped'
           /\ p[1] \in Threads
           /\ last_xlation'[p[1]] = [vpn |-> Key(p), pfn |-> f]
           /\ \A t \in Threads \ {p[1]} : last_xlation'[t] = last_xlation[t]
  <1>1. p[1] \in Threads /\ Key(p) \in Keys
    BY KeyTypes DEF Pages
  <1> QED
    BY <1>1 DEF LastTyped, Remember

LEMMA InstallKeepsCopies ==
    ASSUME TlbInv, NEW p \in Pages, NEW f \in Frames, Wanting(p), Install(p, f)
    PROVE  KeepsCopies
  <1>1. /\ LastTyped'
        /\ p[1] \in Threads
        /\ last_xlation'[p[1]] = [vpn |-> Key(p), pfn |-> f]
        /\ \A t \in Threads \ {p[1]} : last_xlation'[t] = last_xlation[t]
    BY RememberType DEF Install, TlbInv
  <1>2. Key(p) \in Keys
    BY KeyTypes
  <1>3. pt'[Key(p)] = f
    BY <1>2 DEF Install
  <1>4. ASSUME ~evicted'
        PROVE  /\ ~evicted
               /\ \A k \in Keys \ {Key(p)} : pt'[k] = pt[k]
    BY <1>4 DEF Install
  <1>5. ASSUME ~evicted', NEW k \in Keys \cup {0}, NEW g \in Frames, Agrees(k, g)
        PROVE  Agrees(k, g)'
    <2>1. k # 0 => k # Key(p)
      BY <1>5, Nothing DEF Agrees, Wanting
    <2> QED
      BY <1>4, <1>5, <2>1 DEF Agrees
  <1>6. Agrees(last_xlation[p[1]].vpn, last_xlation[p[1]].pfn)'
    BY <1>1, <1>3 DEF Agrees
  <1> QED
    BY <1>1, <1>4, <1>5, <1>6 DEF KeepsCopies

\* A call of os_vpn_to_pfn answers or begins to search.
LEMMA TranslateCopies ==
    ASSUME TlbInv, NEW p \in Pages, Translate(p)
    PROVE  /\ KeepsCopies
           /\ \/ search' = p
              \/ search' = NoPage /\ last_xlation'[p[1]].vpn = Key(p)
  <1>1. p[1] \in Threads /\ Key(p) \in Keys /\ search = NoPage
    BY KeyTypes DEF Pages, Translate
  <1>2. CASE Repeat(p)
    BY <1>1, <1>2 DEF Repeat, pageVars, TlbInv, LastTyped, KeepsCopies, Agrees
  <1>3. CASE LookUp(p)
    <2>1. pt[Key(p)] \in Frames
      BY <1>1, <1>3, FoundFrame DEF LookUp, TlbInv
    <2>2. /\ LastTyped'
          /\ last_xlation'[p[1]] = [vpn |-> Key(p), pfn |-> pt[Key(p)]]
          /\ \A t \in Threads \ {p[1]} : last_xlation'[t] = last_xlation[t]
      BY <1>3, <2>1, RememberType DEF LookUp, TlbInv
    <2>3. UNCHANGED <<pt, search, evicted>>
      BY <1>3 DEF LookUp
    <2> QED
      BY <1>1, <2>2, <2>3 DEF KeepsCopies, Agrees
  <1>4. CASE pt[Key(p)] = NoEntry /\ TakeRandom(p)
    <2>1. PICK f \in Frames : Install(p, f)
      BY <1>4 DEF TakeRandom
    <2>2. last_xlation'[p[1]].vpn = Key(p)
      <3>1. last_xlation'[p[1]] = [vpn |-> Key(p), pfn |-> f]
        BY <2>1, RememberType DEF Install, TlbInv
      <3> QED
        BY <3>1
    <2> QED
      BY <1>1, <1>4, <2>1, <2>2, InstallKeepsCopies DEF Install, Wanting
  <1>5. CASE pt[Key(p)] = NoEntry /\ StartClock(p)
    <2>1. ASSUME NEW k \in Keys \cup {0}, NEW f \in Frames, Agrees(k, f)
          PROVE  Agrees(k, f)'
      BY <1>1, <1>5, <2>1, Nothing
      DEF StartClock, TlbInv, PagingInv, TablesTyped, Agrees
    <2> QED
      BY <1>5, <2>1 DEF StartClock, TlbInv, LastTyped, KeepsCopies
  <1> QED
    BY <1>2, <1>3, <1>4, <1>5 DEF Translate, Fault

LEMMA ClockTurnCopies ==
    ASSUME TlbInv, ClockTurn
    PROVE  /\ KeepsCopies
           /\ search \in Pages
           /\ \/ search' = search
              \/ search' = NoPage /\ last_xlation'[search[1]].vpn = Key(search)
  <1>1. search \in Pages /\ Wanting(search) /\ refptr \in Frames
    BY KeyTypes
    DEF TlbInv, PagingInv, TablesTyped, TablesAreInverse, ClockTurn, Wanting
  <1>2. CASE Install(search, refptr)
    <2>1. last_xlation'[search[1]].vpn = Key(search)
      <3>1. last_xlation'[search[1]] = [vpn |-> Key(search), pfn |-> refptr]
        BY <1>1, <1>2, RememberType DEF Install, TlbInv
      <3> QED
        BY <3>1
    <2> QED
      BY <1>1, <1>2, <2>1, InstallKeepsCopies DEF Install
  <1>3. CASE UNCHANGED <<pt, last_xlation, search, evicted>>
    BY <1>1, <1>3 DEF TlbInv, LastTyped, KeepsCopies, Agrees
  <1> QED
    BY <1>2, <1>3 DEF ClockTurn

-----------------------------------------------------------------------------
(* The steps.                                                              *)

\* A page as it is kept in an entry.
LEMMA EntryPage ==
    ASSUME Stacked, NEW row \in Rows
    PROVE  /\ <<tlb[row].tid, tlb[row].vpn>> \in Pages
           /\ tlb[row].pfn \in Frames
    BY RowNumbers DEF Stacked, EntryType, Pages

LEMMA HitKeeps ==
    ASSUME TlbInv, NEW p \in Pages, Hit(p)
    PROVE  TlbInv' /\ AgesInOrder
  <1>1. UNCHANGED pageVars /\ search = NoPage
    BY DEF Hit
  <1>2. PICK row \in Rows :
            /\ Holds(row, p)
            /\ tlb' = Touched(row)
            /\ reply' = [page |-> p, pfn |-> tlb[row].pfn, by |-> "tlb",
                         sent |-> DEDICATED_CH /\ last_vpn # p[2]]
    BY DEF Hit
  <1>3. /\ Stacked' /\ NoPageTwice' /\ AgesInOrder
        /\ Rows' = Rows /\ \A i \in Rows : Stays(i)
    BY <1>2, TouchKeeps DEF TlbInv
  <1>4. PagingInv' /\ LastTyped' /\ SearchedHasNoEntry'
    BY <1>1 DEF pageVars, TlbInv, PagingInv, TablesTyped, TablesAreInverse,
                LastTyped, SearchedHasNoEntry
  <1>5. ReplyTyped'
    BY <1>2, EntryPage DEF TlbInv, ReplyTyped
  <1>6. CopiesAreCurrent'
    <2> SUFFICES ASSUME ~evicted
                 PROVE  CopiesAreCurrent'
      BY <1>1 DEF pageVars, CopiesAreCurrent
    <2>1. \A i \in Rows' :
              Agrees(Key(<<tlb[i].tid, tlb[i].vpn>>), tlb[i].pfn)'
      BY <1>1, <1>3 DEF pageVars, TlbInv, CopiesAreCurrent, Agrees, Stays, Key
    <2>2. \A t \in Threads : Agrees(last_xlation[t].vpn, last_xlation[t].pfn)'
      BY <1>1 DEF pageVars, TlbInv, CopiesAreCurrent, Agrees
    <2>3. Agrees(Key(reply.page), reply.pfn)'
      BY <1>1, <1>2 DEF pageVars, TlbInv, CopiesAreCurrent, Agrees, Holds, Key
    <2> QED
      BY <2>1, <2>2, <2>3 DEF CopiesAreCurrent
  <1> QED
    BY <1>3, <1>4, <1>5, <1>6 DEF TlbInv

\* The copies in the page table's own hands, and any other copy that was
\* right, are right after its step.
LEMMA CopiesKept ==
    ASSUME TlbInv, KeepsCopies, ~evicted'
    PROVE  /\ ~evicted
           /\ \A k \in Keys \cup {0}, f \in Frames : Agrees(k, f) => Agrees(k, f)'
           /\ \A t \in Threads :
                 Agrees(last_xlation[t].vpn, last_xlation[t].pfn)'
  <1>1. /\ ~evicted
        /\ \A k \in Keys \cup {0}, f \in Frames : Agrees(k, f) => Agrees(k, f)'
    BY DEF KeepsCopies
  <1>2. ASSUME NEW t \in Threads
        PROVE  Agrees(last_xlation[t].vpn, last_xlation[t].pfn)'
    <2>1. Agrees(last_xlation[t].vpn, last_xlation[t].pfn)
      BY <1>1 DEF TlbInv, CopiesAreCurrent
    <2>2. /\ last_xlation[t].vpn \in Keys \cup {0}
          /\ last_xlation[t].pfn \in Frames
      BY DEF TlbInv, LastTyped
    <2>3. \/ last_xlation'[t] = last_xlation[t]
          \/ Agrees(last_xlation[t].vpn, last_xlation[t].pfn)'
      BY DEF KeepsCopies
    <2> QED
      BY <1>1, <2>1, <2>2, <2>3 DEF Agrees
  <1> QED
    BY <1>1, <1>2

\* The answer to a page without an entry, whether the page table gives it at
\* once or after a search.
LEMMA AnswerKeeps ==
    ASSUME TlbInv, NEW p \in Pages, \A row \in Rows : ~Holds(row, p), Answer(p),
           PagingInv', KeepsCopies,
           \/ search' = p
           \/ search' = NoPage /\ last_xlation'[p[1]].vpn = Key(p)
    PROVE  TlbInv' /\ AgesInOrder
  <1> DEFINE f == last_xlation'[p[1]].pfn
             Right(i) == LET k == Key(<<tlb[i].tid, tlb[i].vpn>>)
                         IN  k = 0 \/ pt'[k] = tlb[i].pfn
  <1>1. p[1] \in Threads /\ Key(p) \in Keys
    BY KeyTypes DEF Pages
  <1>2. LastTyped' /\ f \in Frames
    BY <1>1 DEF KeepsCopies, LastTyped
  <1>3. ASSUME ~evicted', NEW i \in Rows
        PROVE  Right(i)
    <2>1. Agrees(Key(<<tlb[i].tid, tlb[i].vpn>>), tlb[i].pfn)
      BY <1>3, CopiesKept DEF TlbInv, CopiesAreCurrent
    <2>2. /\ Key(<<tlb[i].tid, tlb[i].vpn>>) \in Keys
          /\ tlb[i].pfn \in Frames
      BY EntryPage, KeyTypes DEF TlbInv
    <2> QED
      BY <1>3, <2>1, <2>2, CopiesKept DEF Agrees
  <1>4. CASE search' = p
    <2>1. p # NoPage
      BY Nothing
    <2>2. UNCHANGED <<tlb, reply>> /\ Rows' = Rows
      BY <1>4, <2>1 DEF Answer, Rows
    <2>3. Stacked' /\ NoPageTwice' /\ ReplyTyped' /\ SearchedHasNoEntry'
      BY <1>4, <2>2 DEF TlbInv, Stacked, Positions, NoPageTwice, Holds,
                        ReplyTyped, SearchedHasNoEntry
    <2>4. AgesInOrder
      <3>1. \A i \in Rows : tlb[i].LRU_position \in Nat
        BY RowNumbers DEF TlbInv, Stacked, EntryType
      <3> QED
        BY <2>2, <3>1 DEF AgesInOrder, Stays
    <2>5. CopiesAreCurrent'
      <3> SUFFICES ASSUME ~evicted'
                   PROVE  CopiesAreCurrent'
        BY DEF CopiesAreCurrent
      <3>1. \A i \in Rows' :
                Agrees(Key(<<tlb[i].tid, tlb[i].vpn>>), tlb[i].pfn)'
        BY <1>3, <2>2 DEF Agrees, Key
      <3>2. reply.page # NoPage => Agrees(Key(reply.page), reply.pfn)'
        <4> SUFFICES ASSUME reply.page # NoPage
                     PROVE  Agrees(Key(reply.page), reply.pfn)'
          OBVIOUS
        <4>1. /\ Agrees(Key(reply.page), reply.pfn)
              /\ Key(reply.page) \in Keys /\ reply.pfn \in Frames
          BY CopiesKept, KeyTypes DEF TlbInv, CopiesAreCurrent, ReplyTyped
        <4> QED
          BY <2>2, <4>1, CopiesKept DEF Agrees, Key
      <3> QED
        BY <2>2, <3>1, <3>2, CopiesKept DEF CopiesAreCurrent
    <2> QED
      BY <1>2, <2>3, <2>4, <2>5 DEF TlbInv
  <1>5. CASE search' = NoPage /\ last_xlation'[p[1]].vpn = Key(p)
    <2>1. Fill(p, f)
      BY <1>5 DEF Answer
    <2>2. reply'.page = p /\ reply'.pfn = f
      BY <1>5 DEF Answer
    <2>3. /\ Stacked' /\ NoPageTwice' /\ AgesInOrder
          /\ \E new \in Rows' :
                /\ tlb'[new] = Entry(p, f)
                /\ \A i \in Rows' \ {new} : i \in Rows /\ Stays(i)
      BY <1>2, <2>1, FillKeeps DEF TlbInv
    <2>4. CopiesAreCurrent'
      <3> SUFFICES ASSUME ~evicted'
                   PROVE  CopiesAreCurrent'
        BY DEF CopiesAreCurrent
      <3>1. Key(p) = 0 \/ pt'[Key(p)] = f
        BY <1>1, <1>5, CopiesKept DEF Agrees
      <3>2. ASSUME NEW i \in Rows'
            PROVE  Agrees(Key(<<tlb[i].tid, tlb[i].vpn>>), tlb[i].pfn)'
        <4>1. PICK new \in Rows' :
                  /\ tlb'[new] = Entry(p, f)
                  /\ \A j \in Rows' \ {new} : j \in Rows /\ Stays(j)
          BY <2>3
        <4>2. CASE i = new
          <5>1. /\ <<tlb'[i].tid, tlb'[i].vpn>> = p
                /\ tlb'[i].pfn = f
            BY <1>2, <4>1, <4>2, EntryTypes
          <5> QED
            BY <3>1, <5>1 DEF Agrees, Key
        <4>3. CASE i # new
          BY <1>3, <4>1, <4>3 DEF Agrees, Key, Stays
        <4> QED
          BY <4>2, <4>3
      <3>3. Agrees(Key(reply.page), reply.pfn)'
        BY <2>2, <3>1 DEF Agrees, Key
      <3> QED
        BY <3>2, <3>3, CopiesKept DEF CopiesAreCurrent
    <2>5. ReplyTyped' /\ SearchedHasNoEntry'
      BY <1>2, <1>5, <2>2 DEF ReplyTyped, SearchedHasNoEntry
    <2> QED
      BY <1>2, <2>3, <2>4, <2>5 DEF TlbInv
  <1> QED
    BY <1>4, <1>5

\* TLB and paging move together.
LEMMA TlbStep == TlbInv /\ [TlbNext]_tlbVars => TlbInv' /\ (TlbNext => AgesInOrder)
  <1> SUFFICES ASSUME TlbInv, [TlbNext]_tlbVars
               PROVE  TlbInv' /\ (TlbNext => AgesInOrder)
    OBVIOUS
  <1>1. ASSUME NEW p \in Pages, Miss(p)
        PROVE  TlbInv' /\ AgesInOrder
    <2>1. PagingInv'
      BY <1>1, TranslateKeeps DEF Miss, TlbInv
    <2> QED
      BY <1>1, <2>1, TranslateCopies, AnswerKeeps DEF Miss
  <1>2. CASE Searching
    <2>1. PagingInv'
      BY <1>2, ClockTurnKeeps DEF Searching, TlbInv
    <2>2. search # NoPage
      BY <1>2 DEF Searching, ClockTurn
    <2> QED
      BY <1>2, <2>1, <2>2, ClockTurnCopies, AnswerKeeps
      DEF Searching, TlbInv, SearchedHasNoEntry
  <1>3. CASE UNCHANGED tlbVars /\ ~TlbNext
    BY <1>3 DEF tlbVars, pageVars, TlbInv, PagingInv, TablesTyped,
       TablesAreInverse, LastTyped, ReplyTyped, Stacked,
       Positions, NoPageTwice, Holds, Rows, SearchedHasNoEntry,
       CopiesAreCurrent, Agrees, Key
  <1> QED
    BY <1>1, <1>2, <1>3, HitKeeps DEF TlbNext

LEMMA InitTlb == TlbInit => TlbInv
  <1> SUFFICES ASSUME TlbInit
               PROVE  TlbInv
    OBVIOUS
  <1>1. /\ tlb = <<>> /\ reply.page = NoPage /\ search = NoPage
        /\ last_xlation = [t \in Threads |-> [vpn |-> 0, pfn |-> 0]]
    BY DEF TlbInit, PagingInit
  <1>2. PagingInv
    BY Nothing DEF TlbInit, PagingInit, PagingInv, TablesTyped,
                   TablesAreInverse
  <1>3. Rows = {} /\ Len(tlb) = 0 /\ tlb \in Seq(EntryType)
    BY <1>1 DEF Rows
  <1>4. Stacked
    <2>1. IsStack(Positions, 0)
      BY <1>3 DEF IsStack, Positions
    <2> QED
      BY <1>3, <2>1, TlbAssumption DEF Stacked
  <1> QED
    BY <1>1, <1>2, <1>3, <1>4, Nothing
    DEF TlbInv, LastTyped, ReplyTyped, NoPageTwice, SearchedHasNoEntry,
        CopiesAreCurrent, Agrees

LEMMA TlbInvariant == TlbSpec => []TlbInv
  <1>1. TlbInv /\ [TlbNext]_tlbVars => TlbInv'
    BY TlbStep
  <1> QED
    BY <1>1, InitTlb, PTL DEF TlbSpec

\* The positions of the TLB are a permutation and no page has two entries,
\* whatever hits, misses and searches follow each other.
THEOREM LruStack == TlbSpec => []TlbIsLruStack
  <1>1. TlbInv => TlbIsLruStack
    <2> SUFFICES ASSUME TlbInv
                 PROVE  TlbIsLruStack
      OBVIOUS
    <2>1. /\ Rows = 1 .. Len(tlb)
          /\ \A i \in Rows : Positions[i] = tlb[i].LRU_position
        BY RowNumbers DEF TlbInv, Stacked
    <2>2. /\ \A i \in Rows : Positions[i] \in 0 .. Len(tlb) - 1
          /\ \A n \in 0 .. Len(tlb) - 1 : \E i \in Rows : Positions[i] = n
      BY <2>1 DEF TlbInv, Stacked, IsStack
    <2>3. {tlb[i].LRU_position : i \in Rows} = 0 .. Len(tlb) - 1
      <3>1. /\ \A i \in Rows : tlb[i].LRU_position \in 0 .. Len(tlb) - 1
            /\ \A n \in 0 .. Len(tlb) - 1 :
                  \E i \in Rows : tlb[i].LRU_position = n
        <4>1. \A i \in Rows : Positions[i] = tlb[i].LRU_position
          BY <2>1
        <4> QED
          BY ONLY <2>2, <4>1
      <3> QED
        BY ONLY <3>1
    <2> QED
      BY <2>3 DEF TlbIsLruStack, TlbInv, Stacked, NoPageTwice
  <1> QED
    BY <1>1, TlbInvariant, PTL

\* Until the first frame is taken away, every copy of a translation agrees
\* with the page table.
THEOREM CopiesCurrent == TlbSpec => []CopiesAreCurrent
  <1>1. TlbInv => CopiesAreCurrent
    BY DEF TlbInv
  <1> QED
    BY <1>1, TlbInvariant, PTL

\* A full TLB replaces the entry that has not been used for the longest time.
THEOREM LeastRecent == TlbSpec => ReplacesLeastRecent
  <1> DEFINE Step ==
        \A i, j \in Rows :
          LET Used(k) == tlb'[k].LRU_position = 0
              Replaced(k) == <<tlb'[k].tid, tlb'[k].vpn>> # <<tlb[k].tid, tlb[k].vpn>>
          IN  tlb[i].LRU_position < tlb[j].LRU_position =>
                  /\ ~Replaced(i)
                  /\ Used(j) \/ tlb'[i].LRU_position < tlb'[j].LRU_position
  <1>1. TlbInv /\ [TlbNext]_tlbVars => [Step]_tlbVars
    <2>1. AgesInOrder => Step
      BY DEF AgesInOrder, Stays
    <2> QED
      BY <2>1, TlbStep
  <1> QED
    BY <1>1, TlbInvariant, PTL DEF TlbSpec, ReplacesLeastRecent

-----------------------------------------------------------------------------
(* The last-level cache: ways.                                             *)

\* A nonempty set of numbers has a first one.
LEMMA FirstExists ==
    ASSUME NEW S \in SUBSET Nat, S # {}
    PROVE  \E x \in S : \A y \in S : x <= y
  <1>1. PICK x \in S : \A y \in S : <<y, x>> \notin OpToRel(<, Nat)
    BY NatLessThanWellFounded, WFMin
  <1>2. \A y \in S : ~(y < x)
    BY <1>1 DEF OpToRel
  <1> QED
    BY <1>2

\* The way a search from way 0 on ends at is one of those it looks for.
LEMMA FirstWayIsOne ==
    ASSUME NEW ways \in SUBSET Ways, ways # {}
    PROVE  FirstWay(ways) \in ways
  <1>1. \E w \in ways : \A v \in ways : w <= v
    BY FirstExists, CacheAssumption DEF Ways
  <1> QED
    BY <1>1 DEF FirstWay

LEMMA VictimType ==
    /\ Victim \in Ways
    /\ (\E w \in Ways : ~line[w].valid) => ~line[Victim].valid
  <1> DEFINE invalid == {w \in Ways : ~line[w].valid}
             last    == {w \in Ways : line[w].LRUstackposition = assoc - 1}
  <1>1. 0 \in Ways
    BY CacheAssumption DEF Ways
  <1>2. invalid # {} => FirstWay(invalid) \in invalid
    BY FirstWayIsOne
  <1>3. last # {} => FirstWay(last) \in last
    BY FirstWayIsOne
  <1> QED
    BY <1>1, <1>2, <1>3 DEF Victim

LEMMA CachedWay ==
    ASSUME NEW tag, Cached(tag) # {}
    PROVE  /\ FirstWay(Cached(tag)) \in Ways
           /\ line[FirstWay(Cached(tag))].valid
           /\ line[FirstWay(Cached(tag))].tag = tag
  <1>1. FirstWay(Cached(tag)) \in Cached(tag)
    BY FirstWayIsOne DEF Cached
  <1> QED
    BY <1>1 DEF Cached

-----------------------------------------------------------------------------
(* What a fill does to the lines.                                          *)

Line == [valid : BOOLEAN, dirty : BOOLEAN, tag : Tags \cup {NoTag},
         LRUstackposition : Int]

LinesTyped == line \in [Ways -> Line]

\* The fields of the lines after a fill: only one way changes more than its
\* stack position.
LEMMA FillMiss ==
    ASSUME LinesTyped, NEW tag \in Tags, NEW isStore \in BOOLEAN,
           Cached(tag) = {}, LookupAndFill(tag, isStore), NEW w \in Ways
    PROVE  /\ line'[w].valid = (w = Victim \/ line[w].valid)
           /\ line'[w].tag = IF w = Victim THEN tag ELSE line[w].tag
           /\ line'[w].dirty = IF w = Victim THEN isStore ELSE line[w].dirty
           /\ line' \in [Ways -> Line]
  <1> DEFINE filled == [line EXCEPT ![Victim] =
                 [@ EXCEPT !.valid = TRUE, !.tag = tag, !.dirty = isStore]]
  <1>1. Victim \in Ways
    BY VictimType
  <1>2. line' = MoveToFront(filled, Victim)
    BY DEF LookupAndFill
  <1>3. filled \in [Ways -> Line]
    BY <1>1 DEF LinesTyped, Line
  <1>4. ASSUME NEW v \in Ways
        PROVE  /\ filled[v] = IF v = Victim
                      THEN [line[v] EXCEPT !.valid = TRUE, !.tag = tag,
                                           !.dirty = isStore]
                      ELSE line[v]
               /\ line[v] \in Line
    BY <1>1 DEF LinesTyped
  <1> HIDE DEF filled
  <1>5. ASSUME NEW v \in Ways
        PROVE  /\ line'[v].valid = filled[v].valid
               /\ line'[v].tag = filled[v].tag
               /\ line'[v].dirty = filled[v].dirty
               /\ line'[v] \in Line
    <2>1. filled[v] \in Line /\ filled[Victim] \in Line
      BY <1>1, <1>3
    <2>2. line'[v] = [filled[v] EXCEPT !.LRUstackposition =
              IF v = Victim THEN 0
              ELSE IF @ < filled[Victim].LRUstackposition THEN @ + 1 ELSE @]
      BY <1>2 DEF MoveToFront
    <2> QED
      BY <2>1, <2>2 DEF Line
  <1>6. line' \in [Ways -> Line]
    BY <1>2, <1>5 DEF MoveToFront
  <1> QED
    BY <1>4, <1>5, <1>6, ZenonT(60) DEF Line

LEMMA FillHit ==
    ASSUME LinesTyped, NEW tag \in Tags, NEW isStore \in BOOLEAN,
           Cached(tag) # {}, LookupAndFill(tag, isStore), NEW w \in Ways
    PROVE  /\ line'[w].valid = line[w].valid
           /\ line'[w].tag = line[w].tag
           /\ line'[w].dirty =
                  (line[w].dirty \/ (w = FirstWay(Cached(tag)) /\ isStore))
           /\ line' \in [Ways -> Line]
  <1> DEFINE way == FirstWay(Cached(tag))
             stored == [line EXCEPT ![way].dirty = (@ \/ isStore)]
  <1>1. way \in Ways
    BY CachedWay
  <1>2. line' = MoveToFront(stored, way)
    BY DEF LookupAndFill
  <1> HIDE DEF way
  <1>3. stored \in [Ways -> Line]
    BY <1>1 DEF LinesTyped, Line
  <1>4. ASSUME NEW v \in Ways
        PROVE  /\ stored[v].valid = line[v].valid
               /\ stored[v].tag = line[v].tag
               /\ stored[v].dirty = (line[v].dirty \/ (v = way /\ isStore))
    BY <1>1 DEF LinesTyped, Line
  <1> HIDE DEF stored
  <1>5. ASSUME NEW v \in Ways
        PROVE  /\ line'[v].valid = stored[v].valid
               /\ line'[v].tag = stored[v].tag
               /\ line'[v].dirty = stored[v].dirty
               /\ line'[v] \in Line
    <2>1. stored[v] \in Line /\ stored[way] \in Line
      BY <1>1, <1>3
    <2>2. line'[v] = [stored[v] EXCEPT !.LRUstackposition =
              IF v = way THEN 0
              ELSE IF @ < stored[way].LRUstackposition THEN @ + 1 ELSE @]
      BY <1>2 DEF MoveToFront
    <2> QED
      BY <2>1, <2>2 DEF Line
  <1>6. line' \in [Ways -> Line]
    BY <1>2, <1>5 DEF MoveToFront
  <1> QED
    BY <1>4, <1>5, <1>6 DEF way

\* Both callers fill.
LEMMA CallersFill ==
    ASSUME [CacheNext]_cacheVars
    PROVE  \/ UNCHANGED cacheVars
           \/ \E tag \in Tags, isStore \in BOOLEAN : LookupAndFill(tag, isStore)
    BY DEF CacheNext, CoreAccess, PageWalk

-----------------------------------------------------------------------------
(* No duplicates.                                                          *)

CacheInv == LinesTyped /\ OneCopy

LEMMA FillKeepsOneCopy ==
    ASSUME CacheInv, NEW tag \in Tags, NEW isStore \in BOOLEAN,
           LookupAndFill(tag, isStore)
    PROVE  CacheInv'
  <1>1. Victim \in Ways
    BY VictimType
  <1>2. CASE Cached(tag) = {}
    <2>1. ASSUME NEW w \in Ways
          PROVE  /\ line'[w].valid = (w = Victim \/ line[w].valid)
                 /\ line'[w].tag = IF w = Victim THEN tag ELSE line[w].tag
                 /\ line'[w].dirty = IF w = Victim THEN isStore ELSE line[w].dirty
      BY <1>2, FillMiss DEF CacheInv
    <2>2. line' \in [Ways -> Line]
      BY <1>1, <1>2, FillMiss DEF CacheInv
    <2>3. \A w \in Ways : ~(line[w].valid /\ line[w].tag = tag)
      BY <1>2 DEF Cached
    <2>4. OneCopy'
      BY <1>1, <2>1, <2>3, CacheAssumption, ZenonT(60) DEF CacheInv, OneCopy
    <2> QED
      BY <2>2, <2>4 DEF CacheInv, LinesTyped
  <1>3. CASE Cached(tag) # {}
    <2>1. ASSUME NEW w \in Ways
          PROVE  /\ line'[w].valid = line[w].valid
                 /\ line'[w].tag = line[w].tag
                 /\ line'[w].dirty =
                        (line[w].dirty \/ (w = FirstWay(Cached(tag)) /\ isStore))
      BY <1>3, FillHit DEF CacheInv
    <2>2. line' \in [Ways -> Line]
      BY <1>1, <1>3, FillHit DEF CacheInv
    <2>3. line[FirstWay(Cached(tag))].valid
      BY <1>3, CachedWay
    <2>4. OneCopy'
      BY <2>1, <2>3 DEF CacheInv, OneCopy
    <2> QED
      BY <2>2, <2>4 DEF CacheInv, LinesTyped
  <1> QED
    BY <1>2, <1>3

LEMMA CacheInvariant == CacheSpec => []CacheInv
  <1>1. CacheInit => CacheInv
    <2> SUFFICES ASSUME CacheInit PROVE CacheInv
      OBVIOUS
    <2> DEFINE New == [valid : {FALSE}, dirty : {FALSE}, tag : {NoTag},
                       LRUstackposition : 0 .. assoc]
    <2>1. ASSUME NEW w \in Ways
          PROVE  /\ line[w] \in Line /\ line[w].valid = FALSE
                 /\ line[w].dirty = FALSE /\ line[w].tag = NoTag
      <3>1. line[w] \in New
        BY DEF CacheInit
      <3>2. 0 .. assoc \subseteq Int
        BY CacheAssumption
      <3> QED
        BY <3>1, <3>2 DEF Line
    <2>2. LinesTyped
      BY <2>1 DEF CacheInit, LinesTyped
    <2> QED
      BY <2>1, <2>2, CacheAssumption DEF CacheInv, OneCopy
  <1>2. CacheInv /\ [CacheNext]_cacheVars => CacheInv'
    <2> SUFFICES ASSUME CacheInv, [CacheNext]_cacheVars PROVE CacheInv'
      OBVIOUS
    <2>1. CASE UNCHANGED cacheVars
      BY <2>1 DEF cacheVars, CacheInv, LinesTyped, OneCopy
    <2> QED
      BY <2>1, CallersFill, FillKeepsOneCopy
  <1> QED
    BY <1>1, <1>2, PTL DEF CacheSpec

\* An address is never in two ways, whatever malloc left in the positions.
THEOREM NoDuplicates == CacheSpec => []OneCopy
  <1>1. CacheInv => OneCopy
    BY DEF CacheInv
  <1> QED
    BY <1>1, CacheInvariant, PTL

-----------------------------------------------------------------------------
(* Stores.  The line a writeback was asked for is the line that is         *)
(* replaced, so what is not saved stays dirty.                             *)

LEMMA AccessKeepsStores ==
    ASSUME CacheInv, NEW tag \in Tags, NEW isStore \in BOOLEAN,
           CoreAccess(tag, isStore), NEW saved \in unsaved',
           saved \in unsaved => Dirty(saved)
    PROVE  Dirty(saved)'
  <1>1. Victim \in Ways
    BY VictimType
  <1>2. \/ saved \in unsaved /\ saved \notin Writeback(tag)
        \/ isStore /\ saved = tag
    BY DEF CoreAccess
  <1>3. LookupAndFill(tag, isStore)
    BY DEF CoreAccess
  <1>4. CASE Cached(tag) = {} /\ isStore /\ saved = tag
    BY <1>1, <1>3, <1>4, FillMiss DEF CacheInv, Dirty
  <1>5. CASE /\ Cached(tag) = {}
             /\ saved \in unsaved /\ saved \notin Writeback(tag)
    <2>1. PICK w \in Ways : line[w].tag = saved /\ line[w].dirty
      BY <1>5 DEF Dirty
    <2>2. w # Victim
      BY <1>5, <2>1 DEF Writeback
    <2>3. line'[w].tag = saved /\ line'[w].dirty
      BY <1>3, <1>5, <2>1, <2>2, FillMiss DEF CacheInv
    <2> QED
      BY <2>3 DEF Dirty
  <1>6. CASE Cached(tag) # {}
    <2>1. \A w \in Ways :
             /\ line'[w].tag = line[w].tag
             /\ line'[w].dirty =
                    (line[w].dirty \/ (w = FirstWay(Cached(tag)) /\ isStore))
      BY <1>3, <1>6, FillHit DEF CacheInv
    <2>2. CASE saved \in unsaved
      BY <2>1, <2>2 DEF Dirty
    <2>3. CASE isStore /\ saved = tag
      <3>1. /\ FirstWay(Cached(tag)) \in Ways
            /\ line[FirstWay(Cached(tag))].tag = tag
        BY <1>6, CachedWay
      <3> QED
        BY <2>1, <2>3, <3>1 DEF Dirty
    <2> QED
      BY <1>2, <2>2, <2>3
  <1> QED
    BY <1>2, <1>4, <1>5, <1>6

\* No access of a core loses a store.
THEOREM StoresAreKept == CacheSpec => CoreAccessLosesNoStore
  <1>1. CacheInv /\ [CacheNext]_cacheVars =>
            [(\E tag \in Tags, isStore \in BOOLEAN : CoreAccess(tag, isStore)) =>
                \A tag \in unsaved' :
                    (tag \in unsaved => Dirty(tag)) => Dirty(tag)']_cacheVars
    BY AccessKeepsStores
  <1> QED
    BY <1>1, CacheInvariant, PTL DEF CacheSpec, CoreAccessLosesNoStore

-----------------------------------------------------------------------------
(* The LRU stack.                                                          *)

\* Moving a way to the front of a permutation gives a permutation: the
\* position n comes from n - 1 up to the old position of the way, and from n
\* behind it.
LEMMA FrontIsPermutation ==
    ASSUME NEW l, NEW way \in Ways,
           {l[w].LRUstackposition : w \in Ways} = Ways,
           \A w \in Ways : l[w] \in Line
    PROVE  {MoveToFront(l, way)[w].LRUstackposition : w \in Ways} = Ways
  <1> DEFINE p(w) == l[w].LRUstackposition
             q(w) == MoveToFront(l, way)[w].LRUstackposition
  <1>1. ASSUME NEW w \in Ways
        PROVE  /\ p(w) \in Ways
               /\ q(w) = IF w = way THEN 0
                         ELSE IF p(w) < p(way) THEN p(w) + 1 ELSE p(w)
    BY DEF MoveToFront, Line
  <1> HIDE DEF p, q
  <1>2. ASSUME NEW w \in Ways PROVE q(w) \in Ways
    BY <1>1, CacheAssumption DEF Ways
  <1>3. ASSUME NEW n \in Ways PROVE \E w \in Ways : q(w) = n
    <2>1. \A m \in Ways : \E w \in Ways : p(w) = m
      BY DEF p
    <2>2. CASE n = 0
      BY <1>1, <2>2
    <2>3. CASE n # 0 /\ n <= p(way)
      <3>1. n - 1 \in Ways
        BY <2>3, CacheAssumption DEF Ways
      <3>2. PICK w \in Ways : p(w) = n - 1
        BY <2>1, <3>1
      <3>3. p(way) \in Ways /\ n \in Nat
        BY <1>1, CacheAssumption DEF Ways
      <3>4. w # way /\ p(w) < p(way) /\ p(w) + 1 = n
        BY <2>3, <3>2, <3>3, CacheAssumption DEF Ways
      <3> QED
        BY <1>1, <3>4
    <2>4. CASE n > p(way)
      <3>1. PICK w \in Ways : p(w) = n
        BY <2>1
      <3>2. p(way) \in Ways /\ n \in Ways
        BY <1>1
      <3>3. w # way /\ ~(p(w) < p(way))
        BY <2>4, <3>1, <3>2, CacheAssumption DEF Ways
      <3> QED
        BY <1>1, <3>1, <3>3
    <2>5. n \in Int /\ p(way) \in Int
      BY <1>1, CacheAssumption DEF Ways
    <2> QED
      BY <2>2, <2>3, <2>4, <2>5
  <1>4. {q(w) : w \in Ways} = Ways
    BY <1>2, <1>3
  <1> QED
    BY <1>4 DEF q

LEMMA FillKeepsPermutation ==
    ASSUME CacheInv, StackIsPermutation, NEW tag \in Tags,
           NEW isStore \in BOOLEAN, LookupAndFill(tag, isStore)
    PROVE  StackIsPermutation'
  <1>1. CASE Cached(tag) = {}
    <2> DEFINE filled == [line EXCEPT ![Victim] =
                   [@ EXCEPT !.valid = TRUE, !.tag = tag, !.dirty = isStore]]
    <2>1. Victim \in Ways
      BY VictimType
    <2>2. \A w \in Ways : /\ filled[w] \in Line
                          /\ filled[w].LRUstackposition = line[w].LRUstackposition
      BY <2>1 DEF CacheInv, LinesTyped, Line
    <2>3. line' = MoveToFront(filled, Victim)
      BY <1>1 DEF LookupAndFill
    <2> HIDE DEF filled
    <2>4. {filled[w].LRUstackposition : w \in Ways} = Ways
      BY <2>2 DEF StackIsPermutation
    <2>5. {MoveToFront(filled, Victim)[v].LRUstackposition : v \in Ways} = Ways
      BY <2>1, <2>2, <2>4, FrontIsPermutation
    <2> QED
      BY <2>3, <2>5 DEF StackIsPermutation
  <1>2. CASE Cached(tag) # {}
    <2> DEFINE way == FirstWay(Cached(tag))
               stored == [line EXCEPT ![way].dirty = (@ \/ isStore)]
    <2>1. way \in Ways
      BY <1>2, CachedWay
    <2>2. \A w \in Ways : /\ stored[w] \in Line
                          /\ stored[w].LRUstackposition = line[w].LRUstackposition
      BY <2>1 DEF CacheInv, LinesTyped, Line
    <2>3. line' = MoveToFront(stored, way)
      BY <1>2 DEF LookupAndFill
    <2> HIDE DEF stored, way
    <2>4. {stored[w].LRUstackposition : w \in Ways} = Ways
      BY <2>2 DEF StackIsPermutation
    <2>5. {MoveToFront(stored, way)[v].LRUstackposition : v \in Ways} = Ways
      BY <2>1, <2>2, <2>4, FrontIsPermutation
    <2> QED
      BY <2>3, <2>5 DEF StackIsPermutation
  <1> QED
    BY <1>1, <1>2

\* Once the stack is a permutation, it stays one.
THEOREM PermutationStays == CacheSpec => StackStaysPermutation
  <1>1. CacheInv /\ [CacheNext]_cacheVars =>
            [StackIsPermutation => StackIsPermutation']_cacheVars
    BY CallersFill, FillKeepsPermutation
  <1> QED
    BY <1>1, CacheInvariant, PTL DEF CacheSpec, StackStaysPermutation
=============================================================================
