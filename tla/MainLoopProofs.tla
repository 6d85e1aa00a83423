--------------------------- MODULE MainLoopProofs ---------------------------
(***************************************************************************)
(* Theorems about MainLoop, for every number of cores, size of the reorder *)
(* buffers, set of addresses and length of the traces.  The invariants are *)
(* LoopInv for the buffers and EndInv for the end of the simulation;       *)
(* liveness stays with TLC.                                                *)
(***************************************************************************)
EXTENDS MainLoop, FiniteSetTheorems, TLAPS

-----------------------------------------------------------------------------
(* The window of slots between head and tail.                              *)

\* The only remainders the loop takes.
LEMMA ModCases ==
    ASSUME NEW x \in 0 .. 2 * ROBSIZE - 1
    PROVE  x % ROBSIZE = IF x < ROBSIZE THEN x ELSE x - ROBSIZE
  <1>1. ROBSIZE \in Nat \ {0}
    BY MainLoopAssumption
  <1>2. CASE x < ROBSIZE
    BY <1>1, <1>2
  <1>3. CASE x >= ROBSIZE
    BY <1>1, <1>3
  <1> QED
    BY <1>1, <1>2, <1>3

\* InWindow, of any head and number of slots.
Within(h, n, i) == (i + ROBSIZE - h) % ROBSIZE < n

\* Slot i is one of the n slots from h on, round the end of the buffer.
LEMMA WithinCases ==
    ASSUME NEW h \in Slots, NEW i \in Slots, NEW n \in 0 .. ROBSIZE
    PROVE  Within(h, n, i) <=> IF i < h THEN i + ROBSIZE - h < n ELSE i - h < n
  <1>1. ROBSIZE \in Nat \ {0}
    BY MainLoopAssumption
  <1> DEFINE x == i + ROBSIZE - h
  <1>2. x \in 0 .. 2 * ROBSIZE - 1
    BY <1>1 DEF Slots
  <1> HIDE DEF x
  <1>3. x % ROBSIZE = IF x < ROBSIZE THEN x ELSE x - ROBSIZE
    BY <1>2, ModCases
  <1> QED
    BY <1>1, <1>3 DEF Within, Slots, x

\* The slot n places behind slot h.
LEMMA NextSlot ==
    ASSUME NEW h \in Slots, NEW n \in 0 .. ROBSIZE
    PROVE  /\ (h + n) % ROBSIZE \in Slots
           /\ (h + n) % ROBSIZE = IF h + n < ROBSIZE THEN h + n ELSE h + n - ROBSIZE
  <1>1. ROBSIZE \in Nat \ {0}
    BY MainLoopAssumption
  <1>2. h + n \in 0 .. 2 * ROBSIZE - 1
    BY <1>1 DEF Slots
  <1> QED
    BY <1>1, <1>2, ModCases DEF Slots

\* A fetch adds the slot at the tail to the window.
LEMMA WindowGrows ==
    ASSUME NEW h \in Slots, NEW n \in 0 .. ROBSIZE - 1, NEW i \in Slots
    PROVE  LET t == (h + n) % ROBSIZE
           IN  /\ t \in Slots
               /\ ~Within(h, n, t)
               /\ Within(h, n + 1, i) <=> Within(h, n, i) \/ i = t
               /\ (t + 1) % ROBSIZE = (h + (n + 1)) % ROBSIZE
  <1> DEFINE t == (h + n) % ROBSIZE
  <1>1. ROBSIZE \in Nat \ {0}
    BY MainLoopAssumption
  <1>2. n \in 0 .. ROBSIZE /\ n + 1 \in 0 .. ROBSIZE /\ 1 \in 0 .. ROBSIZE
    BY <1>1
  <1>3. t \in Slots /\ t = IF h + n < ROBSIZE THEN h + n ELSE h + n - ROBSIZE
    BY <1>2, NextSlot
  <1>4. (t + 1) % ROBSIZE = IF t + 1 < ROBSIZE THEN t + 1 ELSE t + 1 - ROBSIZE
    BY <1>2, <1>3, NextSlot
  <1>5. (h + (n + 1)) % ROBSIZE =
            IF h + (n + 1) < ROBSIZE THEN h + (n + 1) ELSE h + (n + 1) - ROBSIZE
    BY <1>2, NextSlot
  <1> HIDE DEF t
  <1>6. (t + 1) % ROBSIZE = (h + (n + 1)) % ROBSIZE
    BY <1>1, <1>3, <1>4, <1>5 DEF Slots
  <1>7. ~Within(h, n, t)
    BY <1>1, <1>2, <1>3, WithinCases DEF Slots
  <1>8. Within(h, n + 1, i) <=> Within(h, n, i) \/ i = t
    BY <1>1, <1>2, <1>3, WithinCases DEF Slots
  <1> QED
    BY <1>3, <1>6, <1>7, <1>8 DEF t

\* Retiring takes the slot at the head out of the window.
LEMMA WindowShrinks ==
    ASSUME NEW h \in Slots, NEW n \in 1 .. ROBSIZE, NEW i \in Slots
    PROVE  LET g == (h + 1) % ROBSIZE
           IN  /\ g \in Slots
               /\ Within(h, n, h)
               /\ Within(g, n - 1, i) <=> Within(h, n, i) /\ i # h
               /\ (g + (n - 1)) % ROBSIZE = (h + n) % ROBSIZE
  <1> DEFINE g == (h + 1) % ROBSIZE
  <1>1. ROBSIZE \in Nat \ {0}
    BY MainLoopAssumption
  <1>2. n \in 0 .. ROBSIZE /\ n - 1 \in 0 .. ROBSIZE /\ 1 \in 0 .. ROBSIZE
    BY <1>1
  <1>3. g \in Slots /\ g = IF h + 1 < ROBSIZE THEN h + 1 ELSE h + 1 - ROBSIZE
    BY <1>2, NextSlot
  <1>4. (h + n) % ROBSIZE = IF h + n < ROBSIZE THEN h + n ELSE h + n - ROBSIZE
    BY <1>2, NextSlot
  <1>5. (g + (n - 1)) % ROBSIZE =
            IF g + (n - 1) < ROBSIZE THEN g + (n - 1) ELSE g + (n - 1) - ROBSIZE
    BY <1>2, <1>3, NextSlot
  <1> HIDE DEF g
  <1>6. (g + (n - 1)) % ROBSIZE = (h + n) % ROBSIZE
    BY <1>1, <1>3, <1>4, <1>5 DEF Slots
  <1>7. Within(h, n, h)
    BY <1>1, <1>2, WithinCases DEF Slots
  <1>8. Within(g, n - 1, i) <=> Within(h, n, i) /\ i # h
    BY <1>1, <1>2, <1>3, WithinCases DEF Slots
  <1> QED
    BY <1>3, <1>6, <1>7, <1>8 DEF g

-----------------------------------------------------------------------------
(* The inductive invariant.                                                *)

Instruction == [optype : {"R", "W"}, address : Addrs]
Slot == [optype : {"none", "N", "R", "W"}, address : Addrs \cup {NoLine},
         comptime : {"BIGNUM", "to come", "past"},
         fellow : Instruction \cup {NoLine}]
Read == [core : Cores, slot : Slots, address : Addrs]

Typed ==
    /\ rob \in [Cores -> [Slots -> Slot]]
    /\ head \in [Cores -> Slots]
    /\ tail \in [Cores -> Slots]
    /\ inflight \in [Cores -> 0 .. ROBSIZE]
    /\ reads \subseteq Read

\* A slot in the window holds an instruction, and the others hold nothing.
Ring ==
    \A c \in Cores :
        /\ tail[c] = (head[c] + inflight[c]) % ROBSIZE
        /\ \A i \in Slots : IF InWindow(c, i) THEN rob[c][i].optype # "none"
                                              ELSE rob[c][i] = Empty

LoopInv == Typed /\ Ring /\ ReadsAreAwaited

\* A step that leaves the ring as it is.
LEMMA SlotChanges ==
    ASSUME Typed, Ring, NEW c \in Cores, NEW i \in Slots, InWindow(c, i),
           NEW s \in Slot, s.optype # "none",
           rob' = [rob EXCEPT ![c][i] = s],
           UNCHANGED <<head, tail, inflight>>
    PROVE  /\ rob' \in [Cores -> [Slots -> Slot]]
           /\ Ring'
  <1>1. rob' \in [Cores -> [Slots -> Slot]]
    BY DEF Typed
  <1>2. \A d \in Cores, j \in Slots :
            rob'[d][j] = IF d = c /\ j = i THEN s ELSE rob[d][j]
    BY DEF Typed
  <1>3. \A d \in Cores, j \in Slots : InWindow(d, j)' = InWindow(d, j)
    BY DEF InWindow
  <1>4. Ring'
    BY <1>2, <1>3 DEF Ring
  <1> QED
    BY <1>1, <1>4

\* Slot i of core c is assigned s; if its completion is not known, there is
\* one more read, for it.
Assigned(c, i, s) ==
    /\ rob' = [rob EXCEPT ![c][i] = s]
    /\ \/ s.comptime # "BIGNUM" /\ reads' = reads
       \/ /\ s.comptime = "BIGNUM"
          /\ \E a \in Addrs :
                reads' = reads \cup {[core |-> c, slot |-> i, address |-> a]}

\* A read and a write of the loop assign one slot.
LEMMA AccessAssigns ==
    ASSUME NEW c \in Cores, NEW i \in Slots, NEW a \in Addrs, NEW looked,
           NEW s \in Slot, NEW hit, NEW wb,
           \/ AccessRead(c, i, a, s, hit, wb)
           \/ AccessWrite(c, i, a, looked, s, hit, wb)
    PROVE  \E t \in Slot : /\ Assigned(c, i, t)
                           /\ t.optype = s.optype /\ t.address = s.address
                           /\ t.fellow = s.fellow
  <1> DEFINE t(time) == [s EXCEPT !.comptime = time]
  <1>1. \A time \in {"BIGNUM", "to come"} :
            /\ t(time) \in Slot /\ t(time).comptime = time
            /\ t(time).optype = s.optype /\ t(time).address = s.address
            /\ t(time).fellow = s.fellow
    BY DEF Slot
  <1>2. \/ rob' = [rob EXCEPT ![c][i] = t("to come")] /\ reads' = reads
        \/ /\ rob' = [rob EXCEPT ![c][i] = t("BIGNUM")]
           /\ reads' = reads \cup {[core |-> c, slot |-> i, address |-> a]}
    BY DEF AccessRead, AccessWrite
  <1> HIDE DEF t
  <1> QED
    BY <1>1, <1>2 DEF Assigned

\* Slots that are assigned while nothing is known to complete them.
LEMMA AssignedIsAwaited ==
    ASSUME LoopInv, NEW c \in Cores, NEW i \in Slots, NEW s \in Slot,
           Assigned(c, i, s), rob[c][i].comptime # "BIGNUM",
           InWindow(c, i)',
           \A d \in Cores, j \in Slots : InWindow(d, j) => InWindow(d, j)'
    PROVE  /\ reads' \subseteq Read
           /\ ReadsAreAwaited'
  <1>1. \A d \in Cores, j \in Slots :
            rob'[d][j] = IF d = c /\ j = i THEN s ELSE rob[d][j]
    BY DEF LoopInv, Typed, Assigned
  <1>2. \A q \in reads : /\ q \in Read
                         /\ q.core \in Cores /\ q.slot \in Slots
                         /\ ~(q.core = c /\ q.slot = i)
    BY DEF LoopInv, Typed, ReadsAreAwaited, Read
  <1>3. CASE s.comptime # "BIGNUM" /\ reads' = reads
    BY <1>1, <1>2, <1>3 DEF LoopInv, ReadsAreAwaited
  <1>4. ASSUME s.comptime = "BIGNUM", NEW a \in Addrs,
               reads' = reads \cup {[core |-> c, slot |-> i, address |-> a]}
        PROVE  reads' \subseteq Read /\ ReadsAreAwaited'
    <2> DEFINE new == [core |-> c, slot |-> i, address |-> a]
    <2>1. new \in Read /\ new.core = c /\ new.slot = i
      BY DEF Read
    <2>2. reads' = reads \cup {new}
      BY <1>4
    <2> HIDE DEF new
    <2>3. \A d \in Cores, j \in Slots :
              rob'[d][j].comptime = "BIGNUM"
                  <=> \E q \in reads' : q.core = d /\ q.slot = j
      BY <1>1, <1>2, <1>4, <2>1, <2>2 DEF LoopInv, ReadsAreAwaited
    <2>4. \A q, p \in reads' : q.core = p.core /\ q.slot = p.slot => q = p
      BY <1>2, <2>1, <2>2 DEF LoopInv, ReadsAreAwaited
    <2>5. \A q \in reads' : InWindow(q.core, q.slot)'
      BY <1>2, <2>1, <2>2 DEF LoopInv, ReadsAreAwaited
    <2> QED
      BY <1>2, <2>1, <2>2, <2>3, <2>4, <2>5 DEF ReadsAreAwaited
  <1> QED
    BY <1>2, <1>3, <1>4 DEF Assigned

-----------------------------------------------------------------------------
(* What the steps assign.                                                  *)

\* What is retired is in the window, and done.
LEMMA HeadInWindow ==
    ASSUME Typed, NEW c \in Cores, Done(c)
    PROVE  /\ inflight[c] \in 1 .. ROBSIZE
           /\ InWindow(c, head[c])
           /\ rob[c][head[c]].comptime = "past"
  <1>1. ROBSIZE \in Nat \ {0}
    BY MainLoopAssumption
  <1>2. inflight[c] \in 1 .. ROBSIZE /\ head[c] \in Slots
    BY <1>1 DEF Typed, Done
  <1>3. Within(head[c], inflight[c], head[c])
    BY <1>2, WindowShrinks
  <1> QED
    BY <1>2, <1>3 DEF InWindow, Within, Done

\* What is fetched goes to a slot that holds nothing.
LEMMA TailIsFree ==
    ASSUME Typed, Ring, NEW c \in Cores, CanFetch(c)
    PROVE  /\ tail[c] \in Slots
           /\ inflight[c] \in 0 .. ROBSIZE - 1
           /\ rob[c][tail[c]] = Empty
  <1>1. ROBSIZE \in Nat \ {0}
    BY MainLoopAssumption
  <1>2. head[c] \in Slots /\ inflight[c] \in 0 .. ROBSIZE /\ tail[c] \in Slots
    BY DEF Typed
  <1>3. inflight[c] \in 0 .. ROBSIZE - 1
    BY <1>1, <1>2 DEF CanFetch
  <1>4. tail[c] = (head[c] + inflight[c]) % ROBSIZE
    BY DEF Ring
  <1>5. ~InWindow(c, tail[c])
    BY <1>2, <1>3, <1>4, WindowGrows DEF InWindow, Within
  <1> QED
    BY <1>2, <1>3, <1>5 DEF Ring

\* A fellow is assigned to the slot at the head.
LEMMA FellowAssigns ==
    ASSUME Typed, NEW c \in Cores, Fellow(c)
    PROVE  \E s \in Slot :
              /\ Assigned(c, head[c], s) /\ s.fellow = NoLine
              /\ s.optype # "none"
              /\ s.optype = rob[c][head[c]].fellow.optype
              /\ s.address = rob[c][head[c]].fellow.address
  <1> DEFINE i == head[c]
             f == rob[c][i].fellow
             s == [Empty EXCEPT !.optype = f.optype, !.address = f.address]
  <1>1. i \in Slots /\ rob[c][i] \in Slot
    BY DEF Typed
  <1>2. f \in Instruction
    BY <1>1 DEF Slot, Fellow
  <1>3. s \in Slot /\ s.optype = f.optype /\ s.address = f.address
        /\ s.fellow = NoLine /\ s.optype # "none" /\ f.address \in Addrs
    BY <1>2, ZenonT(60) DEF Slot, Empty, Instruction
  <1>4. \E looked, hit, wb :
           \/ AccessRead(c, i, f.address, s, hit, wb)
           \/ AccessWrite(c, i, f.address, looked, s, hit, wb)
    BY DEF Fellow
  <1> HIDE DEF s, f, i
  <1>5. \E t \in Slot : /\ Assigned(c, i, t)
                        /\ t.optype = s.optype /\ t.address = s.address
                        /\ t.fellow = s.fellow
    BY <1>1, <1>3, <1>4, AccessAssigns
  <1> QED
    BY <1>3, <1>5 DEF f, i

Fetched(c) == FetchNonMem(c) \/ FetchMem(c) \/ FetchTranslation(c)

\* Whatever is fetched is assigned to the slot at the tail.
LEMMA FetchAssigns ==
    ASSUME Typed, NEW c \in Cores, Fetched(c)
    PROVE  /\ \E s \in Slot : Assigned(c, tail[c], s) /\ s.optype # "none"
           /\ CanFetch(c)
           /\ tail' = [tail EXCEPT ![c] = (@ + 1) % ROBSIZE]
           /\ inflight' = [inflight EXCEPT ![c] = @ + 1]
           /\ UNCHANGED head
  <1> DEFINE i == tail[c]
  <1>1. i \in Slots
    BY DEF Typed
  <1>2. ASSUME FetchNonMem(c)
        PROVE  \E s \in Slot : Assigned(c, i, s) /\ s.optype # "none"
    <2> DEFINE s == [Empty EXCEPT !.optype = "N", !.comptime = "to come"]
    <2>1. s \in Slot /\ s.optype # "none" /\ s.comptime # "BIGNUM"
      BY DEF Slot, Empty
    <2>2. rob' = [rob EXCEPT ![c][i] = s] /\ reads' = reads
      BY <1>2 DEF FetchNonMem, queueVars
    <2> HIDE DEF s
    <2> QED
      BY <2>1, <2>2 DEF Assigned
  <1>3. ASSUME FetchMem(c)
        PROVE  \E s \in Slot : Assigned(c, i, s) /\ s.optype # "none"
    <2> DEFINE new(a) == [Empty EXCEPT !.optype = line[c].optype, !.address = a]
    <2>1. line[c].optype \in {"R", "W"}
      BY <1>3 DEF FetchMem
    <2>2. PICK a \in Addrs : \E hit, wb :
             \/ AccessRead(c, i, a, new(a), hit, wb)
             \/ AccessWrite(c, i, a, a, new(a), hit, wb)
      BY <1>3 DEF FetchMem
    <2>3. new(a) \in Slot /\ new(a).optype # "none"
      BY <2>1 DEF Slot, Empty
    <2> HIDE DEF new
    <2> QED
      BY <1>1, <2>2, <2>3, AccessAssigns
  <1>4. ASSUME FetchTranslation(c)
        PROVE  \E s \in Slot : Assigned(c, i, s) /\ s.optype # "none"
    <2> DEFINE new(a, pte) ==
                   [optype |-> "R", address |-> pte, comptime |-> "BIGNUM",
                    fellow |-> [optype |-> line[c].optype, address |-> a]]
    <2>1. line[c].optype \in {"R", "W"}
      BY <1>4 DEF FetchTranslation
    <2>2. PICK a \in Addrs, pte \in Addrs :
             /\ rob' = [rob EXCEPT ![c][i] = new(a, pte)]
             /\ reads' = reads \cup {[core |-> c, slot |-> i, address |-> pte]}
      BY <1>4 DEF FetchTranslation
    <2>3. /\ new(a, pte) \in Slot /\ new(a, pte).optype # "none"
          /\ new(a, pte).comptime = "BIGNUM"
      BY <2>1 DEF Slot, Instruction
    <2> HIDE DEF new
    <2> QED
      BY <2>2, <2>3 DEF Assigned
  <1>5. FetchTurn(c) /\ Advance(c)
    BY DEF Fetched, FetchNonMem, FetchMem, FetchTranslation
  <1> QED
    BY <1>2, <1>3, <1>4, <1>5 DEF Fetched, FetchTurn, Advance

-----------------------------------------------------------------------------
(* Every step keeps the invariant.                                         *)

\* A fellow begins in the slot of its translation, which no read waits for.
LEMMA FellowKeeps ==
    ASSUME LoopInv, NEW c \in Cores, Fellow(c)
    PROVE  LoopInv'
  <1>1. PICK i \in Slots : i = head[c]
    BY DEF LoopInv, Typed
  <1>2. PICK s \in Slot : Assigned(c, i, s) /\ s.optype # "none"
    BY <1>1, FellowAssigns DEF LoopInv
  <1>3. InWindow(c, i) /\ rob[c][i].comptime = "past"
    BY <1>1, HeadInWindow DEF LoopInv, Fellow, RetireTurn, CanRetire
  <1>4. UNCHANGED <<head, tail, inflight>>
    BY DEF Fellow
  <1>5. rob' \in [Cores -> [Slots -> Slot]] /\ Ring'
    BY <1>2, <1>3, <1>4, SlotChanges DEF LoopInv, Assigned
  <1>6. \A d \in Cores, j \in Slots : InWindow(d, j)' = InWindow(d, j)
    BY <1>4 DEF InWindow
  <1>7. reads' \subseteq Read /\ ReadsAreAwaited'
    <2>1. rob[c][i].comptime # "BIGNUM"
      BY <1>3
    <2>2. InWindow(c, i)'
      BY <1>3, <1>6
    <2> QED
      BY <1>2, <1>6, <2>1, <2>2, AssignedIsAwaited
  <1> QED
    BY <1>4, <1>5, <1>7 DEF LoopInv, Typed

\* The slot that is retired is done, so no read is for it.
LEMMA RetireKeeps ==
    ASSUME LoopInv, NEW c \in Cores, Retire(c)
    PROVE  LoopInv'
  <1>1. /\ inflight[c] \in 1 .. ROBSIZE
        /\ InWindow(c, head[c]) /\ rob[c][head[c]].comptime = "past"
    BY HeadInWindow DEF LoopInv, Retire, RetireTurn, CanRetire
  <1>2. head[c] \in Slots
    BY DEF LoopInv, Typed
  <1>3. /\ rob' = [rob EXCEPT ![c][head[c]] = Empty]
        /\ head' = [head EXCEPT ![c] = (@ + 1) % ROBSIZE]
        /\ inflight' = [inflight EXCEPT ![c] = @ - 1]
        /\ tail' = tail /\ reads' = reads
    BY DEF Retire, queueVars
  <1>4. \A i \in Slots :
           LET g == (head[c] + 1) % ROBSIZE
               n == inflight[c]
           IN  /\ g \in Slots
               /\ Within(g, n - 1, i) <=> Within(head[c], n, i) /\ i # head[c]
               /\ (g + (n - 1)) % ROBSIZE = (head[c] + n) % ROBSIZE
    BY <1>1, <1>2, WindowShrinks
  <1>5. Empty \in Slot /\ Empty.comptime = "past"
    BY DEF Empty, Slot
  <1>6. \A d \in Cores, j \in Slots :
            rob'[d][j] = IF d = c /\ j = head[c] THEN Empty ELSE rob[d][j]
    BY <1>2, <1>3 DEF LoopInv, Typed
  <1>7. /\ head'[c] = (head[c] + 1) % ROBSIZE /\ inflight'[c] = inflight[c] - 1
        /\ \A d \in Cores : d # c => head'[d] = head[d] /\ inflight'[d] = inflight[d]
    BY <1>3 DEF LoopInv, Typed
  <1>8. \A d \in Cores, j \in Slots :
            InWindow(d, j)' <=> InWindow(d, j) /\ ~(d = c /\ j = head[c])
    BY <1>4, <1>7 DEF InWindow, Within
  <1>9. Typed'
    <2>1. ROBSIZE \in Nat \ {0}
      BY MainLoopAssumption
    <2>2. head' \in [Cores -> Slots]
      BY <1>2, <1>3, <1>4 DEF LoopInv, Typed
    <2>3. inflight[c] - 1 \in 0 .. ROBSIZE
      BY <1>1, <2>1
    <2>4. inflight' \in [Cores -> 0 .. ROBSIZE]
      BY <1>3, <2>3 DEF LoopInv, Typed
    <2>5. rob' \in [Cores -> [Slots -> Slot]]
      BY <1>2, <1>3, <1>5 DEF LoopInv, Typed
    <2> QED
      BY <1>3, <2>2, <2>4, <2>5 DEF LoopInv, Typed
  <1>10. Ring'
    <2>1. \A d \in Cores : tail'[d] = (head'[d] + inflight'[d]) % ROBSIZE
      BY <1>2, <1>3, <1>4, <1>7 DEF LoopInv, Ring
    <2> QED
      BY <1>6, <1>8, <2>1 DEF LoopInv, Ring
  <1>11. ReadsAreAwaited'
    <2>1. \A q \in reads : /\ q.core \in Cores /\ q.slot \in Slots
                           /\ ~(q.core = c /\ q.slot = head[c])
      BY <1>1, <1>2 DEF LoopInv, ReadsAreAwaited, Typed, Read
    <2> QED
      BY <1>1, <1>3, <1>5, <1>6, <1>8, <2>1 DEF LoopInv, ReadsAreAwaited
  <1> QED
    BY <1>9, <1>10, <1>11 DEF LoopInv

\* The slot at the tail is free.
LEMMA FetchKeeps ==
    ASSUME LoopInv, NEW c \in Cores, Fetched(c)
    PROVE  LoopInv'
  <1>1. PICK i \in Slots : i = tail[c]
    BY DEF LoopInv, Typed
  <1>2. /\ CanFetch(c)
        /\ tail' = [tail EXCEPT ![c] = (i + 1) % ROBSIZE]
        /\ inflight' = [inflight EXCEPT ![c] = inflight[c] + 1]
        /\ head' = head
    BY <1>1, FetchAssigns DEF LoopInv
  <1>3. PICK s \in Slot : Assigned(c, i, s) /\ s.optype # "none"
    BY <1>1, FetchAssigns DEF LoopInv
  <1>4. ROBSIZE \in Nat \ {0}
    BY MainLoopAssumption
  <1>5. /\ head[c] \in Slots /\ inflight[c] \in 0 .. ROBSIZE - 1
        /\ i = (head[c] + inflight[c]) % ROBSIZE
    <2>1. head[c] \in Slots /\ inflight[c] \in 0 .. ROBSIZE
      BY DEF LoopInv, Typed
    <2>2. inflight[c] # ROBSIZE
      BY <1>2 DEF CanFetch
    <2>3. i = (head[c] + inflight[c]) % ROBSIZE
      BY <1>1 DEF LoopInv, Ring
    <2> QED
      BY <1>4, <2>1, <2>2, <2>3
  <1>6. \A j \in Slots :
           LET n == inflight[c]
           IN  /\ ~Within(head[c], n, i)
               /\ Within(head[c], n + 1, j) <=> Within(head[c], n, j) \/ j = i
               /\ (i + 1) % ROBSIZE = (head[c] + (n + 1)) % ROBSIZE
    BY <1>5, WindowGrows
  <1>7. /\ inflight'[c] = inflight[c] + 1 /\ tail'[c] = (i + 1) % ROBSIZE
        /\ \A d \in Cores : d # c => tail'[d] = tail[d] /\ inflight'[d] = inflight[d]
    BY <1>2 DEF LoopInv, Typed
  <1>8. \A d \in Cores, j \in Slots :
            InWindow(d, j)' <=> InWindow(d, j) \/ (d = c /\ j = i)
    BY <1>2, <1>6, <1>7 DEF InWindow, Within
  <1>9. rob[c][i] = Empty
    BY <1>6 DEF LoopInv, Ring, InWindow, Within
  <1>10. reads' \subseteq Read /\ ReadsAreAwaited'
    <2>1. rob[c][i].comptime # "BIGNUM"
      BY <1>9 DEF Empty
    <2>2. InWindow(c, i)'
      BY <1>8
    <2> QED
      BY <1>3, <1>8, <2>1, <2>2, AssignedIsAwaited
  <1>11. Typed'
    <2>1. (i + 1) % ROBSIZE \in Slots
      BY <1>4, NextSlot
    <2>2. inflight[c] + 1 \in 0 .. ROBSIZE
      BY <1>4, <1>5
    <2>3. rob' \in [Cores -> [Slots -> Slot]]
      BY <1>3 DEF LoopInv, Typed, Assigned
    <2>4. tail' \in [Cores -> Slots] /\ inflight' \in [Cores -> 0 .. ROBSIZE]
      BY <1>2, <2>1, <2>2 DEF LoopInv, Typed
    <2> QED
      BY <1>2, <1>10, <2>3, <2>4 DEF LoopInv, Typed
  <1>12. Ring'
    <2>1. \A d \in Cores, j \in Slots :
              rob'[d][j] = IF d = c /\ j = i THEN s ELSE rob[d][j]
      BY <1>3 DEF LoopInv, Typed, Assigned
    <2>2. \A d \in Cores : tail'[d] = (head'[d] + inflight'[d]) % ROBSIZE
      BY <1>2, <1>6, <1>7 DEF LoopInv, Ring
    <2> QED
      BY <1>3, <1>8, <2>1, <2>2 DEF LoopInv, Ring
  <1> QED
    BY <1>10, <1>11, <1>12 DEF LoopInv

\* A read completes its own slot, and no other read is for that.
LEMMA ReadIssued ==
    ASSUME LoopInv, NEW q \in reads, IssueRead(q),
           UNCHANGED <<head, tail, inflight>>
    PROVE  LoopInv'
  <1> DEFINE c == q.core
             i == q.slot
             s == [rob[c][i] EXCEPT !.comptime = "to come"]
  <1>1. c \in Cores /\ i \in Slots /\ InWindow(c, i) /\ q \in Read
    BY DEF LoopInv, Typed, Read, ReadsAreAwaited
  <1>2. rob[c][i] \in Slot /\ rob[c][i].optype # "none"
    BY <1>1 DEF LoopInv, Typed, Ring
  <1>3. s \in Slot /\ s.optype # "none" /\ s.comptime = "to come"
    BY <1>2 DEF Slot
  <1>4. rob' = [rob EXCEPT ![c][i] = s] /\ reads' = reads \ {q}
    BY DEF IssueRead
  <1> HIDE DEF s, c, i
  <1>5. rob' \in [Cores -> [Slots -> Slot]] /\ Ring'
    BY <1>1, <1>3, <1>4, SlotChanges DEF LoopInv
  <1>6. \A d \in Cores, j \in Slots :
            /\ rob'[d][j] = IF d = c /\ j = i THEN s ELSE rob[d][j]
            /\ InWindow(d, j)' = InWindow(d, j)
    BY <1>1, <1>4 DEF LoopInv, Typed, InWindow
  <1>7. \A p \in reads : /\ p.core \in Cores /\ p.slot \in Slots
                         /\ p.core = c /\ p.slot = i <=> p = q
    BY DEF LoopInv, Typed, Read, ReadsAreAwaited, c, i
  <1>8. ReadsAreAwaited'
    <2>1. ASSUME NEW d \in Cores, NEW j \in Slots
          PROVE  rob'[d][j].comptime = "BIGNUM"
                     <=> \E p \in reads' : p.core = d /\ p.slot = j
      <3>1. CASE d = c /\ j = i
        BY <1>3, <1>4, <1>6, <1>7, <3>1
      <3>2. CASE ~(d = c /\ j = i)
        <4>1. rob[d][j].comptime = "BIGNUM"
                  <=> \E p \in reads : p.core = d /\ p.slot = j
          BY DEF LoopInv, ReadsAreAwaited
        <4> QED
          BY <1>4, <1>6, <1>7, <3>2, <4>1
      <3> QED
        BY <3>1, <3>2
    <2>2. \A p \in reads' : InWindow(p.core, p.slot)'
      BY <1>4, <1>6, <1>7 DEF LoopInv, ReadsAreAwaited
    <2> QED
      BY <1>4, <2>1, <2>2 DEF LoopInv, ReadsAreAwaited
  <1> QED
    BY <1>4, <1>5, <1>8 DEF LoopInv, Typed

\* Slot s when its time has passed.
Passed(s) == [s EXCEPT !.comptime = "past"]

\* A slot whose time has passed keeps the rest.
LEMMA PassedSlot ==
    ASSUME NEW s \in Slot
    PROVE  /\ Passed(s) \in Slot /\ Passed(s).comptime = "past"
           /\ Passed(s).optype = s.optype /\ Passed(s).fellow = s.fellow
    BY DEF Passed, Slot

\* Nothing changes in the slots but that known times pass.
KnownTimesPass ==
    \A c \in Cores, i \in Slots :
        \/ rob'[c][i] = rob[c][i]
        \/ rob[c][i].comptime = "to come" /\ rob'[c][i] = Passed(rob[c][i])

\* A step that changes nothing but which known times have passed.
LEMMA TimesPass ==
    ASSUME LoopInv, UNCHANGED <<head, tail, inflight, reads>>,
           rob' \in [Cores -> [Slots -> Slot]],
           KnownTimesPass
    PROVE  LoopInv'
  <1>1. ASSUME NEW c \in Cores, NEW i \in Slots
        PROVE  /\ rob'[c][i].optype = rob[c][i].optype
               /\ rob[c][i] = Empty => rob'[c][i] = Empty
               /\ (rob'[c][i].comptime = "BIGNUM") <=> (rob[c][i].comptime = "BIGNUM")
    <2>1. CASE rob'[c][i] = rob[c][i]
      BY <2>1
    <2>2. CASE /\ rob[c][i].comptime = "to come"
               /\ rob'[c][i] = Passed(rob[c][i])
      <3>1. rob[c][i] \in Slot
        BY DEF LoopInv, Typed
      <3>2. rob[c][i].comptime = "to come"
        BY <2>2
      <3>3. Empty.comptime = "past"
        BY DEF Empty
      <3> QED
        BY <2>2, <3>1, <3>3, PassedSlot
    <2> QED
      BY <2>1, <2>2 DEF KnownTimesPass
  <1>2. \A c \in Cores, i \in Slots : InWindow(c, i)' = InWindow(c, i)
    BY DEF InWindow
  <1>3. Typed'
    BY DEF LoopInv, Typed
  <1>4. Ring'
    BY <1>1, <1>2 DEF LoopInv, Ring
  <1>5. \A q \in reads : q.core \in Cores /\ q.slot \in Slots
    BY DEF LoopInv, Typed, Read
  <1>6. ReadsAreAwaited'
    BY <1>1, <1>2, <1>5 DEF LoopInv, ReadsAreAwaited
  <1> QED
    BY <1>3, <1>4, <1>6 DEF LoopInv

\* At the end of a cycle known times may pass.
LEMMA EndFetchKeeps ==
    ASSUME LoopInv, EndFetch
    PROVE  LoopInv'
  <1>1. PICK passed \in SUBSET Pending :
           rob' = [c \in Cores |-> [i \in Slots |->
              IF <<c, i>> \in passed THEN Passed(rob[c][i]) ELSE rob[c][i]]]
    BY DEF EndFetch, Passed
  <1>2. \A c \in Cores, i \in Slots :
           <<c, i>> \in passed => rob[c][i].comptime = "to come"
    BY DEF Pending
  <1>3. \A c \in Cores, i \in Slots :
           /\ rob[c][i] \in Slot
           /\ Passed(rob[c][i]) \in Slot
    BY PassedSlot DEF LoopInv, Typed
  <1>4. rob' \in [Cores -> [Slots -> Slot]]
    BY <1>1, <1>3
  <1>5. UNCHANGED <<head, tail, inflight, reads>>
    BY DEF EndFetch, queueVars
  <1> QED
    BY <1>1, <1>2, <1>4, <1>5, TimesPass DEF KnownTimesPass

\* A step that leaves the buffers and the read queue alone.
LEMMA NothingMoves ==
    ASSUME LoopInv, UNCHANGED <<rob, head, tail, inflight, reads>>
    PROVE  LoopInv'
    BY DEF LoopInv, Typed, Ring, ReadsAreAwaited, InWindow

\* The memory issues at most one read.
LEMMA MemoryKeeps ==
    ASSUME LoopInv, MemoryStep(DramCycle) \/ MemoryStep(NoDramCycle)
    PROVE  LoopInv'
  <1>1. UNCHANGED <<head, tail, inflight>>
    BY DEF MemoryStep
  <1>2. \/ \E q \in reads : IssueRead(q)
        \/ UNCHANGED <<rob, reads>>
    BY DEF MemoryStep, DramCycle, NoDramCycle, IssueWrite, IssueNothing, queueVars
  <1> QED
    BY <1>1, <1>2, ReadIssued, NothingMoves

\* LoopInv holds in every reachable state.
LEMMA LoopInvariant == MainLoopSpec => []LoopInv
  <1>1. MainLoopInit => LoopInv
    <2> SUFFICES ASSUME MainLoopInit PROVE LoopInv
      OBVIOUS
    <2>1. ROBSIZE \in Nat \ {0}
      BY MainLoopAssumption
    <2>2. Empty \in Slot /\ Empty.comptime = "past"
      BY DEF Empty, Slot
    <2>3. 0 \in Slots /\ 0 \in 0 .. ROBSIZE /\ 0 < ROBSIZE
      BY <2>1 DEF Slots
    <2>4. Typed
      BY <2>2, <2>3 DEF MainLoopInit, Typed
    <2>5. \A c \in Cores, i \in Slots : rob[c][i] = Empty
      BY DEF MainLoopInit
    <2>6. \A c \in Cores, i \in Slots : ~InWindow(c, i)
      <3>1. \A i \in Slots : ~Within(0, 0, i)
        BY <2>1, <2>3, WithinCases DEF Slots
      <3> QED
        BY <3>1 DEF MainLoopInit, InWindow, Within
    <2>7. (0 + 0) % ROBSIZE = 0
      BY <2>3, NextSlot
    <2>8. Ring
      BY <2>5, <2>6, <2>7 DEF MainLoopInit, Ring
    <2>9. ReadsAreAwaited
      BY <2>2, <2>5 DEF MainLoopInit, ReadsAreAwaited
    <2> QED
      BY <2>4, <2>8, <2>9 DEF LoopInv
  <1>2. LoopInv /\ [MainLoopNext]_loopVars => LoopInv'
    <2> SUFFICES ASSUME LoopInv, [MainLoopNext]_loopVars PROVE LoopInv'
      OBVIOUS
    <2>1. CASE UNCHANGED loopVars
      BY <2>1, NothingMoves DEF loopVars, robVars, queueVars
    <2>2. ASSUME NEW c \in Cores, CoreStep(c) PROVE LoopInv'
      BY <2>2, FellowKeeps, RetireKeeps, FetchKeeps DEF CoreStep, Fetched
    <2>3. CASE Ended
      BY <2>1, <2>3 DEF Ended
    <2> QED
      BY <2>1, <2>2, <2>3, MemoryKeeps, EndFetchKeeps DEF MainLoopNext
  <1> QED
    BY <1>1, <1>2, PTL DEF MainLoopSpec

\* The reorder buffer is a ring: a slot outside the window holds nothing.
THEOREM BufferIsRing == MainLoopSpec => []RobIsRing
  <1>1. LoopInv => RobIsRing
    <2> SUFFICES ASSUME LoopInv PROVE RobIsRing
      OBVIOUS
    <2>1. \A c \in Cores, i \in Slots : ~InWindow(c, i) <=> rob[c][i] = Empty
      BY DEF LoopInv, Ring, Empty
    <2> QED
      BY <2>1 DEF LoopInv, Typed, Ring, RobIsRing
  <1> QED
    BY <1>1, LoopInvariant, PTL

\* Reads and the slots that wait for them match.
THEOREM SlotsAwaitReads == MainLoopSpec => []ReadsAreAwaited
  <1>1. LoopInv => ReadsAreAwaited
    BY DEF LoopInv
  <1> QED
    BY <1>1, LoopInvariant, PTL

-----------------------------------------------------------------------------
(* Translated accesses.                                                    *)

\* What FellowFollowsTranslation says of one slot.
Follows(c, i) ==
    LET f == rob[c][i].fellow
    IN  f # NoLine /\ rob'[c][i].fellow = NoLine =>
            /\ rob[c][i].comptime = "past"
            /\ \A q \in reads : q.core = c => q.slot # i
            /\ rob'[c][i].address = f.address
            /\ rob'[c][i].optype = f.optype

\* Only the fellow itself takes the place of a translation.
LEMMA StepFollows ==
    ASSUME LoopInv, [MainLoopNext]_loopVars, NEW c \in Cores, NEW i \in Slots
    PROVE  Follows(c, i)
  <1>1. CASE rob'[c][i] = rob[c][i]
    BY <1>1 DEF Follows
  <1>2. ASSUME NEW d \in Cores, Fellow(d), rob'[c][i] # rob[c][i]
        PROVE  Follows(c, i)
    <2>1. PICK s \in Slot :
             /\ rob' = [rob EXCEPT ![d][head[d]] = s]
             /\ s.optype = rob[d][head[d]].fellow.optype
             /\ s.address = rob[d][head[d]].fellow.address
      BY <1>2, FellowAssigns DEF LoopInv, Assigned
    <2>2. c = d /\ i = head[d] /\ rob'[c][i] = s
      BY <1>2, <2>1 DEF LoopInv, Typed
    <2>3. rob[c][i].comptime = "past"
      BY <1>2, <2>2, HeadInWindow DEF LoopInv, Fellow, RetireTurn, CanRetire
    <2>4. \A q \in reads : q.core = c => q.slot # i
      BY <2>3 DEF LoopInv, ReadsAreAwaited
    <2> QED
      BY <2>1, <2>2, <2>3, <2>4 DEF Follows
  <1>3. ASSUME NEW d \in Cores, Retire(d), rob'[c][i] # rob[c][i]
        PROVE  Follows(c, i)
    <2>1. rob' = [rob EXCEPT ![d][head[d]] = Empty] /\ rob[d][head[d]].fellow = NoLine
      BY <1>3 DEF Retire
    <2>2. c = d /\ i = head[d]
      BY <1>3, <2>1 DEF LoopInv, Typed
    <2> QED
      BY <2>1, <2>2 DEF Follows
  <1>4. ASSUME NEW d \in Cores, Fetched(d), rob'[c][i] # rob[c][i]
        PROVE  Follows(c, i)
    <2>1. PICK s \in Slot : rob' = [rob EXCEPT ![d][tail[d]] = s]
      BY <1>4, FetchAssigns DEF LoopInv, Assigned
    <2>2. c = d /\ i = tail[d]
      BY <1>4, <2>1 DEF LoopInv, Typed
    <2>3. rob[c][i] = Empty
      <3>1. CanFetch(c)
        BY <1>4, <2>2, FetchAssigns DEF LoopInv
      <3> QED
        BY <2>2, <3>1, TailIsFree DEF LoopInv
    <2> QED
      BY <2>3 DEF Follows, Empty
  <1>5. ASSUME NEW q \in reads, IssueRead(q)
        PROVE  Follows(c, i)
    <2>1. q.core \in Cores /\ q.slot \in Slots
      BY DEF LoopInv, Typed, Read
    <2>2. rob[q.core][q.slot] \in Slot
      BY <2>1 DEF LoopInv, Typed
    <2>3. rob' = [rob EXCEPT ![q.core][q.slot].comptime = "to come"]
      BY <1>5 DEF IssueRead
    <2>4. rob'[c][i].fellow = rob[c][i].fellow
      BY <2>1, <2>2, <2>3 DEF LoopInv, Typed, Slot
    <2> QED
      BY <2>4 DEF Follows
  <1>6. ASSUME EndFetch
        PROVE  Follows(c, i)
    <2>1. rob'[c][i] = rob[c][i] \/ rob'[c][i] = Passed(rob[c][i])
      BY <1>6 DEF EndFetch, Passed
    <2>2. rob[c][i] \in Slot
      BY DEF LoopInv, Typed
    <2>3. rob'[c][i].fellow = rob[c][i].fellow
      BY <2>1, <2>2, PassedSlot
    <2> QED
      BY <2>3 DEF Follows
  <1>7. \/ rob' = rob
        \/ \E d \in Cores : Fellow(d) \/ Retire(d) \/ Fetched(d)
        \/ \E q \in reads : IssueRead(q)
        \/ EndFetch
    BY DEF MainLoopNext, CoreStep, Fetched, MemoryStep, DramCycle, NoDramCycle,
           IssueWrite, IssueNothing, Ended, loopVars, robVars
  <1> QED
    BY <1>1, <1>2, <1>3, <1>4, <1>5, <1>6, <1>7

\* A translated access begins in the slot of its translation, when that is
\* done.
THEOREM FellowFollows == MainLoopSpec => FellowFollowsTranslation
  <1>1. LoopInv /\ [MainLoopNext]_loopVars =>
            [\A c \in Cores, i \in Slots :
                LET f == rob[c][i].fellow
                IN  f # NoLine /\ rob'[c][i].fellow = NoLine =>
                        /\ rob[c][i].comptime = "past"
                        /\ \A q \in reads : q.core = c => q.slot # i
                        /\ rob'[c][i].address = f.address
                        /\ rob'[c][i].optype = f.optype]_loopVars
    BY StepFollows DEF Follows
  <1> QED
    BY <1>1, LoopInvariant, PTL DEF MainLoopSpec, FellowFollowsTranslation

-----------------------------------------------------------------------------
(* The end of the simulation.                                              *)

Lined ==
    /\ line \in [Cores -> [optype : {"N", "R", "W"}, address : Addrs]
                              \cup {NoLine}]
    /\ lines_left \in [Cores -> Nat]
    /\ \A c \in Cores : line[c] = NoLine => lines_left[c] = 0

EndInv ==
    /\ writes \in [Addrs -> Nat]
    /\ Lined
    /\ phase = "end" => Finished

LEMMA BumpType ==
    ASSUME NEW w \in [Addrs -> Nat], NEW as
    PROVE  Bump(w, as) \in [Addrs -> Nat]
  <1>1. ASSUME NEW a \in Addrs
        PROVE  (IF a \in as THEN w[a] + 1 ELSE w[a]) \in Nat
    <2>1. w[a] \in Nat
      OBVIOUS
    <2>2. w[a] + 1 \in Nat
      BY <2>1
    <2>3. CASE a \in as
      BY <2>2, <2>3
    <2>4. CASE ~(a \in as)
      BY <2>1, <2>4
    <2> QED
      BY <2>3, <2>4
  <1> QED
    BY <1>1 DEF Bump

LEMMA AccessCounts ==
    ASSUME writes \in [Addrs -> Nat], NEW c, NEW i, NEW a, NEW looked, NEW s,
           NEW hit, NEW wb,
           \/ AccessRead(c, i, a, s, hit, wb)
           \/ AccessWrite(c, i, a, looked, s, hit, wb)
    PROVE  writes' \in [Addrs -> Nat]
  <1>1. \/ writes' = writes
        \/ writes' = Bump(writes, wb)
        \/ writes' = Bump(Bump(writes, wb), {a})
    <2>1. CASE AccessRead(c, i, a, s, hit, wb)
      <3>1. writes' = Bump(writes, wb)
        BY ONLY <2>1 DEF AccessRead
      <3> QED
        BY <3>1
    <2>2. CASE AccessWrite(c, i, a, looked, s, hit, wb)
      <3>1. writes' = IF hit THEN writes
                      ELSE IF InWriteQueue(looked) \/ looked \in wb
                           THEN Bump(writes, wb)
                           ELSE Bump(Bump(writes, wb), {a})
        BY ONLY <2>2 DEF AccessWrite
      <3> QED
        BY ONLY <3>1, Zenon
    <2> QED
      BY <2>1, <2>2
  <1>2. Bump(writes, wb) \in [Addrs -> Nat]
    BY BumpType
  <1>3. Bump(Bump(writes, wb), {a}) \in [Addrs -> Nat]
    BY <1>2, BumpType
  <1> QED
    BY <1>1, <1>2, <1>3

LEMMA AdvanceLines ==
    ASSUME Lined, NEW c \in Cores, Advance(c)
    PROVE  Lined' /\ UNCHANGED phase
  <1>1. CASE lines_left[c] = 0
    BY <1>1 DEF Advance, Lined
  <1>2. CASE lines_left[c] # 0
    <2>1. PICK l \in Lines(lines_left[c] - 1) :
              line' = [line EXCEPT ![c] = l]
      BY <1>2 DEF Advance
    <2>2. /\ l \in [optype : {"N", "R", "W"}, address : Addrs]
          /\ l # NoLine
      BY LineAssumption DEF Lines
    <2>3. /\ lines_left' = [lines_left EXCEPT ![c] = lines_left[c] - 1]
          /\ UNCHANGED phase
      BY <1>2 DEF Advance
    <2>4. lines_left[c] - 1 \in Nat
      <3>1. lines_left[c] \in Nat
        BY DEF Lined
      <3> QED
        BY <1>2, <3>1
    <2> QED
      BY <2>1, <2>2, <2>3, <2>4 DEF Lined
  <1> QED
    BY <1>1, <1>2

LEMMA CoreStepKeepsEnd ==
    ASSUME EndInv, NEW c \in Cores, CoreStep(c)
    PROVE  EndInv'
  <1>1. CASE Fellow(c)
    <2>1. writes' \in [Addrs -> Nat]
      BY <1>1, AccessCounts DEF EndInv, Fellow
    <2> QED
      BY <1>1, <2>1
      DEF EndInv, Lined, Fellow, RetireTurn, CanRetire, traceVars
  <1>2. CASE Retire(c)
    BY <1>2 DEF EndInv, Lined, Retire, RetireTurn, CanRetire, traceVars,
                queueVars
  <1>3. ASSUME Advance(c), phase = "fetch", writes' \in [Addrs -> Nat]
        PROVE  EndInv'
    BY <1>3, AdvanceLines DEF EndInv
  <1>4. CASE FetchNonMem(c)
    BY <1>3, <1>4 DEF EndInv, FetchNonMem, FetchTurn, CanFetch, queueVars
  <1>5. CASE FetchMem(c)
    <2>1. writes' \in [Addrs -> Nat]
      BY <1>5, AccessCounts DEF EndInv, FetchMem
    <2> QED
      BY <1>3, <1>5, <2>1 DEF FetchMem, FetchTurn, CanFetch
  <1>6. CASE FetchTranslation(c)
    BY <1>3, <1>6 DEF EndInv, FetchTranslation, FetchTurn, CanFetch
  <1> QED
    BY <1>1, <1>2, <1>4, <1>5, <1>6 DEF CoreStep

LEMMA EndInvariant == MainLoopSpec => []EndInv
  <1>1. MainLoopInit => EndInv
    <2> SUFFICES ASSUME MainLoopInit PROVE EndInv
      OBVIOUS
    <2>1. TRACE_LENGTH - 1 \in Nat
      BY MainLoopAssumption
    <2>2. Lined
      BY <2>1 DEF MainLoopInit, Lined, Lines
    <2> QED
      BY <2>2 DEF MainLoopInit, EndInv
  <1>2. EndInv /\ [MainLoopNext]_loopVars => EndInv'
    <2> SUFFICES ASSUME EndInv, [MainLoopNext]_loopVars PROVE EndInv'
      OBVIOUS
    <2>1. CASE UNCHANGED loopVars
      BY <2>1 DEF EndInv, Lined, Finished, write_queue_length, WaitingWrites,
                  loopVars, robVars, traceVars, queueVars
    <2>2. CASE Ended
      BY <2>1, <2>2 DEF Ended
    <2>3. CASE MemoryStep(DramCycle) \/ MemoryStep(NoDramCycle)
      <3>1. /\ phase' = "fetch" /\ UNCHANGED traceVars
            /\ DramCycle \/ NoDramCycle
        BY <2>3 DEF MemoryStep
      <3>2. \/ UNCHANGED writes
            \/ \E a \in Addrs : /\ writes[a] > 0
                                /\ writes' = [writes EXCEPT ![a] = @ - 1]
        BY <3>1 DEF DramCycle, NoDramCycle, IssueRead, IssueWrite,
                    IssueNothing, queueVars
      <3>3. writes' \in [Addrs -> Nat]
        BY <3>2 DEF EndInv
      <3> QED
        BY <3>1, <3>3 DEF EndInv, Lined, traceVars
    <2>4. CASE EndFetch
      <3>1. /\ phase' = (IF Finished THEN "end" ELSE "retire")
            /\ UNCHANGED <<inflight, traceVars, queueVars>>
        BY <2>4 DEF EndFetch
      <3>2. Finished' = Finished
        BY <3>1 DEF Finished, write_queue_length, WaitingWrites, traceVars,
                    queueVars
      <3> QED
        BY <3>1, <3>2 DEF EndInv, Lined, traceVars, queueVars
    <2> QED
      BY <2>1, <2>2, <2>3, <2>4, CoreStepKeepsEnd DEF MainLoopNext
  <1> QED
    BY <1>1, <1>2, PTL DEF MainLoopSpec

\* The queue is empty only if no address is in it.
LEMMA NoWritesWait ==
    ASSUME writes \in [Addrs -> Nat], write_queue_length = 0
    PROVE  \A a \in Addrs : writes[a] = 0
  <1> DEFINE Of(a) == {a} \X (1 .. writes[a])
             of == [a \in Addrs |-> Of(a)]
             parts == {Of(a) : a \in Addrs}
  <1>1. IsFiniteSet(parts)
    <2>1. of \in Surjection(Addrs, parts)
      BY DEF Surjection
    <2> HIDE DEF of, parts
    <2> QED
      BY <2>1, LineAssumption, FS_Surjection
  <1>2. \A T \in parts : IsFiniteSet(T)
    <2> SUFFICES ASSUME NEW a \in Addrs PROVE IsFiniteSet(Of(a))
      OBVIOUS
    <2>1. IsFiniteSet({a}) /\ IsFiniteSet(1 .. writes[a])
      <3>1. writes[a] \in Int /\ 1 \in Int
        OBVIOUS
      <3>2. IsFiniteSet(1 .. writes[a])
        BY ONLY <3>1, FS_Interval
      <3> QED
        BY <3>2, FS_Singleton
    <2> QED
      BY <2>1, FS_Product
  <1>3. IsFiniteSet(WaitingWrites)
    BY <1>1, <1>2, FS_UNION DEF WaitingWrites
  <1>4. Cardinality(WaitingWrites) \in Nat
    BY <1>3, FS_CardinalityType
  <1>5. WaitingWrites = {}
    <2>1. Cardinality(WaitingWrites) = 0
      BY <1>4 DEF write_queue_length
    <2> QED
      BY <1>3, <2>1, FS_EmptySet
  <1> SUFFICES ASSUME NEW a \in Addrs, writes[a] # 0
               PROVE  FALSE
    OBVIOUS
  <1>6. 1 \in 1 .. writes[a]
    OBVIOUS
  <1>7. <<a, 1>> \in WaitingWrites
    BY <1>6 DEF WaitingWrites
  <1> QED
    BY <1>5, <1>7

\* When the simulation ends, no read, write, instruction or line of a trace is
\* left, though the loop looks for reads nowhere: each has a slot that waits.
THEOREM EndLeavesNothing == MainLoopSpec => []NothingLeftAtEnd
  <1>1. LoopInv /\ EndInv => NothingLeftAtEnd
    <2> SUFFICES ASSUME LoopInv, EndInv, phase = "end"
                 PROVE  /\ reads = {} /\ \A a \in Addrs : writes[a] = 0
                        /\ \A c \in Cores, i \in Slots : rob[c][i] = Empty
                        /\ \A c \in Cores : lines_left[c] = 0
      BY DEF NothingLeftAtEnd
    <2>1. /\ \A c \in Cores : line[c] = NoLine /\ inflight[c] = 0
          /\ write_queue_length = 0
      BY DEF EndInv, Finished
    <2>2. \A c \in Cores, i \in Slots : ~InWindow(c, i)
      <3>1. ASSUME NEW c \in Cores, NEW i \in Slots
            PROVE  ~Within(head[c], 0, i)
        <4>1. head[c] \in Slots /\ 0 \in 0 .. ROBSIZE /\ ROBSIZE \in Nat
          BY MainLoopAssumption DEF LoopInv, Typed
        <4> QED
          BY <4>1, WithinCases DEF Slots
      <3> QED
        BY <2>1, <3>1 DEF InWindow, Within
    <2>3. reads = {}
      BY <2>2 DEF LoopInv, Typed, Read, ReadsAreAwaited
    <2> QED
      BY <2>1, <2>2, <2>3, NoWritesWait DEF LoopInv, Ring, EndInv, Lined
  <1> QED
    BY <1>1, LoopInvariant, EndInvariant, PTL
=============================================================================
