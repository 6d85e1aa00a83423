------------------------------ MODULE MainLoop ------------------------------
(***************************************************************************)
(* The main loop of the simulator (main.c): the reorder buffers of the     *)
(* cores, filled from their traces and retired in order, and the read and  *)
(* the write queue they share.                                             *)
(*                                                                         *)
(* Every cycle retires, lets the memory take a step if a DRAM cycle begins *)
(* with it, and fetches, core by core.  What the other parts decide is     *)
(* left open: whether an access needs a translation read, hits in the      *)
(* cache or replaces a dirty line (Tlb, LastLevelCache), and how long a    *)
(* request takes (Scheduler).  A time in comptime is only told apart as    *)
(* not known (BIGNUM), to come, or past.                                   *)
(***************************************************************************)
EXTENDS Integers, FiniteSets

CONSTANTS
    NUMCORES, ROBSIZE, MAX_RETIRE, MAX_FETCH, WQ_CAPACITY, HI_WM, LO_WM,
    Addrs,
    TRACE_LENGTH,    \* bound: the lines of a core's trace
    ALL_LINES,       \* bound: the lines of all traces together
    NoLine, NoRead, NoWrite

ASSUME MainLoopAssumption ==
    /\ {NUMCORES, ROBSIZE, MAX_RETIRE, MAX_FETCH, WQ_CAPACITY, TRACE_LENGTH}
           \subseteq Nat \ {0}
    /\ {HI_WM, LO_WM, ALL_LINES} \subseteq Nat
    /\ LO_WM < HI_WM

\* The address space is finite, and no line of a trace is the mark for its end.
ASSUME LineAssumption ==
    /\ IsFiniteSet(Addrs)
    /\ NoLine \notin [optype : {"N", "R", "W"}, address : Addrs]

Cores == 0 .. NUMCORES - 1
Slots == 0 .. ROBSIZE - 1

VARIABLES
    rob,            \* rob[c][i]: slot i of core c
    head, tail, inflight,
    line,           \* line[c]: the trace line read last, or NoLine at its end
    lines_left,     \* lines_left[c]: lines of the trace not read yet
    reads,          \* the read queue: the core, slot and address of each read
    writes,         \* writes[a]: how often address a is in the write queue
    issued_read,    \* the read, and the write, that was issued in the last
    issued_write,   \* memory step and leaves its queue in the next one
    drain_writes,
    writeqfull,
    num,            \* num[c]: what core c has retired (num_ret), and later
                    \* what it has fetched (num_fetch), in this cycle
    phase

robVars   == <<rob, head, tail, inflight>>
traceVars == <<line, lines_left>>
queueVars == <<reads, writes, issued_read, issued_write>>
loopVars  == <<robVars, traceVars, queueVars, drain_writes, writeqfull, num, phase>>

-----------------------------------------------------------------------------
Empty == [optype |-> "none", address |-> NoLine, comptime |-> "past",
          fellow |-> NoLine]

\* The lines that may be read with left lines to follow: a line of the code's
\* trace counts the other instructions and ends with a memory access.
Lines(left) == [optype : IF left = 0 THEN {"R", "W"} ELSE {"N", "R", "W"},
                address : Addrs]

\* The writes that wait in the queue, those for one address numbered.
WaitingWrites == UNION {{a} \X (1 .. writes[a]) : a \in Addrs}

write_queue_length ==
    Cardinality(WaitingWrites) + (IF issued_write = NoWrite THEN 0 ELSE 1)

\* read_matches_write_or_read_queue, write_exists_in_write_queue
InWriteQueue(a) == writes[a] > 0 \/ issued_write = a
InReadQueue(a)  == \E q \in reads \cup ({issued_read} \ {NoRead}) : q.address = a

Bump(w, as) == [a \in Addrs |-> IF a \in as THEN w[a] + 1 ELSE w[a]]

-----------------------------------------------------------------------------
(* An access to the cache and, if it misses, to the queues.  wb holds the  *)
(* dirty line a miss replaces, or nothing.                                 *)

CacheOutcome(hit, wb) ==
    /\ hit \in BOOLEAN
    /\ wb \in {{}} \cup {{a} : a \in Addrs}
    /\ hit => wb = {}

\* Slot i of core c reads address a; s is what the slot holds otherwise.
AccessRead(c, i, a, s, hit, wb) ==
    LET merged == InWriteQueue(a) \/ InReadQueue(a)
        known  == hit \/ merged
    IN  /\ rob' = [rob EXCEPT ![c][i] =
               [s EXCEPT !.comptime = IF known THEN "to come" ELSE "BIGNUM"]]
        /\ writes' = Bump(writes, wb)
        /\ reads' = IF known THEN reads
                    ELSE reads \cup {[core |-> c, slot |-> i, address |-> a]}
        /\ UNCHANGED <<issued_read, issued_write>>

\* Slot i of core c writes address a.  The write is put in the queue unless
\* address looked is in there, which counts the line just written back.
AccessWrite(c, i, a, looked, s, hit, wb) ==
    LET exists == InWriteQueue(looked) \/ looked \in wb
    IN  /\ rob' = [rob EXCEPT ![c][i] = [s EXCEPT !.comptime = "to come"]]
        /\ writes' = IF hit THEN writes
                     ELSE IF exists THEN Bump(writes, wb)
                     ELSE Bump(Bump(writes, wb), {a})
        /\ UNCHANGED <<reads, issued_read, issued_write>>

-----------------------------------------------------------------------------
(* Retirement.                                                             *)

\* Fault: an empty reorder buffer is retired from.
DoneEmpty(c) == rob[c][head[c]].comptime = "past"

\* Fault: the completion time is not waited for.
DoneEarly(c) == inflight[c] > 0

Done(c) == inflight[c] > 0 /\ rob[c][head[c]].comptime = "past"

CanRetire(c) == phase = "retire" /\ num[c] < MAX_RETIRE /\ Done(c)

\* The cores have their turns in order; one that cannot go on has had it.
RetireTurn(c) == CanRetire(c) /\ \A d \in Cores : d < c => ~CanRetire(d)

\* The translation at the head is done; the access it was made for begins in
\* the same slot.  The lookup for a write to merge with takes the address of
\* the trace line that was read last, as in the code.
Fellow(c) ==
    LET i == head[c]
        f == rob[c][i].fellow
        s == [Empty EXCEPT !.optype = f.optype, !.address = f.address]
    IN  /\ RetireTurn(c) /\ f # NoLine
        /\ \E hit \in BOOLEAN, wb \in {{}} \cup {{a} : a \in Addrs} :
              /\ CacheOutcome(hit, wb)
              /\ \/ f.optype = "R" /\ AccessRead(c, i, f.address, s, hit, wb)
                 \/ /\ f.optype = "W"
                    /\ \E looked \in IF line[c] = NoLine THEN Addrs
                                     ELSE {line[c].address} :
                          AccessWrite(c, i, f.address, looked, s, hit, wb)
        /\ UNCHANGED <<head, tail, inflight, traceVars, drain_writes,
                       writeqfull, num, phase>>

Retire(c) ==
    /\ RetireTurn(c) /\ rob[c][head[c]].fellow = NoLine
    /\ rob' = [rob EXCEPT ![c][head[c]] = Empty]
    /\ head' = [head EXCEPT ![c] = (@ + 1) % ROBSIZE]
    /\ inflight' = [inflight EXCEPT ![c] = @ - 1]
    /\ num' = [num EXCEPT ![c] = @ + 1]
    /\ UNCHANGED <<tail, traceVars, queueVars, drain_writes, writeqfull, phase>>

-----------------------------------------------------------------------------
(* The memory: update_memory and schedule.                                 *)

\* Fault: below the watermarks the write queue never drains.
DrainingAboveMark ==
    LET waiting == Cardinality(WaitingWrites)
    IN  waiting > HI_WM \/ (drain_writes /\ waiting > LO_WM)

\* The requests issued in the step before have left their queues.
Draining ==
    LET waiting == Cardinality(WaitingWrites)
    IN  \/ drain_writes /\ waiting > LO_WM
        \/ waiting > HI_WM
        \/ reads = {}

\* Fault: the read completes its slot in every reorder buffer.
IssueReadAllCores(q) ==
    /\ ~Draining
    /\ q \in reads
    /\ reads' = reads \ {q}
    /\ rob' = [c \in Cores |-> [rob[c] EXCEPT ![q.slot].comptime = "to come"]]
    /\ issued_read' = q
    /\ issued_write' = NoWrite
    /\ drain_writes' = FALSE
    /\ UNCHANGED writes

IssueRead(q) ==
    /\ ~Draining
    /\ q \in reads
    /\ reads' = reads \ {q}
    /\ rob' = [rob EXCEPT ![q.core][q.slot].comptime = "to come"]
    /\ issued_read' = q
    /\ issued_write' = NoWrite
    /\ drain_writes' = FALSE
    /\ UNCHANGED writes

IssueWrite(a) ==
    /\ Draining
    /\ writes[a] > 0
    /\ writes' = [writes EXCEPT ![a] = @ - 1]
    /\ issued_write' = a
    /\ issued_read' = NoRead
    /\ drain_writes' = TRUE
    /\ UNCHANGED <<rob, reads>>

IssueNothing ==
    /\ issued_read' = NoRead
    /\ issued_write' = NoWrite
    /\ drain_writes' = Draining
    /\ UNCHANGED <<rob, reads, writes>>

DramCycle ==
    \/ \E q \in reads : IssueRead(q)
    \/ \E a \in Addrs : IssueWrite(a)
    \/ IssueNothing

NoDramCycle == UNCHANGED <<rob, queueVars, drain_writes>>

\* The memory's part of the cycle, A, comes when nothing more is retired;
\* writeqfull is computed afresh after it.
MemoryStep(A) ==
    /\ phase = "retire"
    /\ \A c \in Cores : ~CanRetire(c)
    /\ A
    /\ phase' = "fetch"
    /\ writeqfull' = (write_queue_length' = WQ_CAPACITY)
    /\ num' = [c \in Cores |-> 0]
    /\ UNCHANGED <<head, tail, inflight, traceVars>>

-----------------------------------------------------------------------------
(* Fetch.                                                                  *)

CanFetch(c) ==
    /\ phase = "fetch"
    /\ line[c] # NoLine
    /\ num[c] < MAX_FETCH
    /\ inflight[c] # ROBSIZE
    /\ ~writeqfull

FetchTurn(c) == CanFetch(c) /\ \A d \in Cores : d < c => ~CanFetch(d)

\* The tail moves on and the next line of the trace is read.
Advance(c) ==
    /\ tail' = [tail EXCEPT ![c] = (@ + 1) % ROBSIZE]
    /\ inflight' = [inflight EXCEPT ![c] = @ + 1]
    /\ num' = [num EXCEPT ![c] = @ + 1]
    /\ IF lines_left[c] = 0
       THEN line' = [line EXCEPT ![c] = NoLine] /\ UNCHANGED lines_left
       ELSE /\ \E l \in Lines(lines_left[c] - 1) :
                  line' = [line EXCEPT ![c] = l]
            /\ lines_left' = [lines_left EXCEPT ![c] = @ - 1]
    /\ UNCHANGED <<head, drain_writes, phase>>

FetchNonMem(c) ==
    /\ FetchTurn(c) /\ line[c].optype = "N"
    /\ rob' = [rob EXCEPT ![c][tail[c]] =
           [Empty EXCEPT !.optype = "N", !.comptime = "to come"]]
    /\ Advance(c)
    /\ UNCHANGED <<queueVars, writeqfull>>

\* writeqfull is looked at again after a write only.
FetchMem(c) ==
    LET i  == tail[c]
        op == line[c].optype
    IN  /\ FetchTurn(c) /\ op \in {"R", "W"}
        /\ \E a \in Addrs, hit \in BOOLEAN, wb \in {{}} \cup {{b} : b \in Addrs} :
              LET s == [Empty EXCEPT !.optype = op, !.address = a]
              IN  /\ CacheOutcome(hit, wb)
                  /\ \/ op = "R" /\ AccessRead(c, i, a, s, hit, wb)
                     \/ op = "W" /\ AccessWrite(c, i, a, a, s, hit, wb)
        /\ writeqfull' = (op = "W" /\ write_queue_length' = WQ_CAPACITY)
        /\ Advance(c)

\* The address is not in the TLB: the slot first reads the page table, and
\* keeps the access as its fellow.
FetchTranslation(c) ==
    LET i == tail[c]
    IN  /\ FetchTurn(c) /\ line[c].optype \in {"R", "W"}
        /\ \E a, pte \in Addrs :
              /\ rob' = [rob EXCEPT ![c][i] =
                     [optype |-> "R", address |-> pte, comptime |-> "BIGNUM",
                      fellow |-> [optype |-> line[c].optype, address |-> a]]]
              /\ reads' = reads \cup {[core |-> c, slot |-> i, address |-> pte]}
        /\ UNCHANGED <<writes, issued_read, issued_write, writeqfull>>
        /\ Advance(c)

\* Fault: the write queue is not looked at.
FinishedButWrites == \A c \in Cores : line[c] = NoLine /\ inflight[c] = 0

Finished ==
    /\ \A c \in Cores : line[c] = NoLine /\ inflight[c] = 0
    /\ write_queue_length = 0

\* The slots whose comptime CYCLE_VAL may pass.  The read that set it has
\* left the queue by then: a column access takes longer than a DRAM cycle.
Pending ==
    {p \in Cores \X Slots :
        /\ rob[p[1]][p[2]].comptime = "to come"
        /\ issued_read # NoRead => p # <<issued_read.core, issued_read.slot>>}

\* The cycle ends, and with it the simulation if nothing is left to do.
EndFetch ==
    /\ phase = "fetch"
    /\ \A c \in Cores : ~CanFetch(c)
    /\ phase' = IF Finished THEN "end" ELSE "retire"
    /\ num' = [c \in Cores |-> 0]
    /\ \E passed \in SUBSET Pending :
          rob' = [c \in Cores |-> [i \in Slots |->
              IF <<c, i>> \in passed THEN [rob[c][i] EXCEPT !.comptime = "past"]
              ELSE rob[c][i]]]
    /\ UNCHANGED <<head, tail, inflight, traceVars, queueVars, drain_writes,
                   writeqfull>>

Ended == phase = "end" /\ UNCHANGED loopVars

-----------------------------------------------------------------------------
\* The lines of the traces that are not fetched yet.
LinesToFetch ==
    {p \in Cores \X (1 .. TRACE_LENGTH) :
        line[p[1]] # NoLine /\ p[2] <= lines_left[p[1]] + 1}

MainLoopInit ==
    /\ rob = [c \in Cores |-> [i \in Slots |-> Empty]]
    /\ head = [c \in Cores |-> 0]
    /\ tail = [c \in Cores |-> 0]
    /\ inflight = [c \in Cores |-> 0]
    /\ lines_left \in [Cores -> 0 .. TRACE_LENGTH - 1]
    /\ line \in [Cores -> Lines(1) \cup {NoLine}]
    /\ \A c \in Cores : IF line[c] = NoLine THEN lines_left[c] = 0
                        ELSE line[c] \in Lines(lines_left[c])
    /\ Cardinality(LinesToFetch) <= ALL_LINES
    /\ reads = {}
    /\ writes = [a \in Addrs |-> 0]
    /\ issued_read = NoRead
    /\ issued_write = NoWrite
    /\ drain_writes = FALSE
    /\ writeqfull = FALSE
    /\ num = [c \in Cores |-> 0]
    /\ phase = "retire"

CoreStep(c) ==
    \/ Fellow(c) \/ Retire(c)
    \/ FetchNonMem(c) \/ FetchMem(c) \/ FetchTranslation(c)

MainLoopNext ==
    \/ \E c \in Cores : CoreStep(c)
    \/ MemoryStep(DramCycle) \/ MemoryStep(NoDramCycle)
    \/ EndFetch
    \/ Ended

\* What the loop relies on: time passes, and the scheduler serves a read once
\* the drains have stopped and the writes while a drain lasts (Scheduler's
\* ReadsAreServed and WritesAreServed, the writes of a trace being finitely
\* many).
MemoryServes ==
    /\ \A c \in Cores, i \in Slots : []<>(rob[c][i].comptime # "to come")
    /\ \A q \in [core : Cores, slot : Slots, address : Addrs] :
          []<>(q \notin reads \/ Draining)
    /\ \A a \in Addrs : []<>(writes[a] = 0 \/ ~Draining)

\* The loop goes on, and one in PROCESSOR_CLK_MULTIPLIER cycles is a DRAM
\* cycle.
MainLoopSpec ==
    /\ MainLoopInit
    /\ [][MainLoopNext]_loopVars
    /\ WF_loopVars(MainLoopNext)
    /\ SF_loopVars(MemoryStep(DramCycle))
    /\ MemoryServes

-----------------------------------------------------------------------------
(* Properties.                                                             *)

InWindow(c, i) == (i + ROBSIZE - head[c]) % ROBSIZE < inflight[c]

\* The slots between head and tail hold the instructions in flight, and the
\* others hold nothing that could be taken for one: no comptime or fellow is
\* left behind when a slot is reused.
RobIsRing ==
    \A c \in Cores :
        /\ inflight[c] \in 0 .. ROBSIZE
        /\ tail[c] = (head[c] + inflight[c]) % ROBSIZE
        /\ \A i \in Slots : ~InWindow(c, i) <=> rob[c][i] = Empty

\* A slot without a known completion has exactly one read in the queue, and
\* every queued read is for such a slot.  The read sets the comptime of its
\* slot by number: a second read, or a slot retired and reused meanwhile,
\* would complete the wrong instruction, and no read at all would stop the
\* core for ever.
ReadsAreAwaited ==
    /\ \A c \in Cores, i \in Slots :
          rob[c][i].comptime = "BIGNUM"
              <=> \E q \in reads : q.core = c /\ q.slot = i
    /\ \A q, p \in reads : q.core = p.core /\ q.slot = p.slot => q = p
    /\ \A q \in reads : InWindow(q.core, q.slot)

\* The test for the end looks at the reorder buffers and the write queue
\* only; no read and no second half of a translated access is left either.
NothingLeftAtEnd ==
    phase = "end" => /\ reads = {} /\ \A a \in Addrs : writes[a] = 0
                     /\ \A c \in Cores, i \in Slots : rob[c][i] = Empty
                     /\ \A c \in Cores : lines_left[c] = 0

\* An access that had to wait for its translation keeps its address and its
\* kind, and begins only when the translation read is done.
FellowFollowsTranslation ==
    [][\A c \in Cores, i \in Slots :
          LET f == rob[c][i].fellow
          IN  f # NoLine /\ rob'[c][i].fellow = NoLine =>
                  /\ rob[c][i].comptime = "past"
                  /\ \A q \in reads : q.core = c => q.slot # i
                  /\ rob'[c][i].address = f.address
                  /\ rob'[c][i].optype = f.optype]_loopVars

\* The simulation of finite traces ends: no core waits for ever behind a full
\* write queue, a read that is not served, or a translation whose access was
\* forgotten, and the write queue empties in the end.
SimulationEnds == <>(phase = "end")

\* main.c:539: "Keep fetching until fetch width or ROB capacity or WriteQ are
\* fully consumed."  No memory access is fetched when the write queue is at
\* its capacity or above.
FetchStopsAtCapacity ==
    [][\A c \in Cores : CoreStep(c) /\ inflight'[c] > inflight[c] =>
          write_queue_length < WQ_CAPACITY]_loopVars

\* memory_controller.c:337-338, of a read that finds another read of its address
\* in the queue: "The 2nd read is assumed to be serviced when the original
\* request completes."  (A step that writes a line back is one of an access
\* that missed the cache.)
MergedReadWaits ==
    [][\A c \in Cores :
          LET s == rob'[c][tail[c]]
          IN  /\ FetchMem(c) /\ s.optype = "R" /\ writes' # writes
              /\ InReadQueue(s.address) /\ ~InWriteQueue(s.address)
              => s.comptime = "BIGNUM"]_loopVars

\* memory_controller.c:373: "Function to merge writes to the same address".
\* A write that missed the cache is in the write queue, or another one for its
\* address is.
WriteOrItsTwinIsQueued ==
    [][\A c \in Cores, a \in Addrs :
          /\ Fellow(c) /\ writes' # writes
          /\ rob[c][head[c]].fellow = [optype |-> "W", address |-> a]
          => InWriteQueue(a)']_loopVars
=============================================================================
