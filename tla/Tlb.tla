--------------------------------- MODULE Tlb ---------------------------------
(***************************************************************************)
(* Address translation as the cores use it (os_v2p_lineaddr_tlb): one      *)
(* fully associative TLB for all threads, with LRU replacement, in front   *)
(* of PageTable.                                                           *)
(***************************************************************************)
EXTENDS PageTable, Sequences

CONSTANTS TLB_SIZE, DEDICATED_CH

ASSUME TlbAssumption == TLB_SIZE \in Nat \ {0} /\ DEDICATED_CH \in BOOLEAN

VARIABLES
    tlb,         \* the entries in use, in the order of their rows
    last_vpn,    \* the page number of the last lookup, of whatever thread
    reply        \* the last answer: its page, its frame, how it was found,
                 \* and whether a request went to the dedicated channel

tlbVars == <<pageVars, tlb, last_vpn, reply>>

-----------------------------------------------------------------------------
Rows == DOMAIN tlb

\* Fault: the thread is not compared.
HoldsAnyThread(row, p) == tlb[row].vpn = p[2]

\* os_tlb_search: the row that holds page p
Holds(row, p) == <<tlb[row].tid, tlb[row].vpn>> = p

\* Fault: a hit ages every other row.
TouchedAgingAll(row) ==
    [i \in Rows |->
        [tlb[i] EXCEPT !.LRU_position = IF i = row THEN 0 ELSE @ + 1]]

\* The rows used later than row grow older by one, and row becomes the newest.
Touched(row) ==
    [i \in Rows |->
        [tlb[i] EXCEPT !.LRU_position =
            IF i = row THEN 0
            ELSE IF @ < tlb[row].LRU_position THEN @ + 1 ELSE @]]

\* With the dedicated channel, a translation is sent to the CPU unless it is
\* on the page of the lookup before.
Hit(p) ==
    /\ search = NoPage
    /\ \E row \in Rows :
          /\ Holds(row, p)
          /\ tlb' = Touched(row)
          /\ reply' = [page |-> p, pfn |-> tlb[row].pfn, by |-> "tlb",
                       sent |-> DEDICATED_CH /\ last_vpn # p[2]]
    /\ last_vpn' = p[2]
    /\ UNCHANGED pageVars

Entry(p, f) == [tid |-> p[1], vpn |-> p[2], pfn |-> f, LRU_position |-> 0]

\* Fault: the first row is replaced, whatever its age.
FillFirst(p, f) ==
    LET aged == [i \in Rows |-> [tlb[i] EXCEPT !.LRU_position = @ + 1]]
    IN  IF Len(tlb) < TLB_SIZE
        THEN tlb' = Append(aged, Entry(p, f))
        ELSE tlb' = [aged EXCEPT ![1] = Entry(p, f)]

\* Every entry grows older by one; the new one takes a free row, or the row
\* that has become as old as there are rows.
Fill(p, f) ==
    LET aged == [i \in Rows |-> [tlb[i] EXCEPT !.LRU_position = @ + 1]]
    IN  IF Len(tlb) < TLB_SIZE
        THEN tlb' = Append(aged, Entry(p, f))
        ELSE \E oldest \in Rows :
                /\ aged[oldest].LRU_position = Len(tlb)
                /\ \A i \in Rows : aged[i].LRU_position = Len(tlb) => oldest <= i
                /\ tlb' = [aged EXCEPT ![oldest] = Entry(p, f)]

\* The page table's answer goes into the TLB as soon as it is there.  Where
\* the page table entry itself is found (cache or memory) is left open.
Answer(p) ==
    IF search' = NoPage
    THEN LET f == last_xlation'[p[1]].pfn
         IN  /\ Fill(p, f)
             /\ \E cached \in BOOLEAN :
                   reply' = [page |-> p, pfn |-> f,
                             by |-> IF cached THEN "cache" ELSE "memory",
                             sent |-> DEDICATED_CH]
    ELSE UNCHANGED <<tlb, reply>>

Miss(p) ==
    /\ \A row \in Rows : ~Holds(row, p)
    /\ last_vpn' = p[2]
    /\ Translate(p)
    /\ Answer(p)

Searching == ClockTurn /\ Answer(search) /\ UNCHANGED last_vpn

-----------------------------------------------------------------------------
TlbInit ==
    /\ PagingInit
    /\ tlb = <<>>
    /\ last_vpn = 0
    /\ reply = [page |-> NoPage, pfn |-> NoFrame, by |-> "none", sent |-> FALSE]

TlbNext ==
    \/ \E p \in Pages : Hit(p) \/ Miss(p)
    \/ Searching

\* A lookup that has begun goes on; the cores need not look anything up.
TlbSpec == TlbInit /\ [][TlbNext]_tlbVars /\ WF_tlbVars(Searching)

-----------------------------------------------------------------------------
(* Properties.                                                             *)

\* The positions of the n entries in use are 0 .. n-1, each once, and no page
\* has two entries.  A hit and a fill keep the positions by different rules;
\* when the TLB is full, the search for the oldest row leaves its result
\* uninitialized unless this holds.
TlbIsLruStack ==
    /\ {tlb[i].LRU_position : i \in Rows} = 0 .. Len(tlb) - 1
    /\ \A i, j \in Rows : Holds(i, <<tlb[j].tid, tlb[j].vpn>>) => i = j
    /\ Len(tlb) <= TLB_SIZE

\* A full TLB drops the entry that has not been used for the longest time: of
\* two entries the older one stays the older until it is used, and only the
\* oldest is replaced.
ReplacesLeastRecent ==
    [][\A i, j \in Rows :
          LET Used(k) == tlb'[k].LRU_position = 0
              Replaced(k) == <<tlb'[k].tid, tlb'[k].vpn>> # <<tlb[k].tid, tlb[k].vpn>>
          IN  tlb[i].LRU_position < tlb[j].LRU_position =>
                  /\ ~Replaced(i)
                  /\ Used(j) \/ tlb'[i].LRU_position < tlb'[j].LRU_position]_tlbVars

\* As long as no frame has been taken away from its page, the TLB, the last
\* translations and the answers agree with the page table.  (The code
\* invalidates neither copy when a frame is taken.  Page 0 of thread 0 gets no
\* entry while the zeroed last translation of that thread answers for it.)
Agrees(k, f) == k = 0 \/ pt[k] = f

CopiesAreCurrent ==
    ~evicted =>
        /\ \A row \in Rows :
              Agrees(Key(<<tlb[row].tid, tlb[row].vpn>>), tlb[row].pfn)
        /\ \A t \in Threads : Agrees(last_xlation[t].vpn, last_xlation[t].pfn)
        /\ reply.page # NoPage => Agrees(Key(reply.page), reply.pfn)

\* os.c:219, of the dedicated channel: "Do not send translate request if it is
\* on the same page".  A hit that sends nothing is for the page of the answer
\* before it.
NothingSentOnlyOnSamePage ==
    [][(\E p \in Pages : Hit(p)) /\ ~reply'.sent =>
           reply'.page = reply.page]_tlbVars
=============================================================================
