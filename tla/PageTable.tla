------------------------------ MODULE PageTable ------------------------------
(***************************************************************************)
(* The page table of os.c: the translation of the pages of every thread to *)
(* physical frames (os_vpn_to_pfn), with the inverted page table from      *)
(* which a frame is taken by a clock algorithm (os_get_victim_from_ipt).   *)
(*                                                                         *)
(* A page is a thread and a virtual page number, which the code packs into *)
(* one key of 32 bits.  The hash table of the entries is a function here.  *)
(* The search for a victim is one step for each turn of its loop.          *)
(***************************************************************************)
EXTENDS Integers

CONSTANTS NUM_THREADS, num_pages, OS_NUM_RND_TRIES, NoPage,
          NoEntry,     \* what the hash table has for a key it does not hold
          NoFrame,     \* what a new entry has until a frame is found for it
          VPN_BITS,    \* 28 in the code, which asserts that a page number fits
          KEY_BITS     \* 32 in the code

Threads == 0 .. NUM_THREADS - 1
Pages   == Threads \X (0 .. 2^VPN_BITS - 1)
Frames  == 0 .. num_pages - 1

\* Fault: the thread is moved up by a bit too few.
KeyTooNarrow(p) == ((p[1] * 2^(VPN_BITS - 1)) % 2^KEY_BITS) + p[2]

\* The thread goes into the bits above the page number, as far as there are
\* any.
Key(p) == ((p[1] * 2^VPN_BITS) % 2^KEY_BITS) + p[2]

Keys == {Key(p) : p \in Pages}

ASSUME PagingAssumption ==
    /\ NUM_THREADS \in Nat \ {0}
    /\ num_pages \in Nat \ {0}
    /\ OS_NUM_RND_TRIES \in Nat
    /\ NoFrame \notin Frames
    /\ NoEntry \notin Frames \cup {NoFrame}
    /\ NoPage \notin Pages
    /\ VPN_BITS \in Nat /\ KEY_BITS \in Nat /\ VPN_BITS <= KEY_BITS

VARIABLES
    pt,             \* pt[k]: the frame in the entry of key k, NoFrame, NoEntry
    ipt,            \* ipt[f]: the inverted entry of frame f; its vpn is a key
    refptr,         \* the hand of the clock
    last_xlation,   \* last_xlation[t]: the last translation of thread t
    search,         \* the page a victim is being searched for, or NoPage
    evicted         \* total_evicts > 0

pageVars == <<pt, ipt, refptr, last_xlation, search, evicted>>

-----------------------------------------------------------------------------
\* os_new: everything is zeroed, the last translations too.
PagingInit ==
    /\ pt = [k \in Keys |-> NoEntry]
    /\ ipt = [f \in Frames |-> [valid |-> FALSE, ref |-> FALSE, vpn |-> 0]]
    /\ refptr = 0
    /\ last_xlation = [t \in Threads |-> [vpn |-> 0, pfn |-> 0]]
    /\ search = NoPage
    /\ evicted = FALSE

Remember(p, f) ==
    last_xlation' = [last_xlation EXCEPT ![p[1]] = [vpn |-> Key(p), pfn |-> f]]

\* The translation the thread asked for last is not looked up again.
Repeat(p) ==
    /\ last_xlation[p[1]].vpn = Key(p)
    /\ UNCHANGED pageVars

LookUp(p) ==
    /\ last_xlation[p[1]].vpn # Key(p)
    /\ pt[Key(p)] # NoEntry
    /\ ipt' = [ipt EXCEPT ![pt[Key(p)]].ref = TRUE]
    /\ Remember(p, pt[Key(p)])
    /\ UNCHANGED <<pt, refptr, search, evicted>>

\* Fault: the old page keeps its entry.
InstallKeepingOld(p, f) ==
    /\ pt' = [pt EXCEPT ![Key(p)] = f]
    /\ ipt' = [ipt EXCEPT ![f] = [valid |-> TRUE, ref |-> TRUE, vpn |-> Key(p)]]
    /\ Remember(p, f)
    /\ search' = NoPage
    /\ evicted' = (evicted \/ ipt[f].valid)

\* Frame f becomes the frame of page p; its old page loses its entry.
Install(p, f) ==
    /\ pt' = [k \in Keys |->
                 IF k = Key(p) THEN f
                 ELSE IF ipt[f].valid /\ k = ipt[f].vpn THEN NoEntry
                 ELSE pt[k]]
    /\ ipt' = [ipt EXCEPT ![f] = [valid |-> TRUE, ref |-> TRUE, vpn |-> Key(p)]]
    /\ Remember(p, f)
    /\ search' = NoPage
    /\ evicted' = (evicted \/ ipt[f].valid)

\* One of the random tries finds a frame that is free.
TakeRandom(p) ==
    /\ OS_NUM_RND_TRIES > 0
    /\ \E f \in Frames : ~ipt[f].valid /\ Install(p, f)
    /\ UNCHANGED refptr

\* None of them does, and the clock starts.  The page has its entry already,
\* without a frame, while the clock deletes that of another page.
StartClock(p) ==
    /\ OS_NUM_RND_TRIES > 0 => \E f \in Frames : ipt[f].valid
    /\ search' = p
    /\ pt' = [pt EXCEPT ![Key(p)] = NoFrame]
    /\ UNCHANGED <<ipt, refptr, last_xlation, evicted>>

Fault(p) ==
    /\ last_xlation[p[1]].vpn # Key(p)
    /\ pt[Key(p)] = NoEntry
    /\ TakeRandom(p) \/ StartClock(p)

\* os_vpn_to_pfn
Translate(p) ==
    /\ search = NoPage
    /\ Repeat(p) \/ LookUp(p) \/ Fault(p)

\* Fault: the hand does not wrap around.
NextFrameNoWrap == refptr + 1

NextFrame == (refptr + 1) % num_pages

\* Fault: a frame in use is never taken.
TakeableFree == ~ipt[refptr].valid

Takeable == ~ipt[refptr].valid \/ ~ipt[refptr].ref

\* One turn of the loop of os_get_victim_from_ipt.
ClockTurn ==
    /\ search # NoPage
    /\ refptr' = NextFrame
    /\ \/ Takeable /\ Install(search, refptr)
       \/ /\ ~Takeable
          /\ ipt' = [ipt EXCEPT ![refptr].ref = FALSE]
          /\ UNCHANGED <<pt, last_xlation, search, evicted>>

PagingNext ==
    \/ \E p \in Pages : Translate(p)
    \/ ClockTurn

\* A call that has begun goes on; the threads need not call.
PagingSpec == PagingInit /\ [][PagingNext]_pageVars /\ WF_pageVars(ClockTurn)

-----------------------------------------------------------------------------
(* Properties.                                                             *)

PagingTypeOK ==
    /\ pt \in [Keys -> Frames \cup {NoFrame, NoEntry}]
    /\ ipt \in [Frames -> [valid : BOOLEAN, ref : BOOLEAN, vpn : Keys]]
    /\ refptr \in Frames
    /\ last_xlation \in
           [Threads -> [vpn : Keys, pfn : Frames]]
    /\ search \in Pages \cup {NoPage}
    /\ evicted \in BOOLEAN

\* The page table and the inverted page table are inverse to each other, and
\* the only entry without a frame is the one of the page a victim is being
\* searched for: the clock never deletes it, nor does a search leave one.
\* The assertion that the victim's entry is found in the page table, and the
\* one that the page table has no more entries than there are frames, rest
\* on this.
TablesAreInverse ==
    /\ \A k \in Keys, f \in Frames :
          pt[k] = f <=> ipt[f].valid /\ ipt[f].vpn = k
    /\ \A k \in Keys :
          pt[k] = NoFrame <=> search # NoPage /\ k = Key(search)

\* The clock stops: it clears the reference bits it passes, so it meets a
\* frame it can take in its second round at the latest.
SearchEnds == \A p \in Pages : search = p ~> search # p

\* The pages in memory have a frame each and never share one; taking a frame
\* from one page and giving it to another is one change.  (With more than
\* 2^(KEY_BITS - VPN_BITS) threads, 16 in the code, the keys of two threads
\* fall together, and they do share.)
Frame(k) == IF pt[k] = NoEntry THEN NoFrame ELSE pt[k]

Map == INSTANCE FrameMap WITH map <- [p \in Pages |-> Frame(Key(p))]
ImplementsFrameMap == Map!Spec
=============================================================================
