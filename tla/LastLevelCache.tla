--------------------------- MODULE LastLevelCache ---------------------------
(***************************************************************************)
(* The last-level cache (cache.c) as its callers use it, one set of it:    *)
(* the sets share nothing.  A core's access asks first which line a miss   *)
(* would write back, then looks up and fills, then hands the line to the   *)
(* write queue (main.c); the page walk of a TLB miss only looks up and     *)
(* fills (os.c).                                                           *)
(***************************************************************************)
EXTENDS Integers, FiniteSets

CONSTANTS assoc, Tags, NoTag

ASSUME CacheAssumption == assoc \in Nat \ {0} /\ NoTag \notin Tags

Ways == 0 .. assoc - 1

VARIABLES
    line,       \* line[w]: the line of way w
    unsaved,    \* the tags whose last store is in no queue and not in memory
    used        \* used[w]: how many of the other ways were used since way w

cacheVars == <<line, unsaved, used>>

-----------------------------------------------------------------------------
\* Fault: the lookup starts at way 1.
CachedButFirst(tag) ==
    {w \in Ways \ {0} : line[w].valid /\ line[w].tag = tag}

\* LookupSet
Cached(tag) == {w \in Ways : line[w].valid /\ line[w].tag = tag}

FirstWay(ways) == CHOOSE w \in ways : \A v \in ways : w <= v

\* GetVictimInSet: an invalid way, else the one at the end of the LRU stack,
\* else way 0.
Victim ==
    LET invalid == {w \in Ways : ~line[w].valid}
        last    == {w \in Ways : line[w].LRUstackposition = assoc - 1}
    IN  IF invalid # {} THEN FirstWay(invalid)
        ELSE IF last # {} THEN FirstWay(last)
        ELSE 0

\* Fault: the line written back is not the one that will be replaced.
WritebackFirst(tag) ==
    IF Cached(tag) = {} /\ line[0].dirty THEN {line[0].tag} ELSE {}

\* CacheIsWriteback: the tags a miss on tag writes back, none or one.
Writeback(tag) ==
    IF Cached(tag) = {} /\ line[Victim].dirty THEN {line[Victim].tag} ELSE {}

\* Fault: the ways behind the used one move back as well.
MoveToFrontAll(l, way) ==
    [w \in Ways |-> [l[w] EXCEPT !.LRUstackposition =
        IF w = way THEN 0 ELSE @ + 1]]

\* UpdateLRU
MoveToFront(l, way) ==
    [w \in Ways |-> [l[w] EXCEPT !.LRUstackposition =
        IF w = way THEN 0
        ELSE IF @ < l[way].LRUstackposition THEN @ + 1 ELSE @]]

\* Way w becomes the most recent in the history.
Use(way) ==
    used' = [w \in Ways |-> IF w = way THEN 0
                            ELSE IF used[w] < used[way] THEN used[w] + 1
                            ELSE used[w]]

\* LookupAndFillCache
LookupAndFill(tag, isStore) ==
    IF Cached(tag) = {}
    THEN /\ line' = MoveToFront(
             [line EXCEPT ![Victim] = [@ EXCEPT !.valid = TRUE, !.tag = tag,
                                                !.dirty = isStore]], Victim)
         /\ Use(Victim)
    ELSE LET way == FirstWay(Cached(tag))
         IN  /\ line' = MoveToFront(
                 [line EXCEPT ![way].dirty = (@ \/ isStore)], way)
             /\ Use(way)

\* A read or a write of a core.  A write that misses goes to the write queue
\* as well as into the cache; one that has waited for its translation may be
\* dropped (main.c:457, where MainLoop shows what decides it), and is in the
\* cache alone then.
CoreAccess(tag, isStore) ==
    LET others == unsaved \ Writeback(tag)
    IN  /\ LookupAndFill(tag, isStore)
        /\ IF isStore
           THEN \/ unsaved' = others \cup {tag}
                \/ Cached(tag) = {} /\ unsaved' = others \ {tag}
           ELSE unsaved' = others

\* The read of a page table entry: what it replaces is not written back.
PageWalk(tag) ==
    /\ LookupAndFill(tag, FALSE)
    /\ UNCHANGED unsaved

-----------------------------------------------------------------------------
\* InitCache leaves LRUstackposition as malloc returned it.
CacheInit ==
    /\ line \in [Ways -> [valid : {FALSE}, dirty : {FALSE}, tag : {NoTag},
                          LRUstackposition : 0 .. assoc]]
    /\ unsaved = {}
    /\ used = [w \in Ways |-> w]

CacheNext ==
    \E tag \in Tags :
        \/ \E isStore \in BOOLEAN : CoreAccess(tag, isStore)
        \/ PageWalk(tag)

CacheSpec == CacheInit /\ [][CacheNext]_cacheVars

-----------------------------------------------------------------------------
(* Properties.                                                             *)

\* No address is in two ways, and a dirty line is a valid one: an address
\* is filled only after the lookup of every way has missed.
OneCopy ==
    /\ \A w, v \in Ways : line[w].valid /\ line[v].valid /\ line[w].tag = line[v].tag
                              => w = v
    /\ \A w \in Ways : line[w].dirty => line[w].valid
    /\ \A w \in Ways : line[w].valid <=> line[w].tag \in Tags

Dirty(tag) == \E w \in Ways : line[w].tag = tag /\ line[w].dirty

\* An access of a core loses no store: data that is nowhere else is in a
\* dirty line when the access is over, because the line the writeback was
\* asked for is the line the fill replaces, also when the stack positions
\* are those malloc left.  (A page walk may lose one.)
CoreAccessLosesNoStore ==
    [][(\E tag \in Tags, isStore \in BOOLEAN : CoreAccess(tag, isStore)) =>
          \A tag \in unsaved' :
             (tag \in unsaved => Dirty(tag)) => Dirty(tag)']_cacheVars

\* Once the positions of the ways are 0 .. assoc-1, each once, they stay so.
StackIsPermutation == {line[w].LRUstackposition : w \in Ways} = Ways
StackStaysPermutation ==
    [][StackIsPermutation => StackIsPermutation']_cacheVars

\* cache.c:116: "return lru way".  When no way is invalid, the victim is the
\* way that has not been used for the longest time.
VictimIsLru ==
    (\A w \in Ways : line[w].valid) => used[Victim] = assoc - 1
=============================================================================
