------------------------------ MODULE HashTable ------------------------------
(***************************************************************************)
(* The chained hash table of hash_lib.c on the blocks of malloc_lib.c: the *)
(* entries of a bucket are linked by next, and deleted entries go back to  *)
(* a free list, last in first out, from which new ones are taken.          *)
(*                                                                         *)
(* An entry's data block is allocated and freed together with it and is    *)
(* not told apart from it.  The wrappers that link the free blocks in      *)
(* malloc_lib.c make up a sequence here.                                   *)
(***************************************************************************)
EXTENDS Integers, Sequences, SequencesExt, FiniteSets

CONSTANTS buckets, Keys, NULL,
          MAX_BLOCKS    \* bound: the blocks the heap can hand out

ASSUME HashAssumption ==
    /\ buckets \in Nat \ {0}
    /\ MAX_BLOCKS \in Nat
    /\ Keys \subseteq Nat
    /\ NULL \notin 1 .. MAX_BLOCKS

Blocks == 1 .. MAX_BLOCKS

VARIABLES
    entries,             \* entries[i]: the first block of bucket i, or NULL
    block,               \* block[b]: the key and the next block of block b
    count,
    smalloc_free_list,   \* the freed blocks, the last one first
    raw                  \* the blocks taken from the heap so far

hashVars == <<entries, block, count, smalloc_free_list, raw>>

-----------------------------------------------------------------------------
HASH_INDEX(key) == key % buckets

\* The blocks in the order of their links, from block first of bl on.  More
\* links than blocks can only be followed on a cycle.  from[<<b, n>>] follows n
\* links from b.
Links(bl, first) ==
    LET from[at \in (Blocks \cup {NULL}) \X (0 .. MAX_BLOCKS + 1)] ==
            IF at[1] = NULL \/ at[2] = 0 THEN <<>>
            ELSE <<at[1]>> \o from[<<bl[at[1]].next, at[2] - 1>>]
    IN  from[<<first, MAX_BLOCKS + 1>>]

Chain(i) == Links(block, entries[i])

ChainOf(key) == Chain(HASH_INDEX(key))

\* Fault: only the head of the chain is compared.
FoundAtHead(key) == ChainOf(key) # <<>> /\ block[Head(ChainOf(key))].key = key

Found(key) == \E n \in DOMAIN ChainOf(key) : block[ChainOf(key)[n]].key = key

Place(key) == CHOOSE n \in DOMAIN ChainOf(key) : block[ChainOf(key)[n]].key = key

\* Fault: the block handed out stays on the free list.
AllocatedKept(b) ==
    /\ UNCHANGED smalloc_free_list
    /\ IF smalloc_free_list # <<>>
       THEN b = Head(smalloc_free_list) /\ UNCHANGED raw
       ELSE raw < MAX_BLOCKS /\ b = raw + 1 /\ raw' = raw + 1

\* smalloc: a freed block if there is one, else a new one.
Allocated(b) ==
    IF smalloc_free_list # <<>>
    THEN /\ b = Head(smalloc_free_list)
         /\ smalloc_free_list' = Tail(smalloc_free_list)
         /\ UNCHANGED raw
    ELSE /\ raw < MAX_BLOCKS
         /\ b = raw + 1
         /\ raw' = raw + 1
         /\ UNCHANGED smalloc_free_list

\* sfree
Freed(bs) == smalloc_free_list' = Reverse(bs) \o smalloc_free_list

-----------------------------------------------------------------------------
HashInit ==
    /\ entries = [i \in 0 .. buckets - 1 |-> NULL]
    /\ block = [b \in Blocks |-> [key |-> 0, next |-> NULL]]
    /\ count = 0
    /\ smalloc_free_list = <<>>
    /\ raw = 0

\* hash_table_access_create: the new entry goes to the end of its chain.
AccessCreate(key) ==
    IF Found(key) THEN UNCHANGED hashVars
    ELSE /\ count' = count + 1
         /\ \E b \in Blocks :
               /\ Allocated(b)
               /\ LET chain == ChainOf(key)
                      new   == [block EXCEPT ![b] = [key |-> key, next |-> NULL]]
                  IN  IF chain = <<>>
                      THEN /\ entries' = [entries EXCEPT ![HASH_INDEX(key)] = b]
                           /\ block' = new
                      ELSE /\ block' = [new EXCEPT ![Last(chain)].next = b]
                           /\ UNCHANGED entries

\* hash_table_access_delete
AccessDelete(key) ==
    /\ Found(key)
    /\ LET n == Place(key)
           b == ChainOf(key)[n]
       IN  /\ IF n = 1
              THEN /\ entries' = [entries EXCEPT
                          ![HASH_INDEX(key)] = block[b].next]
                   /\ UNCHANGED block
              ELSE /\ block' = [block EXCEPT
                          ![ChainOf(key)[n - 1]].next = block[b].next]
                   /\ UNCHANGED entries
           /\ Freed(<<b>>)
    /\ count' = count - 1
    /\ UNCHANGED raw

\* hash_table_clear
Clear ==
    /\ entries' = [i \in 0 .. buckets - 1 |-> NULL]
    /\ Freed(FlattenSeq([i \in 1 .. buckets |-> Chain(i - 1)]))
    /\ count' = 0
    /\ UNCHANGED <<block, raw>>

HashNext ==
    \/ \E key \in Keys : AccessCreate(key) \/ AccessDelete(key)
    \/ Clear

HashSpec == HashInit /\ [][HashNext]_hashVars

-----------------------------------------------------------------------------
(* Properties.                                                             *)

InChains == UNION {ToSet(Chain(i)) : i \in 0 .. buckets - 1}

\* Every block that was ever taken from the heap is in exactly one place: on
\* one chain, once, or on the free list, once.  An entry is never used after
\* it was freed, freed twice, shared by two chains, or lost.
BlocksAreOwnedOnce ==
    /\ InChains \cup ToSet(smalloc_free_list) = 1 .. raw
    /\ InChains \cap ToSet(smalloc_free_list) = {}
    /\ IsInjective(smalloc_free_list)
    /\ \A i \in 0 .. buckets - 1 : IsInjective(Chain(i))
    /\ \A i, j \in 0 .. buckets - 1 :
          i # j => ToSet(Chain(i)) \cap ToSet(Chain(j)) = {}

\* Keys are looked for in their own bucket only and have one entry, and count
\* is the number of the entries, as hash_table_clear asserts.
ChainsHoldTheirKeys ==
    /\ \A i \in 0 .. buckets - 1 : \A b \in ToSet(Chain(i)) :
          HASH_INDEX(block[b].key) = i
    /\ \A a, b \in InChains : block[a].key = block[b].key => a = b
    /\ count = Cardinality(InChains)

\* hash_table_access: the block a key is found at.
Contents == [key \in {block[b].key : b \in InChains} |->
                CHOOSE b \in InChains : block[b].key = key]

\* The table is a dictionary: whatever chain the keys share and whatever was
\* freed and taken again before, creating or deleting one key leaves all
\* others and their data where they are, a new key gets data of its own, and
\* a key that was deleted is gone.
Table == INSTANCE Dictionary WITH Places <- Blocks, data <- Contents

ImplementsDictionary == Table!Spec
=============================================================================
