-------------------------- MODULE AddressRandomizer --------------------------
(***************************************************************************)
(* The address randomizer of main.c: a table of random numbers for every   *)
(* core, shuffled in place when the program starts (addr_rand_init), and   *)
(* the replacement of the address bits above the channel by the table's    *)
(* entry for them (addr_randomize).  The main loop fills the table and     *)
(* does not call addr_randomize at present.                                *)
(***************************************************************************)
EXTENDS AddressMapping, FiniteSets

CONSTANTS numcores, MAX_TABLE_LEN    \* 1024 in the code

\* The low bits that are kept.
LowBits ==
    log_base2[CACHE_LINE_SIZE] + Width["channel"]
        + (IF ADDRESS_MAPPING = 1 THEN Width["column"] ELSE 0)

\* The table replaces address bits; every configuration has more than 10 above
\* the channel.
ASSUME RandomizerAssumption ==
    /\ numcores \in Nat \ {0}
    /\ MAX_TABLE_LEN \in Nat \ {0}
    /\ MAX_TABLE_LEN = Weight[log_base2[MAX_TABLE_LEN]]
    /\ LowBits + log_base2[MAX_TABLE_LEN] <= PHYSICAL_BITS

Entries == 0 .. MAX_TABLE_LEN - 1

VARIABLES
    rand_table,    \* rand_table[j]: the table of core j
    jj, kk         \* the core and the entry to be swapped next

randomizerVars == <<rand_table, jj, kk>>

-----------------------------------------------------------------------------
RandomizerInit ==
    /\ rand_table = [j \in 0 .. numcores - 1 |-> [k \in Entries |-> k]]
    /\ jj = 0
    /\ kk = 0

\* Fault: the entry overwritten first is not kept.
SwappedUnkept(table, k, v) == [table EXCEPT ![k] = table[v]]

Swapped(table, k, v) == [table EXCEPT ![k] = table[v], ![v] = table[k]]

Swap ==
    /\ jj < numcores
    /\ \E rand_value \in Entries :
          rand_table' = [rand_table EXCEPT ![jj] = Swapped(@, kk, rand_value)]
    /\ kk' = (kk + 1) % MAX_TABLE_LEN
    /\ jj' = IF kk = MAX_TABLE_LEN - 1 THEN jj + 1 ELSE jj

-----------------------------------------------------------------------------
\* addr_randomize, for core numc
Randomized(a, numc) ==
    LET low   == Weight[LowBits]
        above == a \div low
        table == above % MAX_TABLE_LEN
        high  == above \div MAX_TABLE_LEN
    IN  (high * MAX_TABLE_LEN + rand_table[numc][table]) * low + (a % low)

-----------------------------------------------------------------------------
(* Properties.                                                             *)

\* When the shuffle is over, a core's addresses stay apart when they are
\* randomized, and stay physical addresses; their channel is kept, and with
\* mapping 1, where neighbouring lines share a row, the column as well.
RandomizedAddressesStayApart ==
    jj = numcores =>
        \A j \in 0 .. numcores - 1 :
            /\ {Randomized(a, j) : a \in Addresses} = Addresses
            /\ \A a \in Addresses :
                  LET p == DramAddress[a]
                      q == DramAddress[Randomized(a, j)]
                  IN  /\ p.channel = q.channel
                      /\ ADDRESS_MAPPING = 1 => p.column = q.column
=============================================================================
