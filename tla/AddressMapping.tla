---------------------------- MODULE AddressMapping ----------------------------
(***************************************************************************)
(* How a physical address is taken apart into channel, rank, bank, row and *)
(* column (calc_dram_addr of memory_controller.c).  The code shifts the    *)
(* address right field by field and masks the bits shifted out; a shift is *)
(* a division here and a mask a remainder.                                 *)
(***************************************************************************)
EXTENDS Integers

CONSTANTS
    NUM_CHANNELS, NUM_RANKS, NUM_BANKS, NUM_ROWS, NUM_COLUMNS,
    CACHE_LINE_SIZE, ADDRESS_BITS, ADDRESS_MAPPING,
    PHYSICAL_BITS,       \* of the addresses os.c makes: 33, for 2097152 frames
                         \* of 4096 bytes, whatever ADDRESS_BITS is
    DEDICATED_CH,        \* the translations have channels of their own:
    DEDICATED_CH_NUM     \* the first DEDICATED_CH_NUM ones

FieldNames == {"column", "channel", "bank", "rank", "row"}

Size == [column |-> NUM_COLUMNS, channel |-> NUM_CHANNELS, bank |-> NUM_BANKS,
         rank |-> NUM_RANKS, row |-> NUM_ROWS]

\* 1 << n
Weight[n \in Nat] == IF n = 0 THEN 1 ELSE 2 * Weight[n - 1]

\* log_base2: the number of times n can be halved.
log_base2[n \in Nat] == IF n <= 1 THEN 0 ELSE 1 + log_base2[n \div 2]

Width == [f \in FieldNames |-> log_base2[Size[f]]]

\* The fields from the low end of the address.
Order ==
    IF ADDRESS_MAPPING = 1
    THEN <<"column", "channel", "bank", "rank", "row">>
    ELSE <<"channel", "bank", "rank", "column", "row">>

\* Nothing compares them with ADDRESS_BITS, the bits of the memory.
Addresses == 0 .. Weight[PHYSICAL_BITS] - 1

\* Fault: the part that is masked is not shifted out.
DramAddressUnshifted ==
    [a \in Addresses |->
        [f \in FieldNames |-> (a \div CACHE_LINE_SIZE) % Weight[Width[f]]]]

\* What is left of address a when the offset in the line and i fields have
\* been shifted out; what is left behind the last field is dropped.
Rest(a) ==
    LET rest[i \in 0 .. 5] ==
            IF i = 0 THEN a \div Weight[log_base2[CACHE_LINE_SIZE]]
            ELSE rest[i - 1] \div Weight[Width[Order[i]]]
    IN  rest

DramAddress ==
    [a \in Addresses |->
        [f \in FieldNames |->
            LET i == CHOOSE j \in 1 .. 5 : Order[j] = f
            IN  Rest(a)[i - 1] % Weight[Width[f]]]]

\* The channels a call may answer.  With dedicated channels, a translation
\* gets one of them at random, and another address that would fall on one
\* gets any of the others, by a new draw at each call.
Channels(a, CPU_request) ==
    LET channel == DramAddress[a].channel
    IN  IF ~DEDICATED_CH THEN {channel}
        ELSE IF CPU_request THEN 0 .. DEDICATED_CH_NUM - 1
        ELSE IF channel < DEDICATED_CH_NUM
        THEN DEDICATED_CH_NUM .. NUM_CHANNELS - 1
        ELSE {channel}

ASSUME SizeAssumption ==
    /\ {NUM_CHANNELS, NUM_RANKS, NUM_BANKS, NUM_ROWS, NUM_COLUMNS}
           \subseteq Nat \ {0}
    /\ CACHE_LINE_SIZE \in Nat
    /\ CACHE_LINE_SIZE = Weight[log_base2[CACHE_LINE_SIZE]]    \* 64 everywhere

\* main asserts the first conjunct, and refuses 0 dedicated channels; the
\* remainder by NUM_CHANNELS - DEDICATED_CH_NUM needs the last one.
ASSUME MappingAssumption ==
    /\ log_base2[CACHE_LINE_SIZE] + Width["column"] + Width["channel"]
           + Width["bank"] + Width["rank"] + Width["row"] = ADDRESS_BITS
    /\ PHYSICAL_BITS \in Nat
    /\ DEDICATED_CH => DEDICATED_CH_NUM \in 1 .. NUM_CHANNELS - 1
=============================================================================
