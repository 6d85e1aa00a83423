---------------------------- MODULE ChannelQueues ----------------------------
(***************************************************************************)
(* How requests find their channel's queue, and each other in it           *)
(* (insert_read, insert_write, read_matches_write_or_read_queue and        *)
(* write_exists_in_write_queue of memory_controller.c): every call maps    *)
(* the address anew.                                                       *)
(***************************************************************************)
EXTENDS AddressMapping, Sequences, SequencesExt

CONSTANT MAX_PENDING    \* bound: the requests in all queues

\* The cores' requests are for whole cache lines.  The address of a page table
\* entry, PTBR + vpn, is any address.
Line(a) == a \div CACHE_LINE_SIZE
LineAddresses == {a \in Addresses : a % CACHE_LINE_SIZE = 0}

\* The part of an address that the fields of the place hold.
InMemory(a) == a % Weight[ADDRESS_BITS]

VARIABLE pending    \* the requests in the queues, in the order of arrival

-----------------------------------------------------------------------------
InQueue(ops, channel, a) ==
    \E i \in DOMAIN pending : /\ pending[i].op \in ops
                              /\ pending[i].channel = channel
                              /\ pending[i].address = a

\* insert_read, insert_write
Insert(op, a, cpu) ==
    /\ Len(pending) < MAX_PENDING
    /\ \E channel \in Channels(a, cpu) :
          pending' = Append(pending, [op |-> op, address |-> a, cpu |-> cpu,
                                      channel |-> channel])

\* A core's read merges with a request for its line, or is inserted.
ReadAccess(a) ==
    \E channel \in Channels(a, FALSE) :
        IF InQueue({"READ", "WRITE"}, channel, a) THEN UNCHANGED pending
        ELSE Insert("READ", a, FALSE)

WriteAccess(a) ==
    \E channel \in Channels(a, FALSE) :
        IF InQueue({"WRITE"}, channel, a) THEN UNCHANGED pending
        ELSE Insert("WRITE", a, FALSE)

\* A line the cache replaces is written back, and a page table entry read,
\* without a lookup.
WriteBack(a)   == Insert("WRITE", a, FALSE)
Translation(a) == Insert("READ", a, TRUE)

\* clean_queues
Served(i) == pending' = RemoveAt(pending, i)

ChannelInit == pending = <<>>

ChannelNext ==
    \/ \E a \in LineAddresses :
          ReadAccess(a) \/ WriteAccess(a) \/ WriteBack(a)
    \/ \E a \in Addresses : Translation(a)
    \/ \E i \in DOMAIN pending : Served(i)

ChannelSpec == ChannelInit /\ [][ChannelNext]_pending

-----------------------------------------------------------------------------
(* Properties.                                                             *)

Place(q) == [DramAddress[q.address] EXCEPT !.channel = q.channel]

\* Two requests are for the same place in the DRAM exactly when they are for
\* the same line of the memory, and every part of the place exists.  A row hit
\* and a bank conflict are decided on the parts.  Lines whose addresses differ
\* above ADDRESS_BITS only are the same line of the memory.
PlacesAreLines ==
    \A i, j \in DOMAIN pending :
        LET p == pending[i]
            q == pending[j]
        IN  /\ Place(p) = Place(q)
                  <=> Line(InMemory(p.address)) = Line(InMemory(q.address))
            /\ \A f \in FieldNames : Place(p)[f] \in 0 .. Size[f] - 1

\* memory_controller.c:334-336: "the function goes over the read_queue to see
\* if there is a pending read for the same address and avoids duplication".
\* No two reads of the cores for one address are queued.
ReadsAreNotDuplicated ==
    \A i, j \in DOMAIN pending :
        /\ pending[i].op = "READ" /\ ~pending[i].cpu
        /\ pending[j].op = "READ" /\ ~pending[j].cpu
        /\ pending[i].address = pending[j].address
        => i = j

\* input/1channel.cfg:17, of ADDRESS_BITS 32: "This must match the addresses in
\* the traces."  Requests for two different lines have different places.
LinesHavePlacesOfTheirOwn ==
    \A i, j \in DOMAIN pending :
        Place(pending[i]) = Place(pending[j])
            => Line(pending[i].address) = Line(pending[j].address)

\* With dedicated channels, the reads of page table entries have those
\* channels to themselves, and every request has a channel that exists.
TranslationsHaveTheirChannels ==
    \A i \in DOMAIN pending :
        /\ pending[i].channel \in 0 .. NUM_CHANNELS - 1
        /\ pending[i].cpu <=> pending[i].channel < DEDICATED_CH_NUM
=============================================================================
