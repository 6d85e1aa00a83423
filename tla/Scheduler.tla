------------------------------ MODULE Scheduler ------------------------------
(***************************************************************************)
(* The scheduler the simulator is built with (scheduler.c), on one channel *)
(* and over MemoryController: first come, first served among the requests  *)
(* whose next command can be issued, reads before writes unless the write  *)
(* queue is being drained.                                                 *)
(*                                                                         *)
(* A DRAM cycle is update_memory, then schedule, then the cores, which may *)
(* add any number of requests to the queues (main.c).  A dedicated channel *)
(* is given the page walks only, and those whose data the processor has    *)
(* already (os.c) need no DRAM access: the scheduler answers them itself.  *)
(***************************************************************************)
EXTENDS MemoryController, Sequences, FiniteSets

CONSTANTS HI_WM, LO_WM    \* 40 and 20 in the code

ASSUME WatermarkAssumption == HI_WM \in Nat /\ LO_WM \in Nat /\ LO_WM < HI_WM

VARIABLES
    order,           \* the nodes of both queues, in their order of arrival
    drain_writes,
    scheduled,       \* schedule has been called in this cycle
    dedicated,       \* DEDICATED_CH, and this is one of the channels it names
    no_dram,         \* the nodes with CPU_request_no_dram
    call             \* what has become of the call schedule made in this cycle

schedulerVars ==
    <<vars, order, drain_writes, scheduled, dedicated, no_dram, call>>

-----------------------------------------------------------------------------
Reads  == {q \in requests : q.op = "READ"}
Writes == {q \in requests : q.op = "WRITE"}

\* Where in its queue a request stands.
Position(q) == CHOOSE i \in DOMAIN order : order[i] = q.node

\* The write queue drains from above HI_WM down to LO_WM, and whenever there
\* is nothing to read.
Draining ==
    \/ drain_writes /\ Cardinality(Writes) > LO_WM
    \/ Cardinality(Writes) > HI_WM
    \/ Reads = {}

Ready(queue) == {q \in queue : q.command_issuable}

\* Fault: the youngest request goes first.
IsLast(q, queue) == \A p \in queue : Position(p) <= Position(q)

IsFirst(q, queue) == \A p \in queue : Position(q) <= Position(p)

\* LL_APPEND to one of the queues; init_new_node keeps CPU_request_no_dram
Arrive(n, op, r, b, row) ==
    /\ scheduled
    /\ call # "ABORTED"
    /\ dedicated => op = "READ"
    /\ Insert(n, op, r, b, row)
    /\ order' = Append(order, n)
    /\ no_dram' \in IF dedicated THEN {no_dram, no_dram \cup {n}} ELSE {no_dram}
    /\ UNCHANGED <<drain_writes, scheduled, dedicated, call>>

\* What issue_request_command asserts before it issues the command of q.
AssertionHolds(q) ==
    LET s == state[q.rank][q.bank]
    IN  CASE q.next_command = "ACT" -> s \in Closed /\ activation_record[q.rank] = 0
          [] q.next_command = "PRE" -> s \in Closed \cup {"ROW_ACTIVE"}
          [] q.next_command = "PWR_UP" -> s \in PoweredDown
          [] OTHER -> s = "ROW_ACTIVE"

\* issue_request_command refuses with a message and returns 0, does nothing
\* for a NOP, ends the program by an assertion, or issues the command.
Outcome(q) ==
    IF ~q.command_issuable \/ command_issued_current_cycle THEN "REFUSED"
    ELSE IF q.next_command = "NOP" THEN "NOTHING"
    ELSE IF AssertionHolds(q) THEN "ISSUED"
    ELSE "ABORTED"

CallIssue(q) ==
    /\ call' = Outcome(q)
    /\ IF Outcome(q) = "ISSUED" THEN IssueRequestCommand(q) ELSE UNCHANGED vars

\* What schedule does with the request it has picked.
Serve(q) ==
    IF q.op = "READ" /\ q.node \in no_dram THEN Answer(q) /\ UNCHANGED call
    ELSE CallIssue(q)

Schedule ==
    /\ ~scheduled
    /\ scheduled' = TRUE
    /\ drain_writes' = Draining
    /\ LET ready == Ready(IF Draining THEN Writes ELSE Reads)
       IN  IF ready = {} THEN UNCHANGED <<vars, call>>
           ELSE \E q \in ready : IsFirst(q, ready) /\ Serve(q)
    /\ UNCHANGED <<order, dedicated, no_dram>>

Unserved == {q.node : q \in {p \in requests : ~p.request_served}}

\* The entries of s that are in ns, in the order of s.
Kept(s, ns) ==
    LET kept   == {i \in DOMAIN s : s[i] \in ns}
        Nth(k) == CHOOSE i \in kept : Cardinality(kept \cap 1 .. i) = k
    IN  [k \in 1 .. Cardinality(kept) |-> s[Nth(k)]]

\* Fault: served requests stay in their queue.
TickWithoutCleaning ==
    /\ scheduled
    /\ call # "ABORTED"
    /\ UpdateMemory
    /\ scheduled' = FALSE
    /\ call' = "NONE"
    /\ UNCHANGED <<order, drain_writes, dedicated, no_dram>>

\* update_memory of the next cycle; clean_queues takes the served requests
\* out of their queues.
Tick ==
    /\ scheduled
    /\ call # "ABORTED"
    /\ UpdateMemory
    /\ order' = Kept(order, Unserved)
    /\ no_dram' = no_dram \cap Unserved
    /\ scheduled' = FALSE
    /\ call' = "NONE"
    /\ UNCHANGED <<drain_writes, dedicated>>

-----------------------------------------------------------------------------
SchedulerInit ==
    /\ Init
    /\ order = <<>>
    /\ drain_writes = FALSE
    /\ scheduled = FALSE
    /\ dedicated \in BOOLEAN
    /\ no_dram = {}
    /\ call = "NONE"

SchedulerNext ==
    \/ Tick
    \/ Schedule
    \/ \E n \in Nodes, op \in {"READ", "WRITE"}, r \in Ranks, b \in Banks,
          row \in Rows : Arrive(n, op, r, b, row)

\* The main loop goes on for ever: it always comes to its next call of
\* schedule and of update_memory.  The cores need not send anything.
SchedulerSpec ==
    /\ SchedulerInit
    /\ [][SchedulerNext]_schedulerVars
    /\ WF_schedulerVars(Tick)
    /\ WF_schedulerVars(Schedule)

-----------------------------------------------------------------------------
(* Properties.                                                             *)

\* The order of arrival lists every queued request once and nothing else.
OrderListsQueues ==
    /\ order \in Seq(Nodes)
    /\ Len(order) = Cardinality(requests)
    /\ {order[i] : i \in DOMAIN order} = {q.node : q \in requests}
    /\ no_dram \subseteq {q.node : q \in Reads}
    /\ drain_writes \in BOOLEAN /\ scheduled \in BOOLEAN
    /\ dedicated \in BOOLEAN

\* No call of the scheduler is lost, and none ends the program: the flag of
\* the request it picks is as good as a check made at the time of the call, so
\* issue_request_command neither complains ("PANIC: SCHED_ERROR"), nor has a
\* NOP to issue, nor finds the bank in a state its assertions exclude.
CallsAreAccepted == call \in {"NONE", "ISSUED"}

Waiting(n, op) == \E q \in requests : q.node = n /\ q.op = op

\* A read is served in the end, provided the drains of the write queue end
\* for good: row conflicts, requests of other ranks that keep the data bus,
\* and refreshes only delay it.  (It is not enough that every drain ends: the
\* reads may then get no more time than it takes to close the row that the
\* writes have left open.)
ReadsAreServed ==
    <>[](~Draining) =>
        \A n \in Nodes : Waiting(n, "READ") ~> ~Waiting(n, "READ")

\* A write is served in the end, provided a drain lasts; once the cores have
\* stopped reading, one does.  The end of the simulation waits for this.
WritesAreServed ==
    <>[]Draining =>
        \A n \in Nodes : Waiting(n, "WRITE") ~> ~Waiting(n, "WRITE")

\* Requests of one queue for the same row are served in the order of their
\* arrival, whatever closes and reopens the row in between: a younger one
\* never gets the column access an older one is waiting for.
RowHitsInOrder ==
    [][\A p, q \in requests :
          /\ ~p.request_served
          /\ Position(p) < Position(q)
          /\ <<p.op, p.rank, p.bank, p.row>> = <<q.op, q.rank, q.bank, q.row>>
          /\ ~q.request_served
          => \A t \in requests' : t.node = q.node => ~t.request_served]_schedulerVars
=============================================================================
