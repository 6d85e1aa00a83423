--------------------------- MODULE SchedulerProofs ---------------------------
(***************************************************************************)
(* Both schedulers are schedulers in the sense of MemoryController, so     *)
(* what is proved of the controller holds of the controller they drive.    *)
(***************************************************************************)
EXTENDS ClosedPageScheduler, MemoryControllerProofs, FiniteSetTheorems

LEMMA ArriveStep ==
    ASSUME NEW n \in Nodes, NEW op \in {"READ", "WRITE"}, NEW r \in Ranks,
           NEW b \in Banks, NEW row \in Rows, Arrive(n, op, r, b, row)
    PROVE  Next
    BY DEF Arrive, Next

LEMMA TickStep == Tick => Next
    BY DEF Tick, Next

LEMMA CallStep ==
    ASSUME NEW q \in requests, CallIssue(q)
    PROVE  [Next]_vars
    BY DEF CallIssue, Next

LEMMA ServeStep ==
    ASSUME NEW q \in requests, Serve(q)
    PROVE  [Next]_vars
    BY CallStep DEF Serve, Next

LEMMA ScheduleStep == Schedule => [Next]_vars
  <1> SUFFICES ASSUME Schedule
               PROVE  [Next]_vars
    OBVIOUS
  <1> DEFINE queue == IF Draining THEN Writes ELSE Reads
  <1>1. queue \in SUBSET requests
    BY DEF Writes, Reads
  <1>2. CASE Ready(queue) = {}
    BY <1>2 DEF Schedule
  <1>3. CASE Ready(queue) # {}
    BY <1>1, <1>3, ServeStep DEF Schedule, Ready
  <1> QED
    BY <1>2, <1>3

LEMMA ClosePageStep == ClosePage => [Next]_vars
  <1> SUFFICES ASSUME ClosePage, Closable # {}
               PROVE  [Next]_vars
    BY DEF ClosePage
  <1>1. PICK c \in Closable : CallPrecharge(c)
    BY DEF ClosePage
  <1>2. c[1] \in Ranks /\ c[2] \in Banks
    BY DEF Closable
  <1> QED
    BY <1>1, <1>2 DEF CallPrecharge, Next, BankCommand

\* Every behaviour of the built scheduler is one of the controller.
LEMMA SchedulerDrivesController == SchedulerSpec => Spec
  <1>1. SchedulerInit => Init
    BY DEF SchedulerInit
  <1>2. [SchedulerNext]_schedulerVars => [Next]_vars
    <2>1. CASE SchedulerNext
      BY <2>1, TickStep, ScheduleStep, ArriveStep DEF SchedulerNext
    <2>2. CASE UNCHANGED schedulerVars
      BY <2>2 DEF schedulerVars
    <2> QED
      BY <2>1, <2>2
  <1> QED
    BY <1>1, <1>2, PTL DEF SchedulerSpec, Spec

LEMMA ClosedPageStep == [ClosedPageNext]_closedPageVars => [Next]_vars
  <1>1. CASE ScheduleClosedPage
    <2> DEFINE queue == IF Draining THEN Writes ELSE Reads
    <2>1. queue \in SUBSET requests
      BY DEF Writes, Reads
    <2>2. CASE Ready(queue) = {}
      BY <1>1, <2>2, ClosePageStep DEF ScheduleClosedPage
    <2>3. CASE Ready(queue) # {}
      BY <1>1, <2>1, <2>3, CallStep DEF ScheduleClosedPage, Ready
    <2> QED
      BY <2>2, <2>3
  <1>2. CASE ClosedPageNext /\ ~ScheduleClosedPage
    BY <1>2, TickStep, ArriveStep DEF ClosedPageNext, TickClosedPage
  <1>3. CASE UNCHANGED closedPageVars
    BY <1>3 DEF closedPageVars, schedulerVars
  <1> QED
    BY <1>1, <1>2, <1>3

\* So is every behaviour of the closed-page scheduler.
LEMMA ClosedPageDrivesController == ClosedPageSpec => Spec
  <1>1. ClosedPageInit => Init
    BY DEF ClosedPageInit, SchedulerInit
  <1> QED
    BY <1>1, ClosedPageStep, PTL DEF ClosedPageSpec, Spec

\* What holds of the controller under every scheduler holds under this one.
COROLLARY SchedulerMeetsRefreshQuota == SchedulerSpec => RefreshQuotaMet
  BY SchedulerDrivesController, RefreshQuota

-----------------------------------------------------------------------------
(* The order of arrival.                                                   *)

\* What clean_queues leaves of a queue.  The place an entry gets is the number
\* of kept entries up to it; these places are 1 .. n, each taken once.
LEMMA KeptEntries ==
    ASSUME NEW S, NEW s \in Seq(S), IsInjective(s), NEW ns
    PROVE  /\ Kept(s, ns) \in Seq(S)
           /\ IsInjective(Kept(s, ns))
           /\ Range(Kept(s, ns)) = Range(s) \cap ns
  <1> DEFINE K == {i \in DOMAIN s : s[i] \in ns}
             n == Cardinality(K)
             place == [i \in K |-> Cardinality(K \cap 1 .. i)]
             Nth(k) == CHOOSE i \in K : Cardinality(K \cap 1 .. i) = k
  <1>1. K \in SUBSET (1 .. Len(s)) /\ Len(s) \in Nat
    OBVIOUS
  <1>2. IsFiniteSet(K) /\ n \in Nat
    <2>1. IsFiniteSet(1 .. Len(s))
      BY <1>1, FS_Interval
    <2>2. IsFiniteSet(K)
      BY <1>1, <2>1, FS_Subset
    <2> HIDE DEF K
    <2> QED
      BY <2>2, FS_CardinalityType
  <1> HIDE DEF n
  <1>3. ASSUME NEW i \in K
        PROVE  /\ place[i] \in 1 .. n
               /\ IsFiniteSet(K \cap 1 .. i)
    <2>1. K \cap 1 .. i \in SUBSET K
      OBVIOUS
    <2>2. IsFiniteSet(K \cap 1 .. i) /\ Cardinality(K \cap 1 .. i) <= n
      BY <1>2, <2>1, FS_Subset DEF n
    <2>3. i \in K \cap 1 .. i
      BY <1>1
    <2>4. Cardinality(K \cap 1 .. i) \in Nat /\ Cardinality(K \cap 1 .. i) # 0
      BY <2>2, <2>3, FS_CardinalityType, FS_EmptySet
    <2> QED
      BY <1>2, <2>2, <2>4
  <1>4. ASSUME NEW i \in K, NEW j \in K, i < j
        PROVE  place[i] # place[j]
    <2>1. K \cap 1 .. i \in SUBSET (K \cap 1 .. j)
      BY <1>1, <1>4
    <2>2. j \in K \cap 1 .. j /\ j \notin K \cap 1 .. i
      BY <1>1, <1>4
    <2> QED
      BY <1>3, <2>1, <2>2, FS_Subset
  <1>5. place \in Injection(K, 1 .. n)
    <2>1. \A i, j \in K : place[i] = place[j] => i = j
      <3> HIDE DEF place
      <3> QED
        BY <1>1, <1>4
    <2> QED
      BY <1>3, <2>1 DEF Injection, IsInjective
  <1>6. place \in Surjection(K, 1 .. n)
    <2>1. IsFiniteSet(1 .. n) /\ Cardinality(1 .. n) = n
      BY <1>2, FS_Interval
    <2> QED
      BY <1>5, <2>1, FS_Injection DEF n
  <1>7. ASSUME NEW k \in 1 .. n
        PROVE  Nth(k) \in K /\ place[Nth(k)] = k
    <2>1. PICK i \in K : place[i] = k
      BY <1>6 DEF Surjection
    <2> QED
      BY <2>1
  <1>8. Kept(s, ns) = [k \in 1 .. n |-> s[Nth(k)]]
    BY DEF Kept, n
  <1> HIDE DEF place, Nth
  <1>9. \A k \in 1 .. n : s[Nth(k)] \in S /\ s[Nth(k)] \in ns
    BY <1>7
  <1>10. Kept(s, ns) \in Seq(S)
    BY <1>2, <1>8, <1>9
  <1>11. IsInjective(Kept(s, ns))
    BY <1>7, <1>8 DEF IsInjective
  <1>12. ASSUME NEW i \in K
         PROVE  \E k \in 1 .. n : i = Nth(k)
    BY <1>3, <1>5, <1>7 DEF Injection, IsInjective
  <1> QED
    BY <1>7, <1>8, <1>9, <1>10, <1>11, <1>12 DEF Range

\* Requests and the order list each other, each node once.
Listed ==
    /\ order \in Seq(Nodes) /\ IsInjective(order)
    /\ Range(order) = {q.node : q \in requests}
    /\ \A p, q \in requests : p.node = q.node => p = q
    /\ no_dram \subseteq {q.node : q \in Reads}
    /\ drain_writes \in BOOLEAN /\ scheduled \in BOOLEAN
    /\ dedicated \in BOOLEAN

\* The requests update_memory has seen are the older ones: a new one has NOP.
UpdatedFirst ==
    \A p, q \in requests :
        Position(p) < Position(q) /\ q.next_command # "NOP"
            => p.next_command # "NOP"

\* With FlagsAreCurrent: the flag of a request update_memory has seen says
\* whether its command can be issued.
FlagsAreComplete ==
    \A q \in requests :
        /\ q.command_issuable => q.next_command # "NOP"
        /\ ~command_issued_current_cycle /\ q.next_command # "NOP"
           /\ CommandIssuable(q) => q.command_issuable

QueuesInv ==
    /\ Listed
    /\ UpdatedFirst
    /\ FlagsAreComplete
    /\ ~scheduled => ~command_issued_current_cycle

\* The call for a request that is ready is accepted: no command has been issued
\* in the cycle, the command is not a NOP, and because the flag is current the
\* bank is in the state it was computed from.
LEMMA CallAccepted ==
    ASSUME StructureInv, QueuesInv, ~scheduled,
           NEW q \in requests, q.command_issuable
    PROVE  Outcome(q) = "ISSUED"
  <1>1. ~command_issued_current_cycle /\ q.next_command # "NOP"
    BY DEF QueuesInv, FlagsAreComplete
  <1>2. q.rank \in Ranks /\ q.next_command \in Commands
    BY DEF StructureInv, TypeOK, Request
  <1>3. activation_record[q.rank] = 0
    BY <1>1, <1>2 DEF StructureInv, BankInv, ActivationRecordIsFree
  <1>4. AssertionHolds(q)
    BY <1>1, <1>2, <1>3, IssuableRequest DEF AssertionHolds, Commands
  <1> QED
    BY <1>1, <1>4 DEF Outcome

\* So whoever schedules serves a request that is ready.
LEMMA ReadyIsServed ==
    ASSUME StructureInv, QueuesInv, ~scheduled,
           NEW q \in Ready(IF Draining THEN Writes ELSE Reads),
           Serve(q) \/ CallIssue(q)
    PROVE  /\ q \in requests
           /\ \/ Answer(q) /\ UNCHANGED call
              \/ IssueRequestCommand(q) /\ call' = "ISSUED"
           /\ CallIssue(q) => IssueRequestCommand(q) /\ call' = "ISSUED"
  <1>1. q \in requests /\ q.command_issuable
    BY DEF Ready, Reads, Writes
  <1>2. Outcome(q) = "ISSUED"
    BY <1>1, CallAccepted
  <1> QED
    BY <1>1, <1>2 DEF Serve, CallIssue

LEMMA ListedQueues == Listed => OrderListsQueues
  <1> SUFFICES ASSUME Listed PROVE Len(order) = Cardinality(requests)
    BY DEF Listed, OrderListsQueues, Range
  <1> DEFINE request == [i \in 1 .. Len(order) |->
                            CHOOSE q \in requests : q.node = order[i]]
  <1>1. ASSUME NEW i \in 1 .. Len(order)
        PROVE  request[i] \in requests /\ request[i].node = order[i]
    BY DEF Listed, Range
  <1>2. ASSUME NEW q \in requests
        PROVE  \E i \in 1 .. Len(order) : request[i] = q
    <2>1. q.node \in Range(order) /\ DOMAIN order = 1 .. Len(order)
      BY DEF Listed
    <2>2. PICK i \in 1 .. Len(order) : order[i] = q.node
      BY <2>1 DEF Range
    <2> QED
      BY <1>1, <2>2 DEF Listed
  <1>3. \A i, j \in 1 .. Len(order) : request[i] = request[j] => i = j
    <2> HIDE DEF request
    <2> QED
      BY <1>1 DEF Listed, IsInjective
  <1>4. request \in Bijection(1 .. Len(order), requests)
    <2>1. request \in [1 .. Len(order) -> requests]
      BY <1>1
    <2> QED
      BY <1>2, <1>3, <2>1 DEF Bijection, Injection, Surjection, IsInjective
  <1>5. Len(order) \in Nat
    BY DEF Listed
  <1>6. ExistsBijection(1 .. Len(order), requests)
    BY <1>4 DEF ExistsBijection
  <1> QED
    BY <1>5, <1>6, FS_CountingElements

\* Every request has a place of its own.
LEMMA Positions ==
    ASSUME Listed, NEW q \in requests
    PROVE  Position(q) \in 1 .. Len(order) /\ order[Position(q)] = q.node
  <1>1. \E i \in DOMAIN order : order[i] = q.node
    BY DEF Listed, Range
  <1> QED
    BY <1>1 DEF Position, Listed

\* What becomes of a request when it is issued or answered.
LEMMA ServedRequest ==
    ASSUME StructureInv, NEW q \in requests,
           Answer(q) \/ IssueRequestCommand(q)
    PROVE  \E t \in Request :
              /\ requests' = (requests \ {q}) \cup {t}
              /\ t.node = q.node /\ t.op = q.op /\ t.rank = q.rank
              /\ t.bank = q.bank /\ t.row = q.row
              /\ t.next_command = q.next_command
              /\ t.command_issuable = q.command_issuable
  <1>1. q \in Request
    BY DEF StructureInv, TypeOK
  <1>2. ASSUME NEW v \in BOOLEAN,
               requests' = (requests \ {q}) \cup
                               {[q EXCEPT !.request_served = v]}
        PROVE  \E t \in Request :
                  /\ requests' = (requests \ {q}) \cup {t}
                  /\ t.node = q.node /\ t.op = q.op /\ t.rank = q.rank
                  /\ t.bank = q.bank /\ t.row = q.row
                  /\ t.next_command = q.next_command
                  /\ t.command_issuable = q.command_issuable
    <2> DEFINE t == [q EXCEPT !.request_served = v]
    <2>1. t \in Request
      BY <1>1, ServedType
    <2>2. /\ t.node = q.node /\ t.op = q.op /\ t.rank = q.rank
          /\ t.bank = q.bank /\ t.row = q.row
          /\ t.next_command = q.next_command
          /\ t.command_issuable = q.command_issuable
      BY <1>1 DEF Request
    <2>3. requests' = (requests \ {q}) \cup {t}
      BY <1>2
    <2> HIDE DEF t
    <2> QED
      BY <2>1, <2>2, <2>3
  <1>3. CASE Answer(q)
    BY <1>2, <1>3 DEF Answer
  <1>4. CASE IssueRequestCommand(q)
    <2> DEFINE v == \/ q.request_served
                    \/ q.next_command \in {"COL_READ", "COL_WRITE"}
    <2>1. v \in BOOLEAN
      OBVIOUS
    <2>2. requests' = (requests \ {q}) \cup {[q EXCEPT !.request_served = v]}
      BY <1>4 DEF IssueRequestCommand
    <2> HIDE DEF v
    <2> QED
      BY <1>2, <2>1, <2>2
  <1> QED
    BY <1>3, <1>4

LEMMA InitQueues == SchedulerInit => QueuesInv
  <1> SUFFICES ASSUME SchedulerInit PROVE QueuesInv
    OBVIOUS
  <1>1. /\ requests = {} /\ order = <<>> /\ no_dram = {}
        /\ ~command_issued_current_cycle
        /\ drain_writes \in BOOLEAN /\ scheduled \in BOOLEAN
        /\ dedicated \in BOOLEAN
    BY DEF SchedulerInit, Init
  <1>2. Listed
    BY <1>1 DEF Listed, IsInjective, Range
  <1> QED
    BY <1>1, <1>2 DEF QueuesInv, UpdatedFirst, FlagsAreComplete

\* A step after which the queues hold the requests they held before, and the
\* channel's command is spent or nothing has happened to the banks.
LEMMA KeepsQueues ==
    ASSUME QueuesInv, UNCHANGED <<requests, order, dedicated, no_dram>>,
           drain_writes' \in BOOLEAN, scheduled' \in BOOLEAN,
           \/ command_issued_current_cycle' /\ scheduled'
           \/ UNCHANGED vars /\ (scheduled' \/ UNCHANGED scheduled)
    PROVE  QueuesInv'
  <1>1. Listed'
    BY DEF QueuesInv, Listed, Reads
  <1>2. UpdatedFirst'
    BY DEF QueuesInv, UpdatedFirst, Position
  <1>3. FlagsAreComplete'
    <2>1. CASE command_issued_current_cycle'
      BY <2>1 DEF QueuesInv, FlagsAreComplete
    <2>2. CASE UNCHANGED vars
      <3>1. \A q : CommandIssuable(q)' = CommandIssuable(q)
        BY <2>2 DEF CommandIssuable, NextCommand, Reached, FitsBeforeRefresh,
                    vars, bankVars, refreshVars
      <3> QED
        BY <2>2, <3>1 DEF QueuesInv, FlagsAreComplete, vars, cycleVars
    <2> QED
      BY <2>1, <2>2
  <1>4. ~scheduled' => ~command_issued_current_cycle'
    BY DEF QueuesInv, vars, cycleVars
  <1> QED
    BY <1>1, <1>2, <1>3, <1>4 DEF QueuesInv

LEMMA ServeKeepsQueues ==
    ASSUME StructureInv, QueuesInv, NEW q \in requests,
           Answer(q) \/ IssueRequestCommand(q), scheduled' = TRUE,
           drain_writes' \in BOOLEAN, UNCHANGED <<order, dedicated, no_dram>>
    PROVE  QueuesInv'
  <1>1. PICK t \in Request :
            /\ requests' = (requests \ {q}) \cup {t}
            /\ t.node = q.node /\ t.op = q.op /\ t.rank = q.rank
            /\ t.bank = q.bank /\ t.row = q.row
            /\ t.next_command = q.next_command
            /\ t.command_issuable = q.command_issuable
    BY ServedRequest
  <1>2. {p.node : p \in requests'} = {p.node : p \in requests}
    BY <1>1
  <1>3. {p.node : p \in Reads'} = {p.node : p \in Reads}
    BY <1>1 DEF Reads
  <1>4. \A p, u \in requests' : p.node = u.node => p = u
    BY <1>1 DEF QueuesInv, Listed
  <1>5. Listed'
    BY <1>2, <1>3, <1>4 DEF QueuesInv, Listed
  <1>6. ASSUME NEW p \in requests'
        PROVE  \E u \in requests : /\ p.node = u.node
                                   /\ p.next_command = u.next_command
                                   /\ p.command_issuable = u.command_issuable
    BY <1>1
  <1>7. UpdatedFirst'
    <2> SUFFICES ASSUME NEW p \in requests', NEW s \in requests',
                        Position(p)' < Position(s)', s.next_command # "NOP"
                 PROVE  p.next_command # "NOP"
      BY DEF UpdatedFirst
    <2>1. PICK u \in requests : /\ p.node = u.node
                                /\ p.next_command = u.next_command
      BY <1>6
    <2>2. PICK w \in requests : /\ s.node = w.node
                                /\ s.next_command = w.next_command
      BY <1>6
    <2>3. Position(p)' = Position(u) /\ Position(s)' = Position(w)
      BY <2>1, <2>2 DEF Position
    <2> QED
      BY <2>1, <2>2, <2>3 DEF QueuesInv, UpdatedFirst
  <1>8. FlagsAreComplete'
    <2> SUFFICES ASSUME NEW p \in requests'
                 PROVE  /\ p.command_issuable => p.next_command # "NOP"
                        /\ ~command_issued_current_cycle' /\ CommandIssuable(p)'
                           /\ p.next_command # "NOP" => p.command_issuable
      BY DEF FlagsAreComplete
    <2>1. p.command_issuable => p.next_command # "NOP"
      BY <1>6 DEF QueuesInv, FlagsAreComplete
    <2>2. CASE Answer(q)
      <3>1. UNCHANGED <<CYCLE_VAL, bankVars, cycleVars, refreshVars>>
        BY <2>2 DEF Answer
      <3>2. PICK u \in requests :
                /\ p.op = u.op /\ p.rank = u.rank /\ p.bank = u.bank
                /\ p.row = u.row /\ p.next_command = u.next_command
                /\ p.command_issuable = u.command_issuable
        BY <1>1
      <3>3. CommandIssuable(p)' => CommandIssuable(u)
        BY <3>1, <3>2
        DEF CommandIssuable, NextCommand, Reached, FitsBeforeRefresh,
            bankVars, refreshVars
      <3> QED
        BY <2>1, <3>1, <3>2, <3>3 DEF QueuesInv, FlagsAreComplete, cycleVars
    <2>3. CASE IssueRequestCommand(q)
      <3>1. command_issued_current_cycle'
        BY <2>3 DEF IssueRequestCommand, OpenRow, ColumnRead, ColumnWrite,
                    ColumnAccess, CloseRows, WakeRank
      <3> QED
        BY <2>1, <3>1, SMTT(30)
    <2> QED
      BY <2>2, <2>3
  <1> QED
    BY <1>5, <1>7, <1>8 DEF QueuesInv

LEMMA ArriveKeepsQueues ==
    ASSUME StructureInv, QueuesInv, NEW n \in Nodes, NEW op \in {"READ", "WRITE"},
           NEW r \in Ranks, NEW b \in Banks, NEW row \in Rows,
           Arrive(n, op, r, b, row)
    PROVE  QueuesInv'
  <1> DEFINE new == [node |-> n, op |-> op, rank |-> r, bank |-> b, row |-> row,
                     next_command |-> "NOP", command_issuable |-> FALSE,
                     request_served |-> FALSE]
  <1>1. /\ \A q \in requests : q.node # n
        /\ requests' = requests \cup {new}
        /\ UNCHANGED <<CYCLE_VAL, bankVars, cycleVars, refreshVars>>
        /\ scheduled /\ UNCHANGED <<drain_writes, scheduled, dedicated>>
        /\ order' = Append(order, n)
        /\ dedicated => op = "READ"
        /\ no_dram' \in IF dedicated THEN {no_dram, no_dram \cup {n}}
                        ELSE {no_dram}
    BY DEF Arrive, Insert
  <1>2. /\ new.node = n /\ new.op = op /\ new.next_command = "NOP"
        /\ ~new.command_issuable
    OBVIOUS
  <1> HIDE DEF new
  <1>3. order \in Seq(Nodes) /\ Len(order) \in Nat
    BY DEF QueuesInv, Listed
  <1>4. /\ order' \in Seq(Nodes) /\ Len(order') = Len(order) + 1
        /\ DOMAIN order' = 1 .. Len(order) + 1
        /\ DOMAIN order = 1 .. Len(order)
        /\ \A i \in 1 .. Len(order) : order'[i] = order[i]
        /\ order'[Len(order) + 1] = n
    BY <1>1, <1>3
  <1>5. n \notin Range(order)
    BY <1>1 DEF QueuesInv, Listed
  <1>6. Listed'
    <2>1. IsInjective(order')
      BY <1>3, <1>4, <1>5 DEF IsInjective, Range, QueuesInv, Listed
    <2>2. Range(order') = Range(order) \cup {n}
      BY <1>3, <1>4 DEF Range
    <2>3. Range(order') = {q.node : q \in requests'}
      BY <1>1, <1>2, <2>2 DEF QueuesInv, Listed
    <2>4. \A p, q \in requests' : p.node = q.node => p = q
      BY <1>1, <1>2 DEF QueuesInv, Listed
    <2>5. no_dram' \subseteq {q.node : q \in Reads'}
      BY <1>1, <1>2 DEF QueuesInv, Listed, Reads
    <2> QED
      BY <1>1, <1>4, <2>1, <2>3, <2>4, <2>5 DEF QueuesInv, Listed
  <1>7. ASSUME NEW q \in requests
        PROVE  Position(q)' = Position(q) /\ Position(q) \in 1 .. Len(order)
    <2>1. Position(q) \in 1 .. Len(order) /\ order[Position(q)] = q.node
      BY Positions DEF QueuesInv
    <2>2. /\ Position(q)' \in 1 .. Len(order')
          /\ order'[Position(q)'] = q.node
      <3>1. \E i \in DOMAIN order' : order'[i] = q.node
        BY <1>3, <1>4, <2>1
      <3> QED
        BY <1>4, <3>1 DEF Position
    <2> QED
      BY <1>3, <1>4, <1>6, <2>1, <2>2 DEF Listed, IsInjective
  <1>8. Position(new)' = Len(order) + 1
    <2>1. \E i \in DOMAIN order' : order'[i] = n
      BY <1>3, <1>4
    <2>2. Position(new)' \in DOMAIN order' /\ order'[Position(new)'] = n
      BY <1>2, <2>1 DEF Position
    <2> QED
      BY <1>3, <1>4, <1>6, <2>2 DEF Listed, IsInjective
  <1>9. UpdatedFirst'
    <2> SUFFICES ASSUME NEW p \in requests', NEW s \in requests',
                        Position(p)' < Position(s)', s.next_command # "NOP"
                 PROVE  p.next_command # "NOP"
      BY DEF UpdatedFirst
    <2>1. s \in requests
      BY <1>1, <1>2
    <2>2. p # new
      BY <1>3, <1>7, <1>8, <2>1
    <2>3. p \in requests
      BY <1>1, <2>2
    <2> QED
      BY <1>7, <2>1, <2>3 DEF QueuesInv, UpdatedFirst
  <1>10. FlagsAreComplete'
    <2>1. \A q : CommandIssuable(q)' = CommandIssuable(q)
      BY <1>1 DEF CommandIssuable, NextCommand, Reached, FitsBeforeRefresh,
                  bankVars, refreshVars
    <2> QED
      BY <1>1, <1>2, <2>1 DEF QueuesInv, FlagsAreComplete, cycleVars
  <1> QED
    BY <1>1, <1>6, <1>9, <1>10 DEF QueuesInv

LEMMA TickKeepsQueues ==
    ASSUME StructureInv, QueuesInv, Tick
    PROVE  QueuesInv'
  <1>1. /\ UpdateMemory /\ order' = Kept(order, Unserved)
        /\ no_dram' = no_dram \cap Unserved /\ scheduled' = FALSE
        /\ UNCHANGED <<drain_writes, dedicated>>
    BY DEF Tick
  <1>2. /\ requests' = {Updated(q)' : q \in {p \in requests : ~p.request_served}}
        /\ ~command_issued_current_cycle'
    BY <1>1 DEF UpdateMemory, UpdateQueues
  <1>3. ASSUME NEW q \in requests
        PROVE  /\ Updated(q)'.node = q.node /\ Updated(q)'.op = q.op
               /\ Updated(q)'.rank = q.rank /\ Updated(q)'.bank = q.bank
               /\ Updated(q)'.row = q.row
               /\ Updated(q)'.next_command = NextCommand(q)'
               /\ Updated(q)'.command_issuable = CommandIssuable(q)'
    <2>1. q \in Request
      BY DEF StructureInv, TypeOK
    <2> QED
      BY <2>1 DEF Updated, Request
  <1>4. \A q : NextCommand(q)' # "NOP"
    BY DEF NextCommand
  <1>5. ASSUME NEW p \in requests'
        PROVE  \E q \in requests :
                  /\ ~q.request_served /\ p = Updated(q)'
                  /\ p.node = q.node /\ p.op = q.op /\ p.next_command # "NOP"
                  /\ p.command_issuable = CommandIssuable(p)'
    <2>1. PICK q \in requests : ~q.request_served /\ p = Updated(q)'
      BY <1>2
    <2>2. CommandIssuable(p)' = CommandIssuable(q)'
      <3>1. /\ p.op = q.op /\ p.rank = q.rank /\ p.bank = q.bank
            /\ p.row = q.row
        BY <1>3, <2>1
      <3> QED
        BY <3>1 DEF CommandIssuable, NextCommand
    <2> QED
      BY <1>3, <1>4, <2>1, <2>2
  <1>6. {p.node : p \in requests'} = Unserved
    BY <1>2, <1>3 DEF Unserved
  <1>7. Unserved \subseteq {q.node : q \in requests}
    BY DEF Unserved
  <1>8. Listed'
    <2>1. /\ order' \in Seq(Nodes) /\ IsInjective(order')
          /\ Range(order') = Range(order) \cap Unserved
      BY <1>1, KeptEntries DEF QueuesInv, Listed
    <2>2. Range(order') = {p.node : p \in requests'}
      BY <1>6, <1>7, <2>1 DEF QueuesInv, Listed
    <2>3. \A p, q \in requests' : p.node = q.node => p = q
      BY <1>5 DEF QueuesInv, Listed
    <2>4. no_dram' \subseteq {q.node : q \in Reads'}
      <3> SUFFICES ASSUME NEW n \in no_dram, n \in Unserved
                   PROVE  \E q \in requests' : q.op = "READ" /\ q.node = n
        BY <1>1 DEF Reads
      <3>1. PICK q \in requests : q.op = "READ" /\ q.node = n
        BY DEF QueuesInv, Listed, Reads
      <3>2. PICK p \in requests : ~p.request_served /\ p.node = n
        BY DEF Unserved
      <3>3. p = q
        BY <3>1, <3>2 DEF QueuesInv, Listed
      <3> QED
        BY <1>2, <1>3, <3>1, <3>2, <3>3
    <2> QED
      BY <1>1, <2>1, <2>2, <2>3, <2>4 DEF QueuesInv, Listed
  <1>9. UpdatedFirst' /\ FlagsAreComplete'
    BY <1>5 DEF UpdatedFirst, FlagsAreComplete
  <1> QED
    BY <1>1, <1>2, <1>8, <1>9 DEF QueuesInv

LEMMA ScheduleKeepsQueues ==
    ASSUME StructureInv, QueuesInv, Schedule
    PROVE  QueuesInv'
  <1> DEFINE ready == Ready(IF Draining THEN Writes ELSE Reads)
  <1>1. /\ scheduled' = TRUE /\ drain_writes' = Draining
        /\ UNCHANGED <<order, dedicated, no_dram>>
    BY DEF Schedule
  <1>2. drain_writes' \in BOOLEAN
    BY <1>1 DEF Draining
  <1>3. CASE ready = {}
    <2>1. UNCHANGED vars
      BY <1>3 DEF Schedule
    <2> QED
      BY <1>1, <1>2, <2>1, KeepsQueues DEF vars
  <1>4. CASE ready # {}
    <2>1. PICK q \in ready : Serve(q)
      BY <1>4 DEF Schedule
    <2>2. q \in requests /\ (Answer(q) \/ IssueRequestCommand(q))
      BY <2>1, ReadyIsServed DEF Schedule
    <2> QED
      BY <1>1, <1>2, <2>2, ServeKeepsQueues
  <1> QED
    BY <1>3, <1>4

LEMMA ScheduleClosedKeepsQueues ==
    ASSUME StructureInv, QueuesInv, ScheduleClosedPage
    PROVE  QueuesInv'
  <1> DEFINE ready == Ready(IF Draining THEN Writes ELSE Reads)
  <1>1. /\ scheduled' = TRUE /\ drain_writes' = Draining
        /\ UNCHANGED <<order, dedicated, no_dram>>
    BY DEF ScheduleClosedPage
  <1>2. drain_writes' \in BOOLEAN
    BY <1>1 DEF Draining
  <1>3. CASE ready = {}
    <2>1. ClosePage
      BY <1>3 DEF ScheduleClosedPage
    <2>2. CASE UNCHANGED vars
      BY <1>1, <1>2, <2>2, KeepsQueues DEF vars
    <2>3. CASE \E c \in Closable : Precharge(c[1], c[2])
      <3>1. command_issued_current_cycle' /\ requests' = requests
        BY <2>3 DEF Precharge, CloseRows, Unqueued
      <3> QED
        BY <1>1, <1>2, <3>1, KeepsQueues
    <2> QED
      BY <2>1, <2>2, <2>3 DEF ClosePage, CallPrecharge
  <1>4. CASE ready # {}
    <2>1. PICK q \in ready : CallIssue(q)
      BY <1>4 DEF ScheduleClosedPage
    <2>2. q \in requests /\ IssueRequestCommand(q)
      BY <2>1, ReadyIsServed DEF ScheduleClosedPage
    <2> QED
      BY <1>1, <1>2, <2>2, ServeKeepsQueues
  <1> QED
    BY <1>3, <1>4

LEMMA QueuesStep ==
    /\ StructureInv /\ QueuesInv /\ [SchedulerNext]_schedulerVars => QueuesInv'
    /\ StructureInv /\ QueuesInv /\ [ClosedPageNext]_closedPageVars => QueuesInv'
  <1>1. ASSUME StructureInv, QueuesInv, UNCHANGED schedulerVars
        PROVE  QueuesInv'
    <2>1. /\ drain_writes' \in BOOLEAN /\ scheduled' \in BOOLEAN
          /\ UNCHANGED <<vars, requests, order, dedicated, no_dram, scheduled>>
      BY <1>1 DEF schedulerVars, vars, QueuesInv, Listed
    <2> QED
      BY <1>1, <2>1, KeepsQueues
  <1>2. ASSUME StructureInv, QueuesInv, [SchedulerNext]_schedulerVars
        PROVE  QueuesInv'
    BY <1>1, <1>2, ArriveKeepsQueues, TickKeepsQueues, ScheduleKeepsQueues
    DEF SchedulerNext
  <1>3. ASSUME StructureInv, QueuesInv, [ClosedPageNext]_closedPageVars
        PROVE  QueuesInv'
    BY <1>1, <1>3, ArriveKeepsQueues, TickKeepsQueues, ScheduleClosedKeepsQueues
    DEF ClosedPageNext, TickClosedPage, closedPageVars
  <1> QED
    BY <1>2, <1>3

LEMMA QueuesInvariant ==
    /\ SchedulerSpec => [](StructureInv /\ QueuesInv)
    /\ ClosedPageSpec => [](StructureInv /\ QueuesInv)
  <1>1. SchedulerInit => QueuesInv
    BY InitQueues
  <1>2. ClosedPageInit => QueuesInv
    BY InitQueues DEF ClosedPageInit
  <1>3. StructureInv /\ QueuesInv /\ [SchedulerNext]_schedulerVars => QueuesInv'
    BY QueuesStep
  <1>4. StructureInv /\ QueuesInv /\ [ClosedPageNext]_closedPageVars => QueuesInv'
    BY QueuesStep
  <1>5. SchedulerSpec => []StructureInv
    BY SchedulerDrivesController, StructureInvariant, PTL
  <1>6. ClosedPageSpec => []StructureInv
    BY ClosedPageDrivesController, StructureInvariant, PTL
  <1>7. SchedulerSpec => [](StructureInv /\ QueuesInv)
    BY <1>1, <1>3, <1>5, PTL DEF SchedulerSpec
  <1>8. ClosedPageSpec => [](StructureInv /\ QueuesInv)
    BY <1>2, <1>4, <1>6, PTL DEF ClosedPageSpec
  <1> QED
    BY <1>7, <1>8

\* Under both schedulers, for any number of nodes, every queued request has one
\* place in the order of arrival and every place a request, whatever
\* clean_queues takes out of the middle.
THEOREM OrderIsListed ==
    /\ SchedulerSpec => []OrderListsQueues
    /\ ClosedPageSpec => []OrderListsQueues
  <1>1. StructureInv /\ QueuesInv => OrderListsQueues
    BY ListedQueues DEF QueuesInv
  <1>2. SchedulerSpec => []OrderListsQueues
    BY <1>1, QueuesInvariant, PTL
  <1>3. ClosedPageSpec => []OrderListsQueues
    BY <1>1, QueuesInvariant, PTL
  <1> QED
    BY <1>2, <1>3

-----------------------------------------------------------------------------
(* The calls of the schedulers.                                            *)

LEMMA AcceptedStep ==
    ASSUME StructureInv, QueuesInv, CallsAreAccepted,
           [SchedulerNext]_schedulerVars \/ [ClosedPageNext]_closedPageVars
    PROVE  CallsAreAccepted'
  <1> DEFINE ready == Ready(IF Draining THEN Writes ELSE Reads)
  <1>1. CASE UNCHANGED call
    BY <1>1 DEF CallsAreAccepted
  <1>2. CASE Tick
    BY <1>2 DEF Tick, CallsAreAccepted
  <1>3. CASE (Schedule \/ ScheduleClosedPage) /\ ready # {}
    <2>1. PICK q \in ready : Serve(q) \/ CallIssue(q)
      BY <1>3 DEF Schedule, ScheduleClosedPage
    <2>2. call' = "ISSUED" \/ UNCHANGED call
      BY <1>3, <2>1, ReadyIsServed DEF Schedule, ScheduleClosedPage
    <2> QED
      BY <2>2 DEF CallsAreAccepted
  <1>4. CASE ScheduleClosedPage /\ ready = {}
    <2>1. ClosePage
      BY <1>4 DEF ScheduleClosedPage
    <2>2. call' = "ISSUED" \/ UNCHANGED call
      BY <2>1 DEF ClosePage, CallPrecharge, Closable
    <2> QED
      BY <2>2 DEF CallsAreAccepted
  <1>5. Schedule /\ ready = {} => UNCHANGED call
    BY DEF Schedule
  <1>6. UNCHANGED schedulerVars \/ UNCHANGED closedPageVars => UNCHANGED call
    BY DEF schedulerVars, closedPageVars
  <1> QED
    BY <1>1, <1>2, <1>3, <1>4, <1>5, <1>6
    DEF SchedulerNext, ClosedPageNext, TickClosedPage, Arrive

\* Under both schedulers, for every choice of timing parameters, ranks, banks,
\* rows and queue entries, issue_request_command and issue_precharge_command
\* accept every call: none is refused, and no assertion ends the program.
THEOREM CallsAlwaysAccepted ==
    /\ SchedulerSpec => []CallsAreAccepted
    /\ ClosedPageSpec => []CallsAreAccepted
  <1>1. /\ SchedulerInit => CallsAreAccepted
        /\ ClosedPageInit => CallsAreAccepted
    BY DEF ClosedPageInit, SchedulerInit, CallsAreAccepted
  <1>2. StructureInv /\ QueuesInv /\ CallsAreAccepted
            /\ [SchedulerNext]_schedulerVars => CallsAreAccepted'
    BY AcceptedStep
  <1>3. StructureInv /\ QueuesInv /\ CallsAreAccepted
            /\ [ClosedPageNext]_closedPageVars => CallsAreAccepted'
    BY AcceptedStep
  <1>4. SchedulerSpec => []CallsAreAccepted
    BY <1>1, <1>2, QueuesInvariant, PTL DEF SchedulerSpec
  <1>5. ClosedPageSpec => []CallsAreAccepted
    BY <1>1, <1>3, QueuesInvariant, PTL DEF ClosedPageSpec
  <1> QED
    BY <1>4, <1>5

-----------------------------------------------------------------------------
(* The candidates of the closed-page scheduler.  A flag is set before the   *)
(* call for a column access; the call is accepted, so the row is open.  A   *)
(* rank with a candidate is not powered down, so no power-up touches it.    *)

CandidateInv ==
    /\ StructureInv
    /\ QueuesInv
    /\ recent_colacc \in [Ranks -> [Banks -> {0, 1}]]
    /\ CandidateIsOpenOrRefreshed

LEMMA IssueKeepsCandidates ==
    ASSUME CandidateInv, NEW q \in requests, IssueRequestCommand(q),
           recent_colacc' = Candidates(q)
    PROVE  /\ recent_colacc' \in [Ranks -> [Banks -> {0, 1}]]
           /\ CandidateIsOpenOrRefreshed'
  <1>1. /\ q.rank \in Ranks /\ q.bank \in Banks
        /\ state \in [Ranks -> [Banks -> BankStates]]
    BY DEF CandidateInv, StructureInv, TypeOK, Request
  <1>2. /\ q.next_command \in {"COL_READ", "COL_WRITE", "PRE"} =>
              state[q.rank][q.bank] = "ROW_ACTIVE"
        /\ q.next_command = "PWR_UP" => state[q.rank][q.bank] \in PoweredDown
    BY IssuableRequest DEF CandidateInv, IssueRequestCommand
  <1>3. recent_colacc' \in [Ranks -> [Banks -> {0, 1}]]
    BY <1>1 DEF Candidates, CandidateInv
  <1> SUFFICES ASSUME NEW r \in Ranks, NEW b \in Banks,
                      recent_colacc'[r][b] = 1
               PROVE  state'[r][b] \in {"ROW_ACTIVE", "REFRESHING"}
    BY <1>3 DEF CandidateIsOpenOrRefreshed
  <1>4. CASE q.next_command = "ACT" /\ OpenRow(q.rank, q.bank, q.row)
    BY <1>1, <1>4 DEF OpenRow, Candidates, CandidateInv,
                      CandidateIsOpenOrRefreshed
  <1>5. CASE /\ q.next_command \in {"COL_READ", "COL_WRITE"}
             /\ UNCHANGED state
    BY <1>1, <1>2, <1>5 DEF Candidates, CandidateInv,
                            CandidateIsOpenOrRefreshed
  <1>6. CASE q.next_command = "PRE" /\ CloseRows(q.rank, {q.bank})
    BY <1>1, <1>6 DEF CloseRows, Candidates, CandidateInv,
                      CandidateIsOpenOrRefreshed
  <1>7. CASE q.next_command = "PWR_UP" /\ WakeRank(q.rank)
    <2>1. recent_colacc[r][b] = 1
      BY <1>7 DEF Candidates
    <2>2. state[r][b] \in {"ROW_ACTIVE", "REFRESHING"}
      BY <2>1 DEF CandidateInv, CandidateIsOpenOrRefreshed
    <2>3. r # q.rank
      BY <1>1, <1>2, <1>7, <2>2 DEF CandidateInv, StructureInv, BankInv,
         PowerStateIsRankWide, PoweredDown, PrechargePowerDown
    <2>4. state'[r] = state[r]
      BY <1>1, <1>7, <2>3 DEF WakeRank
    <2> QED
      BY <2>2, <2>4
  <1>8. IssueRequestCommand(q)
    OBVIOUS
  <1> QED
    BY <1>4, <1>5, <1>6, <1>7, <1>8
    DEF IssueRequestCommand, ColumnRead, ColumnWrite, ColumnAccess

LEMMA ClosePageKeepsCandidates ==
    ASSUME CandidateInv, ClosePage
    PROVE  /\ recent_colacc' \in [Ranks -> [Banks -> {0, 1}]]
           /\ CandidateIsOpenOrRefreshed'
  <1>1. CASE UNCHANGED <<vars, recent_colacc>>
    BY <1>1 DEF vars, bankVars, CandidateInv, CandidateIsOpenOrRefreshed
  <1>2. CASE \E c \in Closable :
               /\ Precharge(c[1], c[2])
               /\ recent_colacc' = [recent_colacc EXCEPT ![c[1]][c[2]] = 0]
    <2>1. PICK c \in Closable :
              /\ Precharge(c[1], c[2])
              /\ recent_colacc' = [recent_colacc EXCEPT ![c[1]][c[2]] = 0]
      BY <1>2
    <2>2. c[1] \in Ranks /\ c[2] \in Banks
      BY DEF Closable
    <2>3. state \in [Ranks -> [Banks -> BankStates]]
      BY DEF CandidateInv, StructureInv, TypeOK
    <2> QED
      BY <2>1, <2>2, <2>3 DEF Precharge, CloseRows, CandidateInv,
                              CandidateIsOpenOrRefreshed
  <1> QED
    BY <1>1, <1>2 DEF ClosePage, CallPrecharge

LEMMA TickKeepsCandidates ==
    ASSUME CandidateInv, TickClosedPage
    PROVE  /\ recent_colacc' \in [Ranks -> [Banks -> {0, 1}]]
           /\ CandidateIsOpenOrRefreshed'
  <1>1. state' = [r \in Ranks |-> [b \in Banks |->
            IF ForcedRefreshDue(r) THEN "REFRESHING" ELSE state[r][b]]]
    BY DEF TickClosedPage, Tick, UpdateMemory, UpdateRefresh,
           IssueForcedRefreshCommands
  <1>2. UNCHANGED recent_colacc
    BY DEF TickClosedPage
  <1> QED
    BY <1>1, <1>2 DEF CandidateInv, CandidateIsOpenOrRefreshed

\* The candidates are kept by every step.
LEMMA CandidateStep ==
    CandidateInv /\ [ClosedPageNext]_closedPageVars => CandidateInv'
  <1> SUFFICES ASSUME CandidateInv, [ClosedPageNext]_closedPageVars
               PROVE  CandidateInv'
    OBVIOUS
  <1>1. StructureInv' /\ QueuesInv'
    BY ClosedPageStep, StructureStep, QueuesStep DEF CandidateInv
  <1>2. CASE ScheduleClosedPage
    <2> DEFINE queue == IF Draining THEN Writes ELSE Reads
    <2>1. CASE Ready(queue) = {}
      BY <1>1, <1>2, <2>1, ClosePageKeepsCandidates
      DEF ScheduleClosedPage, CandidateInv
    <2>2. CASE Ready(queue) # {}
      <3>1. PICK q \in Ready(queue) :
                CallIssue(q) /\ recent_colacc' = Candidates(q)
        BY <1>2, <2>2 DEF ScheduleClosedPage
      <3>2. q \in requests /\ IssueRequestCommand(q)
        BY <1>2, <3>1, ReadyIsServed DEF ScheduleClosedPage, CandidateInv
      <3> QED
        BY <1>1, <3>1, <3>2, IssueKeepsCandidates DEF CandidateInv
    <2> QED
      BY <2>1, <2>2
  <1>3. CASE TickClosedPage
    BY <1>1, <1>3, TickKeepsCandidates DEF CandidateInv
  <1>4. CASE UNCHANGED <<state, recent_colacc>>
    BY <1>1, <1>4 DEF CandidateInv, CandidateIsOpenOrRefreshed
  <1> QED
    BY <1>2, <1>3, <1>4
    DEF ClosedPageNext, Arrive, Insert, bankVars, closedPageVars,
        schedulerVars, vars

\* A candidate for closing has its row open, or a refresh has closed it: the
\* flag set by a column access goes with every activation and precharge the
\* closed-page scheduler issues.
THEOREM CandidatesAreOpen == ClosedPageSpec => []CandidateIsOpenOrRefreshed
  <1>1. ClosedPageInit => CandidateInv
    <2> SUFFICES ASSUME ClosedPageInit
                 PROVE  CandidateInv
      OBVIOUS
    <2>1. Init /\ recent_colacc = [r \in Ranks |-> [b \in Banks |-> 0]]
      BY DEF ClosedPageInit, SchedulerInit
    <2> QED
      BY <2>1, InitStructure, InitQueues
      DEF ClosedPageInit, CandidateInv, CandidateIsOpenOrRefreshed
  <1>2. CandidateInv => CandidateIsOpenOrRefreshed
    BY DEF CandidateInv
  <1> QED
    BY <1>1, <1>2, CandidateStep, PTL DEF ClosedPageSpec

-----------------------------------------------------------------------------
(* Requests of one queue for one row are served in their order.            *)

\* What may not happen to an older request p and a younger one q.
Overtaken(p, q) ==
    /\ ~p.request_served
    /\ Position(p) < Position(q)
    /\ <<p.op, p.rank, p.bank, p.row>> = <<q.op, q.rank, q.bank, q.row>>
    /\ ~q.request_served
    /\ \E t \in requests' : t.node = q.node /\ t.request_served

\* The older request needs the same command as the younger; if that can be
\* issued, its flag says so, and it comes first.
LEMMA ServeInOrder ==
    ASSUME StructureInv, QueuesInv, ~scheduled,
           NEW queue \in {Reads, Writes}, NEW u \in Ready(queue),
           IsFirst(u, Ready(queue)), Answer(u) \/ IssueRequestCommand(u),
           NEW p \in requests, NEW q \in requests, Overtaken(p, q)
    PROVE  FALSE
  <1>1. u \in requests /\ u.command_issuable
    BY DEF Ready, Reads, Writes
  <1>2. PICK s \in Request : requests' = (requests \ {u}) \cup {s} /\ s.node = u.node
    BY <1>1, ServedRequest
  <1>3. u = q
    <2>1. PICK t \in requests' : t.node = q.node /\ t.request_served
      BY DEF Overtaken
    <2>2. CASE t = s
      BY <1>1, <1>2, <2>1, <2>2 DEF QueuesInv, Listed
    <2>3. CASE t \in requests
      BY <2>1, <2>3 DEF QueuesInv, Listed, Overtaken
    <2> QED
      BY <1>2, <2>2, <2>3
  <1>4. /\ p.op = q.op /\ p.rank = q.rank /\ p.bank = q.bank /\ p.row = q.row
        /\ Position(p) < Position(q)
    BY DEF Overtaken
  <1>5. ~command_issued_current_cycle
    BY DEF QueuesInv
  <1>6. q.next_command # "NOP" /\ CommandIssuable(q)
    BY <1>1, <1>3, <1>5
    DEF StructureInv, FlagsAreCurrent, QueuesInv, FlagsAreComplete
  <1>7. p.next_command # "NOP"
    BY <1>4, <1>6 DEF QueuesInv, UpdatedFirst
  <1>8. CommandIssuable(p)
    BY <1>4, <1>6 DEF CommandIssuable, NextCommand
  <1>9. p \in Ready(queue)
    <2>1. p.command_issuable
      BY <1>5, <1>7, <1>8 DEF QueuesInv, FlagsAreComplete
    <2>2. p \in queue
      BY <1>1, <1>3, <1>4 DEF Ready, Reads, Writes
    <2> QED
      BY <2>1, <2>2 DEF Ready
  <1>10. Position(q) <= Position(p)
    BY <1>3, <1>9 DEF IsFirst
  <1>11. Position(p) \in Int /\ Position(q) \in Int
    BY Positions DEF QueuesInv
  <1> QED
    BY <1>4, <1>10, <1>11

\* A request that no step serves is not served ahead of another.
LEMMA UnservedInOrder ==
    ASSUME QueuesInv, NEW p \in requests, NEW q \in requests, Overtaken(p, q),
           \A t \in requests' : t.request_served =>
               t \in requests \/ \A u \in requests : u.node # t.node
    PROVE  FALSE
  <1>1. PICK t \in requests' : t.node = q.node /\ t.request_served
    BY DEF Overtaken
  <1>2. t \in requests
    BY <1>1
  <1> QED
    BY <1>1, <1>2 DEF QueuesInv, Listed, Overtaken

LEMMA OrderedStep ==
    ASSUME StructureInv, QueuesInv,
           [SchedulerNext]_schedulerVars \/ [ClosedPageNext]_closedPageVars,
           NEW p \in requests, NEW q \in requests, Overtaken(p, q)
    PROVE  FALSE
  <1> DEFINE queue == IF Draining THEN Writes ELSE Reads
             ready == Ready(queue)
  <1>1. queue \in {Reads, Writes}
    OBVIOUS
  <1>2. CASE requests' = requests
    BY <1>2, UnservedInOrder
  <1>3. ASSUME NEW n \in Nodes, NEW op \in {"READ", "WRITE"}, NEW r \in Ranks,
               NEW b \in Banks, NEW row \in Rows, Arrive(n, op, r, b, row)
        PROVE  FALSE
    <2> DEFINE new == [node |-> n, op |-> op, rank |-> r, bank |-> b,
                       row |-> row, next_command |-> "NOP",
                       command_issuable |-> FALSE, request_served |-> FALSE]
    <2>1. requests' = requests \cup {new} /\ ~new.request_served
      BY <1>3 DEF Arrive, Insert
    <2> HIDE DEF new
    <2> QED
      BY <2>1, UnservedInOrder
  <1>4. CASE Tick
    <2>1. requests' = {Updated(u)' : u \in {v \in requests : ~v.request_served}}
      BY <1>4 DEF Tick, UpdateMemory, UpdateQueues
    <2>2. ASSUME NEW u \in requests
          PROVE  Updated(u)'.request_served = u.request_served
      <3>1. u \in Request
        BY DEF StructureInv, TypeOK
      <3> QED
        BY <3>1 DEF Updated, Request
    <2>3. \A t \in requests' : ~t.request_served
      BY <2>1, <2>2
    <2> QED
      BY <2>3, UnservedInOrder
  <1>5. CASE Schedule \/ ScheduleClosedPage
    <2>1. ~scheduled
      BY <1>5 DEF Schedule, ScheduleClosedPage
    <2>2. CASE ready = {}
      <3>1. UNCHANGED vars \/ ClosePage
        BY <1>5, <2>2 DEF Schedule, ScheduleClosedPage
      <3>2. requests' = requests
        BY <3>1 DEF vars, ClosePage, CallPrecharge, Precharge, Unqueued
      <3> QED
        BY <1>2, <3>2
    <2>3. CASE ready # {}
      <3>1. PICK u \in ready : IsFirst(u, ready) /\ (Serve(u) \/ CallIssue(u))
        BY <1>5, <2>3 DEF Schedule, ScheduleClosedPage
      <3>2. Answer(u) \/ IssueRequestCommand(u)
        BY <2>1, <3>1, ReadyIsServed
      <3> HIDE DEF queue
      <3> QED
        BY <1>1, <2>1, <3>1, <3>2, ServeInOrder
    <2> QED
      BY <2>2, <2>3
  <1>6. CASE UNCHANGED schedulerVars \/ UNCHANGED closedPageVars
    BY <1>2, <1>6 DEF schedulerVars, closedPageVars, vars
  <1> QED
    BY <1>3, <1>4, <1>5, <1>6 DEF SchedulerNext, ClosedPageNext, TickClosedPage

\* Under both schedulers, for every choice of timing parameters, ranks, banks
\* and rows, a younger request is never served before an older one of the same
\* queue for the same row.
THEOREM RowHitsStayInOrder ==
    /\ SchedulerSpec => RowHitsInOrder
    /\ ClosedPageSpec => RowHitsInOrder
  <1> DEFINE Ordered ==
        \A p, q \in requests :
          /\ ~p.request_served
          /\ Position(p) < Position(q)
          /\ <<p.op, p.rank, p.bank, p.row>> = <<q.op, q.rank, q.bank, q.row>>
          /\ ~q.request_served
          => \A t \in requests' : t.node = q.node => ~t.request_served
  <1>1. StructureInv /\ QueuesInv /\ [SchedulerNext]_schedulerVars => Ordered
    BY OrderedStep DEF Overtaken
  <1>2. StructureInv /\ QueuesInv /\ [ClosedPageNext]_closedPageVars => Ordered
    BY OrderedStep DEF Overtaken
  <1> HIDE DEF Ordered
  <1>3. SchedulerSpec => [][Ordered]_schedulerVars
    BY <1>1, QueuesInvariant, PTL DEF SchedulerSpec
  <1>4. ClosedPageSpec => [][Ordered]_schedulerVars
    BY <1>2, QueuesInvariant, PTL DEF ClosedPageSpec, closedPageVars
  <1> QED
    BY <1>3, <1>4 DEF RowHitsInOrder, Ordered
=============================================================================
