-------------------------- MODULE MemoryController --------------------------
(***************************************************************************)
(* One channel of the DRAM controller (memory_controller.c): its ranks and *)
(* banks, the timers that say when each command may next be issued, the    *)
(* auto-refresh bookkeeping, and the requests waiting in the read and the  *)
(* write queue.                                                            *)
(*                                                                         *)
(* Time is counted in DRAM cycles.  The code counts processor cycles, but  *)
(* multiplies every T_* by PROCESSOR_CLK_MULTIPLIER as it reads it and     *)
(* calls update_memory only on multiples of that constant.                 *)
(*                                                                         *)
(* The scheduler is any scheduler: between two calls of update_memory it   *)
(* may use every function of the controller's interface whose checks pass. *)
(* The order of a queue matters to a scheduler only, so a queue is a set,  *)
(* and one set holds the requests of both.                                 *)
(***************************************************************************)
EXTENDS Integers

CONSTANTS
    NUM_RANKS, NUM_BANKS,
    Rows,            \* the rows of a bank
    NoRow,           \* active_row = -1
    Nodes,           \* request_t nodes; their number bounds the two queues
    T_RCD, T_RP, T_CAS, T_RAS, T_RC, T_CWD, T_WR, T_WTR, T_RTRS,
    T_DATA_TRANS, T_RTP, T_CCD, T_XP, T_XP_DLL, T_PD_MIN, T_RRD,
    T_REFI, T_RFC,
    REFRESH_QUOTA    \* refreshes due in a refresh window; 8 in the code

ASSUME SizeAssumption ==
    /\ NUM_RANKS \in Nat \ {0}
    /\ NUM_BANKS \in Nat \ {0}
    /\ NoRow \notin Rows

ASSUME TimingAssumption ==
    /\ {T_RCD, T_CAS, T_RAS, T_RC, T_CWD, T_WR, T_WTR, T_RTRS, T_DATA_TRANS,
        T_RTP, T_CCD, T_XP, T_XP_DLL, T_PD_MIN, T_RRD, T_RP, T_RFC} \subseteq Nat
    /\ T_REFI \in Nat
    /\ REFRESH_QUOTA \in Nat \ {0}

\* The first issue deadline lies ahead of cycle 0, and the slack left to a
\* forced refresh is not empty.
ASSUME RefreshAssumption ==
    /\ REFRESH_QUOTA * T_REFI > T_RP + REFRESH_QUOTA * T_RFC
    /\ T_RP > 0

\* As in every chip description of input/*.vi, a slow exit from power-down is
\* no shorter than a fast one, and a refresh window has room for its refreshes
\* and for whatever operation runs when it opens.
ASSUME WindowAssumption ==
    /\ T_XP <= T_XP_DLL
    /\ \A d \in {T_RAS, T_RTP, T_CWD + T_DATA_TRANS + T_WR,
                T_PD_MIN + T_XP_DLL} :
          T_RP + REFRESH_QUOTA * T_RFC + d <= REFRESH_QUOTA * T_REFI

VARIABLES
    CYCLE_VAL,
    state,           \* state[r][b]: bankstate_t of bank b of rank r
    active_row,      \* active_row[r][b]: the open row, or NoRow
    next,            \* next[r][b][k]: dram_state's next_k
    command_issued_current_cycle,
    cas_issued_current_cycle,
    activation_record,
    next_refresh_completion_deadline,
    refresh_issue_deadline,
    forced_refresh_mode_on,
    num_issued_refreshes,
    requests         \* the read and the write queue

bankVars    == <<state, active_row, next>>
refreshVars == <<next_refresh_completion_deadline, refresh_issue_deadline,
                 forced_refresh_mode_on, num_issued_refreshes>>
cycleVars   == <<command_issued_current_cycle, cas_issued_current_cycle,
                 activation_record>>
vars        == <<CYCLE_VAL, bankVars, cycleVars, refreshVars, requests>>

-----------------------------------------------------------------------------
Ranks == 0 .. NUM_RANKS - 1
Banks == 0 .. NUM_BANKS - 1

Closed            == {"IDLE", "PRECHARGING", "REFRESHING"}
PrechargePowerDown ==
    {"PRECHARGE_POWER_DOWN_FAST", "PRECHARGE_POWER_DOWN_SLOW"}
PoweredDown       == PrechargePowerDown \cup {"ACTIVE_POWER_DOWN"}
BankStates        == Closed \cup PoweredDown \cup {"ROW_ACTIVE"}

Timers == {"pre", "act", "read", "write", "powerdown", "powerup", "refresh"}

\* The timers a refresh pushes back, and those a power-up pushes back.
RefreshTimers == {"act", "pre", "refresh", "powerdown"}
WakeTimers    == Timers \ {"powerup"}

Commands == {"ACT", "COL_READ", "COL_WRITE", "PRE", "PWR_UP", "NOP"}

\* The fields of request_t that the controller reads and writes.
Request == [node : Nodes, op : {"READ", "WRITE"},
            rank : Ranks, bank : Banks, row : Rows,
            next_command : Commands, command_issuable : BOOLEAN,
            request_served : BOOLEAN]

Later(a, b) == IF a > b THEN a ELSE b

\* The timers t with those named in cmds moved to cycle c, if that is later.
Deferred(t, cmds, c) ==
    [k \in Timers |-> IF k \in cmds THEN Later(c, t[k]) ELSE t[k]]

\* refresh_issue_deadline when n refreshes of the window have been issued.
IssueDeadline(completion, n) ==
    completion - T_RP - (REFRESH_QUOTA - n) * T_RFC

-----------------------------------------------------------------------------
(* What may be issued now: the is_..._allowed functions.                   *)

Reached(r, b, k) == CYCLE_VAL >= next[r][b][k]

\* An operation of d cycles would end before the refreshes have to start.
FitsBeforeRefresh(r, d) == CYCLE_VAL + d <= refresh_issue_deadline[r]

\* The channel has not had its command of the cycle, and rank r is not in
\* its forced refreshes.
ChannelFree(r) ==
    /\ ~command_issued_current_cycle
    /\ ~forced_refresh_mode_on[r]

IsPowerdownFastAllowed(r) ==
    /\ ChannelFree(r)
    /\ FitsBeforeRefresh(r, T_PD_MIN + T_XP)
    /\ \A b \in Banks : /\ state[r][b] \notin PoweredDown
                        /\ Reached(r, b, "powerdown")

IsPowerdownSlowAllowed(r) ==
    /\ ChannelFree(r)
    /\ FitsBeforeRefresh(r, T_PD_MIN + T_XP_DLL)
    /\ \A b \in Banks : /\ state[r][b] \in Closed
                        /\ Reached(r, b, "powerdown")

\* The deadline tested is the one of rank 0, as in the code.
IsPowerupAllowed(r) ==
    /\ ChannelFree(r)
    /\ state[r][0] \in PoweredDown
    /\ Reached(r, 0, "powerup")
    /\ IF state[r][0] = "PRECHARGE_POWER_DOWN_SLOW"
       THEN FitsBeforeRefresh(0, T_XP_DLL)
       ELSE FitsBeforeRefresh(0, T_XP)

\* Fault: the activation does not look ahead to the forced refresh.
IsActivateAllowedLate(r, b) ==
    ChannelFree(r) /\ state[r][b] \in Closed /\ Reached(r, b, "act")

IsActivateAllowed(r, b) ==
    /\ ChannelFree(r)
    /\ FitsBeforeRefresh(r, T_RAS)
    /\ state[r][b] \in Closed
    /\ Reached(r, b, "act")

\* The cycle in which an automatic precharge after this cycle's column
\* access can start.
AutoprechargeStart(r, b) ==
    Later(next[r][b]["pre"],
          CYCLE_VAL + IF cas_issued_current_cycle[r][b] = "READ"
                      THEN T_RTP
                      ELSE T_CWD + T_DATA_TRANS + T_WR)

IsAutoprechargeAllowed(r, b) ==
    /\ cas_issued_current_cycle[r][b] # "NONE"
    /\ AutoprechargeStart(r, b) + T_RP <= refresh_issue_deadline[r]

\* Fault: a powered-down bank is precharged.
IsPrechargeAllowedAsleep(r, b) ==
    ChannelFree(r) /\ FitsBeforeRefresh(r, T_RP) /\ Reached(r, b, "pre")

IsPrechargeAllowed(r, b) ==
    /\ ChannelFree(r)
    /\ FitsBeforeRefresh(r, T_RP)
    /\ state[r][b] \notin PoweredDown
    /\ Reached(r, b, "pre")

IsAllBankPrechargeAllowed(r) == \A b \in Banks : IsPrechargeAllowed(r, b)

IsRefreshAllowed(r) ==
    /\ ChannelFree(r)
    /\ \A b \in Banks : Reached(r, b, "refresh")

-----------------------------------------------------------------------------
(* The next command a request needs, and whether it can be issued:         *)
(* update_read_queue_commands and update_write_queue_commands.             *)

NextCommand(q) ==
    LET s == state[q.rank][q.bank]
    IN  IF s \in Closed THEN "ACT"
        ELSE IF s \in PoweredDown THEN "PWR_UP"
        ELSE IF q.row # active_row[q.rank][q.bank] THEN "PRE"
        ELSE IF q.op = "READ" THEN "COL_READ" ELSE "COL_WRITE"

CommandIssuable(q) ==
    LET r == q.rank
        b == q.bank
        Ready(k, d) == Reached(r, b, k) /\ FitsBeforeRefresh(r, d)
        cmd == NextCommand(q)
    IN  /\ cmd = "ACT"       => Ready("act", T_RAS)
        /\ cmd = "COL_READ"  => Ready("read", T_RTP)
        /\ cmd = "COL_WRITE" => Ready("write", T_CWD + T_DATA_TRANS + T_WR)
        /\ cmd = "PRE"       => Ready("pre", T_RP)
        /\ cmd = "PWR_UP"    =>
              Ready("powerup", IF state[r][b] = "PRECHARGE_POWER_DOWN_SLOW"
                               THEN T_XP_DLL ELSE T_XP)
        \* the read queue does not make this test before a power-up
        /\ \/ cmd = "PWR_UP" /\ q.op = "READ"
           \/ ~forced_refresh_mode_on[r]

\* Fault: the command found first is kept, whatever happens to the bank.
UpdatedKeepingCommand(q) ==
    [q EXCEPT !.next_command     = IF @ = "NOP" THEN NextCommand(q) ELSE @,
              !.command_issuable = CommandIssuable(q)]

Updated(q) == [q EXCEPT !.next_command     = NextCommand(q),
                        !.command_issuable = CommandIssuable(q)]

-----------------------------------------------------------------------------
(* What the commands do to the banks.                                      *)

OpenRow(r, b, row) ==
    LET Activated(t) ==
            Deferred(Deferred(Deferred(t,
                {"pre", "refresh"},             CYCLE_VAL + T_RAS),
                {"read", "write", "powerdown"}, CYCLE_VAL + T_RCD),
                {"act"},                        CYCLE_VAL + T_RC)
    IN  /\ state' = [state EXCEPT ![r][b] = "ROW_ACTIVE"]
        /\ active_row' = [active_row EXCEPT ![r][b] = row]
        /\ next' = [next EXCEPT ![r] = [i \in Banks |->
               IF i = b THEN Activated(next[r][i])
               ELSE Deferred(next[r][i], {"act"}, CYCLE_VAL + T_RRD)]]
        /\ activation_record' = [activation_record EXCEPT ![r] = 1]
        /\ command_issued_current_cycle' = TRUE
        /\ UNCHANGED cas_issued_current_cycle

\* The part common to a column read and a column write: the data bus delays
\* the columns of every bank, and the access delays the closing of its row.
ColumnAccess(r, b, kind, readSame, readOther, writeSame, writeOther, close) ==
    LET OnBus(i, t) ==
            Deferred(Deferred(t,
                {"read"},  CYCLE_VAL + IF i = r THEN readSame ELSE readOther),
                {"write"}, CYCLE_VAL + IF i = r THEN writeSame ELSE writeOther)
    IN  /\ next' = [i \in Ranks |-> [j \in Banks |->
               IF i = r /\ j = b
               THEN Deferred(OnBus(i, next[i][j]),
                             {"pre", "refresh", "powerdown"}, CYCLE_VAL + close)
               ELSE OnBus(i, next[i][j])]]
        /\ cas_issued_current_cycle' =
               [cas_issued_current_cycle EXCEPT ![r][b] = kind]
        /\ command_issued_current_cycle' = TRUE
        /\ UNCHANGED <<state, active_row, activation_record>>

\* Fault: the bus gets no time to turn from one rank to another.
ColumnReadNoRankSwitch(r, b) ==
    LET turn == T_CAS + T_DATA_TRANS + T_RTRS - T_CWD
    IN  ColumnAccess(r, b, "READ",
            Later(T_CCD, T_DATA_TRANS), T_DATA_TRANS, turn, turn, T_RTP)

ColumnRead(r, b) ==
    LET turn == T_CAS + T_DATA_TRANS + T_RTRS - T_CWD
    IN  ColumnAccess(r, b, "READ",
            Later(T_CCD, T_DATA_TRANS), T_DATA_TRANS + T_RTRS,
            turn, turn, T_RTP)

\* Fault: T_WTR is left out of the write to read distance.
ColumnWriteNoTurnaround(r, b) ==
    ColumnAccess(r, b, "WRITE",
        T_CWD + T_DATA_TRANS, T_CWD + T_DATA_TRANS + T_RTRS - T_CAS,
        Later(T_CCD, T_DATA_TRANS), T_DATA_TRANS + T_RTRS,
        T_CWD + T_DATA_TRANS + T_WR)

ColumnWrite(r, b) ==
    ColumnAccess(r, b, "WRITE",
        T_CWD + T_DATA_TRANS + T_WTR,
        T_CWD + T_DATA_TRANS + T_RTRS - T_CAS,
        Later(T_CCD, T_DATA_TRANS), T_DATA_TRANS + T_RTRS,
        T_CWD + T_DATA_TRANS + T_WR)

\* Close the rows of the banks in bs of rank r.
CloseRows(r, bs) ==
    /\ state' = [state EXCEPT ![r] = [b \in Banks |->
           IF b \in bs THEN "PRECHARGING" ELSE state[r][b]]]
    /\ active_row' = [active_row EXCEPT ![r] = [b \in Banks |->
           IF b \in bs THEN NoRow ELSE active_row[r][b]]]
    /\ next' = [next EXCEPT ![r] = [b \in Banks |->
           IF b \in bs THEN Deferred(next[r][b], RefreshTimers, CYCLE_VAL + T_RP)
           ELSE next[r][b]]]
    /\ command_issued_current_cycle' = TRUE
    /\ UNCHANGED <<cas_issued_current_cycle, activation_record>>

\* Every bank leaves its power-down state.  The exit latency is chosen after
\* the state has been overwritten, as in the code.
WakeRank(r) ==
    LET woken == [b \in Banks |-> IF state[r][b] \in PrechargePowerDown
                                  THEN "IDLE" ELSE "ROW_ACTIVE"]
        Exit(b) == IF woken[b] = "PRECHARGE_POWER_DOWN_SLOW"
                   THEN T_XP_DLL ELSE T_XP
    IN  /\ state' = [state EXCEPT ![r] = woken]
        /\ active_row' = [active_row EXCEPT ![r] = [b \in Banks |->
               IF state[r][b] \in PrechargePowerDown
               THEN NoRow ELSE active_row[r][b]]]
        /\ next' = [next EXCEPT ![r] = [b \in Banks |->
               Deferred(next[r][b], WakeTimers, CYCLE_VAL + Exit(b))]]
        /\ command_issued_current_cycle' = TRUE
        /\ UNCHANGED <<cas_issued_current_cycle, activation_record>>

-----------------------------------------------------------------------------
(* The controller's interface, one action per function.                    *)

Unqueued == UNCHANGED <<CYCLE_VAL, refreshVars, requests>>

\* Fault: the new node's next command is not initialised.
InsertUninitialised(n, op, r, b, row) ==
    /\ \A q \in requests : q.node # n
    /\ requests' = requests \cup
           {[node |-> n, op |-> op, rank |-> r, bank |-> b, row |-> row,
             command_issuable |-> FALSE, request_served |-> FALSE]}
    /\ UNCHANGED <<CYCLE_VAL, bankVars, cycleVars, refreshVars>>

\* insert_read, insert_write
Insert(n, op, r, b, row) ==
    /\ \A q \in requests : q.node # n
    /\ requests' = requests \cup
           {[node |-> n, op |-> op, rank |-> r, bank |-> b, row |-> row,
             next_command |-> "NOP", command_issuable |-> FALSE,
             request_served |-> FALSE]}
    /\ UNCHANGED <<CYCLE_VAL, bankVars, cycleVars, refreshVars>>

\* issue_request_command
IssueRequestCommand(q) ==
    /\ q.command_issuable
    /\ ~command_issued_current_cycle
    /\ \/ q.next_command = "ACT"       /\ OpenRow(q.rank, q.bank, q.row)
       \/ q.next_command = "COL_READ"  /\ ColumnRead(q.rank, q.bank)
       \/ q.next_command = "COL_WRITE" /\ ColumnWrite(q.rank, q.bank)
       \/ q.next_command = "PRE"       /\ CloseRows(q.rank, {q.bank})
       \/ q.next_command = "PWR_UP"    /\ WakeRank(q.rank)
    /\ requests' = (requests \ {q}) \cup
           {[q EXCEPT !.request_served =
                @ \/ q.next_command \in {"COL_READ", "COL_WRITE"}]}
    /\ UNCHANGED <<CYCLE_VAL, refreshVars>>

\* A read for which the data need not come from the DRAM: the scheduler
\* completes it itself, without a command.
Answer(q) ==
    /\ q.op = "READ"
    /\ q.command_issuable
    /\ requests' = (requests \ {q}) \cup {[q EXCEPT !.request_served = TRUE]}
    /\ UNCHANGED <<CYCLE_VAL, bankVars, cycleVars, refreshVars>>

\* issue_powerdown_command; next_powerup starts from next_powerdown.
PowerDown(r, low) ==
    /\ state' = [state EXCEPT ![r] = [b \in Banks |->
           IF state[r][b] \in Closed THEN low
           ELSE IF state[r][b] = "ROW_ACTIVE" THEN "ACTIVE_POWER_DOWN"
           ELSE state[r][b]]]
    /\ active_row' = [active_row EXCEPT ![r] = [b \in Banks |->
           IF state[r][b] \in Closed THEN NoRow ELSE active_row[r][b]]]
    /\ next' = [next EXCEPT ![r] = [b \in Banks |->
           [Deferred(next[r][b], {"refresh"}, CYCLE_VAL + T_PD_MIN) EXCEPT
               !["powerup"] = Later(CYCLE_VAL + T_PD_MIN,
                                    next[r][b]["powerdown"])]]]
    /\ command_issued_current_cycle' = TRUE
    /\ UNCHANGED <<cas_issued_current_cycle, activation_record>>
    /\ Unqueued

PowerDownFast(r) ==
    IsPowerdownFastAllowed(r) /\ PowerDown(r, "PRECHARGE_POWER_DOWN_FAST")

PowerDownSlow(r) ==
    IsPowerdownSlowAllowed(r) /\ PowerDown(r, "PRECHARGE_POWER_DOWN_SLOW")

\* issue_powerup_command
PowerUp(r) == IsPowerupAllowed(r) /\ WakeRank(r) /\ Unqueued

\* issue_autoprecharge: not a command of its own, it rides on the column
\* access issued this cycle.
Autoprecharge(r, b) ==
    /\ IsAutoprechargeAllowed(r, b)
    /\ state' = [state EXCEPT ![r][b] = "PRECHARGING"]
    /\ active_row' = [active_row EXCEPT ![r][b] = NoRow]
    /\ next' = [next EXCEPT ![r][b] =
           Deferred(@, RefreshTimers, AutoprechargeStart(r, b) + T_RP)]
    /\ cas_issued_current_cycle' = [i \in Ranks |-> [j \in Banks |-> "NONE"]]
    /\ UNCHANGED <<command_issued_current_cycle, activation_record>>
    /\ Unqueued

\* issue_activate_command
Activate(r, b, row) ==
    IsActivateAllowed(r, b) /\ OpenRow(r, b, row) /\ Unqueued

\* issue_precharge_command
Precharge(r, b) == IsPrechargeAllowed(r, b) /\ CloseRows(r, {b}) /\ Unqueued

\* issue_all_bank_precharge_command
AllBankPrecharge(r) ==
    IsAllBankPrechargeAllowed(r) /\ CloseRows(r, Banks) /\ Unqueued

\* The cycles an issued refresh spends before its T_RFC: waking the rank up
\* and closing its rows.  Bank 0 stands for the rank's power state.
RefreshLead(r) ==
    IF state[r][0] = "PRECHARGE_POWER_DOWN_SLOW" THEN T_XP_DLL
    ELSE IF state[r][0] = "PRECHARGE_POWER_DOWN_FAST" THEN T_XP
    ELSE IF state[r][0] = "ACTIVE_POWER_DOWN" THEN T_XP + T_RP
    ELSE IF \E b \in Banks : state[r][b] = "ROW_ACTIVE" THEN T_RP
    ELSE 0

\* issue_refresh_command
Refresh(r) ==
    /\ IsRefreshAllowed(r)
    /\ num_issued_refreshes' = [num_issued_refreshes EXCEPT ![r] = @ + 1]
    /\ next' = [next EXCEPT ![r] = [b \in Banks |->
           Deferred(next[r][b], RefreshTimers,
                    CYCLE_VAL + RefreshLead(r) + T_RFC)]]
    /\ state' = [state EXCEPT ![r] = [b \in Banks |-> "REFRESHING"]]
    /\ active_row' = [active_row EXCEPT ![r] = [b \in Banks |-> NoRow]]
    /\ command_issued_current_cycle' = TRUE
    /\ UNCHANGED <<CYCLE_VAL, cas_issued_current_cycle, activation_record,
                   next_refresh_completion_deadline, refresh_issue_deadline,
                   forced_refresh_mode_on, requests>>

-----------------------------------------------------------------------------
(* update_memory: the next DRAM cycle begins.                              *)

WindowEnds(r) == CYCLE_VAL + 1 = next_refresh_completion_deadline[r]

\* Fault: the last missing refresh is not forced.
ForcedRefreshDueButLast(r) ==
    /\ ~WindowEnds(r)
    /\ CYCLE_VAL + 1 = refresh_issue_deadline[r]
    /\ num_issued_refreshes[r] < REFRESH_QUOTA - 1

ForcedRefreshDue(r) ==
    /\ ~WindowEnds(r)
    /\ CYCLE_VAL + 1 = refresh_issue_deadline[r]
    /\ num_issued_refreshes[r] < REFRESH_QUOTA

AdvanceDeadlines(r) ==
    LET completion == next_refresh_completion_deadline'[r]
    IN  IF WindowEnds(r) THEN IssueDeadline(completion, 0)
        ELSE IF CYCLE_VAL + 1 < refresh_issue_deadline[r]
        THEN IssueDeadline(completion, num_issued_refreshes[r])
        ELSE refresh_issue_deadline[r]

\* Fault: the rows stay open behind the forced refreshes.
ForcedRefreshKeepingRows ==
    /\ state' = [r \in Ranks |-> [b \in Banks |->
           IF ForcedRefreshDue(r) THEN "REFRESHING" ELSE state[r][b]]]
    /\ next' = [r \in Ranks |-> [b \in Banks |-> [k \in Timers |->
           IF ForcedRefreshDue(r) /\ k \in RefreshTimers
           THEN next_refresh_completion_deadline[r] ELSE next[r][b][k]]]]
    /\ UNCHANGED active_row

\* issue_forced_refresh_commands, for the ranks whose deadline has come.
IssueForcedRefreshCommands ==
    /\ state' = [r \in Ranks |-> [b \in Banks |->
           IF ForcedRefreshDue(r) THEN "REFRESHING" ELSE state[r][b]]]
    /\ active_row' = [r \in Ranks |-> [b \in Banks |->
           IF ForcedRefreshDue(r) THEN NoRow ELSE active_row[r][b]]]
    /\ next' = [r \in Ranks |-> [b \in Banks |-> [k \in Timers |->
           IF ForcedRefreshDue(r) /\ k \in RefreshTimers
           THEN next_refresh_completion_deadline[r] ELSE next[r][b][k]]]]

\* The three-way choice update_memory makes for every rank.
UpdateRefresh ==
    /\ num_issued_refreshes' = [r \in Ranks |->
           IF WindowEnds(r) THEN 0 ELSE num_issued_refreshes[r]]
    /\ next_refresh_completion_deadline' = [r \in Ranks |->
           IF WindowEnds(r) THEN CYCLE_VAL + 1 + REFRESH_QUOTA * T_REFI
           ELSE next_refresh_completion_deadline[r]]
    /\ refresh_issue_deadline' = [r \in Ranks |-> AdvanceDeadlines(r)]
    /\ forced_refresh_mode_on' = [r \in Ranks |->
           \/ ForcedRefreshDue(r)
           \/ ~WindowEnds(r) /\ forced_refresh_mode_on[r]]
    /\ IssueForcedRefreshCommands

\* Fault: the flags are computed before the deadlines have moved.
UpdateQueuesFirst ==
    requests' = {Updated(q) : q \in {p \in requests : ~p.request_served}}

\* update_..._queue_commands refresh the flags of the requests that are not
\* served, and clean_queues removes those that are.
UpdateQueues ==
    requests' = {Updated(q)' : q \in {p \in requests : ~p.request_served}}

\* Fault: the records of the past cycle are kept.
UpdateMemoryWithoutReset ==
    /\ CYCLE_VAL' = CYCLE_VAL + 1
    /\ command_issued_current_cycle' = FALSE
    /\ UNCHANGED <<cas_issued_current_cycle, activation_record>>
    /\ UpdateRefresh
    /\ UpdateQueues

UpdateMemory ==
    /\ CYCLE_VAL' = CYCLE_VAL + 1
    /\ command_issued_current_cycle' = FALSE
    /\ cas_issued_current_cycle' = [r \in Ranks |-> [b \in Banks |-> "NONE"]]
    /\ activation_record' = [r \in Ranks |-> 0]
    /\ UpdateRefresh
    /\ UpdateQueues

-----------------------------------------------------------------------------
\* init_memory_controller_vars, after the update_memory of cycle 0
Init ==
    /\ CYCLE_VAL = 0
    /\ state = [r \in Ranks |-> [b \in Banks |-> "IDLE"]]
    /\ active_row = [r \in Ranks |-> [b \in Banks |-> NoRow]]
    /\ next = [r \in Ranks |-> [b \in Banks |-> [k \in Timers |->
                  IF k = "pre" THEN -1 ELSE 0]]]
    /\ command_issued_current_cycle = FALSE
    /\ cas_issued_current_cycle = [r \in Ranks |-> [b \in Banks |-> "NONE"]]
    /\ activation_record = [r \in Ranks |-> 0]
    /\ next_refresh_completion_deadline =
           [r \in Ranks |-> REFRESH_QUOTA * T_REFI]
    /\ refresh_issue_deadline =
           [r \in Ranks |-> IssueDeadline(REFRESH_QUOTA * T_REFI, 0)]
    /\ forced_refresh_mode_on = [r \in Ranks |-> FALSE]
    /\ num_issued_refreshes = [r \in Ranks |-> 0]
    /\ requests = {}

RankCommand(r) ==
    \/ PowerDownFast(r) \/ PowerDownSlow(r) \/ PowerUp(r)
    \/ AllBankPrecharge(r) \/ Refresh(r)

BankCommand(r, b) ==
    \/ Autoprecharge(r, b) \/ Precharge(r, b)
    \/ \E row \in Rows : Activate(r, b, row)

Next ==
    \/ UpdateMemory
    \/ \E n \in Nodes, op \in {"READ", "WRITE"}, r \in Ranks, b \in Banks,
          row \in Rows : Insert(n, op, r, b, row)
    \/ \E q \in requests : IssueRequestCommand(q) \/ Answer(q)
    \/ \E r \in Ranks : RankCommand(r)
    \/ \E r \in Ranks, b \in Banks : BankCommand(r, b)

Spec == Init /\ [][Next]_vars

-----------------------------------------------------------------------------
(* Properties.                                                             *)

\* Every variable holds values of the kind its C declaration is used for.
TypeOK ==
    /\ CYCLE_VAL \in Nat
    /\ state \in [Ranks -> [Banks -> BankStates]]
    /\ active_row \in [Ranks -> [Banks -> Rows \cup {NoRow}]]
    /\ next \in [Ranks -> [Banks -> [Timers -> Int]]]
    /\ command_issued_current_cycle \in BOOLEAN
    /\ cas_issued_current_cycle \in
           [Ranks -> [Banks -> {"NONE", "READ", "WRITE"}]]
    /\ activation_record \in [Ranks -> {0, 1}]
    /\ next_refresh_completion_deadline \in [Ranks -> Int]
    /\ refresh_issue_deadline \in [Ranks -> Int]
    /\ forced_refresh_mode_on \in [Ranks -> BOOLEAN]
    /\ num_issued_refreshes \in [Ranks -> Nat]
    /\ requests \subseteq Request

\* A rank is powered down as a whole, and slow-exit power-down never mixes
\* with another kind.  is_powerup_allowed, issue_refresh_command and
\* gather_stats look at bank 0 only, and a power-up turns every bank that is
\* not in precharge power-down into an open one: both are right only because
\* of this.
PowerStateIsRankWide ==
    \A r \in Ranks, b \in Banks, i \in Banks :
        /\ state[r][b] \in PoweredDown => state[r][i] \in PoweredDown
        /\ state[r][b] = "PRECHARGE_POWER_DOWN_SLOW"
              => state[r][i] = "PRECHARGE_POWER_DOWN_SLOW"

\* A bank has an open row exactly when its state says so, whichever of the
\* eight commands or the forced refresh changed it last: a row hit is decided
\* from active_row, an activation from the state.
OpenRowMatchesState ==
    \A r \in Ranks, b \in Banks :
        active_row[r][b] # NoRow
            <=> state[r][b] \in {"ROW_ACTIVE", "ACTIVE_POWER_DOWN"}

\* Once its forced refreshes have begun, a rank belongs to them until the
\* completion deadline: no command of the scheduler, stale request flag or
\* automatic precharge disturbs a bank or shortens the blackout.
ForcedRefreshHoldsRank ==
    \A r \in Ranks : forced_refresh_mode_on[r] =>
        \A b \in Banks :
            /\ state[r][b] = "REFRESHING"
            /\ active_row[r][b] = NoRow
            /\ \A k \in RefreshTimers :
                  next[r][b][k] = next_refresh_completion_deadline[r]

\* The flags a scheduler reads in a queue were computed at the start of the
\* cycle; as long as the channel still has its command of the cycle to give,
\* they say what recomputing them would say.  The assertions
\* issue_request_command makes on the bank's state rest on it.
FlagsAreCurrent ==
    ~command_issued_current_cycle =>
        \A q \in requests : q.command_issuable =>
            q.next_command = NextCommand(q) /\ CommandIssuable(q)

\* record_activate asserts that its slot is empty: no path issues two
\* activations to a rank in one cycle.
ActivationRecordIsFree ==
    ~command_issued_current_cycle => \A r \in Ranks : activation_record[r] = 0

\* A column access is remembered for an automatic precharge only while its
\* bank still has the row open and the channel's command is spent.  (A part of
\* the inductive invariant.)
CasIsThisCycles ==
    \A r \in Ranks, b \in Banks : cas_issued_current_cycle[r][b] # "NONE" =>
        /\ command_issued_current_cycle
        /\ state[r][b] = "ROW_ACTIVE"

\* No refresh window closes with refreshes missing: by its completion deadline
\* the scheduler has issued the whole quota, or the forced refreshes have run.
\* The deadline is compared for equality and moves as refreshes are issued,
\* so it must never be stepped over.
RefreshQuotaMet ==
    [][\A r \in Ranks : (UpdateMemory /\ WindowEnds(r)) =>
          \/ num_issued_refreshes[r] >= REFRESH_QUOTA
          \/ forced_refresh_mode_on[r]]_vars

\* Forced refreshes do not test any timer.  When they start, an open row may
\* be closed and a rank in power-down has been there long enough to have
\* been woken up: the look-ahead of every other command left them the rank
\* in that state.
ForcedRefreshFindsRankQuiet ==
    [][\A r \in Ranks : (UpdateMemory /\ ForcedRefreshDue(r)) =>
          \A b \in Banks :
             /\ state[r][b] = "ROW_ACTIVE" => CYCLE_VAL' >= next[r][b]["pre"]
             /\ state[r][b] \in PoweredDown =>
                   CYCLE_VAL' >= next[r][b]["powerup"] + T_XP]_vars
=============================================================================
