------------------------ MODULE ControllerStatistics ------------------------
(***************************************************************************)
(* MemoryController with the counters from which the simulator prints its  *)
(* results and calculates the power of every rank: what an issued command  *)
(* adds to them, and what gather_stats adds in every DRAM cycle, after     *)
(* schedule.  The counters never influence the controller.                 *)
(*                                                                         *)
(* Counters that nothing reads are left out, and so are the average        *)
(* latencies.  A counter of a bank that is only used in the sum over the   *)
(* banks is kept for the rank.                                             *)
(***************************************************************************)
EXTENDS MemoryController, Functions

VARIABLES
    num_access,       \* num_access[r][op]: stats_num_read, stats_num_write
    time_terminating, \* time_terminating[r][op]: stats_time_spent_terminating_
                      \* reads_from_other_ranks, .._writes_to_other_ranks
    num_activate_for, \* num_activate_for[why]: stats_num_activate_read, ...
    num_activate,     \* stats_num_activate of the rank
    last_activate,
    sum_of_gaps,      \* average_gap_between_activates times num_activate
    time_spent        \* time_spent[r][mode]: stats_time_spent_in_...

accessStats   == <<num_access, time_terminating>>
activateStats == <<num_activate_for, num_activate, last_activate, sum_of_gaps>>
stats         == <<accessStats, activateStats, time_spent>>
statsVars     == <<vars, stats>>

-----------------------------------------------------------------------------
Operations == {"READ", "WRITE"}
Modes == PoweredDown \cup {"ACTIVE_STANDBY"}

\* Fault: a rank is charged for its own accesses as for those of the others.
CountAccessForAll(r, op) ==
    /\ num_access' = [num_access EXCEPT ![r][op] = @ + 1]
    /\ time_terminating' = [i \in Ranks |->
           [time_terminating[i] EXCEPT ![op] = @ + T_DATA_TRANS]]
    /\ UNCHANGED <<activateStats, time_spent>>

\* A column access of rank r; the other ranks terminate the bus meanwhile.
CountAccess(r, op) ==
    /\ num_access' = [num_access EXCEPT ![r][op] = @ + 1]
    /\ time_terminating' = [i \in Ranks |->
           IF i = r THEN time_terminating[i]
           ELSE [time_terminating[i] EXCEPT ![op] = @ + T_DATA_TRANS]]
    /\ UNCHANGED <<activateStats, time_spent>>

\* Fault: an activation outside the queues is not remembered as the last one.
CountActivateForgetting(r, why) ==
    /\ num_activate_for' = [num_activate_for EXCEPT ![why] = @ + 1]
    /\ num_activate' = [num_activate EXCEPT ![r] = @ + 1]
    /\ sum_of_gaps' =
           [sum_of_gaps EXCEPT ![r] = @ + CYCLE_VAL - last_activate[r]]
    /\ last_activate' = IF why = "SPEC" THEN last_activate
                        ELSE [last_activate EXCEPT ![r] = CYCLE_VAL]
    /\ UNCHANGED <<accessStats, time_spent>>

\* An activation of a row of rank r, for a read, a write, or on speculation.
CountActivate(r, why) ==
    /\ num_activate_for' = [num_activate_for EXCEPT ![why] = @ + 1]
    /\ num_activate' = [num_activate EXCEPT ![r] = @ + 1]
    /\ sum_of_gaps' =
           [sum_of_gaps EXCEPT ![r] = @ + CYCLE_VAL - last_activate[r]]
    /\ last_activate' = [last_activate EXCEPT ![r] = CYCLE_VAL]
    /\ UNCHANGED <<accessStats, time_spent>>

CountIssued(q) ==
    CASE q.next_command \in {"COL_READ", "COL_WRITE"} -> CountAccess(q.rank, q.op)
      [] q.next_command = "ACT" -> CountActivate(q.rank, q.op)
      [] OTHER -> UNCHANGED stats

\* Fault: every open bank adds to the time of its rank.
GatherStatsPerBank ==
    LET Open(r) == {b \in Banks : state[r][b] = "ROW_ACTIVE"}
        InMode(r, m) ==
            IF m = "ACTIVE_STANDBY"
            THEN IF state[r][0] \in PoweredDown \/ Open(r) = {} THEN 0
                 ELSE IF Open(r) = Banks THEN NUM_BANKS ELSE 1
            ELSE IF state[r][0] = m THEN 1 ELSE 0
    IN  /\ time_spent' = [r \in Ranks |-> [m \in Modes |->
               time_spent[r][m] + InMode(r, m)]]
        /\ UNCHANGED <<accessStats, activateStats>>

\* The cycle that ends is charged to the mode of bank 0 if that is powered
\* down, and else to the standby with an open row if there is one.
GatherStats ==
    LET InMode(r, m) ==
            IF m = "ACTIVE_STANDBY"
            THEN /\ state[r][0] \notin PoweredDown
                 /\ \E b \in Banks : state[r][b] = "ROW_ACTIVE"
            ELSE state[r][0] = m
    IN  /\ time_spent' = [r \in Ranks |-> [m \in Modes |->
               IF InMode(r, m) THEN time_spent[r][m] + 1
               ELSE time_spent[r][m]]]
        /\ UNCHANGED <<accessStats, activateStats>>

-----------------------------------------------------------------------------
StatsInit ==
    /\ Init
    /\ num_access = [r \in Ranks |-> [op \in Operations |-> 0]]
    /\ time_terminating = [r \in Ranks |-> [op \in Operations |-> 0]]
    /\ num_activate_for = [why \in Operations \cup {"SPEC"} |-> 0]
    /\ num_activate = [r \in Ranks |-> 0]
    /\ last_activate = [r \in Ranks |-> 0]
    /\ sum_of_gaps = [r \in Ranks |-> 0]
    /\ time_spent = [r \in Ranks |-> [m \in Modes |-> 0]]

\* The calls that no counter in use counts.
Uncounted ==
    \/ \E n \in Nodes, op \in {"READ", "WRITE"}, r \in Ranks, b \in Banks,
          row \in Rows : Insert(n, op, r, b, row)
    \/ \E q \in requests : Answer(q)
    \/ \E r \in Ranks : RankCommand(r)
    \/ \E r \in Ranks, b \in Banks : Autoprecharge(r, b) \/ Precharge(r, b)

\* The loop calls gather_stats after schedule; what the cores do between it
\* and the next update_memory does not change a bank.
StatsNext ==
    \/ UpdateMemory /\ GatherStats
    \/ \E q \in requests : IssueRequestCommand(q) /\ CountIssued(q)
    \/ \E r \in Ranks, b \in Banks, row \in Rows :
          Activate(r, b, row) /\ CountActivate(r, "SPEC")
    \/ Uncounted /\ UNCHANGED stats

StatsSpec == StatsInit /\ [][StatsNext]_statsVars

-----------------------------------------------------------------------------
(* Properties.                                                             *)

\* The four counters of a rank that calculate_power prints as its own and the
\* others' reads and writes.
BusShare(r) ==
    T_DATA_TRANS * (num_access[r]["READ"] + num_access[r]["WRITE"])
        + time_terminating[r]["READ"] + time_terminating[r]["WRITE"]

\* memory_controller.c:1800-1801: the cycles of a rank's own accesses and of those
\* it terminates for other ranks "should be the same for all Ranks on a
\* Channel".
BusShareIsSame == \A r, i \in Ranks : BusShare(r) = BusShare(i)

\* The average gap from which the power of activations follows is the time of
\* the last activation divided by their number, by whichever of the two
\* functions each of them was issued.
GapsReachLastActivate == \A r \in Ranks : sum_of_gaps[r] = last_activate[r]

\* What calculate_power prints as the time in precharge standby.
PrechargeStandby(r) ==
    CYCLE_VAL - time_spent[r]["ACTIVE_STANDBY"]
              - time_spent[r]["PRECHARGE_POWER_DOWN_SLOW"]
              - time_spent[r]["PRECHARGE_POWER_DOWN_FAST"]
              - time_spent[r]["ACTIVE_POWER_DOWN"]

\* A cycle of rank r that ends is charged to what its banks were doing.
ChargedTruly(r) ==
    LET asleep == \A b \in Banks : state[r][b] \in PoweredDown
        awake  == \A b \in Banks : state[r][b] \notin PoweredDown
        closed == \A b \in Banks : active_row[r][b] = NoRow
        slow   == \A b \in Banks : state[r][b] = "PRECHARGE_POWER_DOWN_SLOW"
        Spent(m) == time_spent'[r][m] - time_spent[r][m]
        One(P)   == IF CYCLE_VAL' = CYCLE_VAL + 1 /\ P THEN 1 ELSE 0
    IN  /\ PrechargeStandby(r)' - PrechargeStandby(r) = One(awake /\ closed)
        /\ Spent("ACTIVE_STANDBY") = One(awake /\ ~closed)
        /\ Spent("PRECHARGE_POWER_DOWN_SLOW") = One(slow)
        /\ Spent("ACTIVE_POWER_DOWN") <= One(asleep /\ ~closed)

\* Every cycle is charged to what all banks of the rank are doing, although
\* gather_stats looks at bank 0 and the time in precharge standby is what is
\* left of the total.  Only the line between the two power-downs with a fast
\* exit is drawn by bank 0 alone.
TimesAreTrue == [][\A r \in Ranks : ChargedTruly(r)]_statsVars
=============================================================================
