-------------------------- MODULE ControllerTiming --------------------------
(***************************************************************************)
(* MemoryController with a history of the commands it has issued, read off *)
(* its own state changes, and the claim that this history is one the DRAM  *)
(* devices accept.  The history never influences the controller.           *)
(***************************************************************************)
EXTENDS MemoryController

CONSTANT LongAgo    \* a cycle before every distance the devices ask for

ASSUME LongAgoAssumption ==
    /\ LongAgo \in Int
    /\ \A d \in {0, T_RC, T_RP, T_RRD, T_RAS, T_RCD, T_RTP, T_CCD, T_RTRS,
                T_CWD + T_DATA_TRANS + T_WR, T_CWD + T_DATA_TRANS + T_WTR} :
          LongAgo + d < 0

\* How the distances of one chip relate, as in every file of input/*.vi: what
\* a forced refresh cuts short is over by its end, and what an issued refresh
\* waits for fits into the time its predecessors left.
ASSUME DistanceAssumption ==
    /\ T_RRD <= T_RC
    /\ T_RC <= T_RAS + T_RP + T_RFC
    /\ T_XP <= T_RFC
    /\ T_XP_DLL <= T_RP + T_RFC

VARIABLES last, busy, burst

history    == <<last, busy, burst>>
timingVars == <<vars, history>>

Kinds == {"act", "read", "write", "pre"}

-----------------------------------------------------------------------------
(* The commands a step issues.                                             *)

Opens(r, b)  == active_row[r][b] = NoRow /\ active_row'[r][b] # NoRow
Closes(r, b) == active_row[r][b] # NoRow /\ active_row'[r][b] = NoRow

Reads(r, b)  == /\ cas_issued_current_cycle[r][b] = "NONE"
                /\ cas_issued_current_cycle'[r][b] = "READ"
Writes(r, b) == /\ cas_issued_current_cycle[r][b] = "NONE"
                /\ cas_issued_current_cycle'[r][b] = "WRITE"

Precharges(r, b) == Closes(r, b) /\ state'[r][b] = "PRECHARGING"

Refreshes(r) == num_issued_refreshes'[r] = num_issued_refreshes[r] + 1

\* A rank's power state is its bank 0's.
Wakes(r) == /\ state[r][0] \in PoweredDown
            /\ state'[r][0] \in {"IDLE", "ROW_ACTIVE"}

ForcedRefreshStarts(r) ==
    ~forced_refresh_mode_on[r] /\ forced_refresh_mode_on'[r]

\* A row closed in the cycle of a column access to its bank is closed by an
\* automatic precharge.
PrechargeStart(r, b) ==
    IF cas_issued_current_cycle[r][b] = "NONE" THEN CYCLE_VAL
    ELSE AutoprechargeStart(r, b)

-----------------------------------------------------------------------------
RecordLast ==
    last' = [r \in Ranks |-> [b \in Banks |->
        [act   |-> IF Opens(r, b)      THEN CYCLE_VAL ELSE last[r][b]["act"],
         read  |-> IF Reads(r, b)      THEN CYCLE_VAL ELSE last[r][b]["read"],
         write |-> IF Writes(r, b)     THEN CYCLE_VAL ELSE last[r][b]["write"],
         pre   |-> IF Precharges(r, b) THEN PrechargeStart(r, b)
                   ELSE last[r][b]["pre"]]]]

RecordBusy ==
    busy' = [r \in Ranks |->
        IF ForcedRefreshStarts(r) THEN next_refresh_completion_deadline[r]
        ELSE IF Refreshes(r) THEN CYCLE_VAL + RefreshLead(r) + T_RFC
        ELSE IF Wakes(r) THEN CYCLE_VAL + T_XP
        ELSE busy[r]]

RecordBurst ==
    IF \E r \in Ranks, b \in Banks : Reads(r, b) \/ Writes(r, b)
    THEN \E r \in Ranks, b \in Banks :
            \/ Reads(r, b) /\ burst' = [rank |-> r, kind |-> "read",
                   end |-> CYCLE_VAL + T_CAS + T_DATA_TRANS]
            \/ Writes(r, b) /\ burst' = [rank |-> r, kind |-> "write",
                   end |-> CYCLE_VAL + T_CWD + T_DATA_TRANS]
    ELSE burst' = burst

TimingInit ==
    /\ Init
    /\ last = [r \in Ranks |-> [b \in Banks |-> [c \in Kinds |-> LongAgo]]]
    /\ busy = [r \in Ranks |-> LongAgo]
    /\ burst = [rank |-> 0, kind |-> "read", end |-> LongAgo]

TimingNext == Next /\ RecordLast /\ RecordBusy /\ RecordBurst

TimingSpec == TimingInit /\ [][TimingNext]_timingVars

-----------------------------------------------------------------------------
Device == INSTANCE DramDevice WITH now <- CYCLE_VAL, open <- active_row

\* Every sequence of commands the interface functions let a scheduler issue,
\* with the forced refreshes update_memory inserts, is one the DRAM devices
\* accept: no command comes too early after another of its bank, its rank or
\* the channel, no two bursts meet on the data bus, and a forced refresh
\* never cuts an access short.
IssuesLegalCommands == Device!Spec
=============================================================================
