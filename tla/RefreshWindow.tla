---------------------------- MODULE RefreshWindow ----------------------------
(***************************************************************************)
(* The refresh bookkeeping of one rank with the widths the code gives it:  *)
(* next_refresh_completion_deadline is as wide as CYCLE_VAL, but           *)
(* refresh_issue_deadline is an int (memory_controller.h:116).             *)
(* MemoryController counts without a bound instead.                        *)
(*                                                                         *)
(* Time is counted in processor cycles here, and update_memory is called   *)
(* in each of them; the multiplier of the DRAM clock changes nothing.      *)
(***************************************************************************)
EXTENDS Integers

CONSTANTS T_REFI, T_RFC, T_RP,
          REFRESH_QUOTA,    \* 8 in the code
          HALF_RANGE,       \* 2^31: an int is in -HALF_RANGE .. HALF_RANGE - 1
          LAST_CYCLE        \* a bound for the exploration

VARIABLES CYCLE_VAL, next_refresh_completion_deadline, refresh_issue_deadline,
          forced_refresh_mode_on, num_issued_refreshes

windowVars == <<next_refresh_completion_deadline, refresh_issue_deadline,
                forced_refresh_mode_on, num_issued_refreshes>>
vars == <<CYCLE_VAL, windowVars>>

-----------------------------------------------------------------------------
\* The conversion of a long long to an int.
AsInt(x) == ((x + HALF_RANGE) % (2 * HALF_RANGE)) - HALF_RANGE

IssueDeadline(completion, n) ==
    AsInt(completion - T_RP - (REFRESH_QUOTA - n) * T_RFC)

Init ==
    /\ CYCLE_VAL = 0
    /\ next_refresh_completion_deadline = REFRESH_QUOTA * T_REFI
    /\ refresh_issue_deadline = IssueDeadline(REFRESH_QUOTA * T_REFI, 0)
    /\ forced_refresh_mode_on = FALSE
    /\ num_issued_refreshes = 0

\* issue_refresh_command; the timers it waits for are left open, and no more
\* refreshes than the quota are made, which bounds their number.
Refresh ==
    /\ ~forced_refresh_mode_on
    /\ num_issued_refreshes < REFRESH_QUOTA
    /\ num_issued_refreshes' = num_issued_refreshes + 1
    /\ UNCHANGED <<CYCLE_VAL, next_refresh_completion_deadline,
                   refresh_issue_deadline, forced_refresh_mode_on>>

WindowEnds == CYCLE_VAL' = next_refresh_completion_deadline

DeadlineReached ==
    CYCLE_VAL' = refresh_issue_deadline /\ num_issued_refreshes < REFRESH_QUOTA

NewWindow ==
    LET completion == CYCLE_VAL' + REFRESH_QUOTA * T_REFI
    IN  /\ num_issued_refreshes' = 0
        /\ next_refresh_completion_deadline' = completion
        /\ refresh_issue_deadline' = IssueDeadline(completion, 0)
        /\ forced_refresh_mode_on' = FALSE

ForcedRefreshes ==
    /\ forced_refresh_mode_on' = TRUE
    /\ UNCHANGED <<next_refresh_completion_deadline, refresh_issue_deadline,
                   num_issued_refreshes>>

MoveDeadline ==
    /\ refresh_issue_deadline' =
           IF CYCLE_VAL' < refresh_issue_deadline
           THEN IssueDeadline(next_refresh_completion_deadline,
                              num_issued_refreshes)
           ELSE refresh_issue_deadline
    /\ UNCHANGED <<next_refresh_completion_deadline, forced_refresh_mode_on,
                   num_issued_refreshes>>

\* update_memory, as far as it concerns the window
UpdateMemory ==
    /\ CYCLE_VAL < LAST_CYCLE
    /\ CYCLE_VAL' = CYCLE_VAL + 1
    /\ \/ WindowEnds /\ NewWindow
       \/ ~WindowEnds /\ DeadlineReached /\ ForcedRefreshes
       \/ ~WindowEnds /\ ~DeadlineReached /\ MoveDeadline

Next == UpdateMemory \/ Refresh

Spec == Init /\ [][Next]_vars

-----------------------------------------------------------------------------
(* Properties.                                                             *)

\* memory_controller.c:1584-1585, in update_memory: "refresh_issue_deadline has
\* been reached. Do the auto-refreshes".  No window ends with refreshes missing.
\* In the code the deadline is an int, so that it wraps around after 2^31
\* cycles, is never reached again, and every look ahead to it fails.
DeadlineIsReached ==
    [][CYCLE_VAL' = CYCLE_VAL + 1 /\ WindowEnds =>
          forced_refresh_mode_on \/ num_issued_refreshes >= REFRESH_QUOTA]_vars
=============================================================================
