-------------------------- MODULE ControllerClaims --------------------------
(***************************************************************************)
(* What comments and output texts of the controller say of it, and its     *)
(* code does not do.  TLC refutes each one with a configuration of its     *)
(* own.  The times in the state grow without bound; the code only compares *)
(* them with CYCLE_VAL, so View shows TLC how far ahead of it each one     *)
(* lies (nothing, if it has passed).                                       *)
(***************************************************************************)
EXTENDS MemoryController, TLC

\* memory_controller.c:1027, in is_powerup_allowed: "check if issuing it will
\* cause us to miss the refresh deadline. If it does, don't allow it."  The
\* code compares with the deadline of rank 0, whichever rank is asked about.
PowerUpMeetsRefreshDeadline ==
    [][\A r \in Ranks : PowerUp(r) => FitsBeforeRefresh(r, T_XP)]_vars

\* params.h:103, of T_XP_DLL: "Power UP time slow".  A rank that leaves the
\* slow-exit power-down should not be accessed earlier than T_XP_DLL later.
\* The code has set the bank to IDLE when it tests for the slow state.
SlowExitTakesDll ==
    [][\A r \in Ranks, b \in Banks :
          /\ state[r][b] = "PRECHARGE_POWER_DOWN_SLOW"
          /\ state'[r][b] = "IDLE"
          => next'[r][b]["act"] >= CYCLE_VAL + T_XP_DLL]_vars

\* memory_controller.c:1427, of the refresh that takes T_RFC without T_RP:
\* "everything precharged".  In fast power-down the code decides that from
\* bank 0, and a rank may power down with a row open in another bank.
ShortRefreshOnlyWhenPrecharged ==
    [][\A r \in Ranks :
          (Refresh(r) /\ \E b \in Banks : active_row[r][b] # NoRow) =>
              \A b \in Banks : next'[r][b]["act"] >= CYCLE_VAL + T_RP + T_RFC]_vars

\* memory_controller.c:1833, of the statistic gather_stats counts when bank 0
\* is in this state: "the Rank was in Fast Power Down and all Banks were
\* Precharged".
FastPowerDownMeansPrecharged ==
    \A r \in Ranks : state[r][0] = "PRECHARGE_POWER_DOWN_FAST" =>
        \A b \in Banks : active_row[r][b] = NoRow

-----------------------------------------------------------------------------
CyclesLeft(t) == IF t > CYCLE_VAL THEN t - CYCLE_VAL ELSE 0

View ==
    <<state, active_row, cycleVars, forced_refresh_mode_on,
      num_issued_refreshes, requests,
      [r \in Ranks |-> [b \in Banks |-> [k \in Timers |->
          CyclesLeft(next[r][b][k])]]],
      [r \in Ranks |-> <<CyclesLeft(next_refresh_completion_deadline[r]),
                         CyclesLeft(refresh_issue_deadline[r] + 1)>>]>>

Symmetry == Permutations(Rows)
=============================================================================
