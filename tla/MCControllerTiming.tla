------------------------- MODULE MCControllerTiming -------------------------
(***************************************************************************)
(* TLC instance of ControllerTiming and ControllerStatistics together.     *)
(* CYCLE_VAL and every time kept in the state grow without bound, but the  *)
(* code only ever compares them with CYCLE_VAL: two states whose times lie *)
(* equally far ahead of it, or both behind it, behave alike.  View shows   *)
(* TLC those distances.  The counters grow as well; what the invariants    *)
(* say of them are differences, which View shows, and the action           *)
(* properties look at what a step adds to them.                            *)
(***************************************************************************)
EXTENDS ControllerTiming, ControllerStatistics, TLC

ObservedVars == <<timingVars, stats>>

ObservedInit == TimingInit /\ StatsInit

ObservedNext == StatsNext /\ RecordLast /\ RecordBusy /\ RecordBurst

ObservedSpec == ObservedInit /\ [][ObservedNext]_ObservedVars

Past == -100

CyclesLeft(t) == IF t > CYCLE_VAL THEN t - CYCLE_VAL ELSE 0

\* The longest distance the devices ask for after a command of this kind.
Gap(c) == CASE c = "act"   -> T_RC
            [] c = "read"  -> Later(T_RTP, T_CCD)
            [] c = "write" -> T_CWD + T_DATA_TRANS + Later(T_WR, T_WTR)
            [] c = "pre"   -> T_RP

View ==
    <<state, active_row, cycleVars, forced_refresh_mode_on,
      num_issued_refreshes, requests,
      [r \in Ranks |-> [b \in Banks |-> [k \in Timers |->
          CyclesLeft(next[r][b][k])]]],
      [r \in Ranks |-> <<CyclesLeft(next_refresh_completion_deadline[r]),
                         CyclesLeft(refresh_issue_deadline[r] + 1),
                         CyclesLeft(busy[r])>>],
      [r \in Ranks |-> [b \in Banks |-> [c \in Kinds |->
          CyclesLeft(last[r][b][c] + Gap(c))]]],
      burst.rank, burst.kind, CyclesLeft(burst.end + T_RTRS),
      [r \in Ranks |-> <<BusShare(r) - BusShare(0),
                         sum_of_gaps[r] - last_activate[r]>>]>>

Symmetry == Permutations(Rows) \cup Permutations(Nodes)
=============================================================================
