---------------------------- MODULE MCSchedulers ----------------------------
(***************************************************************************)
(* TLC instance of both schedulers: a behaviour is one of the build with   *)
(* scheduler.c or of the build with scheduler-closed.c.  As in             *)
(* MCControllerTiming, View shows TLC the times of the state as distances  *)
(* from CYCLE_VAL.                                                         *)
(***************************************************************************)
EXTENDS ClosedPageScheduler, TLC

VARIABLE closed_page    \* the build has scheduler-closed.c

buildVars == <<closedPageVars, closed_page>>

BuildInit == ClosedPageInit /\ closed_page \in BOOLEAN

BuildSchedule ==
    /\ \/ ~closed_page /\ Schedule /\ UNCHANGED recent_colacc
       \/ closed_page /\ ScheduleClosedPage
    /\ UNCHANGED closed_page

BuildTick == TickClosedPage /\ UNCHANGED closed_page

FreeNodes == Nodes \ {q.node : q \in requests}

\* Which of the free nodes a new request takes makes no difference.
BuildArrive ==
    /\ FreeNodes # {}
    /\ \E op \in {"READ", "WRITE"}, r \in Ranks, b \in Banks, row \in Rows :
          Arrive(CHOOSE n \in FreeNodes : TRUE, op, r, b, row)
    /\ UNCHANGED <<recent_colacc, closed_page>>

BuildNext == BuildTick \/ BuildSchedule \/ BuildArrive

BuildSpec ==
    /\ BuildInit
    /\ [][BuildNext]_buildVars
    /\ WF_buildVars(BuildTick)
    /\ WF_buildVars(BuildSchedule)

CyclesLeft(t) == IF t > CYCLE_VAL THEN t - CYCLE_VAL ELSE 0

View ==
    <<state, active_row, cycleVars, forced_refresh_mode_on,
      num_issued_refreshes, requests, order, drain_writes, scheduled,
      dedicated, no_dram, call, recent_colacc, closed_page,
      [r \in Ranks |-> [b \in Banks |-> [k \in Timers |->
          CyclesLeft(next[r][b][k])]]],
      [r \in Ranks |-> <<CyclesLeft(next_refresh_completion_deadline[r]),
                         CyclesLeft(refresh_issue_deadline[r] + 1)>>]>>
=============================================================================
