------------------------- MODULE ClosedPageScheduler -------------------------
(***************************************************************************)
(* The repository's other scheduler (scheduler-closed.c), which replaces   *)
(* scheduler.c in a build: the same choice among the queued requests, and  *)
(* in a cycle in which none of them can be issued, a precharge of a bank   *)
(* that has had a column access.  It gives every read to the DRAM.         *)
(***************************************************************************)
EXTENDS Scheduler

VARIABLE recent_colacc    \* recent_colacc[r][b]: the bank is a candidate

closedPageVars == <<schedulerVars, recent_colacc>>

\* Fault: a precharge does not end the candidacy.
CandidatesKept(q) ==
    CASE q.next_command \in {"COL_READ", "COL_WRITE"} ->
             [recent_colacc EXCEPT ![q.rank][q.bank] = 1]
      [] q.next_command = "ACT" ->
             [recent_colacc EXCEPT ![q.rank][q.bank] = 0]
      [] OTHER -> recent_colacc

\* What schedule does to the candidates before it asks for request q.
Candidates(q) ==
    CASE q.next_command \in {"COL_READ", "COL_WRITE"} ->
             [recent_colacc EXCEPT ![q.rank][q.bank] = 1]
      [] q.next_command \in {"ACT", "PRE"} ->
             [recent_colacc EXCEPT ![q.rank][q.bank] = 0]
      [] OTHER -> recent_colacc

\* The banks that may be closed now; the loop takes the first, and the
\* command it issues makes is_precharge_allowed fail for the others.
Closable == {c \in Ranks \X Banks : /\ recent_colacc[c[1]][c[2]] = 1
                                     /\ IsPrechargeAllowed(c[1], c[2])}

IsFirstBank(c) == \A d \in Closable :
    c[1] < d[1] \/ (c[1] = d[1] /\ c[2] <= d[2])

\* issue_precharge_command asks is_precharge_allowed again and refuses if not.
CallPrecharge(c) ==
    IF IsPrechargeAllowed(c[1], c[2])
    THEN /\ call' = "ISSUED"
         /\ Precharge(c[1], c[2])
         /\ recent_colacc' = [recent_colacc EXCEPT ![c[1]][c[2]] = 0]
    ELSE call' = "REFUSED" /\ UNCHANGED <<vars, recent_colacc>>

ClosePage ==
    IF Closable = {} THEN UNCHANGED <<vars, call, recent_colacc>>
    ELSE \E c \in Closable : IsFirstBank(c) /\ CallPrecharge(c)

\* The loop over the banks runs while the channel's command is free.  The call
\* for a picked request spends it, or is refused because it is spent; only a
\* NOP would leave it free, and CallsAreAccepted says that there is none.
ScheduleClosedPage ==
    /\ ~scheduled
    /\ scheduled' = TRUE
    /\ drain_writes' = Draining
    /\ LET ready == Ready(IF Draining THEN Writes ELSE Reads)
       IN  IF ready = {} THEN ClosePage
           ELSE \E q \in ready : /\ IsFirst(q, ready)
                                /\ CallIssue(q)
                                /\ recent_colacc' = Candidates(q)
    /\ UNCHANGED <<order, dedicated, no_dram>>

TickClosedPage == Tick /\ UNCHANGED recent_colacc

-----------------------------------------------------------------------------
\* init_scheduler_vars
ClosedPageInit ==
    /\ SchedulerInit
    /\ recent_colacc = [r \in Ranks |-> [b \in Banks |-> 0]]

ClosedPageNext ==
    \/ ScheduleClosedPage
    \/ TickClosedPage
    \/ \E n \in Nodes, op \in {"READ", "WRITE"}, r \in Ranks, b \in Banks,
          row \in Rows : Arrive(n, op, r, b, row) /\ UNCHANGED recent_colacc

ClosedPageSpec ==
    /\ ClosedPageInit
    /\ [][ClosedPageNext]_closedPageVars
    /\ WF_closedPageVars(TickClosedPage)
    /\ WF_closedPageVars(ScheduleClosedPage)

-----------------------------------------------------------------------------
(* Properties.                                                             *)

\* A candidate for closing has its row open, unless a refresh has closed it:
\* the flag goes with every activation and every precharge of the queues.
CandidateIsOpenOrRefreshed ==
    \A r \in Ranks, b \in Banks : recent_colacc[r][b] = 1 =>
        state[r][b] \in {"ROW_ACTIVE", "REFRESHING"}

\* scheduler-closed.c:9-10: "find a bank that recently serviced a
\* column-rd/wr and close it (precharge it)".  The precharge closes a row;
\* in the code the flag outlives a forced refresh.
PrechargeClosesARow ==
    [][\A r \in Ranks, b \in Banks :
          recent_colacc[r][b] = 1 /\ state'[r][b] = "PRECHARGING"
             => active_row[r][b] # NoRow]_closedPageVars

\* memory_controller.c:795-797 prints a complaint when a read that needs no
\* DRAM access is given a column access.  This scheduler does not answer
\* such a read itself, as the other one does.
NoDramReadsAreAnswered ==
    [][\A q \in requests : (/\ q.node \in no_dram
                            /\ q.next_command = "COL_READ"
                            /\ ~q.request_served)
          => \A t \in requests' : t.node = q.node /\ t.request_served
                => ~command_issued_current_cycle']_closedPageVars
=============================================================================
