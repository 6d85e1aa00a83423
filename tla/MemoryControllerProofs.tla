----------------------- MODULE MemoryControllerProofs -----------------------
(***************************************************************************)
(* Theorems about MemoryController, for every number of ranks, banks and   *)
(* rows, every set of timing parameters and every refresh quota.           *)
(***************************************************************************)
EXTENDS MemoryController, TLAPS

-----------------------------------------------------------------------------
(* Facts about the parameters and the timers.                              *)

\* Every timing parameter is a natural number.
LEMMA Times ==
    /\ T_RCD \in Nat /\ T_RP \in Nat /\ T_CAS \in Nat /\ T_RAS \in Nat
    /\ T_RC \in Nat /\ T_CWD \in Nat /\ T_WR \in Nat /\ T_WTR \in Nat
    /\ T_RTRS \in Nat /\ T_DATA_TRANS \in Nat /\ T_RTP \in Nat
    /\ T_CCD \in Nat /\ T_XP \in Nat /\ T_XP_DLL \in Nat /\ T_PD_MIN \in Nat
    /\ T_RRD \in Nat /\ T_REFI \in Nat /\ T_RFC \in Nat
    /\ REFRESH_QUOTA \in Nat /\ REFRESH_QUOTA > 0 /\ T_RP > 0
    BY TimingAssumption, RefreshAssumption

\* Ranks and banks are numbered from 0, and there is a bank 0.
LEMMA Indices == 0 \in Ranks /\ 0 \in Banks
    BY SizeAssumption DEF Ranks, Banks

\* Moving timers back gives timers.
LEMMA DeferredType ==
    ASSUME NEW t \in [Timers -> Int], NEW cmds, NEW c \in Int
    PROVE  Deferred(t, cmds, c) \in [Timers -> Int]
    BY DEF Deferred, Later

\* A timer that is not named keeps its value.
LEMMA DeferredOther ==
    ASSUME NEW t, NEW cmds, NEW c, NEW k \in Timers, k \notin cmds
    PROVE  Deferred(t, cmds, c)[k] = t[k]
    BY DEF Deferred

\* An issue deadline is a number.
LEMMA IssueDeadlineType ==
    ASSUME NEW c \in Int, NEW n \in Nat
    PROVE  IssueDeadline(c, n) \in Int
    BY Times DEF IssueDeadline

-----------------------------------------------------------------------------
(* Type correctness.                                                       *)

BanksTyped ==
    /\ state \in [Ranks -> [Banks -> BankStates]]
    /\ active_row \in [Ranks -> [Banks -> Rows \cup {NoRow}]]
    /\ next \in [Ranks -> [Banks -> [Timers -> Int]]]

CycleTyped ==
    /\ command_issued_current_cycle \in BOOLEAN
    /\ cas_issued_current_cycle \in
           [Ranks -> [Banks -> {"NONE", "READ", "WRITE"}]]
    /\ activation_record \in [Ranks -> {0, 1}]

RefreshTyped ==
    /\ next_refresh_completion_deadline \in [Ranks -> Int]
    /\ refresh_issue_deadline \in [Ranks -> Int]
    /\ forced_refresh_mode_on \in [Ranks -> BOOLEAN]
    /\ num_issued_refreshes \in [Ranks -> Nat]

LEMMA TypeOKParts ==
    TypeOK <=> /\ CYCLE_VAL \in Nat
               /\ BanksTyped
               /\ CycleTyped
               /\ RefreshTyped
               /\ requests \subseteq Request
    BY DEF TypeOK, BanksTyped, CycleTyped, RefreshTyped

LEMMA OpenRowType ==
    ASSUME TypeOK, NEW r \in Ranks, NEW b \in Banks, NEW row \in Rows,
           OpenRow(r, b, row)
    PROVE  BanksTyped' /\ CycleTyped'
  <1>1. state' \in [Ranks -> [Banks -> BankStates]]
    BY DEF TypeOK, OpenRow, BankStates
  <1>2. active_row' \in [Ranks -> [Banks -> Rows \cup {NoRow}]]
    BY DEF TypeOK, OpenRow
  <1>3. next' \in [Ranks -> [Banks -> [Timers -> Int]]]
    <2>1. /\ CYCLE_VAL + T_RAS \in Int /\ CYCLE_VAL + T_RCD \in Int
          /\ CYCLE_VAL + T_RC \in Int /\ CYCLE_VAL + T_RRD \in Int
      BY Times DEF TypeOK
    <2>2. ASSUME NEW i \in Banks PROVE next[r][i] \in [Timers -> Int]
      BY DEF TypeOK
    <2> DEFINE Row == [i \in Banks |->
             IF i = b
             THEN Deferred(Deferred(Deferred(next[r][i],
                    {"pre", "refresh"},             CYCLE_VAL + T_RAS),
                    {"read", "write", "powerdown"}, CYCLE_VAL + T_RCD),
                    {"act"},                        CYCLE_VAL + T_RC)
             ELSE Deferred(next[r][i], {"act"}, CYCLE_VAL + T_RRD)]
    <2>3. Row \in [Banks -> [Timers -> Int]]
      BY <2>1, <2>2, DeferredType
    <2>4. next' = [next EXCEPT ![r] = Row]
      BY DEF OpenRow
    <2> QED
      BY <2>3, <2>4 DEF TypeOK
  <1>4. CycleTyped'
    BY DEF TypeOK, OpenRow, CycleTyped
  <1> QED
    BY <1>1, <1>2, <1>3, <1>4 DEF BanksTyped

LEMMA ColumnAccessType ==
    ASSUME TypeOK, NEW r \in Ranks, NEW b \in Banks,
           NEW kind \in {"READ", "WRITE"},
           NEW rs \in Int, NEW ro \in Int, NEW ws \in Int, NEW wo \in Int,
           NEW close \in Int,
           ColumnAccess(r, b, kind, rs, ro, ws, wo, close)
    PROVE  BanksTyped' /\ CycleTyped'
  <1> DEFINE OnBus(i, t) ==
          Deferred(Deferred(t, {"read"},  CYCLE_VAL + IF i = r THEN rs ELSE ro),
                               {"write"}, CYCLE_VAL + IF i = r THEN ws ELSE wo)
             Bank(i, j) ==
          IF i = r /\ j = b
          THEN Deferred(OnBus(i, next[i][j]), {"pre", "refresh", "powerdown"},
                        CYCLE_VAL + close)
          ELSE OnBus(i, next[i][j])
  <1>1. ASSUME NEW i \in Ranks, NEW j \in Banks
        PROVE  Bank(i, j) \in [Timers -> Int]
    <2>1. next[i][j] \in [Timers -> Int]
      BY DEF TypeOK
    <2>2. /\ CYCLE_VAL + close \in Int
          /\ CYCLE_VAL + (IF i = r THEN rs ELSE ro) \in Int
          /\ CYCLE_VAL + (IF i = r THEN ws ELSE wo) \in Int
      BY DEF TypeOK
    <2>3. OnBus(i, next[i][j]) \in [Timers -> Int]
      BY <2>1, <2>2, DeferredType
    <2> QED
      BY <2>2, <2>3, DeferredType
  <1>2. next' = [i \in Ranks |-> [j \in Banks |-> Bank(i, j)]]
    BY DEF ColumnAccess
  <1>3. next' \in [Ranks -> [Banks -> [Timers -> Int]]]
    BY <1>1, <1>2
  <1> QED
    BY <1>3 DEF ColumnAccess, TypeOK, BanksTyped, CycleTyped

LEMMA ColumnReadType ==
    ASSUME TypeOK, NEW r \in Ranks, NEW b \in Banks, ColumnRead(r, b)
    PROVE  BanksTyped' /\ CycleTyped'
  <1>1. /\ Later(T_CCD, T_DATA_TRANS) \in Int
        /\ T_DATA_TRANS + T_RTRS \in Int
        /\ T_CAS + T_DATA_TRANS + T_RTRS - T_CWD \in Int
        /\ T_RTP \in Int
    BY Times DEF Later
  <1> QED
    BY <1>1, ColumnAccessType DEF ColumnRead

LEMMA ColumnWriteType ==
    ASSUME TypeOK, NEW r \in Ranks, NEW b \in Banks, ColumnWrite(r, b)
    PROVE  BanksTyped' /\ CycleTyped'
  <1>1. /\ Later(T_CCD, T_DATA_TRANS) \in Int
        /\ T_DATA_TRANS + T_RTRS \in Int
        /\ T_CWD + T_DATA_TRANS + T_WTR \in Int
        /\ T_CWD + T_DATA_TRANS + T_RTRS - T_CAS \in Int
        /\ T_CWD + T_DATA_TRANS + T_WR \in Int
    BY Times DEF Later
  <1> QED
    BY <1>1, ColumnAccessType DEF ColumnWrite

LEMMA CloseRowsType ==
    ASSUME TypeOK, NEW r \in Ranks, NEW bs, CloseRows(r, bs)
    PROVE  BanksTyped' /\ CycleTyped'
  <1>1. ASSUME NEW b \in Banks
        PROVE  (IF b \in bs
                THEN Deferred(next[r][b], RefreshTimers, CYCLE_VAL + T_RP)
                ELSE next[r][b]) \in [Timers -> Int]
    <2>1. next[r][b] \in [Timers -> Int] /\ CYCLE_VAL + T_RP \in Int
      BY Times DEF TypeOK
    <2> QED
      BY <2>1, DeferredType
  <1>2. next' \in [Ranks -> [Banks -> [Timers -> Int]]]
    BY <1>1 DEF CloseRows, TypeOK
  <1>3. state' \in [Ranks -> [Banks -> BankStates]]
    BY DEF CloseRows, TypeOK, BankStates, Closed
  <1> QED
    BY <1>2, <1>3 DEF CloseRows, TypeOK, BanksTyped, CycleTyped

LEMMA WakeRankType ==
    ASSUME TypeOK, NEW r \in Ranks, WakeRank(r)
    PROVE  BanksTyped' /\ CycleTyped'
  <1> DEFINE woken == [b \in Banks |-> IF state[r][b] \in PrechargePowerDown
                                       THEN "IDLE" ELSE "ROW_ACTIVE"]
             exit(b) == IF woken[b] = "PRECHARGE_POWER_DOWN_SLOW"
                        THEN T_XP_DLL ELSE T_XP
             Row == [b \in Banks |->
                        Deferred(next[r][b], WakeTimers, CYCLE_VAL + exit(b))]
  <1>1. woken \in [Banks -> BankStates]
    BY DEF BankStates, Closed
  <1>2. ASSUME NEW b \in Banks
        PROVE  Row[b] \in [Timers -> Int]
    <2>1. exit(b) \in Int
      BY Times
    <2>2. next[r][b] \in [Timers -> Int] /\ CYCLE_VAL + exit(b) \in Int
      BY <2>1 DEF TypeOK
    <2> HIDE DEF exit
    <2> QED
      BY <2>2, DeferredType
  <1>3. Row \in [Banks -> [Timers -> Int]]
    BY <1>2
  <1>4. state' = [state EXCEPT ![r] = woken] /\ next' = [next EXCEPT ![r] = Row]
    BY DEF WakeRank
  <1> HIDE DEF woken, Row
  <1>5. /\ state' \in [Ranks -> [Banks -> BankStates]]
        /\ next' \in [Ranks -> [Banks -> [Timers -> Int]]]
    BY <1>1, <1>3, <1>4 DEF TypeOK
  <1> QED
    BY <1>5 DEF WakeRank, TypeOK, BanksTyped, CycleTyped

LEMMA PowerDownType ==
    ASSUME TypeOK, NEW r \in Ranks, NEW low \in PrechargePowerDown,
           PowerDown(r, low)
    PROVE  BanksTyped' /\ CycleTyped'
  <1> DEFINE Bank(b) == [Deferred(next[r][b], {"refresh"}, CYCLE_VAL + T_PD_MIN)
                 EXCEPT !["powerup"] = Later(CYCLE_VAL + T_PD_MIN,
                                             next[r][b]["powerdown"])]
  <1>1. ASSUME NEW b \in Banks
        PROVE  Bank(b) \in [Timers -> Int]
    <2>1. next[r][b] \in [Timers -> Int] /\ CYCLE_VAL + T_PD_MIN \in Int
      BY Times DEF TypeOK
    <2>2. Later(CYCLE_VAL + T_PD_MIN, next[r][b]["powerdown"]) \in Int
      BY <2>1 DEF Later, Timers
    <2>3. Deferred(next[r][b], {"refresh"}, CYCLE_VAL + T_PD_MIN)
              \in [Timers -> Int]
      BY <2>1, DeferredType
    <2> QED
      BY <2>2, <2>3
  <1>2. next' = [next EXCEPT ![r] = [b \in Banks |-> Bank(b)]]
    BY DEF PowerDown
  <1> HIDE DEF Bank
  <1>3. next' \in [Ranks -> [Banks -> [Timers -> Int]]]
    BY <1>1, <1>2 DEF TypeOK
  <1>4. state' \in [Ranks -> [Banks -> BankStates]]
    BY DEF PowerDown, TypeOK, BankStates, PoweredDown
  <1> QED
    BY <1>3, <1>4 DEF PowerDown, TypeOK, BanksTyped, CycleTyped

LEMMA AutoprechargeType ==
    ASSUME TypeOK, NEW r \in Ranks, NEW b \in Banks, Autoprecharge(r, b)
    PROVE  BanksTyped' /\ CycleTyped'
  <1>1. AutoprechargeStart(r, b) + T_RP \in Int
    BY Times DEF AutoprechargeStart, Later, TypeOK, Timers
  <1>2. Deferred(next[r][b], RefreshTimers, AutoprechargeStart(r, b) + T_RP)
            \in [Timers -> Int]
    BY <1>1, DeferredType, ZenonT(60) DEF TypeOK
  <1>3. next' \in [Ranks -> [Banks -> [Timers -> Int]]]
    BY <1>2 DEF Autoprecharge, TypeOK
  <1>4. state' \in [Ranks -> [Banks -> BankStates]]
    BY DEF Autoprecharge, TypeOK, BankStates, Closed
  <1> QED
    BY <1>3, <1>4 DEF Autoprecharge, TypeOK, BanksTyped, CycleTyped

LEMMA RefreshType ==
    ASSUME TypeOK, NEW r \in Ranks, Refresh(r)
    PROVE  BanksTyped' /\ CycleTyped' /\ RefreshTyped'
  <1>1. RefreshLead(r) \in Int
    BY Times DEF RefreshLead
  <1>2. ASSUME NEW b \in Banks
        PROVE  Deferred(next[r][b], RefreshTimers,
                        CYCLE_VAL + RefreshLead(r) + T_RFC) \in [Timers -> Int]
    <2>1. next[r][b] \in [Timers -> Int]
      BY DEF TypeOK
    <2>2. CYCLE_VAL + RefreshLead(r) + T_RFC \in Int
      BY <1>1, Times DEF TypeOK
    <2> QED
      BY <2>1, <2>2, DeferredType
  <1>3. next' \in [Ranks -> [Banks -> [Timers -> Int]]]
    BY <1>2 DEF Refresh, TypeOK
  <1>4. state' \in [Ranks -> [Banks -> BankStates]]
    BY DEF Refresh, TypeOK, BankStates, Closed
  <1>5. BanksTyped' /\ CycleTyped'
    BY <1>3, <1>4 DEF Refresh, TypeOK, BanksTyped, CycleTyped
  <1>6. RefreshTyped'
    BY DEF Refresh, TypeOK, RefreshTyped
  <1> QED
    BY <1>5, <1>6

LEMMA UpdateRefreshType ==
    ASSUME TypeOK, UpdateRefresh
    PROVE  BanksTyped' /\ RefreshTyped'
  <1>1. next' \in [Ranks -> [Banks -> [Timers -> Int]]]
    BY DEF UpdateRefresh, IssueForcedRefreshCommands, TypeOK
  <1>2. state' \in [Ranks -> [Banks -> BankStates]]
    BY DEF UpdateRefresh, IssueForcedRefreshCommands, TypeOK, BankStates, Closed
  <1>3. active_row' \in [Ranks -> [Banks -> Rows \cup {NoRow}]]
    BY DEF UpdateRefresh, IssueForcedRefreshCommands, TypeOK
  <1>4. /\ num_issued_refreshes' \in [Ranks -> Nat]
        /\ forced_refresh_mode_on' \in [Ranks -> BOOLEAN]
    BY DEF UpdateRefresh, IssueForcedRefreshCommands, TypeOK
  <1>5. REFRESH_QUOTA * T_REFI \in Int
    BY Times
  <1>6. next_refresh_completion_deadline' \in [Ranks -> Int]
    BY <1>5 DEF UpdateRefresh, IssueForcedRefreshCommands, TypeOK
  <1>7. ASSUME NEW r \in Ranks
        PROVE  AdvanceDeadlines(r) \in Int
    BY <1>6, IssueDeadlineType DEF AdvanceDeadlines, TypeOK
  <1>8. refresh_issue_deadline' \in [Ranks -> Int]
    BY <1>7 DEF UpdateRefresh, IssueForcedRefreshCommands
  <1> QED
    BY <1>1, <1>2, <1>3, <1>4, <1>6, <1>8 DEF BanksTyped, RefreshTyped

LEMMA UpdatedType ==
    ASSUME NEW q \in Request
    PROVE  Updated(q)' \in Request
  <1>1. NextCommand(q)' \in Commands
    BY DEF NextCommand, Commands
  <1>2. CommandIssuable(q)' \in BOOLEAN
    BY DEF CommandIssuable
  <1> QED
    BY <1>1, <1>2 DEF Updated, Request

LEMMA InitType == Init => TypeOK
  <1> SUFFICES ASSUME Init PROVE TypeOK
    OBVIOUS
  <1>1. REFRESH_QUOTA * T_REFI \in Int
    BY Times
  <1>2. IssueDeadline(REFRESH_QUOTA * T_REFI, 0) \in Int
    BY <1>1, IssueDeadlineType
  <1> QED
    <2>1. BanksTyped
      BY DEF Init, BanksTyped, BankStates, Closed
    <2>2. CycleTyped
      BY DEF Init, CycleTyped
    <2>3. RefreshTyped
      BY <1>1, <1>2 DEF Init, RefreshTyped
    <2>4. CYCLE_VAL \in Nat /\ requests \subseteq Request
      BY DEF Init
    <2> QED
      BY <2>1, <2>2, <2>3, <2>4, TypeOKParts

\* Setting request_served of a request gives a request.
LEMMA ServedType ==
    ASSUME NEW q \in Request, NEW v \in BOOLEAN
    PROVE  [q EXCEPT !.request_served = v] \in Request
    BY DEF Request

\* An issued request stays a request.
LEMMA IssueRequestType ==
    ASSUME TypeOK, NEW q \in requests, IssueRequestCommand(q)
    PROVE  TypeOK'
  <1>1. q \in Request /\ q.rank \in Ranks /\ q.bank \in Banks /\ q.row \in Rows
    BY DEF TypeOK, Request
  <1>2. BanksTyped' /\ CycleTyped'
    BY <1>1, OpenRowType, ColumnReadType, ColumnWriteType, CloseRowsType,
       WakeRankType DEF IssueRequestCommand
  <1>3. requests' \subseteq Request
    <2>1. (\/ q.request_served
           \/ q.next_command \in {"COL_READ", "COL_WRITE"}) \in BOOLEAN
      OBVIOUS
    <2>2. [q EXCEPT !.request_served =
               @ \/ q.next_command \in {"COL_READ", "COL_WRITE"}] \in Request
      BY <1>1, <2>1, ServedType
    <2> QED
      BY <2>2 DEF IssueRequestCommand, TypeOK
  <1>4. RefreshTyped' /\ CYCLE_VAL' \in Nat
    BY DEF IssueRequestCommand, TypeOK, RefreshTyped, refreshVars
  <1> QED
    BY <1>2, <1>3, <1>4 DEF TypeOK, BanksTyped, CycleTyped, RefreshTyped

\* The other commands leave the queues and the refresh bookkeeping alone.
LEMMA UnqueuedType ==
    ASSUME TypeOK, Unqueued, BanksTyped', CycleTyped'
    PROVE  TypeOK'
    BY DEF Unqueued, TypeOK, BanksTyped, CycleTyped, refreshVars

LEMMA RankCommandType ==
    ASSUME TypeOK, NEW r \in Ranks, RankCommand(r)
    PROVE  TypeOK'
  <1>1. CASE PowerDownFast(r)
    <2>1. PowerDown(r, "PRECHARGE_POWER_DOWN_FAST")
      BY <1>1 DEF PowerDownFast
    <2>2. Unqueued
      BY <2>1 DEF PowerDown
    <2> QED
      BY <2>1, <2>2, PowerDownType, UnqueuedType DEF PrechargePowerDown
  <1>2. CASE PowerDownSlow(r)
    <2>1. PowerDown(r, "PRECHARGE_POWER_DOWN_SLOW")
      BY <1>2 DEF PowerDownSlow
    <2>2. Unqueued
      BY <2>1 DEF PowerDown
    <2> QED
      BY <2>1, <2>2, PowerDownType, UnqueuedType DEF PrechargePowerDown
  <1>3. CASE PowerUp(r)
    BY <1>3, WakeRankType, UnqueuedType DEF PowerUp
  <1>4. CASE AllBankPrecharge(r)
    BY <1>4, CloseRowsType, UnqueuedType DEF AllBankPrecharge
  <1>5. CASE Refresh(r)
    <2>1. BanksTyped' /\ CycleTyped' /\ RefreshTyped'
      BY <1>5, RefreshType
    <2>2. requests' \subseteq Request /\ CYCLE_VAL' \in Nat
      BY <1>5 DEF Refresh, TypeOK
    <2> QED
      BY <2>1, <2>2 DEF TypeOK, BanksTyped, CycleTyped, RefreshTyped
  <1> QED
    BY <1>1, <1>2, <1>3, <1>4, <1>5 DEF RankCommand

LEMMA BankCommandType ==
    ASSUME TypeOK, NEW r \in Ranks, NEW b \in Banks, BankCommand(r, b)
    PROVE  TypeOK'
  <1>1. CASE Autoprecharge(r, b)
    <2>1. Unqueued
      BY <1>1 DEF Autoprecharge
    <2> QED
      BY <1>1, <2>1, AutoprechargeType, UnqueuedType
  <1>2. CASE Precharge(r, b)
    BY <1>2, CloseRowsType, UnqueuedType DEF Precharge
  <1>3. ASSUME NEW row \in Rows, Activate(r, b, row)
        PROVE  TypeOK'
    BY <1>3, OpenRowType, UnqueuedType DEF Activate
  <1> QED
    BY <1>1, <1>2, <1>3 DEF BankCommand

LEMMA UpdateMemoryType ==
    ASSUME TypeOK, UpdateMemory
    PROVE  TypeOK'
  <1>1. BanksTyped' /\ RefreshTyped'
    BY UpdateRefreshType DEF UpdateMemory
  <1>2. CycleTyped' /\ CYCLE_VAL' \in Nat
    <2>1. /\ command_issued_current_cycle' = FALSE
          /\ cas_issued_current_cycle' =
                 [r \in Ranks |-> [b \in Banks |-> "NONE"]]
          /\ activation_record' = [r \in Ranks |-> 0]
          /\ CYCLE_VAL' = CYCLE_VAL + 1
      BY DEF UpdateMemory
    <2>2. CYCLE_VAL' \in Nat
      BY <2>1 DEF TypeOK
    <2>3. cas_issued_current_cycle' \in
              [Ranks -> [Banks -> {"NONE", "READ", "WRITE"}]]
      BY <2>1
    <2>4. activation_record' \in [Ranks -> {0, 1}]
      BY <2>1
    <2> QED
      BY <2>1, <2>2, <2>3, <2>4 DEF CycleTyped
  <1>3. requests' \subseteq Request
    BY UpdatedType DEF UpdateMemory, UpdateQueues, TypeOK
  <1> QED
    BY <1>1, <1>2, <1>3 DEF TypeOK, BanksTyped, CycleTyped, RefreshTyped

\* An answered read stays a request.
LEMMA AnswerType ==
    ASSUME TypeOK, NEW q \in requests, Answer(q)
    PROVE  TypeOK'
  <1>1. [q EXCEPT !.request_served = TRUE] \in Request
    BY ServedType DEF TypeOK
  <1>2. requests' \subseteq Request
    BY <1>1 DEF Answer, TypeOK
  <1> QED
    BY <1>2 DEF Answer, TypeOK, bankVars, cycleVars, refreshVars

LEMMA NextType == TypeOK /\ [Next]_vars => TypeOK'
  <1> SUFFICES ASSUME TypeOK, [Next]_vars PROVE TypeOK'
    OBVIOUS
  <1>1. CASE UpdateMemory
    BY <1>1, UpdateMemoryType
  <1>2. ASSUME NEW n \in Nodes, NEW op \in {"READ", "WRITE"}, NEW r \in Ranks,
               NEW b \in Banks, NEW row \in Rows, Insert(n, op, r, b, row)
        PROVE  TypeOK'
    <2>1. [node |-> n, op |-> op, rank |-> r, bank |-> b, row |-> row,
           next_command |-> "NOP", command_issuable |-> FALSE,
           request_served |-> FALSE] \in Request
      BY DEF Request, Commands
    <2>2. requests' \subseteq Request
      BY <1>2, <2>1 DEF Insert, TypeOK
    <2> QED
      BY <1>2, <2>2
         DEF Insert, TypeOK, bankVars, cycleVars, refreshVars
  <1>3. ASSUME NEW q \in requests, IssueRequestCommand(q)
        PROVE  TypeOK'
    BY <1>3, IssueRequestType
  <1>4. ASSUME NEW r \in Ranks, RankCommand(r)
        PROVE  TypeOK'
    BY <1>4, RankCommandType
  <1>5. ASSUME NEW r \in Ranks, NEW b \in Banks, BankCommand(r, b)
        PROVE  TypeOK'
    BY <1>5, BankCommandType
  <1>6. ASSUME NEW q \in requests, Answer(q)
        PROVE  TypeOK'
    BY <1>6, AnswerType
  <1>7. CASE UNCHANGED vars
    BY <1>7 DEF vars, bankVars, cycleVars, refreshVars, TypeOK
  <1> QED
    BY <1>1, <1>2, <1>3, <1>4, <1>5, <1>6, <1>7 DEF Next

\* Type correctness of the controller.
THEOREM Typing == Spec => []TypeOK
  <1>1. Init => TypeOK
    BY InitType
  <1>2. TypeOK /\ [Next]_vars => TypeOK'
    BY NextType
  <1> QED
    BY <1>1, <1>2, PTL DEF Spec

-----------------------------------------------------------------------------
(* The structure of the channel: power states, open rows, forced refreshes *)
(* and the flags of the requests.  The conjunction is inductive; none of   *)
(* its parts is on its own.  A queued command needs FlagsAreCurrent to be  *)
(* known legal, an automatic precharge needs CasIsThisCycles, and both     *)
(* together keep every command out of a rank in its forced refreshes.      *)

BankInv ==
    /\ PowerStateIsRankWide
    /\ OpenRowMatchesState
    /\ ForcedRefreshHoldsRank
    /\ ActivationRecordIsFree
    /\ CasIsThisCycles

StructureInv == TypeOK /\ BankInv /\ FlagsAreCurrent

\* Once the command of the cycle is spent, the flags are not looked at.
LEMMA SpentFlags == command_issued_current_cycle' => FlagsAreCurrent'
    BY DEF FlagsAreCurrent

LEMMA OpenRowKeeps ==
    ASSUME TypeOK, BankInv, ~command_issued_current_cycle,
           NEW r \in Ranks, NEW b \in Banks, NEW row \in Rows,
           ~forced_refresh_mode_on[r], state[r][b] \in Closed,
           OpenRow(r, b, row), UNCHANGED refreshVars
    PROVE  BankInv'
  <1>1. state' = [state EXCEPT ![r][b] = "ROW_ACTIVE"]
    BY DEF OpenRow
  <1>2. PowerStateIsRankWide'
    BY <1>1 DEF BankInv, PowerStateIsRankWide, TypeOK, Closed, PoweredDown,
                PrechargePowerDown
  <1>3. OpenRowMatchesState'
    BY <1>1, SizeAssumption DEF BankInv, OpenRowMatchesState, OpenRow, TypeOK
  <1>4. ForcedRefreshHoldsRank'
    <2> SUFFICES ASSUME NEW i \in Ranks, forced_refresh_mode_on[i],
                        NEW j \in Banks
                 PROVE  /\ state'[i][j] = "REFRESHING"
                        /\ active_row'[i][j] = NoRow
                        /\ next'[i] = next[i]
      BY DEF ForcedRefreshHoldsRank, BankInv, refreshVars
    <2>1. i # r
      OBVIOUS
    <2> QED
      BY <2>1 DEF BankInv, ForcedRefreshHoldsRank, OpenRow, TypeOK
  <1>5. ActivationRecordIsFree' /\ CasIsThisCycles'
    BY DEF BankInv, OpenRow, ActivationRecordIsFree, CasIsThisCycles
  <1> QED
    BY <1>2, <1>3, <1>4, <1>5 DEF BankInv

LEMMA ColumnAccessKeeps ==
    ASSUME TypeOK, BankInv, ~command_issued_current_cycle,
           NEW r \in Ranks, NEW b \in Banks, NEW kind \in {"READ", "WRITE"},
           NEW rs, NEW ro, NEW ws, NEW wo, NEW close,
           ~forced_refresh_mode_on[r], state[r][b] = "ROW_ACTIVE",
           ColumnAccess(r, b, kind, rs, ro, ws, wo, close),
           UNCHANGED refreshVars
    PROVE  BankInv'
  <1>1. UNCHANGED <<state, active_row, activation_record>>
    BY DEF ColumnAccess
  <1>2. PowerStateIsRankWide' /\ OpenRowMatchesState'
    BY <1>1 DEF BankInv, PowerStateIsRankWide, OpenRowMatchesState
  <1>3. ForcedRefreshHoldsRank'
    <2> SUFFICES ASSUME NEW i \in Ranks, forced_refresh_mode_on[i],
                        NEW j \in Banks, NEW k \in RefreshTimers
                 PROVE  next'[i][j][k] = next[i][j][k]
      BY <1>1 DEF ForcedRefreshHoldsRank, BankInv, refreshVars
    <2>1. i # r
      OBVIOUS
    <2>2. k \in Timers /\ k \notin {"read"} /\ k \notin {"write"}
      BY DEF RefreshTimers, Timers
    <2>3. next'[i][j] = Deferred(Deferred(next[i][j],
                            {"read"},  CYCLE_VAL + ro),
                            {"write"}, CYCLE_VAL + wo)
      BY <2>1 DEF ColumnAccess
    <2> QED
      BY <2>2, <2>3, DeferredOther
  <1>4. ActivationRecordIsFree' /\ command_issued_current_cycle'
    BY DEF ColumnAccess, ActivationRecordIsFree
  <1>5. CasIsThisCycles'
    BY <1>1, <1>4 DEF BankInv, ColumnAccess, CasIsThisCycles, TypeOK
  <1> QED
    BY <1>2, <1>3, <1>4, <1>5 DEF BankInv

\* A rank with a bank that is not powered down has none that is.
LEMMA PoweredUpRank ==
    ASSUME PowerStateIsRankWide, NEW r \in Ranks, NEW b \in Banks,
           state[r][b] \notin PoweredDown, NEW i \in Banks
    PROVE  state[r][i] \notin PoweredDown
    BY DEF PowerStateIsRankWide

LEMMA CloseRowsKeeps ==
    ASSUME TypeOK, BankInv, ~command_issued_current_cycle,
           NEW r \in Ranks, NEW bs,
           ~forced_refresh_mode_on[r],
           \A b \in Banks : state[r][b] \notin PoweredDown,
           CloseRows(r, bs), UNCHANGED refreshVars
    PROVE  BankInv'
  <1>1. state' = [state EXCEPT ![r] = [b \in Banks |->
            IF b \in bs THEN "PRECHARGING" ELSE state[r][b]]]
    BY DEF CloseRows
  <1>2. PowerStateIsRankWide'
    BY <1>1 DEF BankInv, PowerStateIsRankWide, TypeOK, PoweredDown,
                PrechargePowerDown
  <1>3. OpenRowMatchesState'
    BY <1>1 DEF BankInv, OpenRowMatchesState, CloseRows, TypeOK
  <1>4. ForcedRefreshHoldsRank'
    <2> SUFFICES ASSUME NEW i \in Ranks, forced_refresh_mode_on[i],
                        NEW j \in Banks
                 PROVE  /\ state'[i][j] = "REFRESHING"
                        /\ active_row'[i][j] = NoRow
                        /\ next'[i] = next[i]
      BY DEF ForcedRefreshHoldsRank, BankInv, refreshVars
    <2>1. i # r
      OBVIOUS
    <2> QED
      BY <2>1 DEF BankInv, ForcedRefreshHoldsRank, CloseRows, TypeOK
  <1>5. ActivationRecordIsFree' /\ CasIsThisCycles'
    BY DEF BankInv, CloseRows, ActivationRecordIsFree, CasIsThisCycles
  <1> QED
    BY <1>2, <1>3, <1>4, <1>5 DEF BankInv

LEMMA WakeRankKeeps ==
    ASSUME TypeOK, BankInv, ~command_issued_current_cycle,
           NEW r \in Ranks, NEW b \in Banks, state[r][b] \in PoweredDown,
           WakeRank(r), UNCHANGED refreshVars
    PROVE  BankInv'
  <1>1. state' = [state EXCEPT ![r] = [i \in Banks |->
            IF state[r][i] \in PrechargePowerDown
            THEN "IDLE" ELSE "ROW_ACTIVE"]]
    BY DEF WakeRank
  <1>2. ASSUME NEW i \in Banks
        PROVE  state[r][i] \in PoweredDown
    BY DEF BankInv, PowerStateIsRankWide
  <1>3. PowerStateIsRankWide'
    BY <1>1 DEF BankInv, PowerStateIsRankWide, TypeOK, PoweredDown,
                PrechargePowerDown
  <1>4. OpenRowMatchesState'
    BY <1>1, <1>2 DEF BankInv, OpenRowMatchesState, WakeRank, TypeOK,
                      PoweredDown, PrechargePowerDown
  <1>5. ~forced_refresh_mode_on[r]
    BY <1>2 DEF BankInv, ForcedRefreshHoldsRank, PoweredDown,
                PrechargePowerDown
  <1>6. ForcedRefreshHoldsRank'
    <2> SUFFICES ASSUME NEW i \in Ranks, forced_refresh_mode_on[i],
                        NEW j \in Banks
                 PROVE  /\ state'[i][j] = "REFRESHING"
                        /\ active_row'[i][j] = NoRow
                        /\ next'[i] = next[i]
      BY DEF ForcedRefreshHoldsRank, BankInv, refreshVars
    <2>1. i # r
      BY <1>5
    <2> QED
      BY <2>1 DEF BankInv, ForcedRefreshHoldsRank, WakeRank, TypeOK
  <1>7. ActivationRecordIsFree' /\ CasIsThisCycles'
    BY DEF BankInv, WakeRank, ActivationRecordIsFree, CasIsThisCycles
  <1> QED
    BY <1>3, <1>4, <1>6, <1>7 DEF BankInv

LEMMA PowerDownKeeps ==
    ASSUME TypeOK, BankInv, ~command_issued_current_cycle,
           NEW r \in Ranks, NEW low \in PrechargePowerDown,
           ~forced_refresh_mode_on[r],
           \A b \in Banks : state[r][b] \notin PoweredDown,
           low = "PRECHARGE_POWER_DOWN_SLOW"
               => \A b \in Banks : state[r][b] \in Closed,
           PowerDown(r, low)
    PROVE  BankInv'
  <1>1. state' = [state EXCEPT ![r] = [b \in Banks |->
            IF state[r][b] \in Closed THEN low
            ELSE IF state[r][b] = "ROW_ACTIVE" THEN "ACTIVE_POWER_DOWN"
            ELSE state[r][b]]]
    BY DEF PowerDown
  <1>2. ASSUME NEW b \in Banks
        PROVE  state[r][b] \in Closed \/ state[r][b] = "ROW_ACTIVE"
    BY DEF TypeOK, BankStates
  <1>3. PowerStateIsRankWide'
    BY <1>1, <1>2 DEF BankInv, PowerStateIsRankWide, TypeOK, PoweredDown,
                      PrechargePowerDown
  <1>4. OpenRowMatchesState'
    BY <1>1, <1>2 DEF BankInv, OpenRowMatchesState, PowerDown, TypeOK, Closed,
                      PrechargePowerDown
  <1>5. UNCHANGED refreshVars
    BY DEF PowerDown, Unqueued
  <1>6. ForcedRefreshHoldsRank'
    <2> SUFFICES ASSUME NEW i \in Ranks, forced_refresh_mode_on[i],
                        NEW j \in Banks
                 PROVE  /\ state'[i][j] = "REFRESHING"
                        /\ active_row'[i][j] = NoRow
                        /\ next'[i] = next[i]
      BY <1>5 DEF ForcedRefreshHoldsRank, BankInv, refreshVars
    <2>1. i # r
      OBVIOUS
    <2> QED
      BY <2>1 DEF BankInv, ForcedRefreshHoldsRank, PowerDown, TypeOK
  <1>7. ActivationRecordIsFree' /\ CasIsThisCycles'
    BY DEF BankInv, PowerDown, ActivationRecordIsFree, CasIsThisCycles
  <1> QED
    BY <1>3, <1>4, <1>6, <1>7 DEF BankInv

LEMMA AutoprechargeKeeps ==
    ASSUME TypeOK, BankInv, NEW r \in Ranks, NEW b \in Banks,
           Autoprecharge(r, b)
    PROVE  BankInv'
  <1>1. /\ command_issued_current_cycle
        /\ state[r][b] = "ROW_ACTIVE"
    BY DEF Autoprecharge, IsAutoprechargeAllowed, BankInv, CasIsThisCycles
  <1>2. ~forced_refresh_mode_on[r]
    BY <1>1 DEF BankInv, ForcedRefreshHoldsRank
  <1>3. UNCHANGED <<refreshVars, command_issued_current_cycle>>
    BY DEF Autoprecharge, Unqueued
  <1>4. state' = [state EXCEPT ![r][b] = "PRECHARGING"]
    BY DEF Autoprecharge
  <1>5. PowerStateIsRankWide'
    BY <1>1, <1>4 DEF BankInv, PowerStateIsRankWide, TypeOK, PoweredDown,
                      PrechargePowerDown
  <1>6. OpenRowMatchesState'
    BY <1>4 DEF BankInv, OpenRowMatchesState, Autoprecharge, TypeOK
  <1>7. ForcedRefreshHoldsRank'
    <2> SUFFICES ASSUME NEW i \in Ranks, forced_refresh_mode_on[i],
                        NEW j \in Banks
                 PROVE  /\ state'[i][j] = "REFRESHING"
                        /\ active_row'[i][j] = NoRow
                        /\ next'[i] = next[i]
      BY <1>3 DEF ForcedRefreshHoldsRank, BankInv, refreshVars
    <2>1. i # r
      BY <1>2
    <2> QED
      BY <2>1 DEF BankInv, ForcedRefreshHoldsRank, Autoprecharge, TypeOK
  <1>8. ActivationRecordIsFree'
    BY <1>1, <1>3 DEF ActivationRecordIsFree
  <1>9. CasIsThisCycles'
    BY DEF Autoprecharge, CasIsThisCycles
  <1> QED
    BY <1>5, <1>6, <1>7, <1>8, <1>9 DEF BankInv

LEMMA RefreshKeeps ==
    ASSUME TypeOK, BankInv, NEW r \in Ranks, Refresh(r)
    PROVE  BankInv'
  <1>1. ~command_issued_current_cycle /\ ~forced_refresh_mode_on[r]
    BY DEF Refresh, IsRefreshAllowed, ChannelFree
  <1>2. state' = [state EXCEPT ![r] = [b \in Banks |-> "REFRESHING"]]
    BY DEF Refresh
  <1>3. PowerStateIsRankWide'
    BY <1>2 DEF BankInv, PowerStateIsRankWide, TypeOK, PoweredDown,
                PrechargePowerDown
  <1>4. OpenRowMatchesState'
    BY <1>2 DEF BankInv, OpenRowMatchesState, Refresh, TypeOK
  <1>5. UNCHANGED <<forced_refresh_mode_on, next_refresh_completion_deadline>>
    BY DEF Refresh
  <1>6. ForcedRefreshHoldsRank'
    <2> SUFFICES ASSUME NEW i \in Ranks, forced_refresh_mode_on[i],
                        NEW j \in Banks
                 PROVE  /\ state'[i][j] = "REFRESHING"
                        /\ active_row'[i][j] = NoRow
                        /\ next'[i] = next[i]
      BY <1>5 DEF ForcedRefreshHoldsRank, BankInv
    <2>1. i # r
      BY <1>1
    <2> QED
      BY <2>1 DEF BankInv, ForcedRefreshHoldsRank, Refresh, TypeOK
  <1>7. ActivationRecordIsFree'
    BY DEF Refresh, ActivationRecordIsFree
  <1>8. CasIsThisCycles'
    BY <1>1 DEF BankInv, Refresh, CasIsThisCycles
  <1> QED
    BY <1>3, <1>4, <1>6, <1>7, <1>8 DEF BankInv

LEMMA UpdateMemoryKeeps ==
    ASSUME TypeOK, BankInv, UpdateMemory
    PROVE  BankInv' /\ FlagsAreCurrent'
  <1>1. ASSUME NEW r \in Ranks, NEW b \in Banks
        PROVE  /\ state'[r][b] = IF ForcedRefreshDue(r) THEN "REFRESHING"
                                 ELSE state[r][b]
               /\ active_row'[r][b] = IF ForcedRefreshDue(r) THEN NoRow
                                      ELSE active_row[r][b]
    BY DEF UpdateMemory, UpdateRefresh, IssueForcedRefreshCommands
  <1>2. PowerStateIsRankWide'
    BY <1>1 DEF BankInv, PowerStateIsRankWide, PoweredDown, PrechargePowerDown
  <1>3. OpenRowMatchesState'
    BY <1>1 DEF BankInv, OpenRowMatchesState
  <1>4. ForcedRefreshHoldsRank'
    <2> SUFFICES ASSUME NEW r \in Ranks, forced_refresh_mode_on'[r],
                        NEW b \in Banks, NEW k \in RefreshTimers
                 PROVE  /\ state'[r][b] = "REFRESHING"
                        /\ active_row'[r][b] = NoRow
                        /\ next'[r][b][k] = next_refresh_completion_deadline'[r]
      BY DEF ForcedRefreshHoldsRank, RefreshTimers
    <2>1. k \in Timers
      BY DEF RefreshTimers, Timers
    <2>2. ~WindowEnds(r)
      BY DEF UpdateMemory, UpdateRefresh, IssueForcedRefreshCommands, ForcedRefreshDue
    <2>3. next_refresh_completion_deadline'[r]
              = next_refresh_completion_deadline[r]
      BY <2>2 DEF UpdateMemory, UpdateRefresh, IssueForcedRefreshCommands
    <2>4. next'[r][b][k] = IF ForcedRefreshDue(r)
                           THEN next_refresh_completion_deadline[r]
                           ELSE next[r][b][k]
      BY <2>1 DEF UpdateMemory, UpdateRefresh, IssueForcedRefreshCommands
    <2>5. CASE ForcedRefreshDue(r)
      BY <1>1, <2>3, <2>4, <2>5
    <2>6. CASE ~ForcedRefreshDue(r)
      <3>1. forced_refresh_mode_on[r]
        BY <2>6 DEF UpdateMemory, UpdateRefresh, IssueForcedRefreshCommands
      <3> QED
        BY <1>1, <2>3, <2>4, <2>6, <3>1 DEF BankInv, ForcedRefreshHoldsRank
    <2> QED
      BY <2>5, <2>6
  <1>5. ActivationRecordIsFree' /\ CasIsThisCycles'
    BY DEF UpdateMemory, ActivationRecordIsFree, CasIsThisCycles
  <1>6. FlagsAreCurrent'
    <2> SUFFICES ASSUME NEW p \in requests', p.command_issuable
                 PROVE  p.next_command = NextCommand(p)' /\ CommandIssuable(p)'
      BY DEF FlagsAreCurrent
    <2>1. PICK q \in requests : p = Updated(q)'
      BY DEF UpdateMemory, UpdateQueues
    <2>2. q \in Request
      BY DEF TypeOK
    <2>3. /\ p.op = q.op /\ p.rank = q.rank /\ p.bank = q.bank /\ p.row = q.row
          /\ p.next_command = NextCommand(q)'
          /\ p.command_issuable = CommandIssuable(q)'
      BY <2>1, <2>2 DEF Updated, Request
    <2>4. NextCommand(p)' = NextCommand(q)'
      BY <2>3 DEF NextCommand
    <2>5. CommandIssuable(p)' <=> CommandIssuable(q)'
      BY <2>3, <2>4 DEF CommandIssuable
    <2> QED
      BY <2>3, <2>4, <2>5
  <1> QED
    BY <1>2, <1>3, <1>4, <1>5, <1>6 DEF BankInv

\* What the flag of a queued request lets issue_request_command assume.
LEMMA IssuableRequest ==
    ASSUME StructureInv, NEW q \in requests, q.command_issuable,
           ~command_issued_current_cycle
    PROVE  /\ q.next_command = "ACT" =>
                 /\ state[q.rank][q.bank] \in Closed
                 /\ ~forced_refresh_mode_on[q.rank]
           /\ q.next_command \in {"COL_READ", "COL_WRITE", "PRE"} =>
                 /\ state[q.rank][q.bank] = "ROW_ACTIVE"
                 /\ ~forced_refresh_mode_on[q.rank]
           /\ q.next_command = "PWR_UP" =>
                 state[q.rank][q.bank] \in PoweredDown
  <1>1. q.next_command = NextCommand(q) /\ CommandIssuable(q)
    BY DEF StructureInv, FlagsAreCurrent
  <1>2. q \in Request /\ state[q.rank][q.bank] \in BankStates
    BY DEF StructureInv, TypeOK, Request
  <1>3. /\ q.next_command = "ACT" => state[q.rank][q.bank] \in Closed
        /\ q.next_command = "PWR_UP" => state[q.rank][q.bank] \in PoweredDown
        /\ q.next_command \in {"COL_READ", "COL_WRITE", "PRE"} =>
              state[q.rank][q.bank] = "ROW_ACTIVE"
    BY <1>1, <1>2 DEF NextCommand, BankStates
  <1>4. q.next_command # "PWR_UP" => ~forced_refresh_mode_on[q.rank]
    BY <1>1 DEF CommandIssuable
  <1> QED
    BY <1>3, <1>4

LEMMA IssueRequestKeeps ==
    ASSUME StructureInv, NEW q \in requests, IssueRequestCommand(q)
    PROVE  BankInv' /\ command_issued_current_cycle'
  <1>1. /\ q.rank \in Ranks /\ q.bank \in Banks /\ q.row \in Rows
        /\ TypeOK /\ BankInv
    BY DEF StructureInv, TypeOK, Request
  <1>2. /\ q.command_issuable /\ ~command_issued_current_cycle
        /\ UNCHANGED refreshVars
    BY DEF IssueRequestCommand
  <1>3. CASE q.next_command = "ACT" /\ OpenRow(q.rank, q.bank, q.row)
    <2>1. command_issued_current_cycle'
      BY <1>3 DEF OpenRow
    <2> QED
      BY <1>1, <1>2, <1>3, <2>1, IssuableRequest, OpenRowKeeps
  <1>4. CASE q.next_command = "COL_READ" /\ ColumnRead(q.rank, q.bank)
    <2>1. command_issued_current_cycle'
      BY <1>4 DEF ColumnRead, ColumnAccess
    <2>2. state[q.rank][q.bank] = "ROW_ACTIVE" /\ ~forced_refresh_mode_on[q.rank]
      BY <1>2, <1>4, IssuableRequest
    <2> QED
      BY <1>1, <1>2, <1>4, <2>1, <2>2, ColumnAccessKeeps DEF ColumnRead
  <1>5. CASE q.next_command = "COL_WRITE" /\ ColumnWrite(q.rank, q.bank)
    <2>1. command_issued_current_cycle'
      BY <1>5 DEF ColumnWrite, ColumnAccess
    <2>2. state[q.rank][q.bank] = "ROW_ACTIVE" /\ ~forced_refresh_mode_on[q.rank]
      BY <1>2, <1>5, IssuableRequest
    <2> QED
      BY <1>1, <1>2, <1>5, <2>1, <2>2, ColumnAccessKeeps DEF ColumnWrite
  <1>6. CASE q.next_command = "PRE" /\ CloseRows(q.rank, {q.bank})
    <2>1. command_issued_current_cycle'
      BY <1>6 DEF CloseRows
    <2>2. state[q.rank][q.bank] = "ROW_ACTIVE" /\ ~forced_refresh_mode_on[q.rank]
      BY <1>2, <1>6, IssuableRequest
    <2>3. \A b \in Banks : state[q.rank][b] \notin PoweredDown
      <3>1. state[q.rank][q.bank] \notin PoweredDown
        BY <2>2 DEF PoweredDown, PrechargePowerDown
      <3> QED
        BY <1>1, <3>1, PoweredUpRank DEF BankInv
    <2> QED
      BY <1>1, <1>2, <1>6, <2>1, <2>2, <2>3, CloseRowsKeeps
  <1>7. CASE q.next_command = "PWR_UP" /\ WakeRank(q.rank)
    <2>1. command_issued_current_cycle'
      BY <1>7 DEF WakeRank
    <2> QED
      BY <1>1, <1>2, <1>7, <2>1, IssuableRequest, WakeRankKeeps
  <1> QED
    BY <1>3, <1>4, <1>5, <1>6, <1>7 DEF IssueRequestCommand

LEMMA RankCommandKeeps ==
    ASSUME StructureInv, NEW r \in Ranks, RankCommand(r)
    PROVE  BankInv' /\ command_issued_current_cycle'
  <1>1. TypeOK /\ BankInv
    BY DEF StructureInv
  <1>2. CASE PowerDownFast(r)
    <2>1. /\ ~command_issued_current_cycle /\ ~forced_refresh_mode_on[r]
          /\ \A b \in Banks : state[r][b] \notin PoweredDown
          /\ PowerDown(r, "PRECHARGE_POWER_DOWN_FAST")
      BY <1>2 DEF PowerDownFast, IsPowerdownFastAllowed, ChannelFree
    <2> QED
      BY <1>1, <2>1, PowerDownKeeps DEF PrechargePowerDown, PowerDown
  <1>3. CASE PowerDownSlow(r)
    <2>1. /\ ~command_issued_current_cycle /\ ~forced_refresh_mode_on[r]
          /\ \A b \in Banks : state[r][b] \in Closed
          /\ PowerDown(r, "PRECHARGE_POWER_DOWN_SLOW")
      BY <1>3 DEF PowerDownSlow, IsPowerdownSlowAllowed, ChannelFree
    <2>2. \A b \in Banks : state[r][b] \notin PoweredDown
      BY <2>1 DEF Closed, PoweredDown, PrechargePowerDown
    <2> QED
      BY <1>1, <2>1, <2>2, PowerDownKeeps DEF PrechargePowerDown, PowerDown
  <1>4. CASE PowerUp(r)
    <2>1. /\ ~command_issued_current_cycle
          /\ state[r][0] \in PoweredDown
          /\ WakeRank(r) /\ UNCHANGED refreshVars
      BY <1>4 DEF PowerUp, IsPowerupAllowed, ChannelFree, Unqueued
    <2> QED
      BY <1>1, <2>1, Indices, WakeRankKeeps DEF WakeRank
  <1>5. CASE AllBankPrecharge(r)
    <2>1. /\ \A b \in Banks : IsPrechargeAllowed(r, b)
          /\ CloseRows(r, Banks) /\ UNCHANGED refreshVars
      BY <1>5 DEF AllBankPrecharge, IsAllBankPrechargeAllowed, Unqueued
    <2>2. /\ ~command_issued_current_cycle /\ ~forced_refresh_mode_on[r]
          /\ \A b \in Banks : state[r][b] \notin PoweredDown
      BY <2>1, Indices DEF IsPrechargeAllowed, ChannelFree
    <2> QED
      BY <1>1, <2>1, <2>2, CloseRowsKeeps DEF CloseRows
  <1>6. CASE Refresh(r)
    BY <1>1, <1>6, RefreshKeeps DEF Refresh
  <1> QED
    BY <1>2, <1>3, <1>4, <1>5, <1>6 DEF RankCommand

LEMMA BankCommandKeeps ==
    ASSUME StructureInv, NEW r \in Ranks, NEW b \in Banks, BankCommand(r, b)
    PROVE  BankInv' /\ command_issued_current_cycle'
  <1>1. TypeOK /\ BankInv
    BY DEF StructureInv
  <1>2. CASE Autoprecharge(r, b)
    <2>1. command_issued_current_cycle'
      BY <1>1, <1>2 DEF Autoprecharge, IsAutoprechargeAllowed, BankInv,
                        CasIsThisCycles
    <2> QED
      BY <1>1, <1>2, <2>1, AutoprechargeKeeps
  <1>3. CASE Precharge(r, b)
    <2>1. /\ ~command_issued_current_cycle /\ ~forced_refresh_mode_on[r]
          /\ state[r][b] \notin PoweredDown
          /\ CloseRows(r, {b}) /\ UNCHANGED refreshVars
      BY <1>3 DEF Precharge, IsPrechargeAllowed, ChannelFree, Unqueued
    <2>2. \A i \in Banks : state[r][i] \notin PoweredDown
      BY <1>1, <2>1, PoweredUpRank DEF BankInv
    <2> QED
      BY <1>1, <2>1, <2>2, CloseRowsKeeps DEF CloseRows
  <1>4. ASSUME NEW row \in Rows, Activate(r, b, row)
        PROVE  BankInv' /\ command_issued_current_cycle'
    <2>1. /\ ~command_issued_current_cycle /\ ~forced_refresh_mode_on[r]
          /\ state[r][b] \in Closed
          /\ OpenRow(r, b, row) /\ UNCHANGED refreshVars
      BY <1>4 DEF Activate, IsActivateAllowed, ChannelFree, Unqueued
    <2> QED
      BY <1>1, <2>1, OpenRowKeeps DEF OpenRow
  <1> QED
    BY <1>2, <1>3, <1>4 DEF BankCommand

\* A new request's flag is clear and its arrival changes nothing else.
LEMMA InsertKeeps ==
    ASSUME StructureInv,
           NEW n \in Nodes, NEW op \in {"READ", "WRITE"}, NEW r \in Ranks,
           NEW b \in Banks, NEW row \in Rows, Insert(n, op, r, b, row)
    PROVE  BankInv' /\ FlagsAreCurrent'
  <1>1. UNCHANGED <<CYCLE_VAL, bankVars, cycleVars, refreshVars>>
    BY DEF Insert
  <1>2. BankInv'
    BY <1>1 DEF StructureInv, BankInv, PowerStateIsRankWide,
                OpenRowMatchesState, ForcedRefreshHoldsRank,
                ActivationRecordIsFree, CasIsThisCycles, bankVars, cycleVars,
                refreshVars
  <1>3. ASSUME NEW q \in requests', q.command_issuable
        PROVE  q \in requests
    BY <1>3 DEF Insert
  <1>4. ASSUME NEW q
        PROVE  /\ NextCommand(q)' = NextCommand(q)
               /\ CommandIssuable(q)' <=> CommandIssuable(q)
    BY <1>1 DEF NextCommand, CommandIssuable, Reached, FitsBeforeRefresh,
                bankVars, refreshVars
  <1>5. FlagsAreCurrent'
    BY <1>1, <1>3, <1>4 DEF StructureInv, FlagsAreCurrent, cycleVars
  <1> QED
    BY <1>2, <1>5

LEMMA AnswerKeeps ==
    ASSUME StructureInv, NEW p \in requests, Answer(p)
    PROVE  BankInv' /\ FlagsAreCurrent'
  <1>1. UNCHANGED <<CYCLE_VAL, bankVars, cycleVars, refreshVars>>
    BY DEF Answer
  <1>2. BankInv'
    BY <1>1 DEF StructureInv, BankInv, PowerStateIsRankWide,
                OpenRowMatchesState, ForcedRefreshHoldsRank,
                ActivationRecordIsFree, CasIsThisCycles, bankVars, cycleVars,
                refreshVars
  <1>3. ASSUME NEW q \in requests', q.command_issuable,
               ~command_issued_current_cycle
        PROVE  q.next_command = NextCommand(q) /\ CommandIssuable(q)
    <2>1. CASE q \in requests
      BY <1>3, <2>1 DEF StructureInv, FlagsAreCurrent
    <2>2. CASE q = [p EXCEPT !.request_served = TRUE]
      <3>1. p \in Request
        BY DEF StructureInv, TypeOK
      <3>2. /\ q.rank = p.rank /\ q.bank = p.bank /\ q.row = p.row
            /\ q.op = p.op /\ q.next_command = p.next_command
            /\ q.command_issuable = p.command_issuable
        BY <2>2, <3>1 DEF Request
      <3>3. p.next_command = NextCommand(p) /\ CommandIssuable(p)
        BY <1>3, <3>2 DEF StructureInv, FlagsAreCurrent
      <3> QED
        BY <3>2, <3>3 DEF NextCommand, CommandIssuable
    <2> QED
      BY <1>3, <2>1, <2>2 DEF Answer
  <1>4. ASSUME NEW q
        PROVE  /\ NextCommand(q)' = NextCommand(q)
               /\ CommandIssuable(q)' <=> CommandIssuable(q)
    BY <1>1 DEF NextCommand, CommandIssuable, Reached, FitsBeforeRefresh,
                bankVars, refreshVars
  <1>5. FlagsAreCurrent'
    BY <1>1, <1>3, <1>4 DEF FlagsAreCurrent, cycleVars
  <1> QED
    BY <1>2, <1>5

LEMMA StructureStep == StructureInv /\ [Next]_vars => StructureInv'
  <1> SUFFICES ASSUME StructureInv, [Next]_vars
               PROVE  BankInv' /\ FlagsAreCurrent'
    BY NextType DEF StructureInv
  <1>1. CASE UpdateMemory
    BY <1>1, UpdateMemoryKeeps DEF StructureInv
  <1>2. ASSUME NEW n \in Nodes, NEW op \in {"READ", "WRITE"}, NEW r \in Ranks,
               NEW b \in Banks, NEW row \in Rows, Insert(n, op, r, b, row)
        PROVE  BankInv' /\ FlagsAreCurrent'
    BY <1>2, InsertKeeps
  <1>3. ASSUME NEW q \in requests, IssueRequestCommand(q)
        PROVE  BankInv' /\ FlagsAreCurrent'
    BY <1>3, IssueRequestKeeps, SpentFlags
  <1>4. ASSUME NEW r \in Ranks, RankCommand(r)
        PROVE  BankInv' /\ FlagsAreCurrent'
    BY <1>4, RankCommandKeeps, SpentFlags
  <1>5. ASSUME NEW r \in Ranks, NEW b \in Banks, BankCommand(r, b)
        PROVE  BankInv' /\ FlagsAreCurrent'
    BY <1>5, BankCommandKeeps, SpentFlags
  <1>6. ASSUME NEW q \in requests, Answer(q)
        PROVE  BankInv' /\ FlagsAreCurrent'
    BY <1>6, AnswerKeeps
  <1>7. CASE UNCHANGED vars
    BY <1>7 DEF vars, bankVars, cycleVars, refreshVars, StructureInv, BankInv,
                PowerStateIsRankWide, OpenRowMatchesState,
                ForcedRefreshHoldsRank, ActivationRecordIsFree,
                CasIsThisCycles, FlagsAreCurrent, NextCommand,
                CommandIssuable, Reached, FitsBeforeRefresh
  <1> QED
    BY <1>1, <1>2, <1>3, <1>4, <1>5, <1>6, <1>7 DEF Next

LEMMA InitStructure == Init => StructureInv
  <1> SUFFICES ASSUME Init PROVE BankInv /\ FlagsAreCurrent
    BY InitType DEF StructureInv
  <1>1. PowerStateIsRankWide /\ OpenRowMatchesState /\ ForcedRefreshHoldsRank
    BY DEF Init, PowerStateIsRankWide, OpenRowMatchesState,
           ForcedRefreshHoldsRank, PoweredDown, PrechargePowerDown
  <1>2. ActivationRecordIsFree /\ CasIsThisCycles /\ FlagsAreCurrent
    BY DEF Init, ActivationRecordIsFree, CasIsThisCycles, FlagsAreCurrent
  <1> QED
    BY <1>1, <1>2 DEF BankInv

LEMMA StructureInvariant == Spec => []StructureInv
  <1>1. Init => StructureInv
    BY InitStructure
  <1>2. StructureInv /\ [Next]_vars => StructureInv'
    BY StructureStep
  <1> QED
    BY <1>1, <1>2, PTL DEF Spec

\* A rank's power state is that of its bank 0.
THEOREM PowerStates == Spec => []PowerStateIsRankWide
  <1>1. StructureInv => PowerStateIsRankWide
    BY DEF StructureInv, BankInv
  <1> QED
    BY <1>1, StructureInvariant, PTL

\* Row hits and activations are decided from consistent state.
THEOREM OpenRows == Spec => []OpenRowMatchesState
  <1>1. StructureInv => OpenRowMatchesState
    BY DEF StructureInv, BankInv
  <1> QED
    BY <1>1, StructureInvariant, PTL

\* A rank in its forced refreshes is left alone until the deadline.
THEOREM ForcedRefreshExclusive == Spec => []ForcedRefreshHoldsRank
  <1>1. StructureInv => ForcedRefreshHoldsRank
    BY DEF StructureInv, BankInv
  <1> QED
    BY <1>1, StructureInvariant, PTL

\* No scheduler can act on a stale flag of a request.
THEOREM FlagsCurrent == Spec => []FlagsAreCurrent
  <1>1. StructureInv => FlagsAreCurrent
    BY DEF StructureInv
  <1> QED
    BY <1>1, StructureInvariant, PTL

\* The assertion in record_activate never fails.
THEOREM OneActivationPerCycle == Spec => []ActivationRecordIsFree
  <1>1. StructureInv => ActivationRecordIsFree
    BY DEF StructureInv, BankInv
  <1> QED
    BY <1>1, StructureInvariant, PTL

-----------------------------------------------------------------------------
(* The refresh quota.  As long as refreshes are missing and have not been  *)
(* forced, the issue deadline still lies ahead, and never later than the   *)
(* missing ones need: the deadline moves with every refresh, but update-   *)
(* memory meets it exactly.                                                *)

DeadlineAhead ==
    \A r \in Ranks :
        ~forced_refresh_mode_on[r] /\ num_issued_refreshes[r] < REFRESH_QUOTA =>
            /\ CYCLE_VAL < refresh_issue_deadline[r]
            /\ refresh_issue_deadline[r]
                  <= IssueDeadline(next_refresh_completion_deadline[r],
                                   num_issued_refreshes[r])

\* One refresh more gives the others T_RFC more.
LEMMA IssueDeadlineStep ==
    ASSUME NEW c \in Int, NEW n \in Nat
    PROVE  IssueDeadline(c, n) <= IssueDeadline(c, n + 1)
  <1>1. (REFRESH_QUOTA - n) * T_RFC = (REFRESH_QUOTA - (n + 1)) * T_RFC + T_RFC
    BY Times
  <1>2. /\ (REFRESH_QUOTA - n) * T_RFC \in Int
        /\ (REFRESH_QUOTA - (n + 1)) * T_RFC \in Int
    BY Times
  <1> QED
    BY <1>1, <1>2, Times DEF IssueDeadline

\* While a refresh is missing the issue deadline is before the completion
\* deadline.
LEMMA IssueDeadlineBound ==
    ASSUME NEW c \in Int, NEW n \in Nat, n < REFRESH_QUOTA
    PROVE  IssueDeadline(c, n) < c
  <1>1. (REFRESH_QUOTA - n) * T_RFC \in Nat
    BY Times
  <1> QED
    BY <1>1, Times DEF IssueDeadline

\* A new window leaves time before its first issue deadline.
LEMMA WindowOpens ==
    ASSUME NEW c \in Int
    PROVE  c < IssueDeadline(c + REFRESH_QUOTA * T_REFI, 0)
  <1>1. REFRESH_QUOTA * T_REFI \in Int /\ REFRESH_QUOTA * T_RFC \in Int
    BY Times
  <1>2. (REFRESH_QUOTA - 0) * T_RFC = REFRESH_QUOTA * T_RFC
    BY Times
  <1> QED
    BY <1>1, <1>2, Times, RefreshAssumption DEF IssueDeadline

LEMMA InitDeadline == Init => DeadlineAhead
  <1> SUFFICES ASSUME Init PROVE DeadlineAhead
    OBVIOUS
  <1>1. REFRESH_QUOTA * T_REFI \in Int
    BY Times
  <1>2. 0 < IssueDeadline(0 + REFRESH_QUOTA * T_REFI, 0)
    BY WindowOpens
  <1>3. IssueDeadline(REFRESH_QUOTA * T_REFI, 0) \in Int
    BY <1>1, IssueDeadlineType
  <1> QED
    BY <1>1, <1>2, <1>3 DEF Init, DeadlineAhead

LEMMA UpdateMemoryDeadline ==
    ASSUME TypeOK, DeadlineAhead, UpdateMemory
    PROVE  DeadlineAhead'
  <1> SUFFICES ASSUME NEW r \in Ranks, ~forced_refresh_mode_on'[r],
                      num_issued_refreshes'[r] < REFRESH_QUOTA
               PROVE  /\ CYCLE_VAL' < refresh_issue_deadline'[r]
                      /\ refresh_issue_deadline'[r]
                            <= IssueDeadline(
                                   next_refresh_completion_deadline'[r],
                                   num_issued_refreshes'[r])
    BY DEF DeadlineAhead
  <1> DEFINE n == num_issued_refreshes[r]
             c == next_refresh_completion_deadline[r]
             d == refresh_issue_deadline[r]
  <1>1. /\ n \in Nat /\ c \in Int /\ d \in Int /\ CYCLE_VAL \in Nat
        /\ CYCLE_VAL' = CYCLE_VAL + 1
        /\ refresh_issue_deadline'[r] = AdvanceDeadlines(r)
    BY DEF TypeOK, UpdateMemory, UpdateRefresh, IssueForcedRefreshCommands
  <1>2. CASE WindowEnds(r)
    <2>1. /\ num_issued_refreshes'[r] = 0
          /\ next_refresh_completion_deadline'[r]
                = CYCLE_VAL' + REFRESH_QUOTA * T_REFI
      BY <1>1, <1>2 DEF UpdateMemory, UpdateRefresh, IssueForcedRefreshCommands
    <2>2. refresh_issue_deadline'[r]
              = IssueDeadline(CYCLE_VAL' + REFRESH_QUOTA * T_REFI, 0)
      BY <1>1, <1>2, <2>1 DEF AdvanceDeadlines
    <2>3. CYCLE_VAL' \in Int /\ CYCLE_VAL' + REFRESH_QUOTA * T_REFI \in Int
      BY <1>1, Times
    <2>4. refresh_issue_deadline'[r] \in Int
      BY <2>2, <2>3, IssueDeadlineType
    <2> QED
      BY <2>1, <2>2, <2>3, <2>4, WindowOpens
  <1>3. CASE ~WindowEnds(r)
    <2>1. /\ num_issued_refreshes'[r] = n
          /\ next_refresh_completion_deadline'[r] = c
          /\ ~forced_refresh_mode_on[r] /\ ~ForcedRefreshDue(r)
      BY <1>3 DEF UpdateMemory, UpdateRefresh, IssueForcedRefreshCommands
    <2>2. n < REFRESH_QUOTA
      BY <2>1
    <2>3. CYCLE_VAL < d /\ d <= IssueDeadline(c, n)
      BY <2>1, <2>2 DEF DeadlineAhead
    <2>4. CYCLE_VAL + 1 # d
      BY <1>3, <2>1, <2>2 DEF ForcedRefreshDue
    <2>5. CYCLE_VAL + 1 < d
      BY <1>1, <2>3, <2>4
    <2>6. refresh_issue_deadline'[r] = IssueDeadline(c, n)
      BY <1>1, <1>3, <2>1, <2>5 DEF AdvanceDeadlines
    <2>7. IssueDeadline(c, n) \in Int
      BY <1>1, IssueDeadlineType
    <2> QED
      BY <1>1, <2>1, <2>3, <2>5, <2>6, <2>7
  <1> QED
    BY <1>2, <1>3

LEMMA RefreshDeadline ==
    ASSUME TypeOK, DeadlineAhead, NEW i \in Ranks, Refresh(i)
    PROVE  DeadlineAhead'
  <1> SUFFICES ASSUME NEW r \in Ranks, ~forced_refresh_mode_on[r],
                      num_issued_refreshes'[r] < REFRESH_QUOTA
               PROVE  /\ CYCLE_VAL < refresh_issue_deadline[r]
                      /\ refresh_issue_deadline[r]
                            <= IssueDeadline(
                                   next_refresh_completion_deadline[r],
                                   num_issued_refreshes'[r])
    BY DEF DeadlineAhead, Refresh
  <1> DEFINE n == num_issued_refreshes[r]
             c == next_refresh_completion_deadline[r]
             d == refresh_issue_deadline[r]
  <1>1. n \in Nat /\ c \in Int /\ d \in Int
    BY DEF TypeOK
  <1>2. num_issued_refreshes'[r] = n \/ num_issued_refreshes'[r] = n + 1
    BY DEF Refresh, TypeOK
  <1>3. n < REFRESH_QUOTA
    BY <1>1, <1>2, Times
  <1>4. CYCLE_VAL < d /\ d <= IssueDeadline(c, n)
    BY <1>3 DEF DeadlineAhead
  <1>5. n + 1 \in Nat
    BY <1>1
  <1> HIDE DEF n, c, d
  <1>6. IssueDeadline(c, n) \in Int /\ IssueDeadline(c, n + 1) \in Int
    BY <1>1, <1>5, IssueDeadlineType
  <1>7. IssueDeadline(c, n) <= IssueDeadline(c, n + 1)
    BY <1>1, IssueDeadlineStep
  <1>8. CASE num_issued_refreshes'[r] = n
    BY <1>4, <1>8 DEF c, d
  <1>9. CASE num_issued_refreshes'[r] = n + 1
    <2>1. CYCLE_VAL < d /\ d <= IssueDeadline(c, n + 1)
      BY <1>1, <1>4, <1>6, <1>7
    <2> QED
      BY <1>9, <2>1 DEF c, d
  <1> QED
    BY <1>2, <1>8, <1>9

LEMMA DeadlineStep == TypeOK /\ DeadlineAhead /\ [Next]_vars => DeadlineAhead'
  <1> SUFFICES ASSUME TypeOK, DeadlineAhead, [Next]_vars
               PROVE  DeadlineAhead'
    OBVIOUS
  <1>1. CASE UpdateMemory
    BY <1>1, UpdateMemoryDeadline
  <1>2. ASSUME NEW r \in Ranks, Refresh(r)
        PROVE  DeadlineAhead'
    BY <1>2, RefreshDeadline
  <1>3. ASSUME UNCHANGED <<CYCLE_VAL, refreshVars>>
        PROVE  DeadlineAhead'
    BY <1>3 DEF DeadlineAhead, refreshVars
  <1>4. ASSUME NEW r \in Ranks, RankCommand(r)
        PROVE  DeadlineAhead'
    BY <1>2, <1>3, <1>4 DEF RankCommand, PowerDownFast, PowerDownSlow,
       PowerDown, PowerUp, AllBankPrecharge, Unqueued
  <1>5. ASSUME NEW r \in Ranks, NEW b \in Banks, BankCommand(r, b)
        PROVE  DeadlineAhead'
    BY <1>3, <1>5 DEF BankCommand, Autoprecharge, Precharge, Activate, Unqueued
  <1>6. ASSUME NEW q \in requests, IssueRequestCommand(q)
        PROVE  DeadlineAhead'
    BY <1>3, <1>6 DEF IssueRequestCommand
  <1>7. ASSUME NEW n \in Nodes, NEW op \in {"READ", "WRITE"}, NEW r \in Ranks,
               NEW b \in Banks, NEW row \in Rows, Insert(n, op, r, b, row)
        PROVE  DeadlineAhead'
    BY <1>3, <1>7 DEF Insert
  <1>8. ASSUME NEW q \in requests, Answer(q)
        PROVE  DeadlineAhead'
    BY <1>3, <1>8 DEF Answer
  <1>9. CASE UNCHANGED vars
    BY <1>3, <1>9 DEF vars
  <1> QED
    BY <1>1, <1>4, <1>5, <1>6, <1>7, <1>8, <1>9 DEF Next

LEMMA DeadlineInvariant == Spec => []DeadlineAhead
  <1>1. Init => DeadlineAhead
    BY InitDeadline
  <1>2. TypeOK /\ DeadlineAhead /\ [Next]_vars => DeadlineAhead'
    BY DeadlineStep
  <1> QED
    BY <1>1, <1>2, Typing, PTL DEF Spec

\* No refresh window ends with refreshes missing.
THEOREM RefreshQuota == Spec => RefreshQuotaMet
  <1>1. ASSUME TypeOK, DeadlineAhead, NEW r \in Ranks,
               UpdateMemory, WindowEnds(r)
        PROVE  \/ num_issued_refreshes[r] >= REFRESH_QUOTA
               \/ forced_refresh_mode_on[r]
    <2> SUFFICES ASSUME num_issued_refreshes[r] < REFRESH_QUOTA,
                        ~forced_refresh_mode_on[r]
                 PROVE  FALSE
      BY <1>1, Times DEF TypeOK
    <2> DEFINE n == num_issued_refreshes[r]
               c == next_refresh_completion_deadline[r]
               d == refresh_issue_deadline[r]
    <2>1. n \in Nat /\ c \in Int /\ d \in Int /\ CYCLE_VAL \in Nat
      BY <1>1 DEF TypeOK
    <2>2. CYCLE_VAL < d /\ d <= IssueDeadline(c, n)
      BY <1>1 DEF DeadlineAhead
    <2>3. IssueDeadline(c, n) \in Int /\ IssueDeadline(c, n) < c
      BY <2>1, IssueDeadlineType, IssueDeadlineBound
    <2>4. CYCLE_VAL + 1 = c
      BY <1>1 DEF WindowEnds
    <2> QED
      BY <2>1, <2>2, <2>3, <2>4
  <1>2. TypeOK /\ DeadlineAhead =>
            \A r \in Ranks : (UpdateMemory /\ WindowEnds(r)) =>
                \/ num_issued_refreshes[r] >= REFRESH_QUOTA
                \/ forced_refresh_mode_on[r]
    BY <1>1
  <1> QED
    BY <1>2, Typing, DeadlineInvariant, PTL DEF RefreshQuotaMet

-----------------------------------------------------------------------------
(* Forced refreshes find the rank quiet.  Whatever keeps a bank with an    *)
(* open row busy, or a rank asleep, ends by the issue deadline, because    *)
(* each command looks ahead to it and the deadline only moves away.  When  *)
(* a new window begins the deadline is a new one, which lies behind        *)
(* everything that goes on if the window is long enough.                   *)

Longest == Later(Later(T_RAS, T_RTP),
                 Later(T_CWD + T_DATA_TRANS + T_WR, T_PD_MIN + T_XP_DLL))

RowOpen == {"ROW_ACTIVE", "ACTIVE_POWER_DOWN"}

\* With more ranks than one the power-up check reads the deadline of another
\* rank, and only the second bound remains.
InTime(r, t) ==
    /\ NUM_RANKS = 1 => t <= refresh_issue_deadline[r]
    /\ t <= CYCLE_VAL + Longest

\* An activation takes the precharge timer as it is, so that of a closed bank
\* must have passed; a refresh does so too, with the row open.
Quiet(r, b) ==
    /\ state[r][b] \in RowOpen =>
          /\ next[r][b]["pre"] <= next[r][b]["refresh"]
          /\ InTime(r, next[r][b]["pre"])
    /\ state[r][b] \notin RowOpen => next[r][b]["pre"] <= next[r][b]["act"]
    /\ state[r][b] \in PoweredDown => InTime(r, next[r][b]["powerup"] + T_XP)

AllQuiet == \A r \in Ranks, b \in Banks : Quiet(r, b)

LEMMA LongestBounds ==
    /\ Longest \in Nat
    /\ T_RAS <= Longest /\ T_RTP <= Longest
    /\ T_CWD + T_DATA_TRANS + T_WR <= Longest
    /\ T_PD_MIN + T_XP <= Longest /\ T_XP <= Longest
    /\ T_PD_MIN + T_XP_DLL <= Longest /\ T_XP_DLL <= Longest
    BY Times, WindowAssumption DEF Longest, Later

\* A new window leaves room for what still goes on.
LEMMA WindowIsRoomy ==
    T_RP + REFRESH_QUOTA * T_RFC + Longest <= REFRESH_QUOTA * T_REFI
  <1>1. Longest \in {T_RAS, T_RTP, T_CWD + T_DATA_TRANS + T_WR,
                    T_PD_MIN + T_XP_DLL}
    BY DEF Longest, Later
  <1> QED
    BY <1>1, WindowAssumption

LEMMA TimerTypes ==
    ASSUME TypeOK, NEW r \in Ranks, NEW b \in Banks
    PROVE  /\ next[r][b] \in [Timers -> Int]
           /\ next[r][b]["pre"] \in Int /\ next[r][b]["act"] \in Int
           /\ next[r][b]["refresh"] \in Int /\ next[r][b]["powerup"] \in Int
           /\ next[r][b]["powerdown"] \in Int
           /\ CYCLE_VAL \in Nat /\ refresh_issue_deadline[r] \in Int
           /\ state[r][b] \in BankStates
    BY DEF TypeOK, Timers

\* A bank that a command touches at most by delaying its next activation.
LEMMA QuietOther ==
    ASSUME TypeOK, TypeOK', NEW i \in Ranks, NEW j \in Banks, Quiet(i, j),
           UNCHANGED <<CYCLE_VAL, refresh_issue_deadline>>,
           state'[i][j] = state[i][j],
           next'[i][j]["pre"] = next[i][j]["pre"],
           next'[i][j]["refresh"] = next[i][j]["refresh"],
           next'[i][j]["powerup"] = next[i][j]["powerup"],
           next'[i][j]["act"] >= next[i][j]["act"]
    PROVE  Quiet(i, j)'
  <1>1. next'[i][j]["act"] \in Int
    BY DEF TypeOK, Timers
  <1> QED
    BY <1>1, TimerTypes DEF Quiet, InTime

LEMMA OpenRowQuiet ==
    ASSUME TypeOK, TypeOK', AllQuiet, NEW r \in Ranks, NEW b \in Banks,
           NEW row \in Rows, state[r][b] \in Closed, Reached(r, b, "act"),
           FitsBeforeRefresh(r, T_RAS), OpenRow(r, b, row),
           UNCHANGED <<CYCLE_VAL, refreshVars>>
    PROVE  AllQuiet'
  <1> DEFINE opened == Deferred(Deferred(Deferred(next[r][b],
                {"pre", "refresh"},             CYCLE_VAL + T_RAS),
                {"read", "write", "powerdown"}, CYCLE_VAL + T_RCD),
                {"act"},                        CYCLE_VAL + T_RC)
  <1>1. /\ state' = [state EXCEPT ![r][b] = "ROW_ACTIVE"]
        /\ next' = [next EXCEPT ![r] = [i \in Banks |->
               IF i = b THEN opened
               ELSE Deferred(next[r][i], {"act"}, CYCLE_VAL + T_RRD)]]
        /\ UNCHANGED <<CYCLE_VAL, refresh_issue_deadline>>
    BY DEF OpenRow, refreshVars
  <1> SUFFICES ASSUME NEW i \in Ranks, NEW j \in Banks
               PROVE  Quiet(i, j)'
    BY DEF AllQuiet
  <1>2. Quiet(i, j)
    BY DEF AllQuiet
  <1>3. CASE i = r /\ j = b
    <2>1. next'[r][b] = opened /\ state'[r][b] = "ROW_ACTIVE"
      BY <1>1 DEF TypeOK
    <2>2. /\ opened["pre"] = Later(CYCLE_VAL + T_RAS, next[r][b]["pre"])
          /\ opened["refresh"] = Later(CYCLE_VAL + T_RAS, next[r][b]["refresh"])
      BY DEF Deferred, Timers
    <2>3. next[r][b]["pre"] <= CYCLE_VAL
      BY <1>2, <1>3, TimerTypes DEF Quiet, Closed, RowOpen, Reached
    <2>4. CYCLE_VAL + T_RAS <= refresh_issue_deadline[r]
      BY DEF FitsBeforeRefresh
    <2> HIDE DEF opened
    <2> QED
      BY <1>1, <1>3, <2>1, <2>2, <2>3, <2>4, TimerTypes, Times, LongestBounds
      DEF Quiet, InTime, RowOpen, PoweredDown, PrechargePowerDown, Later
  <1>4. CASE i = r /\ j # b
    <2>1. /\ next'[i][j] = Deferred(next[i][j], {"act"}, CYCLE_VAL + T_RRD)
          /\ state'[i][j] = state[i][j]
      BY <1>1, <1>4 DEF TypeOK
    <2>2. /\ next'[i][j]["pre"] = next[i][j]["pre"]
          /\ next'[i][j]["refresh"] = next[i][j]["refresh"]
          /\ next'[i][j]["powerup"] = next[i][j]["powerup"]
          /\ next'[i][j]["act"] = Later(CYCLE_VAL + T_RRD, next[i][j]["act"])
      BY <2>1 DEF Deferred, Timers
    <2>3. next'[i][j]["act"] >= next[i][j]["act"]
      BY <2>2, TimerTypes, Times DEF Later
    <2> QED
      BY <1>1, <1>2, <2>1, <2>2, <2>3, QuietOther
  <1>5. CASE i # r
    <2>1. next'[i] = next[i] /\ state'[i] = state[i]
      BY <1>1, <1>5 DEF TypeOK
    <2> QED
      BY <1>1, <1>2, <2>1, TimerTypes, QuietOther
  <1> QED
    BY <1>3, <1>4, <1>5

LEMMA ColumnAccessQuiet ==
    ASSUME TypeOK, TypeOK', AllQuiet, NEW r \in Ranks, NEW b \in Banks,
           NEW kind, NEW rs \in Int, NEW ro \in Int, NEW ws \in Int,
           NEW wo \in Int, NEW close \in Nat, close <= Longest,
           state[r][b] = "ROW_ACTIVE", FitsBeforeRefresh(r, close),
           ColumnAccess(r, b, kind, rs, ro, ws, wo, close),
           UNCHANGED <<CYCLE_VAL, refreshVars>>
    PROVE  AllQuiet'
  <1> DEFINE OnBus(i, t) ==
            Deferred(Deferred(t,
                {"read"},  CYCLE_VAL + IF i = r THEN rs ELSE ro),
                {"write"}, CYCLE_VAL + IF i = r THEN ws ELSE wo)
  <1>1. /\ UNCHANGED <<state, CYCLE_VAL, refresh_issue_deadline>>
        /\ next' = [i \in Ranks |-> [j \in Banks |->
               IF i = r /\ j = b
               THEN Deferred(OnBus(i, next[i][j]),
                             {"pre", "refresh", "powerdown"}, CYCLE_VAL + close)
               ELSE OnBus(i, next[i][j])]]
    BY DEF ColumnAccess, refreshVars
  <1>2. ASSUME NEW i \in Ranks, NEW j \in Banks
        PROVE  /\ OnBus(i, next[i][j])["pre"] = next[i][j]["pre"]
               /\ OnBus(i, next[i][j])["refresh"] = next[i][j]["refresh"]
               /\ OnBus(i, next[i][j])["powerup"] = next[i][j]["powerup"]
               /\ OnBus(i, next[i][j])["act"] = next[i][j]["act"]
    BY DEF Deferred, Timers
  <1> HIDE DEF OnBus
  <1> SUFFICES ASSUME NEW i \in Ranks, NEW j \in Banks
               PROVE  Quiet(i, j)'
    BY DEF AllQuiet
  <1>3. Quiet(i, j)
    BY DEF AllQuiet
  <1>4. CASE i = r /\ j = b
    <2>1. next'[i][j] = Deferred(OnBus(i, next[i][j]),
                            {"pre", "refresh", "powerdown"}, CYCLE_VAL + close)
      BY <1>1, <1>4
    <2>2. /\ next'[i][j]["pre"] = Later(CYCLE_VAL + close, next[i][j]["pre"])
          /\ next'[i][j]["refresh"]
                = Later(CYCLE_VAL + close, next[i][j]["refresh"])
      BY <1>2, <2>1 DEF Deferred, Timers
    <2>3. CYCLE_VAL + close <= refresh_issue_deadline[r]
      BY DEF FitsBeforeRefresh
    <2> QED
      BY <1>1, <1>3, <1>4, <2>2, <2>3, TimerTypes, LongestBounds
      DEF Quiet, InTime, RowOpen, PoweredDown, PrechargePowerDown, Later
  <1>5. CASE ~(i = r /\ j = b)
    <2>1. next'[i][j] = OnBus(i, next[i][j])
      BY <1>1, <1>5
    <2> QED
      BY <1>1, <1>2, <1>3, <2>1, TimerTypes, QuietOther
  <1> QED
    BY <1>4, <1>5

LEMMA CloseRowsQuiet ==
    ASSUME TypeOK, TypeOK', AllQuiet, NEW r \in Ranks, NEW bs,
           \A b \in Banks : b \in bs => Reached(r, b, "pre"),
           CloseRows(r, bs), UNCHANGED <<CYCLE_VAL, refreshVars>>
    PROVE  AllQuiet'
  <1>1. /\ state' = [state EXCEPT ![r] = [b \in Banks |->
               IF b \in bs THEN "PRECHARGING" ELSE state[r][b]]]
        /\ next' = [next EXCEPT ![r] = [b \in Banks |->
               IF b \in bs
               THEN Deferred(next[r][b], RefreshTimers, CYCLE_VAL + T_RP)
               ELSE next[r][b]]]
        /\ UNCHANGED <<CYCLE_VAL, refresh_issue_deadline>>
    BY DEF CloseRows, refreshVars
  <1> SUFFICES ASSUME NEW i \in Ranks, NEW j \in Banks
               PROVE  Quiet(i, j)'
    BY DEF AllQuiet
  <1>2. Quiet(i, j)
    BY DEF AllQuiet
  <1>3. CASE i = r /\ j \in bs
    <2>1. /\ state'[i][j] = "PRECHARGING"
          /\ next'[i][j] = Deferred(next[i][j], RefreshTimers, CYCLE_VAL + T_RP)
      BY <1>1, <1>3 DEF TypeOK
    <2>2. /\ next'[i][j]["pre"] = Later(CYCLE_VAL + T_RP, next[i][j]["pre"])
          /\ next'[i][j]["act"] = Later(CYCLE_VAL + T_RP, next[i][j]["act"])
      BY <2>1 DEF Deferred, Timers, RefreshTimers
    <2>3. next[i][j]["pre"] <= CYCLE_VAL
      BY <1>3, TimerTypes DEF Reached
    <2> QED
      BY <2>1, <2>2, <2>3, TimerTypes, Times
      DEF Quiet, RowOpen, PoweredDown, PrechargePowerDown, Later
  <1>4. CASE ~(i = r /\ j \in bs)
    <2>1. next'[i][j] = next[i][j] /\ state'[i][j] = state[i][j]
      BY <1>1, <1>4 DEF TypeOK
    <2> QED
      BY <1>1, <1>2, <2>1, TimerTypes, QuietOther
  <1> QED
    BY <1>3, <1>4

LEMMA WakeRankQuiet ==
    ASSUME TypeOK, TypeOK', AllQuiet, NEW r \in Ranks,
           \A b \in Banks : state[r][b] \in PoweredDown,
           NUM_RANKS = 1 => FitsBeforeRefresh(r, T_XP), WakeRank(r),
           UNCHANGED <<CYCLE_VAL, refreshVars>>
    PROVE  AllQuiet'
  <1>1. /\ state' = [state EXCEPT ![r] = [b \in Banks |->
               IF state[r][b] \in PrechargePowerDown
               THEN "IDLE" ELSE "ROW_ACTIVE"]]
        /\ next' = [next EXCEPT ![r] = [b \in Banks |->
               Deferred(next[r][b], WakeTimers, CYCLE_VAL + T_XP)]]
        /\ UNCHANGED <<CYCLE_VAL, refresh_issue_deadline>>
    BY DEF WakeRank, refreshVars
  <1> SUFFICES ASSUME NEW i \in Ranks, NEW j \in Banks
               PROVE  Quiet(i, j)'
    BY DEF AllQuiet
  <1>2. Quiet(i, j)
    BY DEF AllQuiet
  <1>3. CASE i = r
    <2>1. /\ state'[i][j] = IF state[i][j] \in PrechargePowerDown
                            THEN "IDLE" ELSE "ROW_ACTIVE"
          /\ next'[i][j] = Deferred(next[i][j], WakeTimers, CYCLE_VAL + T_XP)
      BY <1>1, <1>3 DEF TypeOK
    <2>2. /\ next'[i][j]["pre"] = Later(CYCLE_VAL + T_XP, next[i][j]["pre"])
          /\ next'[i][j]["act"] = Later(CYCLE_VAL + T_XP, next[i][j]["act"])
          /\ next'[i][j]["refresh"]
                = Later(CYCLE_VAL + T_XP, next[i][j]["refresh"])
      BY <2>1 DEF Deferred, Timers, WakeTimers
    <2>3. NUM_RANKS = 1 => CYCLE_VAL + T_XP <= refresh_issue_deadline[i]
      BY <1>3 DEF FitsBeforeRefresh
    <2>4. CASE state[i][j] \in PrechargePowerDown
      <3>1. state'[i][j] = "IDLE"
        BY <2>1, <2>4
      <3>2. next[i][j]["pre"] <= next[i][j]["act"]
        BY <1>2, <2>4 DEF Quiet, PrechargePowerDown, RowOpen
      <3> QED
        BY <2>2, <3>1, <3>2, TimerTypes, Times
        DEF Quiet, RowOpen, PoweredDown, PrechargePowerDown, Later
    <2>5. CASE state[i][j] \notin PrechargePowerDown
      <3>1. state'[i][j] = "ROW_ACTIVE" /\ state[i][j] = "ACTIVE_POWER_DOWN"
        BY <1>3, <2>1, <2>5 DEF PoweredDown
      <3>2. /\ next[i][j]["pre"] <= next[i][j]["refresh"]
            /\ InTime(i, next[i][j]["pre"])
        BY <1>2, <3>1 DEF Quiet, RowOpen
      <3> QED
        BY <1>1, <2>2, <2>3, <3>1, <3>2, TimerTypes, Times, LongestBounds
        DEF Quiet, InTime, RowOpen, PoweredDown, PrechargePowerDown, Later
    <2> QED
      BY <2>4, <2>5
  <1>4. CASE i # r
    <2>1. next'[i] = next[i] /\ state'[i] = state[i]
      BY <1>1, <1>4 DEF TypeOK
    <2> QED
      BY <1>1, <1>2, <2>1, TimerTypes, QuietOther
  <1> QED
    BY <1>3, <1>4

LEMMA PowerDownQuiet ==
    ASSUME TypeOK, TypeOK', AllQuiet, NEW r \in Ranks,
           NEW low \in PrechargePowerDown,
           \A b \in Banks : state[r][b] \notin PoweredDown
                            /\ Reached(r, b, "powerdown"),
           FitsBeforeRefresh(r, T_PD_MIN + T_XP), PowerDown(r, low)
    PROVE  AllQuiet'
  <1> DEFINE slept(b) == [Deferred(next[r][b], {"refresh"}, CYCLE_VAL + T_PD_MIN)
                 EXCEPT !["powerup"] = Later(CYCLE_VAL + T_PD_MIN,
                                             next[r][b]["powerdown"])]
  <1>1. /\ state' = [state EXCEPT ![r] = [b \in Banks |->
               IF state[r][b] \in Closed THEN low
               ELSE IF state[r][b] = "ROW_ACTIVE" THEN "ACTIVE_POWER_DOWN"
               ELSE state[r][b]]]
        /\ next' = [next EXCEPT ![r] = [b \in Banks |-> slept(b)]]
        /\ UNCHANGED <<CYCLE_VAL, refresh_issue_deadline>>
    BY DEF PowerDown, Unqueued, refreshVars
  <1>2. ASSUME NEW b \in Banks
        PROVE  /\ slept(b)["pre"] = next[r][b]["pre"]
               /\ slept(b)["act"] = next[r][b]["act"]
               /\ slept(b)["refresh"]
                     = Later(CYCLE_VAL + T_PD_MIN, next[r][b]["refresh"])
               /\ slept(b)["powerup"]
                     = Later(CYCLE_VAL + T_PD_MIN, next[r][b]["powerdown"])
    BY DEF Deferred, Timers
  <1> HIDE DEF slept
  <1> SUFFICES ASSUME NEW i \in Ranks, NEW j \in Banks
               PROVE  Quiet(i, j)'
    BY DEF AllQuiet
  <1>3. Quiet(i, j)
    BY DEF AllQuiet
  <1>4. CASE i = r
    <2>1. /\ next'[i][j] = slept(j)
          /\ state'[i][j] = IF state[i][j] \in Closed THEN low
                            ELSE IF state[i][j] = "ROW_ACTIVE"
                            THEN "ACTIVE_POWER_DOWN" ELSE state[i][j]
      BY <1>1, <1>4 DEF TypeOK
    <2>2. state[i][j] \in Closed \/ state[i][j] = "ROW_ACTIVE"
      BY <1>4, TimerTypes DEF BankStates
    <2>3. next[i][j]["powerdown"] <= CYCLE_VAL
      BY <1>4, TimerTypes DEF Reached
    <2>4. InTime(i, next[i][j]["powerup"] + T_XP)'
      <3>1. next'[i][j]["powerup"] = CYCLE_VAL + T_PD_MIN
        BY <1>2, <1>4, <2>1, <2>3, TimerTypes, Times DEF Later
      <3>2. CYCLE_VAL + (T_PD_MIN + T_XP) <= refresh_issue_deadline[i]
        BY <1>4 DEF FitsBeforeRefresh
      <3> QED
        BY <1>1, <3>1, <3>2, TimerTypes, Times, LongestBounds DEF InTime
    <2>5. CASE state[i][j] \in Closed
      <3>1. state'[i][j] \in PrechargePowerDown
        BY <2>1, <2>5
      <3>2. next[i][j]["pre"] <= next[i][j]["act"]
        BY <1>3, <2>5 DEF Quiet, Closed, RowOpen
      <3>3. state'[i][j] \notin RowOpen
        BY <3>1 DEF PrechargePowerDown, RowOpen
      <3>4. next'[i][j]["pre"] <= next'[i][j]["act"]
        BY <1>2, <1>4, <2>1, <3>2
      <3> QED
        BY <2>4, <3>3, <3>4 DEF Quiet
    <2>6. CASE state[i][j] = "ROW_ACTIVE"
      <3>1. state'[i][j] = "ACTIVE_POWER_DOWN"
        BY <2>1, <2>6 DEF Closed
      <3>2. /\ next[i][j]["pre"] <= next[i][j]["refresh"]
            /\ InTime(i, next[i][j]["pre"])
        BY <1>3, <2>6 DEF Quiet, RowOpen
      <3>3. next'[i][j]["pre"] <= next'[i][j]["refresh"]
        BY <1>2, <1>4, <2>1, <3>2, TimerTypes, Times DEF Later
      <3>4. InTime(i, next[i][j]["pre"])'
        BY <1>1, <1>2, <1>4, <2>1, <3>2 DEF InTime
      <3> QED
        BY <2>4, <3>1, <3>3, <3>4 DEF Quiet, RowOpen
    <2> QED
      BY <2>2, <2>5, <2>6
  <1>5. CASE i # r
    <2>1. next'[i] = next[i] /\ state'[i] = state[i]
      BY <1>1, <1>5 DEF TypeOK
    <2> QED
      BY <1>1, <1>3, <2>1, TimerTypes, QuietOther
  <1> QED
    BY <1>4, <1>5

LEMMA AutoprechargeQuiet ==
    ASSUME TypeOK, TypeOK', AllQuiet, NEW r \in Ranks, NEW b \in Banks,
           Autoprecharge(r, b)
    PROVE  AllQuiet'
  <1> DEFINE start == AutoprechargeStart(r, b)
  <1>1. /\ state' = [state EXCEPT ![r][b] = "PRECHARGING"]
        /\ next' = [next EXCEPT ![r][b] =
               Deferred(@, RefreshTimers, start + T_RP)]
        /\ UNCHANGED <<CYCLE_VAL, refresh_issue_deadline>>
    BY DEF Autoprecharge, Unqueued, refreshVars
  <1>2. start \in Int /\ next[r][b]["pre"] <= start
    BY TimerTypes, Times DEF AutoprechargeStart, Later
  <1> HIDE DEF start
  <1> SUFFICES ASSUME NEW i \in Ranks, NEW j \in Banks
               PROVE  Quiet(i, j)'
    BY DEF AllQuiet
  <1>3. Quiet(i, j)
    BY DEF AllQuiet
  <1>4. CASE i = r /\ j = b
    <2>1. /\ state'[i][j] = "PRECHARGING"
          /\ next'[i][j] = Deferred(next[i][j], RefreshTimers, start + T_RP)
      BY <1>1, <1>4 DEF TypeOK
    <2>2. /\ next'[i][j]["pre"] = Later(start + T_RP, next[i][j]["pre"])
          /\ next'[i][j]["act"] = Later(start + T_RP, next[i][j]["act"])
      BY <2>1 DEF Deferred, Timers, RefreshTimers
    <2> QED
      BY <1>2, <1>4, <2>1, <2>2, TimerTypes, Times
      DEF Quiet, RowOpen, PoweredDown, PrechargePowerDown, Later
  <1>5. CASE ~(i = r /\ j = b)
    <2>1. next'[i][j] = next[i][j] /\ state'[i][j] = state[i][j]
      BY <1>1, <1>5 DEF TypeOK
    <2> QED
      BY <1>1, <1>3, <2>1, TimerTypes, QuietOther
  <1> QED
    BY <1>4, <1>5

LEMMA RefreshQuiet ==
    ASSUME TypeOK, TypeOK', AllQuiet, NEW r \in Ranks, Refresh(r)
    PROVE  AllQuiet'
  <1> DEFINE done == CYCLE_VAL + RefreshLead(r) + T_RFC
  <1>1. /\ state' = [state EXCEPT ![r] = [b \in Banks |-> "REFRESHING"]]
        /\ next' = [next EXCEPT ![r] = [b \in Banks |->
               Deferred(next[r][b], RefreshTimers, done)]]
        /\ UNCHANGED <<CYCLE_VAL, refresh_issue_deadline>>
    BY DEF Refresh
  <1>2. done \in Int /\ CYCLE_VAL <= done
    BY Times DEF RefreshLead, TypeOK
  <1>3. \A b \in Banks : Reached(r, b, "refresh")
    BY DEF Refresh, IsRefreshAllowed
  <1> HIDE DEF done
  <1> SUFFICES ASSUME NEW i \in Ranks, NEW j \in Banks
               PROVE  Quiet(i, j)'
    BY DEF AllQuiet
  <1>4. Quiet(i, j)
    BY DEF AllQuiet
  <1>5. CASE i = r
    <2>1. /\ state'[i][j] = "REFRESHING"
          /\ next'[i][j] = Deferred(next[i][j], RefreshTimers, done)
      BY <1>1, <1>5 DEF TypeOK
    <2>2. /\ next'[i][j]["pre"] = Later(done, next[i][j]["pre"])
          /\ next'[i][j]["act"] = Later(done, next[i][j]["act"])
      BY <2>1 DEF Deferred, Timers, RefreshTimers
    <2>3. next[i][j]["refresh"] <= CYCLE_VAL
      BY <1>3, <1>5, TimerTypes DEF Reached
    <2>4. \/ next[i][j]["pre"] <= CYCLE_VAL
          \/ next[i][j]["pre"] <= next[i][j]["act"]
      BY <1>4, <2>3, TimerTypes DEF Quiet
    <2>5. next'[i][j]["pre"] <= next'[i][j]["act"]
      BY <1>2, <2>2, <2>4, TimerTypes DEF Later
    <2> QED
      BY <2>1, <2>5 DEF Quiet, RowOpen, PoweredDown, PrechargePowerDown
  <1>6. CASE i # r
    <2>1. next'[i] = next[i] /\ state'[i] = state[i]
      BY <1>1, <1>6 DEF TypeOK
    <2> QED
      BY <1>1, <1>4, <2>1, TimerTypes, QuietOther
  <1> QED
    BY <1>5, <1>6

\* The issue deadline is never later than the missing refreshes need.
DeadlineNotLate ==
    \A r \in Ranks :
        refresh_issue_deadline[r]
            <= IssueDeadline(next_refresh_completion_deadline[r],
                             num_issued_refreshes[r])

LEMMA UpdateMemoryNotLate ==
    ASSUME TypeOK, TypeOK', DeadlineNotLate, UpdateMemory
    PROVE  DeadlineNotLate'
  <1> SUFFICES ASSUME NEW r \in Ranks
               PROVE  refresh_issue_deadline'[r]
                         <= IssueDeadline(next_refresh_completion_deadline'[r],
                                          num_issued_refreshes'[r])
    BY DEF DeadlineNotLate
  <1> DEFINE c == next_refresh_completion_deadline'[r]
             n == num_issued_refreshes'[r]
  <1>1. /\ n = IF WindowEnds(r) THEN 0 ELSE num_issued_refreshes[r]
        /\ ~WindowEnds(r) => c = next_refresh_completion_deadline[r]
        /\ refresh_issue_deadline'[r] = AdvanceDeadlines(r)
    BY DEF UpdateMemory, UpdateRefresh, IssueForcedRefreshCommands
  <1>2. IssueDeadline(c, n) \in Int
    BY IssueDeadlineType DEF TypeOK
  <1>3. CASE refresh_issue_deadline'[r] = IssueDeadline(c, n)
    BY <1>2, <1>3
  <1>4. CASE refresh_issue_deadline'[r] # IssueDeadline(c, n)
    <2>1. ~WindowEnds(r) /\ refresh_issue_deadline'[r] = refresh_issue_deadline[r]
      BY <1>1, <1>4 DEF AdvanceDeadlines
    <2> QED
      BY <1>1, <2>1 DEF DeadlineNotLate
  <1> QED
    BY <1>3, <1>4

LEMMA RefreshNotLate ==
    ASSUME TypeOK, DeadlineNotLate, NEW i \in Ranks, Refresh(i)
    PROVE  DeadlineNotLate'
  <1> SUFFICES ASSUME NEW r \in Ranks
               PROVE  refresh_issue_deadline[r]
                         <= IssueDeadline(next_refresh_completion_deadline[r],
                                          num_issued_refreshes'[r])
    BY DEF DeadlineNotLate, Refresh
  <1> DEFINE n == num_issued_refreshes[r]
             c == next_refresh_completion_deadline[r]
             d == refresh_issue_deadline[r]
  <1>1. n \in Nat /\ n + 1 \in Nat /\ c \in Int /\ d \in Int
    BY DEF TypeOK
  <1>2. d <= IssueDeadline(c, n)
    BY DEF DeadlineNotLate
  <1>3. num_issued_refreshes'[r] = n \/ num_issued_refreshes'[r] = n + 1
    BY DEF Refresh, TypeOK
  <1> HIDE DEF n, c, d
  <1>4. IssueDeadline(c, n) \in Int /\ IssueDeadline(c, n + 1) \in Int
    BY <1>1, IssueDeadlineType
  <1>5. IssueDeadline(c, n) <= IssueDeadline(c, n + 1)
    BY <1>1, IssueDeadlineStep
  <1>6. d <= IssueDeadline(c, n + 1)
    BY <1>1, <1>2, <1>4, <1>5
  <1> QED
    BY <1>2, <1>3, <1>6 DEF c, d

\* What ends by the deadline still does when the deadline moves.
LEMMA DeadlineMoves ==
    ASSUME TypeOK, TypeOK', DeadlineNotLate, UpdateMemory,
           NEW r \in Ranks, NEW t \in Int,
           t <= refresh_issue_deadline[r], t <= CYCLE_VAL + Longest
    PROVE  t <= refresh_issue_deadline'[r] /\ t <= CYCLE_VAL' + Longest
  <1> DEFINE c == next_refresh_completion_deadline'[r]
             window == REFRESH_QUOTA * T_REFI
             blackout == REFRESH_QUOTA * T_RFC
  <1>1. /\ CYCLE_VAL \in Nat /\ CYCLE_VAL' = CYCLE_VAL + 1
        /\ refresh_issue_deadline[r] \in Int
        /\ refresh_issue_deadline'[r] = AdvanceDeadlines(r)
        /\ c = IF WindowEnds(r) THEN CYCLE_VAL + 1 + window
               ELSE next_refresh_completion_deadline[r]
    BY DEF UpdateMemory, UpdateRefresh, IssueForcedRefreshCommands, TypeOK
  <1>2. t <= CYCLE_VAL' + Longest
    BY <1>1, LongestBounds
  <1>3. CASE WindowEnds(r)
    <2>1. window \in Int /\ blackout \in Int
      BY Times
    <2>2. refresh_issue_deadline'[r] = IssueDeadline(c, 0)
      BY <1>1, <1>3 DEF AdvanceDeadlines
    <2>3. IssueDeadline(c, 0) = c - T_RP - blackout
      BY Times DEF IssueDeadline
    <2>4. c = CYCLE_VAL + 1 + window
      BY <1>1, <1>3
    <2>5. T_RP + blackout + Longest <= window
      BY WindowIsRoomy
    <2> HIDE DEF window, blackout, c
    <2> QED
      BY <1>1, <1>2, <2>1, <2>2, <2>3, <2>4, <2>5, Times, LongestBounds
  <1>4. CASE ~WindowEnds(r)
    <2>1. \/ refresh_issue_deadline'[r] = refresh_issue_deadline[r]
          \/ refresh_issue_deadline'[r]
                = IssueDeadline(next_refresh_completion_deadline[r],
                                num_issued_refreshes[r])
      BY <1>1, <1>4 DEF AdvanceDeadlines
    <2>2. refresh_issue_deadline[r] <= refresh_issue_deadline'[r]
      BY <1>1, <2>1 DEF DeadlineNotLate
    <2>3. refresh_issue_deadline'[r] \in Int
      BY DEF TypeOK
    <2> QED
      BY <1>1, <1>2, <2>2, <2>3
  <1> QED
    BY <1>3, <1>4

LEMMA InTimeMoves ==
    ASSUME TypeOK, TypeOK', DeadlineNotLate, UpdateMemory,
           NEW r \in Ranks, NEW t \in Int, InTime(r, t)
    PROVE  /\ NUM_RANKS = 1 => t <= refresh_issue_deadline'[r]
           /\ t <= CYCLE_VAL' + Longest
  <1>1. t <= CYCLE_VAL' + Longest
    BY LongestBounds DEF InTime, UpdateMemory, TypeOK
  <1>2. NUM_RANKS = 1 => t <= refresh_issue_deadline'[r]
    BY DeadlineMoves DEF InTime
  <1> QED
    BY <1>1, <1>2

LEMMA UpdateMemoryQuiet ==
    ASSUME TypeOK, TypeOK', DeadlineNotLate, AllQuiet,
           UpdateMemory
    PROVE  AllQuiet'
  <1> SUFFICES ASSUME NEW i \in Ranks, NEW j \in Banks
               PROVE  Quiet(i, j)'
    BY DEF AllQuiet
  <1>1. Quiet(i, j)
    BY DEF AllQuiet
  <1>2. CASE ForcedRefreshDue(i)
    <2>1. /\ state'[i][j] = "REFRESHING"
          /\ next'[i][j]["pre"] = next_refresh_completion_deadline[i]
          /\ next'[i][j]["act"] = next_refresh_completion_deadline[i]
      BY <1>2 DEF UpdateMemory, UpdateRefresh, IssueForcedRefreshCommands,
                  Timers, RefreshTimers
    <2> QED
      BY <2>1 DEF Quiet, RowOpen, PoweredDown, PrechargePowerDown, TypeOK
  <1>3. CASE ~ForcedRefreshDue(i)
    <2>1. /\ state'[i][j] = state[i][j]
          /\ \A k \in Timers : next'[i][j][k] = next[i][j][k]
      BY <1>3 DEF UpdateMemory, UpdateRefresh, IssueForcedRefreshCommands
    <2>2. ASSUME state[i][j] \in RowOpen
          PROVE  InTime(i, next[i][j]["pre"])'
      BY <1>1, <2>1, <2>2, TimerTypes, InTimeMoves DEF Quiet, InTime, Timers
    <2>3. ASSUME state[i][j] \in PoweredDown
          PROVE  InTime(i, next[i][j]["powerup"] + T_XP)'
      <3>1. next[i][j]["powerup"] + T_XP \in Int
        BY TimerTypes, Times
      <3>2. InTime(i, next[i][j]["powerup"] + T_XP)
        BY <1>1, <2>3 DEF Quiet
      <3>3. /\ NUM_RANKS = 1 =>
                  next[i][j]["powerup"] + T_XP <= refresh_issue_deadline'[i]
            /\ next[i][j]["powerup"] + T_XP <= CYCLE_VAL' + Longest
        BY <3>1, <3>2, InTimeMoves
      <3> QED
        BY <2>1, <3>3 DEF InTime, Timers
    <2> QED
      BY <1>1, <2>1, <2>2, <2>3 DEF Quiet, Timers
  <1> QED
    BY <1>2, <1>3

\* What the flag of a request promises of the timers.
LEMMA IssuableInTime ==
    ASSUME StructureInv, NEW q \in requests, q.command_issuable,
           ~command_issued_current_cycle
    PROVE  /\ q.next_command = "ACT" =>
                 /\ Reached(q.rank, q.bank, "act")
                 /\ FitsBeforeRefresh(q.rank, T_RAS)
           /\ q.next_command = "COL_READ" => FitsBeforeRefresh(q.rank, T_RTP)
           /\ q.next_command = "COL_WRITE" =>
                 FitsBeforeRefresh(q.rank, T_CWD + T_DATA_TRANS + T_WR)
           /\ q.next_command = "PRE" => Reached(q.rank, q.bank, "pre")
           /\ q.next_command = "PWR_UP" => FitsBeforeRefresh(q.rank, T_XP)
  <1>1. q.next_command = NextCommand(q) /\ CommandIssuable(q)
    BY DEF StructureInv, FlagsAreCurrent
  <1>2. /\ CYCLE_VAL \in Nat /\ q.rank \in Ranks
        /\ refresh_issue_deadline[q.rank] \in Int
    BY DEF StructureInv, TypeOK, Request
  <1>3. FitsBeforeRefresh(q.rank, T_XP_DLL) => FitsBeforeRefresh(q.rank, T_XP)
    BY <1>2, Times, WindowAssumption DEF FitsBeforeRefresh
  <1>4. q.next_command = "PWR_UP" => FitsBeforeRefresh(q.rank, T_XP)
    <2>1. CASE state[q.rank][q.bank] = "PRECHARGE_POWER_DOWN_SLOW"
      BY <1>1, <1>3, <2>1 DEF CommandIssuable
    <2>2. CASE state[q.rank][q.bank] # "PRECHARGE_POWER_DOWN_SLOW"
      BY <1>1, <2>2 DEF CommandIssuable
    <2> QED
      BY <2>1, <2>2
  <1> QED
    BY <1>1, <1>4 DEF CommandIssuable

LEMMA IssueRequestQuiet ==
    ASSUME StructureInv, TypeOK', AllQuiet,
           NEW q \in requests, IssueRequestCommand(q)
    PROVE  AllQuiet'
  <1>1. /\ q.rank \in Ranks /\ q.bank \in Banks /\ q.row \in Rows
        /\ TypeOK /\ BankInv
    BY DEF StructureInv, TypeOK, Request
  <1>2. /\ q.command_issuable /\ ~command_issued_current_cycle
        /\ UNCHANGED <<CYCLE_VAL, refreshVars>>
    BY DEF IssueRequestCommand
  <1>3. CASE q.next_command = "ACT" /\ OpenRow(q.rank, q.bank, q.row)
    BY <1>1, <1>2, <1>3, IssuableRequest, IssuableInTime, OpenRowQuiet
  <1>4. CASE q.next_command = "COL_READ" /\ ColumnRead(q.rank, q.bank)
    <2>1. /\ Later(T_CCD, T_DATA_TRANS) \in Int
          /\ T_DATA_TRANS + T_RTRS \in Int
          /\ T_CAS + T_DATA_TRANS + T_RTRS - T_CWD \in Int
          /\ T_RTP \in Nat /\ T_RTP <= Longest
      BY Times, LongestBounds DEF Later
    <2>2. state[q.rank][q.bank] = "ROW_ACTIVE" /\ FitsBeforeRefresh(q.rank, T_RTP)
      BY <1>2, <1>4, IssuableRequest, IssuableInTime
    <2> QED
      BY <1>1, <1>2, <1>4, <2>1, <2>2, ColumnAccessQuiet DEF ColumnRead
  <1>5. CASE q.next_command = "COL_WRITE" /\ ColumnWrite(q.rank, q.bank)
    <2> DEFINE close == T_CWD + T_DATA_TRANS + T_WR
    <2>1. /\ Later(T_CCD, T_DATA_TRANS) \in Int
          /\ T_DATA_TRANS + T_RTRS \in Int
          /\ T_CWD + T_DATA_TRANS + T_WTR \in Int
          /\ T_CWD + T_DATA_TRANS + T_RTRS - T_CAS \in Int
          /\ close \in Nat /\ close <= Longest
      BY Times, LongestBounds DEF Later
    <2>2. state[q.rank][q.bank] = "ROW_ACTIVE" /\ FitsBeforeRefresh(q.rank, close)
      BY <1>2, <1>5, IssuableRequest, IssuableInTime
    <2> QED
      BY <1>1, <1>2, <1>5, <2>1, <2>2, ColumnAccessQuiet DEF ColumnWrite
  <1>6. CASE q.next_command = "PRE" /\ CloseRows(q.rank, {q.bank})
    <2>1. \A b \in Banks : b \in {q.bank} => Reached(q.rank, b, "pre")
      BY <1>2, <1>6, IssuableInTime
    <2> QED
      BY <1>1, <1>2, <1>6, <2>1, CloseRowsQuiet
  <1>7. CASE q.next_command = "PWR_UP" /\ WakeRank(q.rank)
    <2>1. /\ state[q.rank][q.bank] \in PoweredDown
          /\ FitsBeforeRefresh(q.rank, T_XP)
      BY <1>2, <1>7, IssuableRequest, IssuableInTime
    <2>2. \A b \in Banks : state[q.rank][b] \in PoweredDown
      BY <1>1, <2>1 DEF BankInv, PowerStateIsRankWide
    <2> QED
      BY <1>1, <1>2, <1>7, <2>1, <2>2, WakeRankQuiet
  <1> QED
    BY <1>3, <1>4, <1>5, <1>6, <1>7 DEF IssueRequestCommand

LEMMA RankCommandQuiet ==
    ASSUME StructureInv, TypeOK', AllQuiet,
           NEW r \in Ranks, RankCommand(r)
    PROVE  AllQuiet'
  <1>1. /\ TypeOK /\ BankInv /\ CYCLE_VAL \in Nat
        /\ refresh_issue_deadline[r] \in Int
    BY DEF StructureInv, TypeOK
  <1>2. CASE PowerDownFast(r)
    <2>1. /\ FitsBeforeRefresh(r, T_PD_MIN + T_XP)
          /\ PowerDown(r, "PRECHARGE_POWER_DOWN_FAST")
          /\ \A b \in Banks : state[r][b] \notin PoweredDown
                              /\ Reached(r, b, "powerdown")
      BY <1>2 DEF PowerDownFast, IsPowerdownFastAllowed
    <2> QED
      BY <1>1, <2>1, PowerDownQuiet DEF PrechargePowerDown
  <1>3. CASE PowerDownSlow(r)
    <2>1. /\ FitsBeforeRefresh(r, T_PD_MIN + T_XP_DLL)
          /\ PowerDown(r, "PRECHARGE_POWER_DOWN_SLOW")
          /\ \A b \in Banks : state[r][b] \in Closed
                              /\ Reached(r, b, "powerdown")
      BY <1>3 DEF PowerDownSlow, IsPowerdownSlowAllowed
    <2>2. FitsBeforeRefresh(r, T_PD_MIN + T_XP)
      BY <1>1, <2>1, Times, WindowAssumption DEF FitsBeforeRefresh
    <2>3. \A b \in Banks : state[r][b] \notin PoweredDown
      BY <2>1 DEF Closed, PoweredDown, PrechargePowerDown
    <2> QED
      BY <1>1, <2>1, <2>2, <2>3, PowerDownQuiet DEF PrechargePowerDown
  <1>4. CASE PowerUp(r)
    <2>1. /\ state[r][0] \in PoweredDown
          /\ FitsBeforeRefresh(0, T_XP) \/ FitsBeforeRefresh(0, T_XP_DLL)
          /\ WakeRank(r) /\ UNCHANGED <<CYCLE_VAL, refreshVars>>
      BY <1>4 DEF PowerUp, IsPowerupAllowed, Unqueued
    <2>2. NUM_RANKS = 1 => r = 0
      BY DEF Ranks
    <2>3. NUM_RANKS = 1 => FitsBeforeRefresh(r, T_XP)
      BY <1>1, <2>1, <2>2, Times, WindowAssumption DEF FitsBeforeRefresh
    <2>4. \A b \in Banks : state[r][b] \in PoweredDown
      BY <1>1, <2>1, Indices DEF BankInv, PowerStateIsRankWide
    <2> QED
      BY <1>1, <2>1, <2>3, <2>4, WakeRankQuiet
  <1>5. CASE AllBankPrecharge(r)
    <2>1. /\ \A b \in Banks : b \in Banks => Reached(r, b, "pre")
          /\ CloseRows(r, Banks) /\ UNCHANGED <<CYCLE_VAL, refreshVars>>
      BY <1>5 DEF AllBankPrecharge, IsAllBankPrechargeAllowed,
                  IsPrechargeAllowed, Unqueued
    <2> QED
      BY <1>1, <2>1, CloseRowsQuiet
  <1>6. CASE Refresh(r)
    BY <1>1, <1>6, RefreshQuiet
  <1> QED
    BY <1>2, <1>3, <1>4, <1>5, <1>6 DEF RankCommand

LEMMA BankCommandQuiet ==
    ASSUME TypeOK, TypeOK', AllQuiet, NEW r \in Ranks, NEW b \in Banks,
           BankCommand(r, b)
    PROVE  AllQuiet'
  <1>1. CASE Autoprecharge(r, b)
    BY <1>1, AutoprechargeQuiet
  <1>2. CASE Precharge(r, b)
    <2>1. /\ \A i \in Banks : i \in {b} => Reached(r, i, "pre")
          /\ CloseRows(r, {b}) /\ UNCHANGED <<CYCLE_VAL, refreshVars>>
      BY <1>2 DEF Precharge, IsPrechargeAllowed, Unqueued
    <2> QED
      BY <2>1, CloseRowsQuiet
  <1>3. ASSUME NEW row \in Rows, Activate(r, b, row)
        PROVE  AllQuiet'
    <2>1. /\ state[r][b] \in Closed /\ Reached(r, b, "act")
          /\ FitsBeforeRefresh(r, T_RAS) /\ OpenRow(r, b, row)
          /\ UNCHANGED <<CYCLE_VAL, refreshVars>>
      BY <1>3 DEF Activate, IsActivateAllowed, Unqueued
    <2> QED
      BY <2>1, OpenRowQuiet
  <1> QED
    BY <1>1, <1>2, <1>3 DEF BankCommand

QuietInv == DeadlineNotLate /\ AllQuiet

LEMMA InitQuiet == Init => QuietInv
  <1> SUFFICES ASSUME Init PROVE DeadlineNotLate /\ AllQuiet
    BY DEF QuietInv
  <1>1. IssueDeadline(REFRESH_QUOTA * T_REFI, 0) \in Int
    <2>1. REFRESH_QUOTA * T_REFI \in Int
      BY Times
    <2> QED
      BY <2>1, IssueDeadlineType
  <1>2. DeadlineNotLate
    BY <1>1 DEF Init, DeadlineNotLate
  <1>3. AllQuiet
    BY DEF Init, AllQuiet, Quiet, RowOpen, PoweredDown, PrechargePowerDown,
           Timers
  <1> QED
    BY <1>2, <1>3

LEMMA QuietStep ==
    StructureInv /\ QuietInv /\ [Next]_vars => QuietInv'
  <1> SUFFICES ASSUME StructureInv, DeadlineNotLate, AllQuiet, [Next]_vars
               PROVE  DeadlineNotLate' /\ AllQuiet'
    BY DEF QuietInv
  <1>1. TypeOK /\ TypeOK'
    BY NextType DEF StructureInv
  <1>2. ASSUME UNCHANGED refreshVars
        PROVE  DeadlineNotLate'
    BY <1>2 DEF DeadlineNotLate, refreshVars
  <1>3. ASSUME UNCHANGED <<CYCLE_VAL, bankVars, refreshVars>>
        PROVE  DeadlineNotLate' /\ AllQuiet'
    BY <1>2, <1>3 DEF AllQuiet, Quiet, InTime, bankVars, refreshVars
  <1>4. CASE UpdateMemory
    BY <1>1, <1>4, UpdateMemoryNotLate, UpdateMemoryQuiet
  <1>5. ASSUME NEW q \in requests, IssueRequestCommand(q)
        PROVE  DeadlineNotLate' /\ AllQuiet'
    BY <1>1, <1>2, <1>5, IssueRequestQuiet DEF IssueRequestCommand
  <1>6. ASSUME NEW r \in Ranks, RankCommand(r)
        PROVE  DeadlineNotLate' /\ AllQuiet'
    <2>1. Refresh(r) \/ UNCHANGED refreshVars
      BY <1>6 DEF RankCommand, PowerDownFast, PowerDownSlow, PowerDown,
                  PowerUp, AllBankPrecharge, Unqueued
    <2> QED
      BY <1>1, <1>2, <1>6, <2>1, RefreshNotLate, RankCommandQuiet
  <1>7. ASSUME NEW r \in Ranks, NEW b \in Banks, BankCommand(r, b)
        PROVE  DeadlineNotLate' /\ AllQuiet'
    <2>1. UNCHANGED refreshVars
      BY <1>7 DEF BankCommand, Autoprecharge, Precharge, Activate, Unqueued
    <2> QED
      BY <1>1, <1>2, <1>7, <2>1, BankCommandQuiet
  <1>8. ASSUME NEW n \in Nodes, NEW op \in {"READ", "WRITE"}, NEW r \in Ranks,
               NEW b \in Banks, NEW row \in Rows, Insert(n, op, r, b, row)
        PROVE  DeadlineNotLate' /\ AllQuiet'
    BY <1>3, <1>8 DEF Insert
  <1>9. ASSUME NEW q \in requests, Answer(q)
        PROVE  DeadlineNotLate' /\ AllQuiet'
    BY <1>3, <1>9 DEF Answer
  <1>10. CASE UNCHANGED vars
    BY <1>3, <1>10 DEF vars
  <1> QED
    BY <1>4, <1>5, <1>6, <1>7, <1>8, <1>9, <1>10 DEF Next

LEMMA QuietInvariant == Spec => []QuietInv
  <1>1. Init => QuietInv
    BY InitQuiet
  <1>2. StructureInv /\ QuietInv /\ [Next]_vars => QuietInv'
    BY QuietStep
  <1> QED
    BY <1>1, <1>2, StructureInvariant, PTL DEF Spec

\* With one rank a forced refresh interrupts nothing.
THEOREM ForcedRefreshQuiet ==
    ASSUME NUM_RANKS = 1
    PROVE  Spec => ForcedRefreshFindsRankQuiet
  <1>1. ASSUME TypeOK, AllQuiet, NEW r \in Ranks, NEW b \in Banks,
               UpdateMemory, ForcedRefreshDue(r)
        PROVE  /\ state[r][b] = "ROW_ACTIVE" => CYCLE_VAL' >= next[r][b]["pre"]
               /\ state[r][b] \in PoweredDown =>
                     CYCLE_VAL' >= next[r][b]["powerup"] + T_XP
    <2>1. CYCLE_VAL' = refresh_issue_deadline[r]
      BY <1>1 DEF UpdateMemory, ForcedRefreshDue
    <2>2. Quiet(r, b)
      BY <1>1 DEF AllQuiet
    <2> QED
      BY <1>1, <2>1, <2>2, TimerTypes, Times DEF Quiet, InTime, RowOpen
  <1>2. TypeOK /\ QuietInv =>
            \A r \in Ranks : (UpdateMemory /\ ForcedRefreshDue(r)) =>
                \A b \in Banks :
                    /\ state[r][b] = "ROW_ACTIVE" =>
                          CYCLE_VAL' >= next[r][b]["pre"]
                    /\ state[r][b] \in PoweredDown =>
                          CYCLE_VAL' >= next[r][b]["powerup"] + T_XP
    BY <1>1 DEF QuietInv
  <1> QED
    BY <1>2, Typing, QuietInvariant, PTL DEF ForcedRefreshFindsRankQuiet
=============================================================================
