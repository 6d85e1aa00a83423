--------------------------- MODULE ObserverProofs ---------------------------
(***************************************************************************)
(* Theorems about the two modules that observe the controller, for every   *)
(* number of ranks, banks and rows, every set of timing parameters and     *)
(* every refresh quota.                                                    *)
(*                                                                         *)
(* The first part proves that the controller issues only commands that the *)
(* DRAM devices accept: ControllerTiming implements DramDevice.  The       *)
(* second is about ControllerStatistics: what the printed counters mean.   *)
(***************************************************************************)
EXTENDS ControllerTiming, ControllerStatistics, MemoryControllerProofs

-----------------------------------------------------------------------------
(* The inductive invariant: every timer covers the distances the devices   *)
(* ask for before the command it delays, and what has been started ends    *)
(* before the refreshes have to.                                           *)

HistoryTyped ==
    /\ last \in [Ranks -> [Banks -> [Kinds -> Int]]]
    /\ busy \in [Ranks -> Int]
    /\ burst \in [rank : Ranks, kind : {"read", "write"}, end : Int]

WriteTime == T_CWD + T_DATA_TRANS + T_WR

\* The row of bank b may be closed at cycle t.
Closable(r, b, t) ==
    /\ last[r][b]["act"] + T_RAS <= t
    /\ last[r][b]["read"] + T_RTP <= t
    /\ last[r][b]["write"] + WriteTime <= t

ActCovers(r, b) ==
    LET t == next[r][b]["act"]
    IN  /\ busy[r] <= t
        /\ last[r][b]["act"] + T_RC <= t
        /\ last[r][b]["pre"] + T_RP <= t
        /\ \A i \in Banks : last[r][i]["act"] + T_RRD <= t

CloseCovers(r, b) ==
    /\ busy[r] <= next[r][b]["pre"]
    /\ Closable(r, b, next[r][b]["pre"])
    /\ busy[r] <= next[r][b]["refresh"]
    /\ Closable(r, b, next[r][b]["refresh"])
    /\ last[r][b]["pre"] + T_RP <= next[r][b]["refresh"]

PowerCovers(r, b) ==
    /\ busy[r] <= next[r][b]["powerdown"]
    /\ state[r][b] \in PoweredDown => busy[r] <= next[r][b]["powerup"]

ColumnCovers(r, b) ==
    LET read  == next[r][b]["read"]
        write == next[r][b]["write"]
    IN  /\ last[r][b]["act"] + T_RCD <= read
        /\ last[r][b]["act"] + T_RCD <= write
        /\ \A i \in Banks :
              /\ last[r][i]["read"] + T_CCD <= read
              /\ last[r][i]["write"] + T_CWD + T_DATA_TRANS + T_WTR <= read
              /\ last[r][i]["write"] + T_CCD <= write
        /\ state[r][b] \in RowOpen => busy[r] <= read /\ busy[r] <= write

\* When the bus is free for a burst of this kind to rank r.
BusFreeFrom(r, kind) ==
    burst["end"] + IF r # burst["rank"] \/ (kind = "write" /\ burst["kind"] = "read")
                   THEN T_RTRS ELSE 0

BusCovers(r, b) ==
    /\ BusFreeFrom(r, "read") <= next[r][b]["read"] + T_CAS
    /\ BusFreeFrom(r, "write") <= next[r][b]["write"] + T_CWD

Covers(r, b) ==
    /\ ActCovers(r, b)
    /\ CloseCovers(r, b)
    /\ PowerCovers(r, b)
    /\ ColumnCovers(r, b)
    /\ BusCovers(r, b)

\* What keeps the rank from its forced refreshes ends by their deadline, and
\* before long.
ByDeadline(r, t) == t <= refresh_issue_deadline[r] /\ t <= CYCLE_VAL + Longest

EndsByDeadline(r, b) ==
    /\ ByDeadline(r, last[r][b]["act"] + T_RAS)
    /\ ByDeadline(r, last[r][b]["read"] + T_RTP)
    /\ ByDeadline(r, last[r][b]["write"] + WriteTime)
    /\ ByDeadline(r, last[r][b]["pre"])

\* An issued refresh ends within the window, unless it was the last one due.
BusyEnds(r) ==
    \/ busy[r] <= next_refresh_completion_deadline[r]
    \/ /\ num_issued_refreshes[r] >= REFRESH_QUOTA
       /\ busy[r] <= CYCLE_VAL + T_RP + T_RFC + Longest

ForcedIsLate(r) == forced_refresh_mode_on[r] => refresh_issue_deadline[r] <= CYCLE_VAL

AllCovered == \A r \in Ranks, b \in Banks : Covers(r, b)
AllEnd     == \A r \in Ranks, b \in Banks : EndsByDeadline(r, b)
RanksBusy  == \A r \in Ranks : BusyEnds(r) /\ ForcedIsLate(r)

DeviceInv ==
    /\ HistoryTyped
    /\ AllCovered
    /\ AllEnd
    /\ RanksBusy

-----------------------------------------------------------------------------
(* Facts about the parameters, the timers and the history.                 *)

LEMMA LongAgoBounds ==
    /\ LongAgo \in Int
    /\ LongAgo < 0 /\ LongAgo + T_RC < 0 /\ LongAgo + T_RP < 0
    /\ LongAgo + T_RRD < 0 /\ LongAgo + T_RAS < 0 /\ LongAgo + T_RCD < 0
    /\ LongAgo + T_RTP < 0 /\ LongAgo + T_CCD < 0 /\ LongAgo + T_RTRS < 0
    /\ LongAgo + (T_CWD + T_DATA_TRANS + T_WR) < 0
    /\ LongAgo + (T_CWD + T_DATA_TRANS + T_WTR) < 0
  <1>1. LongAgo + 0 < 0
    BY LongAgoAssumption
  <1> QED
    BY <1>1, LongAgoAssumption

\* Moving a timer back moves it back far enough.
LEMMA DeferredBounds ==
    ASSUME NEW t \in [Timers -> Int], NEW cmds, NEW c \in Int, NEW k \in Timers
    PROVE  /\ Deferred(t, cmds, c)[k] \in Int
           /\ t[k] <= Deferred(t, cmds, c)[k]
           /\ k \in cmds => c <= Deferred(t, cmds, c)[k]
    BY DEF Deferred, Later

LEMMA AllTimers ==
    ASSUME TypeOK, NEW r \in Ranks, NEW b \in Banks
    PROVE  /\ next[r][b] \in [Timers -> Int]
           /\ next[r][b]["pre"] \in Int /\ next[r][b]["act"] \in Int
           /\ next[r][b]["read"] \in Int /\ next[r][b]["write"] \in Int
           /\ next[r][b]["powerdown"] \in Int
           /\ next[r][b]["powerup"] \in Int /\ next[r][b]["refresh"] \in Int
           /\ CYCLE_VAL \in Int /\ refresh_issue_deadline[r] \in Int
           /\ next_refresh_completion_deadline[r] \in Int
           /\ num_issued_refreshes[r] \in Nat
    BY DEF TypeOK, Timers

LEMMA HistoryTypes ==
    ASSUME HistoryTyped, NEW r \in Ranks, NEW b \in Banks
    PROVE  /\ last[r][b]["act"] \in Int /\ last[r][b]["read"] \in Int
           /\ last[r][b]["write"] \in Int /\ last[r][b]["pre"] \in Int
           /\ busy[r] \in Int /\ burst["end"] \in Int
    BY DEF HistoryTyped, Kinds

LEMMA WriteTimes == WriteTime \in Nat /\ WriteTime <= Longest
    BY Times, LongestBounds DEF WriteTime

\* Two histories are equal if they agree on every bank and command.
LEMMA SameLast ==
    ASSUME NEW f \in [Ranks -> [Banks -> [Kinds -> Int]]],
           NEW g \in [Ranks -> [Banks -> [Kinds -> Int]]],
           \A r \in Ranks, b \in Banks :
              /\ f[r][b]["act"] = g[r][b]["act"]
              /\ f[r][b]["read"] = g[r][b]["read"]
              /\ f[r][b]["write"] = g[r][b]["write"]
              /\ f[r][b]["pre"] = g[r][b]["pre"]
    PROVE  f = g
  <1>1. ASSUME NEW r \in Ranks, NEW b \in Banks
        PROVE  f[r][b] = g[r][b]
    <2>1. \A c \in Kinds : f[r][b][c] = g[r][b][c]
      BY DEF Kinds
    <2>2. f[r][b] \in [Kinds -> Int] /\ g[r][b] \in [Kinds -> Int]
      OBVIOUS
    <2> QED
      BY <2>1, <2>2
  <1>2. ASSUME NEW r \in Ranks
        PROVE  f[r] = g[r]
    <2>1. f[r] \in [Banks -> [Kinds -> Int]] /\ g[r] \in [Banks -> [Kinds -> Int]]
      OBVIOUS
    <2> QED
      BY <1>1, <2>1
  <1> QED
    BY <1>2

\* What RecordLast notes down.
LEMMA Recorded ==
    ASSUME TypeOK, HistoryTyped, RecordLast
    PROVE  /\ last' \in [Ranks -> [Banks -> [Kinds -> Int]]]
           /\ \A r \in Ranks, b \in Banks :
                 /\ last'[r][b]["act"] =
                       IF Opens(r, b) THEN CYCLE_VAL ELSE last[r][b]["act"]
                 /\ last'[r][b]["read"] =
                       IF Reads(r, b) THEN CYCLE_VAL ELSE last[r][b]["read"]
                 /\ last'[r][b]["write"] =
                       IF Writes(r, b) THEN CYCLE_VAL ELSE last[r][b]["write"]
                 /\ last'[r][b]["pre"] =
                       IF Precharges(r, b) THEN PrechargeStart(r, b)
                       ELSE last[r][b]["pre"]
  <1> DEFINE note(r, b) ==
        [act   |-> IF Opens(r, b)      THEN CYCLE_VAL ELSE last[r][b]["act"],
         read  |-> IF Reads(r, b)      THEN CYCLE_VAL ELSE last[r][b]["read"],
         write |-> IF Writes(r, b)     THEN CYCLE_VAL ELSE last[r][b]["write"],
         pre   |-> IF Precharges(r, b) THEN PrechargeStart(r, b)
                   ELSE last[r][b]["pre"]]
  <1>1. last' = [r \in Ranks |-> [b \in Banks |-> note(r, b)]]
    BY DEF RecordLast
  <1>2. ASSUME NEW r \in Ranks, NEW b \in Banks
        PROVE  note(r, b) \in [Kinds -> Int]
    <2>1. PrechargeStart(r, b) \in Int
      BY AllTimers, Times DEF PrechargeStart, AutoprechargeStart, Later
    <2> DEFINE a == note(r, b)["act"]
               e == note(r, b)["read"]
               w == note(r, b)["write"]
               p == note(r, b)["pre"]
    <2>2. a \in Int /\ e \in Int /\ w \in Int /\ p \in Int
      BY <2>1, AllTimers, HistoryTypes
    <2>3. note(r, b) = [act |-> a, read |-> e, write |-> w, pre |-> p]
      OBVIOUS
    <2> HIDE DEF a, e, w, p
    <2>4. [act |-> a, read |-> e, write |-> w, pre |-> p] \in [Kinds -> Int]
      BY <2>2 DEF Kinds
    <2> QED
      BY <2>3, <2>4
  <1> QED
    BY <1>1, <1>2

\* Nothing else than what the hypotheses name happens to the banks.
LEMMA BusyStays ==
    ASSUME TypeOK, HistoryTyped, RecordBusy, UNCHANGED refreshVars,
           \A r \in Ranks : ~Wakes(r)
    PROVE  busy' = busy
  <1>1. ASSUME NEW r \in Ranks
        PROVE  ~Refreshes(r) /\ ~ForcedRefreshStarts(r)
    BY DEF Refreshes, ForcedRefreshStarts, refreshVars, TypeOK
  <1> QED
    BY <1>1 DEF RecordBusy, HistoryTyped

LEMMA BurstStays ==
    ASSUME RecordBurst,
           \A r \in Ranks, b \in Banks :
              cas_issued_current_cycle'[r][b]
                  \in {cas_issued_current_cycle[r][b], "NONE"}
    PROVE  /\ burst' = burst
           /\ \A r \in Ranks, b \in Banks : ~Reads(r, b) /\ ~Writes(r, b)
    BY DEF RecordBurst, Reads, Writes

-----------------------------------------------------------------------------
(* What each command adds to the history.                                  *)

Recording == RecordLast /\ RecordBusy /\ RecordBurst

LEMMA OpenRowHistory ==
    ASSUME TypeOK, HistoryTyped, OpenRowMatchesState, Recording,
           NEW r \in Ranks, NEW b \in Banks, NEW row \in Rows,
           state[r][b] \in Closed, OpenRow(r, b, row),
           UNCHANGED <<CYCLE_VAL, refreshVars>>
    PROVE  /\ last' = [last EXCEPT ![r][b]["act"] = CYCLE_VAL]
           /\ UNCHANGED <<busy, burst>>
           /\ active_row[r][b] = NoRow
  <1>1. /\ state' = [state EXCEPT ![r][b] = "ROW_ACTIVE"]
        /\ active_row' = [active_row EXCEPT ![r][b] = row]
        /\ UNCHANGED cas_issued_current_cycle
    BY DEF OpenRow
  <1>2. active_row[r][b] = NoRow
    BY DEF OpenRowMatchesState, Closed
  <1>3. row # NoRow
    BY SizeAssumption
  <1>4. ASSUME NEW i \in Ranks, NEW j \in Banks
        PROVE  /\ Opens(i, j) <=> i = r /\ j = b
               /\ ~Reads(i, j) /\ ~Writes(i, j) /\ ~Precharges(i, j)
    BY <1>1, <1>2, <1>3 DEF TypeOK, Opens, Reads, Writes, Precharges, Closes
  <1>5. \A i \in Ranks : ~Wakes(i)
    BY <1>1, Indices DEF TypeOK, Wakes, Closed, PoweredDown, PrechargePowerDown
  <1> DEFINE new == [last EXCEPT ![r][b]["act"] = CYCLE_VAL]
  <1>6. new \in [Ranks -> [Banks -> [Kinds -> Int]]]
    BY AllTimers DEF HistoryTyped
  <1>7. ASSUME NEW i \in Ranks, NEW j \in Banks
        PROVE  /\ new[i][j]["act"] = IF i = r /\ j = b THEN CYCLE_VAL
                                     ELSE last[i][j]["act"]
               /\ new[i][j]["read"] = last[i][j]["read"]
               /\ new[i][j]["write"] = last[i][j]["write"]
               /\ new[i][j]["pre"] = last[i][j]["pre"]
    BY DEF HistoryTyped, Kinds
  <1> HIDE DEF new
  <1>8. last' = new
    <2>1. ASSUME NEW i \in Ranks, NEW j \in Banks
          PROVE  /\ last'[i][j]["act"] = new[i][j]["act"]
                 /\ last'[i][j]["read"] = new[i][j]["read"]
                 /\ last'[i][j]["write"] = new[i][j]["write"]
                 /\ last'[i][j]["pre"] = new[i][j]["pre"]
      BY <1>4, <1>7, Recorded DEF Recording
    <2>2. last' \in [Ranks -> [Banks -> [Kinds -> Int]]]
      BY Recorded DEF Recording
    <2> QED
      BY <1>6, <2>1, <2>2, SameLast
  <1> QED
    BY <1>1, <1>2, <1>5, <1>8, BusyStays, BurstStays DEF Recording, new

LEMMA ColumnHistory ==
    ASSUME TypeOK, HistoryTyped, Recording, NEW r \in Ranks, NEW b \in Banks,
           NEW kind \in {"READ", "WRITE"},
           NEW rs, NEW ro, NEW ws, NEW wo, NEW close,
           cas_issued_current_cycle[r][b] = "NONE",
           ColumnAccess(r, b, kind, rs, ro, ws, wo, close),
           UNCHANGED <<CYCLE_VAL, refreshVars>>
    PROVE  /\ kind = "READ" =>
                 /\ last' = [last EXCEPT ![r][b]["read"] = CYCLE_VAL]
                 /\ burst' = [rank |-> r, kind |-> "read",
                              end |-> CYCLE_VAL + T_CAS + T_DATA_TRANS]
           /\ kind = "WRITE" =>
                 /\ last' = [last EXCEPT ![r][b]["write"] = CYCLE_VAL]
                 /\ burst' = [rank |-> r, kind |-> "write",
                              end |-> CYCLE_VAL + T_CWD + T_DATA_TRANS]
           /\ busy' = busy
  <1>1. /\ cas_issued_current_cycle' =
               [cas_issued_current_cycle EXCEPT ![r][b] = kind]
        /\ UNCHANGED <<state, active_row>>
    BY DEF ColumnAccess
  <1>2. ASSUME NEW i \in Ranks, NEW j \in Banks
        PROVE  /\ Reads(i, j) <=> kind = "READ" /\ i = r /\ j = b
               /\ Writes(i, j) <=> kind = "WRITE" /\ i = r /\ j = b
               /\ ~Opens(i, j) /\ ~Precharges(i, j)
    BY <1>1 DEF TypeOK, Opens, Reads, Writes, Precharges, Closes
  <1>3. busy' = busy
    <2>1. \A i \in Ranks : ~Wakes(i)
      BY <1>1 DEF Wakes, PoweredDown, PrechargePowerDown
    <2> QED
      BY <2>1, BusyStays DEF Recording
  <1>4. ASSUME NEW c \in {"read", "write"},
               kind = IF c = "read" THEN "READ" ELSE "WRITE"
        PROVE  last' = [last EXCEPT ![r][b][c] = CYCLE_VAL]
    <2> DEFINE new == [last EXCEPT ![r][b][c] = CYCLE_VAL]
    <2>1. new \in [Ranks -> [Banks -> [Kinds -> Int]]]
      BY AllTimers DEF HistoryTyped
    <2>2. ASSUME NEW i \in Ranks, NEW j \in Banks, NEW k \in Kinds
          PROVE  new[i][j][k] = IF i = r /\ j = b /\ k = c THEN CYCLE_VAL
                                ELSE last[i][j][k]
      BY DEF HistoryTyped, Kinds
    <2>3. /\ "act" \in Kinds /\ "read" \in Kinds
          /\ "write" \in Kinds /\ "pre" \in Kinds
      BY DEF Kinds
    <2> HIDE DEF new
    <2>4. ASSUME NEW i \in Ranks, NEW j \in Banks
          PROVE  /\ last'[i][j]["act"] = new[i][j]["act"]
                 /\ last'[i][j]["read"] = new[i][j]["read"]
                 /\ last'[i][j]["write"] = new[i][j]["write"]
                 /\ last'[i][j]["pre"] = new[i][j]["pre"]
      BY <1>2, <1>4, <2>2, <2>3, Recorded DEF Recording
    <2>5. last' \in [Ranks -> [Banks -> [Kinds -> Int]]]
      BY Recorded DEF Recording
    <2>6. last' = new
      BY ONLY <2>1, <2>4, <2>5, SameLast
    <2> QED
      BY <2>6 DEF new
  <1>5. /\ kind = "READ" => burst' = [rank |-> r, kind |-> "read",
               end |-> CYCLE_VAL + T_CAS + T_DATA_TRANS]
        /\ kind = "WRITE" => burst' = [rank |-> r, kind |-> "write",
               end |-> CYCLE_VAL + T_CWD + T_DATA_TRANS]
    BY <1>2 DEF Recording, RecordBurst
  <1> QED
    BY <1>3, <1>4, <1>5

\* The rows that are open in the banks of bs are the ones closed.
LEMMA CloseRowsHistory ==
    ASSUME TypeOK, HistoryTyped, CasIsThisCycles, Recording,
           NEW r \in Ranks, NEW bs, ~command_issued_current_cycle,
           CloseRows(r, bs), UNCHANGED <<CYCLE_VAL, refreshVars>>
    PROVE  /\ last' = [last EXCEPT ![r] = [b \in Banks |->
                  IF b \in bs /\ active_row[r][b] # NoRow
                  THEN [last[r][b] EXCEPT !["pre"] = CYCLE_VAL]
                  ELSE last[r][b]]]
           /\ UNCHANGED <<busy, burst>>
  <1>1. /\ state' = [state EXCEPT ![r] = [b \in Banks |->
               IF b \in bs THEN "PRECHARGING" ELSE state[r][b]]]
        /\ active_row' = [active_row EXCEPT ![r] = [b \in Banks |->
               IF b \in bs THEN NoRow ELSE active_row[r][b]]]
        /\ UNCHANGED cas_issued_current_cycle
    BY DEF CloseRows
  <1>2. ASSUME NEW i \in Ranks, NEW j \in Banks
        PROVE  /\ Precharges(i, j)
                     <=> i = r /\ j \in bs /\ active_row[i][j] # NoRow
               /\ ~Reads(i, j) /\ ~Writes(i, j) /\ ~Opens(i, j)
               /\ PrechargeStart(i, j) = CYCLE_VAL
    <2>1. cas_issued_current_cycle[i][j] = "NONE"
      BY DEF CasIsThisCycles
    <2> QED
      BY <1>1, <2>1 DEF TypeOK, Opens, Reads, Writes, Precharges, Closes,
                        PrechargeStart
  <1>3. \A i \in Ranks : ~Wakes(i)
    BY <1>1, Indices DEF TypeOK, Wakes, PoweredDown, PrechargePowerDown
  <1> DEFINE new == [last EXCEPT ![r] = [b \in Banks |->
                  IF b \in bs /\ active_row[r][b] # NoRow
                  THEN [last[r][b] EXCEPT !["pre"] = CYCLE_VAL]
                  ELSE last[r][b]]]
  <1>4. new \in [Ranks -> [Banks -> [Kinds -> Int]]]
    BY AllTimers, ZenonT(60) DEF HistoryTyped
  <1>5. ASSUME NEW i \in Ranks, NEW j \in Banks
        PROVE  /\ new[i][j]["pre"] =
                      IF i = r /\ j \in bs /\ active_row[i][j] # NoRow
                      THEN CYCLE_VAL ELSE last[i][j]["pre"]
               /\ new[i][j]["read"] = last[i][j]["read"]
               /\ new[i][j]["write"] = last[i][j]["write"]
               /\ new[i][j]["act"] = last[i][j]["act"]
    BY DEF HistoryTyped, Kinds
  <1> HIDE DEF new
  <1>6. last' = new
    <2>1. ASSUME NEW i \in Ranks, NEW j \in Banks
          PROVE  /\ last'[i][j]["act"] = new[i][j]["act"]
                 /\ last'[i][j]["read"] = new[i][j]["read"]
                 /\ last'[i][j]["write"] = new[i][j]["write"]
                 /\ last'[i][j]["pre"] = new[i][j]["pre"]
      BY <1>2, <1>5, Recorded DEF Recording
    <2>2. last' \in [Ranks -> [Banks -> [Kinds -> Int]]]
      BY Recorded DEF Recording
    <2> QED
      BY <1>4, <2>1, <2>2, SameLast
  <1> QED
    BY <1>1, <1>3, <1>6, BusyStays, BurstStays DEF Recording, new

LEMMA AutoprechargeHistory ==
    ASSUME TypeOK, HistoryTyped, OpenRowMatchesState, CasIsThisCycles,
           Recording, NEW r \in Ranks, NEW b \in Banks, Autoprecharge(r, b)
    PROVE  /\ last' = [last EXCEPT ![r][b]["pre"] = AutoprechargeStart(r, b)]
           /\ UNCHANGED <<busy, burst>>
           /\ active_row[r][b] # NoRow
  <1>1. /\ state' = [state EXCEPT ![r][b] = "PRECHARGING"]
        /\ active_row' = [active_row EXCEPT ![r][b] = NoRow]
        /\ cas_issued_current_cycle' = [i \in Ranks |-> [j \in Banks |-> "NONE"]]
        /\ cas_issued_current_cycle[r][b] # "NONE"
        /\ UNCHANGED <<CYCLE_VAL, refreshVars>>
    BY DEF Autoprecharge, IsAutoprechargeAllowed, Unqueued
  <1>2. state[r][b] = "ROW_ACTIVE" /\ active_row[r][b] # NoRow
    BY <1>1 DEF CasIsThisCycles, OpenRowMatchesState
  <1>3. ASSUME NEW i \in Ranks, NEW j \in Banks
        PROVE  /\ Precharges(i, j) <=> i = r /\ j = b
               /\ ~Reads(i, j) /\ ~Writes(i, j) /\ ~Opens(i, j)
    BY <1>1, <1>2 DEF TypeOK, Opens, Reads, Writes, Precharges, Closes
  <1>4. PrechargeStart(r, b) = AutoprechargeStart(r, b)
    BY <1>1 DEF PrechargeStart
  <1>5. \A i \in Ranks : ~Wakes(i)
    BY <1>1, Indices DEF TypeOK, Wakes, PoweredDown, PrechargePowerDown
  <1> DEFINE new == [last EXCEPT ![r][b]["pre"] = AutoprechargeStart(r, b)]
  <1>6. AutoprechargeStart(r, b) \in Int
    BY AllTimers, Times DEF AutoprechargeStart, Later
  <1>7. new \in [Ranks -> [Banks -> [Kinds -> Int]]]
    BY <1>6 DEF HistoryTyped
  <1>8. ASSUME NEW i \in Ranks, NEW j \in Banks
        PROVE  /\ new[i][j]["pre"] = IF i = r /\ j = b
                      THEN AutoprechargeStart(r, b) ELSE last[i][j]["pre"]
               /\ new[i][j]["read"] = last[i][j]["read"]
               /\ new[i][j]["write"] = last[i][j]["write"]
               /\ new[i][j]["act"] = last[i][j]["act"]
    BY DEF HistoryTyped, Kinds
  <1> HIDE DEF new
  <1>9. last' = new
    <2>1. ASSUME NEW i \in Ranks, NEW j \in Banks
          PROVE  /\ last'[i][j]["act"] = new[i][j]["act"]
                 /\ last'[i][j]["read"] = new[i][j]["read"]
                 /\ last'[i][j]["write"] = new[i][j]["write"]
                 /\ last'[i][j]["pre"] = new[i][j]["pre"]
      BY <1>3, <1>4, <1>8, Recorded DEF Recording
    <2>2. last' \in [Ranks -> [Banks -> [Kinds -> Int]]]
      BY Recorded DEF Recording
    <2> QED
      BY <1>7, <2>1, <2>2, SameLast
  <1> QED
    BY <1>1, <1>2, <1>5, <1>9, BusyStays, BurstStays DEF Recording, new

\* The other commands open no row, access no column, and close no row by a
\* precharge of its own.
LEMMA LastStays ==
    ASSUME TypeOK, HistoryTyped, Recording,
           \A r \in Ranks, b \in Banks : ~Opens(r, b) /\ ~Precharges(r, b),
           \A r \in Ranks, b \in Banks :
              cas_issued_current_cycle'[r][b]
                  \in {cas_issued_current_cycle[r][b], "NONE"}
    PROVE  UNCHANGED <<last, burst>>
  <1>1. /\ burst' = burst
        /\ \A r \in Ranks, b \in Banks : ~Reads(r, b) /\ ~Writes(r, b)
    BY BurstStays DEF Recording
  <1>2. ASSUME NEW i \in Ranks, NEW j \in Banks
        PROVE  /\ last'[i][j]["act"] = last[i][j]["act"]
               /\ last'[i][j]["read"] = last[i][j]["read"]
               /\ last'[i][j]["write"] = last[i][j]["write"]
               /\ last'[i][j]["pre"] = last[i][j]["pre"]
    BY <1>1, Recorded DEF Recording
  <1>3. last' \in [Ranks -> [Banks -> [Kinds -> Int]]]
    BY Recorded DEF Recording
  <1>4. last' = last
    BY <1>2, <1>3, SameLast DEF HistoryTyped
  <1> QED
    BY <1>1, <1>4

LEMMA WakeRankHistory ==
    ASSUME TypeOK, HistoryTyped, OpenRowMatchesState, Recording,
           NEW r \in Ranks, \A b \in Banks : state[r][b] \in PoweredDown,
           WakeRank(r), UNCHANGED <<CYCLE_VAL, refreshVars>>
    PROVE  /\ UNCHANGED <<active_row, last, burst>>
           /\ busy' = [busy EXCEPT ![r] = CYCLE_VAL + T_XP]
  <1>1. /\ state' = [state EXCEPT ![r] = [b \in Banks |->
               IF state[r][b] \in PrechargePowerDown
               THEN "IDLE" ELSE "ROW_ACTIVE"]]
        /\ active_row' = [active_row EXCEPT ![r] = [b \in Banks |->
               IF state[r][b] \in PrechargePowerDown
               THEN NoRow ELSE active_row[r][b]]]
        /\ UNCHANGED cas_issued_current_cycle
    BY DEF WakeRank
  <1>2. ASSUME NEW b \in Banks, state[r][b] \in PrechargePowerDown
        PROVE  active_row[r][b] = NoRow
    BY <1>2 DEF OpenRowMatchesState, PrechargePowerDown
  <1>3. active_row' = active_row
    BY <1>1, <1>2 DEF TypeOK
  <1>4. ASSUME NEW i \in Ranks, NEW j \in Banks
        PROVE  ~Opens(i, j) /\ ~Precharges(i, j)
    BY <1>3 DEF Opens, Precharges, Closes
  <1>5. ASSUME NEW i \in Ranks
        PROVE  /\ Wakes(i) <=> i = r
               /\ ~Refreshes(i) /\ ~ForcedRefreshStarts(i)
    <2>1. ~Refreshes(i) /\ ~ForcedRefreshStarts(i)
      BY DEF Refreshes, ForcedRefreshStarts, refreshVars, TypeOK
    <2>2. Wakes(i) <=> i = r
      BY <1>1, Indices
      DEF TypeOK, Wakes, PoweredDown, PrechargePowerDown
    <2> QED
      BY <2>1, <2>2
  <1>6. busy' = [busy EXCEPT ![r] = CYCLE_VAL + T_XP]
    BY <1>5 DEF Recording, RecordBusy, HistoryTyped
  <1> QED
    BY <1>1, <1>3, <1>4, <1>6, LastStays

LEMMA RefreshHistory ==
    ASSUME TypeOK, HistoryTyped, Recording, NEW r \in Ranks, Refresh(r)
    PROVE  /\ active_row' = [active_row EXCEPT ![r] = [b \in Banks |-> NoRow]]
           /\ UNCHANGED <<last, burst>>
           /\ busy' = [busy EXCEPT ![r] = CYCLE_VAL + RefreshLead(r) + T_RFC]
  <1>1. /\ state' = [state EXCEPT ![r] = [b \in Banks |-> "REFRESHING"]]
        /\ active_row' = [active_row EXCEPT ![r] = [b \in Banks |-> NoRow]]
        /\ num_issued_refreshes' = [num_issued_refreshes EXCEPT ![r] = @ + 1]
        /\ UNCHANGED <<cas_issued_current_cycle, forced_refresh_mode_on>>
    BY DEF Refresh
  <1>2. ASSUME NEW i \in Ranks, NEW j \in Banks
        PROVE  ~Opens(i, j) /\ ~Precharges(i, j)
    BY <1>1 DEF TypeOK, Opens, Precharges, Closes
  <1>3. ASSUME NEW i \in Ranks
        PROVE  /\ Refreshes(i) <=> i = r
               /\ ~Wakes(i) /\ ~ForcedRefreshStarts(i)
    BY <1>1, Indices DEF TypeOK, Refreshes, Wakes, ForcedRefreshStarts,
                         PoweredDown, PrechargePowerDown
  <1>4. busy' = [busy EXCEPT ![r] = CYCLE_VAL + RefreshLead(r) + T_RFC]
    BY <1>3 DEF Recording, RecordBusy, HistoryTyped
  <1> QED
    BY <1>1, <1>2, <1>4, LastStays

LEMMA PowerDownHistory ==
    ASSUME TypeOK, HistoryTyped, OpenRowMatchesState, Recording,
           NEW r \in Ranks, NEW low \in PrechargePowerDown, PowerDown(r, low)
    PROVE  UNCHANGED <<CYCLE_VAL, active_row, history>>
  <1>1. /\ state' = [state EXCEPT ![r] = [b \in Banks |->
               IF state[r][b] \in Closed THEN low
               ELSE IF state[r][b] = "ROW_ACTIVE" THEN "ACTIVE_POWER_DOWN"
               ELSE state[r][b]]]
        /\ active_row' = [active_row EXCEPT ![r] = [b \in Banks |->
               IF state[r][b] \in Closed THEN NoRow ELSE active_row[r][b]]]
        /\ UNCHANGED <<CYCLE_VAL, refreshVars, cas_issued_current_cycle>>
    BY DEF PowerDown, Unqueued
  <1>2. ASSUME NEW b \in Banks, state[r][b] \in Closed
        PROVE  active_row[r][b] = NoRow
    BY <1>2 DEF OpenRowMatchesState, Closed
  <1>3. active_row' = active_row
    BY <1>1, <1>2 DEF TypeOK
  <1>4. ASSUME NEW i \in Ranks, NEW j \in Banks
        PROVE  ~Opens(i, j) /\ ~Precharges(i, j)
    BY <1>3 DEF Opens, Precharges, Closes
  <1>5. \A i \in Ranks : ~Wakes(i)
    <2> SUFFICES ASSUME NEW i \in Ranks, state[i][0] \in PoweredDown
                 PROVE  state'[i][0] \in PoweredDown
      BY DEF Wakes, PoweredDown, PrechargePowerDown
    <2> QED
      BY <1>1, Indices DEF TypeOK, PoweredDown, PrechargePowerDown
  <1> QED
    BY <1>1, <1>3, <1>4, <1>5, BusyStays, LastStays DEF Recording, history

\* A step that leaves banks and refreshes alone issues no command.
LEMMA IdleHistory ==
    ASSUME TypeOK, HistoryTyped, Recording,
           UNCHANGED <<bankVars, cycleVars, refreshVars>>
    PROVE  UNCHANGED history
  <1>1. UNCHANGED <<state, active_row, cas_issued_current_cycle, refreshVars>>
    BY DEF bankVars, cycleVars
  <1>2. ASSUME NEW i \in Ranks, NEW j \in Banks
        PROVE  ~Opens(i, j) /\ ~Precharges(i, j)
    BY <1>1 DEF Opens, Precharges, Closes
  <1>3. \A i \in Ranks : ~Wakes(i)
    BY <1>1 DEF Wakes, PoweredDown, PrechargePowerDown
  <1> QED
    BY <1>1, <1>2, <1>3, BusyStays, LastStays DEF Recording, history

\* The ranks whose forced refreshes are due are those that start them.
LEMMA UpdateMemoryHistory ==
    ASSUME TypeOK, HistoryTyped, Recording, UpdateMemory,
           \A r \in Ranks : ForcedIsLate(r)
    PROVE  /\ active_row' = [r \in Ranks |-> [b \in Banks |->
                  IF ForcedRefreshDue(r) THEN NoRow ELSE active_row[r][b]]]
           /\ UNCHANGED <<last, burst>>
           /\ busy' = [r \in Ranks |->
                  IF ForcedRefreshDue(r) THEN next_refresh_completion_deadline[r]
                  ELSE busy[r]]
  <1>1. /\ state' = [r \in Ranks |-> [b \in Banks |->
               IF ForcedRefreshDue(r) THEN "REFRESHING" ELSE state[r][b]]]
        /\ active_row' = [r \in Ranks |-> [b \in Banks |->
               IF ForcedRefreshDue(r) THEN NoRow ELSE active_row[r][b]]]
        /\ cas_issued_current_cycle' = [r \in Ranks |-> [b \in Banks |-> "NONE"]]
        /\ num_issued_refreshes' = [r \in Ranks |->
               IF WindowEnds(r) THEN 0 ELSE num_issued_refreshes[r]]
        /\ forced_refresh_mode_on' = [r \in Ranks |->
               \/ ForcedRefreshDue(r)
               \/ ~WindowEnds(r) /\ forced_refresh_mode_on[r]]
    BY DEF UpdateMemory, UpdateRefresh, IssueForcedRefreshCommands
  <1>2. ASSUME NEW i \in Ranks, NEW j \in Banks
        PROVE  ~Opens(i, j) /\ ~Precharges(i, j)
    BY <1>1 DEF TypeOK, Opens, Precharges, Closes
  <1>3. ASSUME NEW i \in Ranks
        PROVE  /\ ForcedRefreshStarts(i) <=> ForcedRefreshDue(i)
               /\ ~Wakes(i) /\ ~Refreshes(i)
    <2>1. ForcedRefreshDue(i) => ~forced_refresh_mode_on[i]
      BY AllTimers, Indices DEF ForcedIsLate, ForcedRefreshDue
    <2>2. ForcedRefreshStarts(i) <=> ForcedRefreshDue(i)
      BY <1>1, <2>1 DEF ForcedRefreshStarts
    <2>3. ~Refreshes(i)
      BY <1>1, AllTimers, Indices DEF Refreshes
    <2>4. ~Wakes(i)
      BY <1>1, Indices DEF Wakes, PoweredDown, PrechargePowerDown
    <2> QED
      BY <2>2, <2>3, <2>4
  <1>4. busy' = [r \in Ranks |->
            IF ForcedRefreshDue(r) THEN next_refresh_completion_deadline[r]
            ELSE busy[r]]
    BY <1>3 DEF Recording, RecordBusy
  <1> QED
    BY <1>1, <1>2, <1>4, LastStays

-----------------------------------------------------------------------------
(* The timers keep covering the distances, command by command.             *)

LEMMA HistoryStaysTyped ==
    ASSUME TypeOK, HistoryTyped, Recording
    PROVE  HistoryTyped'
  <1>1. last' \in [Ranks -> [Banks -> [Kinds -> Int]]]
    BY Recorded DEF Recording
  <1>2. ASSUME NEW r \in Ranks
        PROVE  CYCLE_VAL + RefreshLead(r) + T_RFC \in Int
    BY Times DEF RefreshLead, TypeOK
  <1>3. ASSUME NEW r \in Ranks
        PROVE  CYCLE_VAL + T_XP \in Int
    BY Times DEF TypeOK
  <1>4. busy' \in [Ranks -> Int]
    BY <1>2, <1>3, HistoryTypes, AllTimers, Indices
    DEF Recording, RecordBusy, HistoryTyped, TypeOK
  <1>5. /\ CYCLE_VAL + T_CAS + T_DATA_TRANS \in Int
        /\ CYCLE_VAL + T_CWD + T_DATA_TRANS \in Int
    BY Times DEF TypeOK
  <1>6. burst' \in [rank : Ranks, kind : {"read", "write"}, end : Int]
    BY <1>5 DEF Recording, RecordBurst, HistoryTyped
  <1> QED
    BY <1>1, <1>4, <1>6 DEF HistoryTyped

\* A bank with the same history whose timers have at most moved back.
LEMMA CoversLater ==
    ASSUME TypeOK, TypeOK', HistoryTyped, NEW r \in Ranks, NEW b \in Banks,
           Covers(r, b), busy'[r] = busy[r], burst' = burst, last'[r] = last[r],
           \A k \in Timers \ {"powerup"} : next[r][b][k] <= next'[r][b][k],
           state'[r][b] \in RowOpen => state[r][b] \in RowOpen,
           state'[r][b] \in PoweredDown => busy[r] <= next'[r][b]["powerup"]
    PROVE  Covers(r, b)'
  <1>1. /\ next[r][b]["act"] <= next'[r][b]["act"]
        /\ next[r][b]["pre"] <= next'[r][b]["pre"]
        /\ next[r][b]["refresh"] <= next'[r][b]["refresh"]
        /\ next[r][b]["powerdown"] <= next'[r][b]["powerdown"]
        /\ next[r][b]["read"] <= next'[r][b]["read"]
        /\ next[r][b]["write"] <= next'[r][b]["write"]
    BY DEF Timers
  <1>2. /\ next'[r][b]["pre"] \in Int /\ next'[r][b]["act"] \in Int
        /\ next'[r][b]["read"] \in Int /\ next'[r][b]["write"] \in Int
        /\ next'[r][b]["powerdown"] \in Int /\ next'[r][b]["refresh"] \in Int
    BY DEF TypeOK, Timers
  <1>3. ActCovers(r, b)'
    BY <1>1, <1>2, AllTimers, HistoryTypes, Times DEF Covers, ActCovers
  <1>4. CloseCovers(r, b)'
    BY <1>1, <1>2, AllTimers, HistoryTypes, Times, WriteTimes
    DEF Covers, CloseCovers, Closable
  <1>5. PowerCovers(r, b)'
    BY <1>1, <1>2, AllTimers, HistoryTypes DEF Covers, PowerCovers
  <1>6. ColumnCovers(r, b)'
    BY <1>1, <1>2, AllTimers, HistoryTypes, Times DEF Covers, ColumnCovers
  <1>7. BusCovers(r, b)'
    BY <1>1, <1>2, AllTimers, HistoryTypes, Times
    DEF Covers, BusCovers, BusFreeFrom
  <1> QED
    BY <1>3, <1>4, <1>5, <1>6, <1>7 DEF Covers

\* A bank that nothing happens to.
LEMMA CoversSame ==
    ASSUME TypeOK, TypeOK', HistoryTyped, NEW r \in Ranks, NEW b \in Banks,
           Covers(r, b), busy'[r] = busy[r], burst' = burst, last'[r] = last[r],
           state'[r][b] = state[r][b], next'[r][b] = next[r][b]
    PROVE  Covers(r, b)'
  <1>1. \A k \in Timers \ {"powerup"} : next[r][b][k] <= next'[r][b][k]
    BY AllTimers DEF Timers
  <1>2. state[r][b] \in PoweredDown => busy[r] <= next[r][b]["powerup"]
    BY DEF Covers, PowerCovers
  <1> QED
    BY <1>1, <1>2, CoversLater

LEMMA OpenRowCovers ==
    ASSUME TypeOK, TypeOK', HistoryTyped, AllCovered,
           NEW r \in Ranks, NEW b \in Banks, NEW row \in Rows,
           Reached(r, b, "act"), OpenRow(r, b, row),
           last' = [last EXCEPT ![r][b]["act"] = CYCLE_VAL],
           UNCHANGED <<busy, burst>>
    PROVE  AllCovered'
  <1> DEFINE t1 == Deferred(next[r][b], {"pre", "refresh"}, CYCLE_VAL + T_RAS)
             t2 == Deferred(t1, {"read", "write", "powerdown"}, CYCLE_VAL + T_RCD)
             t3 == Deferred(t2, {"act"}, CYCLE_VAL + T_RC)
             other(i) == Deferred(next[r][i], {"act"}, CYCLE_VAL + T_RRD)
  <1>1. /\ state' = [state EXCEPT ![r][b] = "ROW_ACTIVE"]
        /\ next' = [next EXCEPT ![r] = [i \in Banks |->
               IF i = b THEN t3 ELSE other(i)]]
    BY DEF OpenRow
  <1>2. /\ CYCLE_VAL + T_RAS \in Int /\ CYCLE_VAL + T_RCD \in Int
        /\ CYCLE_VAL + T_RC \in Int /\ CYCLE_VAL + T_RRD \in Int
    BY Times DEF TypeOK
  <1>3. /\ t1 \in [Timers -> Int] /\ t2 \in [Timers -> Int]
        /\ \A i \in Banks : next[r][i] \in [Timers -> Int]
    BY <1>2, AllTimers, DeferredType
  <1>4. /\ \A k \in Timers : next[r][b][k] <= t3[k]
        /\ CYCLE_VAL + T_RAS <= t3["pre"] /\ CYCLE_VAL + T_RAS <= t3["refresh"]
        /\ CYCLE_VAL + T_RCD <= t3["read"] /\ CYCLE_VAL + T_RCD <= t3["write"]
        /\ CYCLE_VAL + T_RC <= t3["act"]
    <2>1. ASSUME NEW k \in Timers
          PROVE  /\ next[r][b][k] \in Int /\ t1[k] \in Int /\ t2[k] \in Int
                 /\ t3[k] \in Int
                 /\ next[r][b][k] <= t1[k] /\ t1[k] <= t2[k] /\ t2[k] <= t3[k]
                 /\ k \in {"pre", "refresh"} => CYCLE_VAL + T_RAS <= t1[k]
                 /\ k \in {"read", "write", "powerdown"} =>
                       CYCLE_VAL + T_RCD <= t2[k]
                 /\ k \in {"act"} => CYCLE_VAL + T_RC <= t3[k]
      <3> HIDE DEF t1, t2, t3
      <3>1. next[r][b][k] \in Int
        BY <1>3
      <3>2. /\ t1[k] \in Int /\ next[r][b][k] <= t1[k]
            /\ k \in {"pre", "refresh"} => CYCLE_VAL + T_RAS <= t1[k]
        BY <1>2, <1>3, DeferredBounds DEF t1
      <3>3. /\ t2[k] \in Int /\ t1[k] <= t2[k]
            /\ k \in {"read", "write", "powerdown"} =>
                  CYCLE_VAL + T_RCD <= t2[k]
        BY <1>2, <1>3, DeferredBounds DEF t2
      <3>4. /\ t3[k] \in Int /\ t2[k] <= t3[k]
            /\ k \in {"act"} => CYCLE_VAL + T_RC <= t3[k]
        BY <1>2, <1>3, DeferredBounds DEF t3
      <3> QED
        BY <3>1, <3>2, <3>3, <3>4
    <2> HIDE DEF t1, t2, t3
    <2>2. \A k \in Timers : next[r][b][k] <= t3[k]
      BY <2>1
    <2>3. /\ "pre" \in Timers /\ "refresh" \in Timers /\ "read" \in Timers
          /\ "write" \in Timers /\ "act" \in Timers
      BY DEF Timers
    <2> QED
      BY <1>2, <2>1, <2>2, <2>3
  <1> HIDE DEF t1, t2, t3
  <1>5. ASSUME NEW i \in Banks
        PROVE  /\ \A k \in Timers : next[r][i][k] <= other(i)[k]
               /\ CYCLE_VAL + T_RRD <= other(i)["act"]
               /\ other(i)["powerup"] = next[r][i]["powerup"]
    <2>1. next[r][i] \in [Timers -> Int]
      BY <1>3
    <2>2. "act" \in Timers
      BY DEF Timers
    <2> QED
      BY <1>2, <2>1, <2>2, DeferredBounds, DeferredOther DEF Timers
  <1> HIDE DEF other
  <1>6. ASSUME NEW i \in Banks
        PROVE  /\ last'[r][i]["act"] = IF i = b THEN CYCLE_VAL
                                       ELSE last[r][i]["act"]
               /\ last'[r][i]["read"] = last[r][i]["read"]
               /\ last'[r][i]["write"] = last[r][i]["write"]
               /\ last'[r][i]["pre"] = last[r][i]["pre"]
    BY DEF HistoryTyped, Kinds
  <1> SUFFICES ASSUME NEW i \in Ranks, NEW j \in Banks
               PROVE  Covers(i, j)'
    BY DEF AllCovered
  <1>7. Covers(i, j)
    BY DEF AllCovered
  <1>8. CASE i = r
    <2>1. /\ next[r][j]["act"] <= next'[r][j]["act"]
          /\ next[r][j]["pre"] <= next'[r][j]["pre"]
          /\ next[r][j]["refresh"] <= next'[r][j]["refresh"]
          /\ next[r][j]["powerdown"] <= next'[r][j]["powerdown"]
          /\ next[r][j]["read"] <= next'[r][j]["read"]
          /\ next[r][j]["write"] <= next'[r][j]["write"]
      BY <1>1, <1>4, <1>5 DEF TypeOK, Timers
    <2>2. j = b => /\ next'[r][j] = t3
                   /\ state'[r][j] = "ROW_ACTIVE"
      BY <1>1 DEF TypeOK
    <2>3. j # b => /\ next'[r][j] = other(j)
                   /\ state'[r][j] = state[r][j]
      BY <1>1 DEF TypeOK
    <2>4. /\ next'[r][j]["pre"] \in Int /\ next'[r][j]["act"] \in Int
          /\ next'[r][j]["read"] \in Int /\ next'[r][j]["write"] \in Int
          /\ next'[r][j]["powerdown"] \in Int /\ next'[r][j]["refresh"] \in Int
      BY DEF TypeOK, Timers
    <2>5. ActCovers(r, j)'
      <3>1. CYCLE_VAL + T_RRD <= next'[r][j]["act"]
        BY <1>2, <1>4, <1>5, <2>2, <2>3, <2>4, AllTimers, Times,
           DistanceAssumption
      <3>2. j = b => CYCLE_VAL + T_RC <= next'[r][j]["act"]
        BY <1>4, <2>2
      <3> QED
        BY <1>6, <1>7, <1>8, <2>1, <2>4, <3>1, <3>2, AllTimers, HistoryTypes,
           Times DEF Covers, ActCovers
    <2>6. CloseCovers(r, j)'
      BY <1>4, <1>6, <1>7, <1>8, <2>1, <2>2, <2>4, AllTimers, HistoryTypes,
         Times, WriteTimes DEF Covers, CloseCovers, Closable
    <2>7. PowerCovers(r, j)'
      BY <1>5, <1>7, <1>8, <2>1, <2>2, <2>3, <2>4, AllTimers, HistoryTypes
      DEF Covers, PowerCovers, PoweredDown, PrechargePowerDown
    <2>8. ColumnCovers(r, j)'
      <3>1. j = b => /\ busy[r] <= CYCLE_VAL
                     /\ CYCLE_VAL + T_RCD <= next'[r][j]["read"]
                     /\ CYCLE_VAL + T_RCD <= next'[r][j]["write"]
        BY <1>4, <1>7, <1>8, <2>2, AllTimers, HistoryTypes
        DEF Covers, ActCovers, Reached
      <3>2. state'[r][j] \in RowOpen =>
              busy[r] <= next'[r][j]["read"] /\ busy[r] <= next'[r][j]["write"]
        BY <1>7, <1>8, <2>1, <2>3, <2>4, <3>1, AllTimers, HistoryTypes, Times
        DEF Covers, ColumnCovers
      <3> QED
        BY <1>6, <1>7, <1>8, <2>1, <2>4, <3>1, <3>2, AllTimers, HistoryTypes,
           Times DEF Covers, ColumnCovers
    <2>9. BusCovers(r, j)'
      BY <1>7, <1>8, <2>1, <2>4, AllTimers, HistoryTypes, Times
      DEF Covers, BusCovers, BusFreeFrom
    <2> QED
      BY <1>8, <2>5, <2>6, <2>7, <2>8, <2>9 DEF Covers
  <1>9. CASE i # r
    <2>1. next'[i] = next[i] /\ state'[i] = state[i] /\ last'[i] = last[i]
      BY <1>1, <1>9 DEF TypeOK, HistoryTyped
    <2> QED
      BY <1>7, <2>1, CoversSame
  <1> QED
    BY <1>8, <1>9

\* How a column access moves the timers.
LEMMA ColumnTimers ==
    ASSUME TypeOK, NEW r \in Ranks, NEW b \in Banks, NEW kind,
           NEW rs \in Int, NEW ro \in Int, NEW ws \in Int, NEW wo \in Int,
           NEW close \in Int,
           ColumnAccess(r, b, kind, rs, ro, ws, wo, close),
           NEW i \in Ranks, NEW j \in Banks
    PROVE  /\ \A k \in Timers : next[i][j][k] <= next'[i][j][k]
           /\ next'[i][j]["powerup"] = next[i][j]["powerup"]
           /\ i = r => /\ CYCLE_VAL + rs <= next'[i][j]["read"]
                       /\ CYCLE_VAL + ws <= next'[i][j]["write"]
           /\ i # r => /\ CYCLE_VAL + ro <= next'[i][j]["read"]
                       /\ CYCLE_VAL + wo <= next'[i][j]["write"]
           /\ i = r /\ j = b => /\ CYCLE_VAL + close <= next'[i][j]["pre"]
                                /\ CYCLE_VAL + close <= next'[i][j]["refresh"]
  <1> DEFINE read  == CYCLE_VAL + IF i = r THEN rs ELSE ro
             write == CYCLE_VAL + IF i = r THEN ws ELSE wo
             t1 == Deferred(next[i][j], {"read"}, read)
             t2 == Deferred(t1, {"write"}, write)
             t3 == Deferred(t2, {"pre", "refresh", "powerdown"},
                            CYCLE_VAL + close)
  <1>1. next'[i][j] = IF i = r /\ j = b THEN t3 ELSE t2
    BY DEF ColumnAccess
  <1>2. read \in Int /\ write \in Int /\ CYCLE_VAL + close \in Int
    BY DEF TypeOK
  <1> HIDE DEF read, write
  <1>3. next[i][j] \in [Timers -> Int]
    BY AllTimers
  <1>4. t1 \in [Timers -> Int] /\ t2 \in [Timers -> Int]
    BY <1>2, <1>3, DeferredType
  <1>5. ASSUME NEW k \in Timers
        PROVE  /\ next[i][j][k] \in Int /\ t1[k] \in Int /\ t2[k] \in Int
               /\ t3[k] \in Int
               /\ next[i][j][k] <= t1[k] /\ t1[k] <= t2[k] /\ t2[k] <= t3[k]
               /\ k = "read" => read <= t1[k]
               /\ k = "write" => write <= t2[k]
               /\ k \in {"pre", "refresh"} => CYCLE_VAL + close <= t3[k]
               /\ k = "powerup" => t3[k] = next[i][j][k] /\ t2[k] = next[i][j][k]
    <2> HIDE DEF t1, t2, t3
    <2>1. /\ next[i][j][k] \in Int /\ t1[k] \in Int /\ next[i][j][k] <= t1[k]
          /\ k \in {"read"} => read <= t1[k]
      BY <1>2, <1>3, DeferredBounds DEF t1
    <2>2. /\ t2[k] \in Int /\ t1[k] <= t2[k]
          /\ k \in {"write"} => write <= t2[k]
      BY <1>2, <1>4, DeferredBounds DEF t2
    <2>3. /\ t3[k] \in Int /\ t2[k] <= t3[k]
          /\ k \in {"pre", "refresh", "powerdown"} => CYCLE_VAL + close <= t3[k]
      BY <1>2, <1>4, DeferredBounds DEF t3
    <2>4. k = "powerup" => t3[k] = next[i][j][k] /\ t2[k] = next[i][j][k]
      BY DeferredOther DEF t1, t2, t3
    <2> QED
      BY <2>1, <2>2, <2>3, <2>4
  <1>6. /\ "pre" \in Timers /\ "refresh" \in Timers /\ "read" \in Timers
        /\ "write" \in Timers /\ "powerup" \in Timers
    BY DEF Timers
  <1> HIDE DEF t1, t2, t3
  <1>7. ASSUME NEW k \in Timers
        PROVE  /\ next[i][j][k] <= next'[i][j][k]
               /\ t2[k] <= next'[i][j][k]
    BY <1>1, <1>5
  <1>8. /\ read <= next'[i][j]["read"] /\ write <= next'[i][j]["write"]
        /\ next'[i][j]["powerup"] = next[i][j]["powerup"]
    BY <1>1, <1>2, <1>5, <1>6
  <1>9. i = r /\ j = b => /\ CYCLE_VAL + close <= next'[i][j]["pre"]
                          /\ CYCLE_VAL + close <= next'[i][j]["refresh"]
    BY <1>1, <1>5, <1>6
  <1> QED
    BY <1>7, <1>8, <1>9 DEF read, write

LEMMA ColumnReadCovers ==
    ASSUME TypeOK, TypeOK', HistoryTyped, AllCovered,
           NEW r \in Ranks, NEW b \in Banks, ColumnRead(r, b),
           last' = [last EXCEPT ![r][b]["read"] = CYCLE_VAL],
           burst' = [rank |-> r, kind |-> "read",
                     end |-> CYCLE_VAL + T_CAS + T_DATA_TRANS],
           UNCHANGED busy
    PROVE  AllCovered'
  <1> SUFFICES ASSUME NEW i \in Ranks, NEW j \in Banks
               PROVE  Covers(i, j)'
    BY DEF AllCovered
  <1> DEFINE same == Later(T_CCD, T_DATA_TRANS)
             other == T_DATA_TRANS + T_RTRS
             turn == T_CAS + T_DATA_TRANS + T_RTRS - T_CWD
  <1>1. /\ same \in Int /\ T_CCD <= same /\ T_DATA_TRANS <= same
        /\ turn \in Int /\ other \in Int /\ T_RTP \in Int
    BY Times DEF Later
  <1>2. /\ \A k \in Timers : next[i][j][k] <= next'[i][j][k]
        /\ next'[i][j]["powerup"] = next[i][j]["powerup"]
        /\ i = r => CYCLE_VAL + same <= next'[i][j]["read"]
        /\ i # r => CYCLE_VAL + other <= next'[i][j]["read"]
        /\ CYCLE_VAL + turn <= next'[i][j]["write"]
        /\ i = r /\ j = b => /\ CYCLE_VAL + T_RTP <= next'[i][j]["pre"]
                             /\ CYCLE_VAL + T_RTP <= next'[i][j]["refresh"]
    <2>1. ColumnAccess(r, b, "READ", same, other, turn, turn, T_RTP)
      BY DEF ColumnRead
    <2> HIDE DEF same, other, turn
    <2> QED
      BY <1>1, <2>1, ColumnTimers
  <1>3. Covers(i, j) /\ state' = state
    BY DEF AllCovered, ColumnRead, ColumnAccess
  <1>4. ASSUME NEW m \in Banks
        PROVE  /\ last'[i][m]["act"] = last[i][m]["act"]
               /\ last'[i][m]["read"] = IF i = r /\ m = b THEN CYCLE_VAL
                                        ELSE last[i][m]["read"]
               /\ last'[i][m]["write"] = last[i][m]["write"]
               /\ last'[i][m]["pre"] = last[i][m]["pre"]
    BY DEF HistoryTyped, Kinds
  <1>5. /\ next[i][j]["act"] <= next'[i][j]["act"]
        /\ next[i][j]["pre"] <= next'[i][j]["pre"]
        /\ next[i][j]["refresh"] <= next'[i][j]["refresh"]
        /\ next[i][j]["powerdown"] <= next'[i][j]["powerdown"]
        /\ next[i][j]["read"] <= next'[i][j]["read"]
        /\ next[i][j]["write"] <= next'[i][j]["write"]
    BY <1>2 DEF Timers
  <1>6. /\ next'[i][j]["pre"] \in Int /\ next'[i][j]["act"] \in Int
        /\ next'[i][j]["read"] \in Int /\ next'[i][j]["write"] \in Int
        /\ next'[i][j]["powerdown"] \in Int /\ next'[i][j]["refresh"] \in Int
    BY SMTT(30) DEF TypeOK, Timers
  <1> HIDE DEF same
  <1>7. ActCovers(i, j)'
    BY <1>3, <1>4, <1>5, <1>6, AllTimers, HistoryTypes, Times, SMTT(30)
    DEF Covers, ActCovers
  <1>8. CloseCovers(i, j)'
    BY <1>2, <1>3, <1>4, <1>5, <1>6, AllTimers, HistoryTypes, Times, WriteTimes,
       SMTT(30)
    DEF Covers, CloseCovers, Closable
  <1>9. PowerCovers(i, j)'
    BY <1>2, <1>3, <1>5, <1>6, AllTimers, HistoryTypes, SMTT(30)
    DEF Covers, PowerCovers
  <1>10. ColumnCovers(i, j)'
    <2>1. i = r => CYCLE_VAL + T_CCD <= next'[i][j]["read"]
      BY <1>1, <1>2, <1>6, AllTimers, Times
    <2> QED
      BY <1>3, <1>4, <1>5, <1>6, <2>1, AllTimers, HistoryTypes, Times
      DEF Covers, ColumnCovers
  <1>11. BusCovers(i, j)'
    BY <1>1, <1>2, <1>6, AllTimers, Times DEF BusCovers, BusFreeFrom
  <1> QED
    BY <1>7, <1>8, <1>9, <1>10, <1>11 DEF Covers

LEMMA ColumnWriteCovers ==
    ASSUME TypeOK, TypeOK', HistoryTyped, AllCovered,
           NEW r \in Ranks, NEW b \in Banks, ColumnWrite(r, b),
           last' = [last EXCEPT ![r][b]["write"] = CYCLE_VAL],
           burst' = [rank |-> r, kind |-> "write",
                     end |-> CYCLE_VAL + T_CWD + T_DATA_TRANS],
           UNCHANGED busy
    PROVE  AllCovered'
  <1> SUFFICES ASSUME NEW i \in Ranks, NEW j \in Banks
               PROVE  Covers(i, j)'
    BY DEF AllCovered
  <1> DEFINE same == Later(T_CCD, T_DATA_TRANS)
             other == T_DATA_TRANS + T_RTRS
             turnSame == T_CWD + T_DATA_TRANS + T_WTR
             turnOther == T_CWD + T_DATA_TRANS + T_RTRS - T_CAS
             close == T_CWD + T_DATA_TRANS + T_WR
  <1>1. /\ same \in Int /\ T_CCD <= same /\ T_DATA_TRANS <= same
        /\ turnSame \in Int /\ turnOther \in Int
        /\ other \in Int /\ close \in Int
    BY Times DEF Later
  <1>2. /\ \A k \in Timers : next[i][j][k] <= next'[i][j][k]
        /\ next'[i][j]["powerup"] = next[i][j]["powerup"]
        /\ i = r => /\ CYCLE_VAL + turnSame <= next'[i][j]["read"]
                    /\ CYCLE_VAL + same <= next'[i][j]["write"]
        /\ i # r => /\ CYCLE_VAL + turnOther <= next'[i][j]["read"]
                    /\ CYCLE_VAL + other <= next'[i][j]["write"]
        /\ i = r /\ j = b => /\ CYCLE_VAL + close <= next'[i][j]["pre"]
                             /\ CYCLE_VAL + close <= next'[i][j]["refresh"]
    <2>1. ColumnAccess(r, b, "WRITE", turnSame, turnOther, same, other, close)
      BY DEF ColumnWrite
    <2> HIDE DEF same, other, turnSame, turnOther, close
    <2> QED
      BY <1>1, <2>1, ColumnTimers
  <1>3. Covers(i, j) /\ state' = state
    BY DEF AllCovered, ColumnWrite, ColumnAccess
  <1>4. ASSUME NEW m \in Banks
        PROVE  /\ last'[i][m]["act"] = last[i][m]["act"]
               /\ last'[i][m]["write"] = IF i = r /\ m = b THEN CYCLE_VAL
                                         ELSE last[i][m]["write"]
               /\ last'[i][m]["read"] = last[i][m]["read"]
               /\ last'[i][m]["pre"] = last[i][m]["pre"]
    BY DEF HistoryTyped, Kinds
  <1>5. /\ next[i][j]["act"] <= next'[i][j]["act"]
        /\ next[i][j]["pre"] <= next'[i][j]["pre"]
        /\ next[i][j]["refresh"] <= next'[i][j]["refresh"]
        /\ next[i][j]["powerdown"] <= next'[i][j]["powerdown"]
        /\ next[i][j]["read"] <= next'[i][j]["read"]
        /\ next[i][j]["write"] <= next'[i][j]["write"]
    BY <1>2 DEF Timers
  <1>6. /\ next'[i][j]["pre"] \in Int /\ next'[i][j]["act"] \in Int
        /\ next'[i][j]["read"] \in Int /\ next'[i][j]["write"] \in Int
        /\ next'[i][j]["powerdown"] \in Int /\ next'[i][j]["refresh"] \in Int
    BY SMTT(30) DEF TypeOK, Timers
  <1> HIDE DEF same
  <1>7. ActCovers(i, j)'
    BY <1>3, <1>4, <1>5, <1>6, AllTimers, HistoryTypes, Times, SMTT(30)
    DEF Covers, ActCovers
  <1>8. CloseCovers(i, j)'
    <2>1. i = r /\ j = b => /\ CYCLE_VAL + WriteTime <= next'[i][j]["pre"]
                            /\ CYCLE_VAL + WriteTime <= next'[i][j]["refresh"]
      BY <1>2 DEF WriteTime
    <2> QED
      BY <1>3, <1>4, <1>5, <1>6, <2>1, AllTimers, HistoryTypes, Times,
         WriteTimes DEF Covers, CloseCovers, Closable
  <1>9. PowerCovers(i, j)'
    BY <1>2, <1>3, <1>5, <1>6, AllTimers, HistoryTypes, SMTT(30)
    DEF Covers, PowerCovers
  <1>10. ColumnCovers(i, j)'
    <2>1. i = r => /\ CYCLE_VAL + T_CCD <= next'[i][j]["write"]
                   /\ CYCLE_VAL + T_CWD + T_DATA_TRANS + T_WTR
                         <= next'[i][j]["read"]
      BY <1>1, <1>2, <1>6, AllTimers, Times
    <2> QED
      BY <1>3, <1>4, <1>5, <1>6, <2>1, AllTimers, HistoryTypes, Times
      DEF Covers, ColumnCovers
  <1>11. BusCovers(i, j)'
    BY <1>1, <1>2, <1>6, AllTimers, Times DEF BusCovers, BusFreeFrom
  <1> QED
    BY <1>7, <1>8, <1>9, <1>10, <1>11 DEF Covers

\* A bank of which the row is closed at cycle start: its activation and its
\* refresh wait for the precharge.
LEMMA ClosedCovers ==
    ASSUME TypeOK, TypeOK', HistoryTyped, NEW r \in Ranks, NEW b \in Banks,
           Covers(r, b), NEW start \in Int, busy'[r] = busy[r], burst' = burst,
           next'[r][b] = Deferred(next[r][b], RefreshTimers, start + T_RP),
           state'[r][b] = "PRECHARGING",
           \A i \in Banks : /\ last'[r][i]["act"] = last[r][i]["act"]
                            /\ last'[r][i]["read"] = last[r][i]["read"]
                            /\ last'[r][i]["write"] = last[r][i]["write"],
           last'[r][b]["pre"] \in {start, last[r][b]["pre"]}
    PROVE  Covers(r, b)'
  <1>1. /\ next'[r][b]["act"] = Later(start + T_RP, next[r][b]["act"])
        /\ next'[r][b]["pre"] = Later(start + T_RP, next[r][b]["pre"])
        /\ next'[r][b]["refresh"] = Later(start + T_RP, next[r][b]["refresh"])
        /\ next'[r][b]["powerdown"]
              = Later(start + T_RP, next[r][b]["powerdown"])
        /\ next'[r][b]["read"] = next[r][b]["read"]
        /\ next'[r][b]["write"] = next[r][b]["write"]
    BY DEF Deferred, Timers, RefreshTimers
  <1>2. /\ next[r][b]["act"] <= next'[r][b]["act"]
        /\ next[r][b]["pre"] <= next'[r][b]["pre"]
        /\ next[r][b]["refresh"] <= next'[r][b]["refresh"]
        /\ next[r][b]["powerdown"] <= next'[r][b]["powerdown"]
        /\ start + T_RP <= next'[r][b]["act"]
        /\ start + T_RP <= next'[r][b]["refresh"]
    BY <1>1, AllTimers, Times DEF Later
  <1>3. /\ next'[r][b]["pre"] \in Int /\ next'[r][b]["act"] \in Int
        /\ next'[r][b]["powerdown"] \in Int /\ next'[r][b]["refresh"] \in Int
    BY DEF TypeOK, Timers
  <1>4. ActCovers(r, b)'
    BY <1>2, <1>3, AllTimers, HistoryTypes, Times DEF Covers, ActCovers
  <1>5. CloseCovers(r, b)'
    BY <1>2, <1>3, AllTimers, HistoryTypes, Times, WriteTimes
    DEF Covers, CloseCovers, Closable
  <1>6. PowerCovers(r, b)'
    BY <1>2, <1>3, AllTimers, HistoryTypes
    DEF Covers, PowerCovers, PoweredDown, PrechargePowerDown
  <1>7. ColumnCovers(r, b)'
    BY <1>1, AllTimers, HistoryTypes, Times DEF Covers, ColumnCovers, RowOpen
  <1>8. BusCovers(r, b)'
    BY <1>1, AllTimers, HistoryTypes, Times
    DEF Covers, BusCovers, BusFreeFrom
  <1> QED
    BY <1>4, <1>5, <1>6, <1>7, <1>8 DEF Covers

\* A bank of the same rank whose row is not the one that is closed.
LEMMA NeighbourCovers ==
    ASSUME TypeOK, TypeOK', HistoryTyped, NEW r \in Ranks, NEW b \in Banks,
           Covers(r, b), busy'[r] = busy[r], burst' = burst,
           next'[r][b] = next[r][b], state'[r][b] = state[r][b],
           \A i \in Banks : /\ last'[r][i]["act"] = last[r][i]["act"]
                            /\ last'[r][i]["read"] = last[r][i]["read"]
                            /\ last'[r][i]["write"] = last[r][i]["write"],
           last'[r][b]["pre"] = last[r][b]["pre"]
    PROVE  Covers(r, b)'
  <1>1. ActCovers(r, b)' /\ PowerCovers(r, b)' /\ ColumnCovers(r, b)'
    BY DEF Covers, ActCovers, PowerCovers, ColumnCovers
  <1>2. CloseCovers(r, b)' /\ BusCovers(r, b)'
    BY DEF Covers, CloseCovers, Closable, BusCovers, BusFreeFrom
  <1> QED
    BY <1>1, <1>2 DEF Covers

LEMMA CloseRowsCovers ==
    ASSUME TypeOK, TypeOK', HistoryTyped, AllCovered,
           NEW r \in Ranks, NEW bs, CloseRows(r, bs),
           last' = [last EXCEPT ![r] = [b \in Banks |->
                  IF b \in bs /\ active_row[r][b] # NoRow
                  THEN [last[r][b] EXCEPT !["pre"] = CYCLE_VAL]
                  ELSE last[r][b]]],
           UNCHANGED <<busy, burst>>
    PROVE  AllCovered'
  <1>1. /\ state' = [state EXCEPT ![r] = [b \in Banks |->
               IF b \in bs THEN "PRECHARGING" ELSE state[r][b]]]
        /\ next' = [next EXCEPT ![r] = [b \in Banks |->
               IF b \in bs
               THEN Deferred(next[r][b], RefreshTimers, CYCLE_VAL + T_RP)
               ELSE next[r][b]]]
    BY DEF CloseRows
  <1> SUFFICES ASSUME NEW i \in Ranks, NEW j \in Banks
               PROVE  Covers(i, j)'
    BY DEF AllCovered
  <1>2. Covers(i, j) /\ CYCLE_VAL \in Int
    BY DEF AllCovered, TypeOK
  <1>3. ASSUME NEW m \in Banks
        PROVE  /\ last'[i][m]["act"] = last[i][m]["act"]
               /\ last'[i][m]["read"] = last[i][m]["read"]
               /\ last'[i][m]["write"] = last[i][m]["write"]
               /\ last'[i][m]["pre"] \in {CYCLE_VAL, last[i][m]["pre"]}
               /\ ~(i = r /\ m \in bs) =>
                     last'[i][m]["pre"] = last[i][m]["pre"]
    BY DEF HistoryTyped, Kinds
  <1>4. CASE i = r /\ j \in bs
    <2>1. /\ state'[i][j] = "PRECHARGING"
          /\ next'[i][j] = Deferred(next[i][j], RefreshTimers, CYCLE_VAL + T_RP)
      BY <1>1, <1>4 DEF TypeOK
    <2> QED
      BY <1>2, <1>3, <2>1, ClosedCovers
  <1>5. CASE ~(i = r /\ j \in bs)
    <2>1. next'[i][j] = next[i][j] /\ state'[i][j] = state[i][j]
      BY <1>1, <1>5 DEF TypeOK
    <2> QED
      BY <1>2, <1>3, <1>5, <2>1, NeighbourCovers
  <1> QED
    BY <1>4, <1>5

LEMMA AutoprechargeCovers ==
    ASSUME TypeOK, TypeOK', HistoryTyped, AllCovered,
           NEW r \in Ranks, NEW b \in Banks, Autoprecharge(r, b),
           last' = [last EXCEPT ![r][b]["pre"] = AutoprechargeStart(r, b)],
           UNCHANGED <<busy, burst>>
    PROVE  AllCovered'
  <1> DEFINE start == AutoprechargeStart(r, b)
  <1>1. /\ state' = [state EXCEPT ![r][b] = "PRECHARGING"]
        /\ next' = [next EXCEPT ![r][b] =
               Deferred(@, RefreshTimers, start + T_RP)]
    BY DEF Autoprecharge
  <1>2. start \in Int
    BY AllTimers, Times DEF AutoprechargeStart, Later
  <1> HIDE DEF start
  <1> SUFFICES ASSUME NEW i \in Ranks, NEW j \in Banks
               PROVE  Covers(i, j)'
    BY DEF AllCovered
  <1>3. Covers(i, j)
    BY DEF AllCovered
  <1>4. ASSUME NEW m \in Banks
        PROVE  /\ last'[i][m]["act"] = last[i][m]["act"]
               /\ last'[i][m]["read"] = last[i][m]["read"]
               /\ last'[i][m]["write"] = last[i][m]["write"]
               /\ last'[i][m]["pre"] = IF i = r /\ m = b THEN start
                                       ELSE last[i][m]["pre"]
    BY DEF HistoryTyped, Kinds, start
  <1>5. CASE i = r /\ j = b
    <2>1. /\ state'[i][j] = "PRECHARGING"
          /\ next'[i][j] = Deferred(next[i][j], RefreshTimers, start + T_RP)
      BY <1>1, <1>5 DEF TypeOK
    <2> QED
      BY <1>2, <1>3, <1>4, <2>1, ClosedCovers
  <1>6. CASE ~(i = r /\ j = b)
    <2>1. next'[i][j] = next[i][j] /\ state'[i][j] = state[i][j]
      BY <1>1, <1>6 DEF TypeOK
    <2> QED
      BY <1>3, <1>4, <1>6, <2>1, NeighbourCovers
  <1> QED
    BY <1>5, <1>6

\* A rank that becomes busy until cycle done, and all whose timers but that
\* of the power-up wait for it.
LEMMA BusyCovers ==
    ASSUME TypeOK, TypeOK', HistoryTyped, NEW r \in Ranks, NEW b \in Banks,
           Covers(r, b), NEW done \in Int, NEW cmds,
           RefreshTimers \subseteq cmds, burst' = burst, last'[r] = last[r],
           busy'[r] = done, next'[r][b] = Deferred(next[r][b], cmds, done),
           state'[r][b] \notin PoweredDown,
           state'[r][b] \in RowOpen => {"read", "write"} \subseteq cmds
    PROVE  Covers(r, b)'
  <1>1. ASSUME NEW k \in Timers
        PROVE  /\ next[r][b][k] <= next'[r][b][k]
               /\ next'[r][b][k] \in Int
               /\ k \in cmds => done <= next'[r][b][k]
    <2>1. next[r][b] \in [Timers -> Int]
      BY AllTimers
    <2> QED
      BY <2>1, DeferredBounds
  <1>2. /\ next[r][b]["act"] <= next'[r][b]["act"]
        /\ next[r][b]["pre"] <= next'[r][b]["pre"]
        /\ next[r][b]["refresh"] <= next'[r][b]["refresh"]
        /\ next[r][b]["powerdown"] <= next'[r][b]["powerdown"]
        /\ next[r][b]["read"] <= next'[r][b]["read"]
        /\ next[r][b]["write"] <= next'[r][b]["write"]
        /\ done <= next'[r][b]["act"] /\ done <= next'[r][b]["pre"]
        /\ done <= next'[r][b]["refresh"] /\ done <= next'[r][b]["powerdown"]
        /\ state'[r][b] \in RowOpen => /\ done <= next'[r][b]["read"]
                                       /\ done <= next'[r][b]["write"]
    BY <1>1 DEF Timers, RefreshTimers
  <1>3. /\ next'[r][b]["pre"] \in Int /\ next'[r][b]["act"] \in Int
        /\ next'[r][b]["read"] \in Int /\ next'[r][b]["write"] \in Int
        /\ next'[r][b]["powerdown"] \in Int /\ next'[r][b]["refresh"] \in Int
    BY <1>1 DEF Timers
  <1>4. ActCovers(r, b)'
    BY <1>2, <1>3, AllTimers, HistoryTypes, Times DEF Covers, ActCovers
  <1>5. CloseCovers(r, b)'
    BY <1>2, <1>3, AllTimers, HistoryTypes, Times, WriteTimes
    DEF Covers, CloseCovers, Closable
  <1>6. PowerCovers(r, b)'
    BY <1>2 DEF PowerCovers
  <1>7. ColumnCovers(r, b)'
    BY <1>2, <1>3, AllTimers, HistoryTypes, Times DEF Covers, ColumnCovers
  <1>8. BusCovers(r, b)'
    BY <1>2, <1>3, AllTimers, HistoryTypes, Times
    DEF Covers, BusCovers, BusFreeFrom
  <1> QED
    BY <1>4, <1>5, <1>6, <1>7, <1>8 DEF Covers

LEMMA WakeRankCovers ==
    ASSUME TypeOK, TypeOK', HistoryTyped, AllCovered, NEW r \in Ranks,
           WakeRank(r), UNCHANGED <<last, burst>>,
           busy' = [busy EXCEPT ![r] = CYCLE_VAL + T_XP]
    PROVE  AllCovered'
  <1>1. /\ state' = [state EXCEPT ![r] = [b \in Banks |->
               IF state[r][b] \in PrechargePowerDown
               THEN "IDLE" ELSE "ROW_ACTIVE"]]
        /\ next' = [next EXCEPT ![r] = [b \in Banks |->
               Deferred(next[r][b], WakeTimers, CYCLE_VAL + T_XP)]]
    BY DEF WakeRank
  <1> SUFFICES ASSUME NEW i \in Ranks, NEW j \in Banks
               PROVE  Covers(i, j)'
    BY DEF AllCovered
  <1>2. Covers(i, j) /\ CYCLE_VAL + T_XP \in Int
    BY Times DEF AllCovered, TypeOK
  <1>3. CASE i = r
    <2>1. /\ state'[i][j] \in {"IDLE", "ROW_ACTIVE"}
          /\ next'[i][j] = Deferred(next[i][j], WakeTimers, CYCLE_VAL + T_XP)
          /\ busy'[i] = CYCLE_VAL + T_XP
      BY <1>1, <1>3 DEF TypeOK, HistoryTyped
    <2>2. /\ RefreshTimers \subseteq WakeTimers
          /\ {"read", "write"} \subseteq WakeTimers
      BY DEF RefreshTimers, WakeTimers, Timers
    <2>3. state'[i][j] \notin PoweredDown
      BY <2>1 DEF PoweredDown, PrechargePowerDown
    <2> QED
      BY <1>2, <2>1, <2>2, <2>3, BusyCovers
  <1>4. CASE i # r
    <2>1. next'[i] = next[i] /\ state'[i] = state[i] /\ busy'[i] = busy[i]
      BY <1>1, <1>4 DEF TypeOK, HistoryTyped
    <2> QED
      BY <1>2, <2>1, CoversSame
  <1> QED
    BY <1>3, <1>4

LEMMA RefreshCovers ==
    ASSUME TypeOK, TypeOK', HistoryTyped, AllCovered, NEW r \in Ranks,
           Refresh(r), UNCHANGED <<last, burst>>,
           busy' = [busy EXCEPT ![r] = CYCLE_VAL + RefreshLead(r) + T_RFC]
    PROVE  AllCovered'
  <1> DEFINE done == CYCLE_VAL + RefreshLead(r) + T_RFC
  <1>1. /\ state' = [state EXCEPT ![r] = [b \in Banks |-> "REFRESHING"]]
        /\ next' = [next EXCEPT ![r] = [b \in Banks |->
               Deferred(next[r][b], RefreshTimers, done)]]
        /\ busy' = [busy EXCEPT ![r] = done]
    BY DEF Refresh
  <1>2. done \in Int
    BY Times DEF RefreshLead, TypeOK
  <1> HIDE DEF done
  <1> SUFFICES ASSUME NEW i \in Ranks, NEW j \in Banks
               PROVE  Covers(i, j)'
    BY DEF AllCovered
  <1>3. Covers(i, j)
    BY DEF AllCovered
  <1>4. CASE i = r
    <2>1. /\ state'[i][j] = "REFRESHING"
          /\ next'[i][j] = Deferred(next[i][j], RefreshTimers, done)
          /\ busy'[i] = done
      BY <1>1, <1>4 DEF TypeOK, HistoryTyped
    <2>2. state'[i][j] \notin PoweredDown /\ state'[i][j] \notin RowOpen
      BY <2>1 DEF PoweredDown, PrechargePowerDown, RowOpen
    <2> QED
      BY <1>2, <1>3, <2>1, <2>2, BusyCovers
  <1>5. CASE i # r
    <2>1. next'[i] = next[i] /\ state'[i] = state[i] /\ busy'[i] = busy[i]
      BY <1>1, <1>5 DEF TypeOK, HistoryTyped
    <2> QED
      BY <1>3, <2>1, CoversSame
  <1> QED
    BY <1>4, <1>5

LEMMA PowerDownCovers ==
    ASSUME TypeOK, TypeOK', HistoryTyped, AllCovered, NEW r \in Ranks,
           NEW low \in PrechargePowerDown,
           \A b \in Banks : state[r][b] \notin PoweredDown,
           PowerDown(r, low), UNCHANGED history
    PROVE  AllCovered'
  <1> DEFINE slept(b) == [Deferred(next[r][b], {"refresh"}, CYCLE_VAL + T_PD_MIN)
                 EXCEPT !["powerup"] = Later(CYCLE_VAL + T_PD_MIN,
                                             next[r][b]["powerdown"])]
  <1>1. /\ state' = [state EXCEPT ![r] = [b \in Banks |->
               IF state[r][b] \in Closed THEN low
               ELSE IF state[r][b] = "ROW_ACTIVE" THEN "ACTIVE_POWER_DOWN"
               ELSE state[r][b]]]
        /\ next' = [next EXCEPT ![r] = [b \in Banks |-> slept(b)]]
        /\ UNCHANGED <<last, busy, burst>>
    BY DEF PowerDown, history
  <1>2. ASSUME NEW b \in Banks
        PROVE  /\ \A k \in Timers \ {"powerup"} : next[r][b][k] <= slept(b)[k]
               /\ next[r][b]["powerdown"] <= slept(b)["powerup"]
    <2> DEFINE t == Deferred(next[r][b], {"refresh"}, CYCLE_VAL + T_PD_MIN)
    <2>1. next[r][b] \in [Timers -> Int] /\ CYCLE_VAL + T_PD_MIN \in Int
      BY AllTimers, Times
    <2>2. t \in [Timers -> Int]
      BY <2>1, DeferredType
    <2>3. \A k \in Timers : next[r][b][k] <= t[k]
      <3> HIDE DEF t
      <3> QED
        BY <2>1, DeferredBounds DEF t
    <2>4. slept(b) = [t EXCEPT !["powerup"] =
                         Later(CYCLE_VAL + T_PD_MIN, next[r][b]["powerdown"])]
      OBVIOUS
    <2> HIDE DEF t, slept
    <2>5. next[r][b]["powerdown"] <= slept(b)["powerup"]
      BY <2>1, <2>2, <2>4, AllTimers DEF Later, Timers
    <2>6. \A k \in Timers \ {"powerup"} : slept(b)[k] = t[k]
      BY <2>2, <2>4
    <2> QED
      BY <2>3, <2>5, <2>6
  <1> HIDE DEF slept
  <1> SUFFICES ASSUME NEW i \in Ranks, NEW j \in Banks
               PROVE  Covers(i, j)'
    BY DEF AllCovered
  <1>3. Covers(i, j)
    BY DEF AllCovered
  <1>4. CASE i = r
    <2>1. /\ next'[i][j] = slept(j)
          /\ state'[i][j] = IF state[i][j] \in Closed THEN low
                            ELSE IF state[i][j] = "ROW_ACTIVE"
                            THEN "ACTIVE_POWER_DOWN" ELSE state[i][j]
      BY <1>1, <1>4 DEF TypeOK
    <2>2. state'[i][j] \in RowOpen => state[i][j] \in RowOpen
      BY <2>1 DEF RowOpen, PrechargePowerDown
    <2>3. busy[i] <= next'[i][j]["powerup"]
      <3>1. next'[i][j]["powerup"] \in Int
        BY DEF TypeOK, Timers
      <3> QED
        BY <1>2, <1>3, <1>4, <2>1, <3>1, AllTimers, HistoryTypes
        DEF Covers, PowerCovers
    <2>4. \A k \in Timers \ {"powerup"} : next[i][j][k] <= next'[i][j][k]
      BY <1>2, <1>4, <2>1
    <2> QED
      BY <1>1, <1>3, <2>2, <2>3, <2>4, CoversLater
  <1>5. CASE i # r
    <2>1. next'[i] = next[i] /\ state'[i] = state[i]
      BY <1>1, <1>5 DEF TypeOK
    <2> QED
      BY <1>1, <1>3, <2>1, CoversSame
  <1> QED
    BY <1>4, <1>5

\* A forced refresh begins T_RP and one refresh before the window closes, or
\* earlier.
LEMMA ForcedRefreshFits ==
    ASSUME TypeOK, DeadlineNotLate, NEW r \in Ranks, ForcedRefreshDue(r)
    PROVE  /\ CYCLE_VAL + 1 = refresh_issue_deadline[r]
           /\ refresh_issue_deadline[r] + T_RP + T_RFC
                 <= next_refresh_completion_deadline[r]
  <1> DEFINE n == num_issued_refreshes[r]
             left == REFRESH_QUOTA - n
  <1>1. CYCLE_VAL + 1 = refresh_issue_deadline[r] /\ n < REFRESH_QUOTA
    BY DEF ForcedRefreshDue
  <1>2. /\ refresh_issue_deadline[r] \in Int /\ n \in Nat
        /\ next_refresh_completion_deadline[r] \in Int
    BY AllTimers, Indices
  <1>3. left \in Nat /\ left >= 1
    BY <1>1, <1>2, Times
  <1>4. refresh_issue_deadline[r]
            <= next_refresh_completion_deadline[r] - T_RP - left * T_RFC
    BY DEF DeadlineNotLate, IssueDeadline
  <1> HIDE DEF left, n
  <1>5. left * T_RFC \in Int /\ T_RFC <= left * T_RFC
    <2>1. left * T_RFC = T_RFC + (left - 1) * T_RFC
      BY <1>3, Times
    <2>2. (left - 1) * T_RFC \in Nat
      <3>1. left - 1 \in Nat
        BY <1>3
      <3> QED
        BY <3>1, Times
    <2> QED
      BY <2>1, <2>2, Times
  <1> QED
    BY <1>1, <1>2, <1>4, <1>5, Times

LEMMA UpdateMemoryCovers ==
    ASSUME TypeOK, TypeOK', HistoryTyped, AllCovered, AllEnd, DeadlineNotLate,
           UpdateMemory, UNCHANGED <<last, burst>>,
           busy' = [r \in Ranks |->
                  IF ForcedRefreshDue(r) THEN next_refresh_completion_deadline[r]
                  ELSE busy[r]]
    PROVE  AllCovered'
  <1> SUFFICES ASSUME NEW i \in Ranks, NEW j \in Banks
               PROVE  Covers(i, j)'
    BY DEF AllCovered
  <1>1. Covers(i, j)
    BY DEF AllCovered
  <1>2. CASE ForcedRefreshDue(i)
    <2> DEFINE done == next_refresh_completion_deadline[i]
    <2>1. /\ state'[i][j] = "REFRESHING"
          /\ next'[i][j]["pre"] = done /\ next'[i][j]["act"] = done
          /\ next'[i][j]["refresh"] = done /\ next'[i][j]["powerdown"] = done
          /\ next'[i][j]["read"] = next[i][j]["read"]
          /\ next'[i][j]["write"] = next[i][j]["write"]
          /\ busy'[i] = done
      BY <1>2 DEF UpdateMemory, UpdateRefresh, IssueForcedRefreshCommands,
                  Timers, RefreshTimers
    <2>2. done \in Int /\ refresh_issue_deadline[i] + T_RP + T_RFC <= done
      BY <1>2, AllTimers, ForcedRefreshFits
    <2>3. ASSUME NEW m \in Banks
          PROVE  /\ last[i][m]["act"] + T_RAS <= refresh_issue_deadline[i]
                 /\ last[i][m]["read"] + T_RTP <= refresh_issue_deadline[i]
                 /\ last[i][m]["write"] + WriteTime <= refresh_issue_deadline[i]
                 /\ last[i][m]["pre"] <= refresh_issue_deadline[i]
      BY DEF AllEnd, EndsByDeadline, ByDeadline
    <2> HIDE DEF done
    <2>4. ActCovers(i, j)'
      <3>1. ASSUME NEW m \in Banks
            PROVE  /\ last[i][m]["act"] + T_RC <= done
                   /\ last[i][m]["act"] + T_RRD <= done
                   /\ last[i][m]["pre"] + T_RP <= done
        BY <2>2, <2>3, AllTimers, HistoryTypes, Times, DistanceAssumption
      <3> QED
        BY <2>1, <2>2, <3>1 DEF ActCovers
    <2>5. CloseCovers(i, j)'
      <3>1. /\ last[i][j]["act"] + T_RAS <= done
            /\ last[i][j]["read"] + T_RTP <= done
            /\ last[i][j]["write"] + WriteTime <= done
            /\ last[i][j]["pre"] + T_RP <= done
        BY <2>2, <2>3, AllTimers, HistoryTypes, Times, WriteTimes
      <3> QED
        BY <2>1, <2>2, <3>1 DEF CloseCovers, Closable
    <2>6. PowerCovers(i, j)'
      BY <2>1, <2>2 DEF PowerCovers, PoweredDown, PrechargePowerDown
    <2>7. ColumnCovers(i, j)'
      BY <1>1, <2>1 DEF Covers, ColumnCovers, RowOpen
    <2>8. BusCovers(i, j)'
      BY <1>1, <2>1 DEF Covers, BusCovers, BusFreeFrom
    <2> QED
      BY <2>4, <2>5, <2>6, <2>7, <2>8 DEF Covers
  <1>3. CASE ~ForcedRefreshDue(i)
    <2>1. /\ state'[i][j] = state[i][j] /\ busy'[i] = busy[i]
          /\ \A k \in Timers : next'[i][j][k] = next[i][j][k]
      BY <1>3 DEF UpdateMemory, UpdateRefresh, IssueForcedRefreshCommands
    <2>2. \A k \in Timers \ {"powerup"} : next[i][j][k] <= next'[i][j][k]
      BY <2>1, AllTimers
    <2>3. state'[i][j] \in PoweredDown => busy[i] <= next'[i][j]["powerup"]
      BY <1>1, <2>1 DEF Covers, PowerCovers, Timers
    <2> QED
      BY <1>1, <2>1, <2>2, <2>3, CoversLater
  <1> QED
    BY <1>2, <1>3

-----------------------------------------------------------------------------
(* What has been started ends by the issue deadline.                       *)

\* A command that looked ahead, and how it changes the history of its bank.
LEMMA EndsOne ==
    ASSUME TypeOK, HistoryTyped, AllEnd, NEW r \in Ranks, NEW b \in Banks,
           UNCHANGED <<CYCLE_VAL, refresh_issue_deadline>>,
           NEW c \in Kinds, NEW t \in Int,
           last' = [last EXCEPT ![r][b][c] = t],
           c = "act" => ByDeadline(r, t + T_RAS),
           c = "read" => ByDeadline(r, t + T_RTP),
           c = "write" => ByDeadline(r, t + WriteTime),
           c = "pre" => ByDeadline(r, t)
    PROVE  AllEnd'
  <1> SUFFICES ASSUME NEW i \in Ranks, NEW j \in Banks
               PROVE  EndsByDeadline(i, j)'
    BY DEF AllEnd
  <1>1. EndsByDeadline(i, j)
    BY DEF AllEnd
  <1>2. ASSUME NEW k \in Kinds
        PROVE  last'[i][j][k] = IF i = r /\ j = b /\ k = c THEN t
                                ELSE last[i][j][k]
    BY DEF HistoryTyped
  <1>3. /\ last'[i][j]["act"] = IF i = r /\ j = b /\ c = "act" THEN t
                                ELSE last[i][j]["act"]
        /\ last'[i][j]["read"] = IF i = r /\ j = b /\ c = "read" THEN t
                                 ELSE last[i][j]["read"]
        /\ last'[i][j]["write"] = IF i = r /\ j = b /\ c = "write" THEN t
                                  ELSE last[i][j]["write"]
        /\ last'[i][j]["pre"] = IF i = r /\ j = b /\ c = "pre" THEN t
                                ELSE last[i][j]["pre"]
    BY <1>2 DEF Kinds
  <1> QED
    BY <1>1, <1>3 DEF EndsByDeadline, ByDeadline

LEMMA CloseRowsEnds ==
    ASSUME TypeOK, HistoryTyped, AllEnd, NEW r \in Ranks, NEW bs,
           UNCHANGED <<CYCLE_VAL, refresh_issue_deadline>>,
           bs \cap Banks # {} => FitsBeforeRefresh(r, T_RP),
           last' = [last EXCEPT ![r] = [b \in Banks |->
                  IF b \in bs /\ active_row[r][b] # NoRow
                  THEN [last[r][b] EXCEPT !["pre"] = CYCLE_VAL]
                  ELSE last[r][b]]]
    PROVE  AllEnd'
  <1> SUFFICES ASSUME NEW i \in Ranks, NEW j \in Banks
               PROVE  EndsByDeadline(i, j)'
    BY DEF AllEnd
  <1>1. EndsByDeadline(i, j)
    BY DEF AllEnd
  <1>2. /\ last'[i][j]["act"] = last[i][j]["act"]
        /\ last'[i][j]["read"] = last[i][j]["read"]
        /\ last'[i][j]["write"] = last[i][j]["write"]
        /\ \/ last'[i][j]["pre"] = last[i][j]["pre"]
           \/ last'[i][j]["pre"] = CYCLE_VAL /\ i = r /\ j \in bs
    BY DEF HistoryTyped, Kinds
  <1>3. i = r /\ j \in bs => ByDeadline(i, CYCLE_VAL)
    BY AllTimers, Times, LongestBounds DEF FitsBeforeRefresh, ByDeadline
  <1> QED
    BY <1>1, <1>2, <1>3 DEF EndsByDeadline, ByDeadline

LEMMA EndsStays ==
    ASSUME AllEnd, UNCHANGED <<CYCLE_VAL, refresh_issue_deadline, last>>
    PROVE  AllEnd'
    BY DEF AllEnd, EndsByDeadline, ByDeadline

LEMMA UpdateMemoryEnds ==
    ASSUME TypeOK, TypeOK', HistoryTyped, AllEnd, DeadlineNotLate,
           UpdateMemory, UNCHANGED last
    PROVE  AllEnd'
  <1> SUFFICES ASSUME NEW i \in Ranks, NEW j \in Banks
               PROVE  EndsByDeadline(i, j)'
    BY DEF AllEnd
  <1>1. EndsByDeadline(i, j)
    BY DEF AllEnd
  <1>2. ASSUME NEW t \in Int, ByDeadline(i, t)
        PROVE  t <= refresh_issue_deadline'[i] /\ t <= CYCLE_VAL' + Longest
    BY <1>2, DeadlineMoves DEF ByDeadline
  <1>3. /\ last[i][j]["act"] + T_RAS \in Int
        /\ last[i][j]["read"] + T_RTP \in Int
        /\ last[i][j]["write"] + WriteTime \in Int
        /\ last[i][j]["pre"] \in Int
    BY HistoryTypes, Times, WriteTimes
  <1> QED
    BY <1>1, <1>2, <1>3 DEF EndsByDeadline, ByDeadline

-----------------------------------------------------------------------------
(* How long a rank is busy.                                                *)

\* As long as refreshes are missing, they and a precharge still fit.
LEMMA MissingFit ==
    ASSUME TypeOK, DeadlineAhead, NEW r \in Ranks, ~forced_refresh_mode_on[r],
           num_issued_refreshes[r] < REFRESH_QUOTA
    PROVE  /\ CYCLE_VAL + T_RP + T_RFC < next_refresh_completion_deadline[r]
           /\ num_issued_refreshes[r] + 1 < REFRESH_QUOTA =>
                 CYCLE_VAL + T_RP + T_RFC + T_RFC
                     < next_refresh_completion_deadline[r]
  <1> DEFINE n == num_issued_refreshes[r]
             left == REFRESH_QUOTA - n
             c == next_refresh_completion_deadline[r]
             d == refresh_issue_deadline[r]
  <1>1. n \in Nat /\ c \in Int /\ d \in Int /\ CYCLE_VAL \in Int
    BY AllTimers, Indices
  <1>2. CYCLE_VAL < d /\ d <= c - T_RP - left * T_RFC
    BY DEF DeadlineAhead, IssueDeadline
  <1>3. left \in Nat /\ left >= 1 /\ (n + 1 < REFRESH_QUOTA => left >= 2)
    BY <1>1, Times
  <1> HIDE DEF left, c, d
  <1>4. left * T_RFC \in Int /\ T_RFC <= left * T_RFC
    <2>1. left * T_RFC = T_RFC + (left - 1) * T_RFC
      BY <1>3, Times
    <2>2. (left - 1) * T_RFC \in Nat
      <3>1. left - 1 \in Nat
        BY <1>3
      <3> QED
        BY <3>1, Times
    <2> QED
      BY <2>1, <2>2, Times
  <1>5. left >= 2 => T_RFC + T_RFC <= left * T_RFC
    <2> SUFFICES ASSUME left >= 2 PROVE T_RFC + T_RFC <= left * T_RFC
      OBVIOUS
    <2>1. left * T_RFC = T_RFC + T_RFC + (left - 2) * T_RFC
      BY <1>3, Times
    <2>2. (left - 2) * T_RFC \in Nat
      <3>1. left - 2 \in Nat
        BY <1>3
      <3> QED
        BY <3>1, Times
    <2> QED
      BY <2>1, <2>2, Times
  <1>6. CYCLE_VAL + T_RP + T_RFC < c
    BY <1>1, <1>2, <1>4, Times
  <1>7. n + 1 < REFRESH_QUOTA => CYCLE_VAL + T_RP + T_RFC + T_RFC < c
    BY <1>1, <1>2, <1>3, <1>4, <1>5, Times
  <1> QED
    BY <1>6, <1>7 DEF c

LEMMA LeadBounds ==
    ASSUME NEW r \in Ranks
    PROVE  /\ RefreshLead(r) \in Nat
           /\ RefreshLead(r) <= T_RP + T_RFC
           /\ RefreshLead(r) <= T_RP + Longest
    BY Times, LongestBounds, DistanceAssumption DEF RefreshLead

LEMMA BusyStaysBounded ==
    ASSUME RanksBusy, UNCHANGED <<CYCLE_VAL, refreshVars, busy>>
    PROVE  RanksBusy'
    BY DEF RanksBusy, BusyEnds, ForcedIsLate, refreshVars

LEMMA WakeRankBusy ==
    ASSUME TypeOK, HistoryTyped, DeadlineAhead, RanksBusy, NEW r \in Ranks,
           ~forced_refresh_mode_on[r], UNCHANGED <<CYCLE_VAL, refreshVars>>,
           busy' = [busy EXCEPT ![r] = CYCLE_VAL + T_XP]
    PROVE  RanksBusy'
  <1> SUFFICES ASSUME NEW i \in Ranks
               PROVE  BusyEnds(i)' /\ ForcedIsLate(i)'
    BY DEF RanksBusy
  <1>1. BusyEnds(i) /\ ForcedIsLate(i)
    BY DEF RanksBusy
  <1>2. ForcedIsLate(i)'
    BY <1>1 DEF ForcedIsLate, refreshVars
  <1>3. CASE i = r
    <2>1. busy'[i] = CYCLE_VAL + T_XP
      BY <1>3 DEF HistoryTyped
    <2>2. num_issued_refreshes[i] < REFRESH_QUOTA =>
             CYCLE_VAL + T_RP + T_RFC < next_refresh_completion_deadline[i]
      BY <1>3, MissingFit
    <2>3. /\ CYCLE_VAL \in Int /\ num_issued_refreshes[i] \in Nat
          /\ next_refresh_completion_deadline[i] \in Int
      BY AllTimers, Indices
    <2> QED
      BY <1>2, <2>1, <2>2, <2>3, Times, LongestBounds, DistanceAssumption
      DEF BusyEnds, refreshVars
  <1>4. CASE i # r
    <2>1. busy'[i] = busy[i]
      BY <1>4 DEF HistoryTyped
    <2> QED
      BY <1>1, <1>2, <2>1 DEF BusyEnds, refreshVars
  <1> QED
    BY <1>3, <1>4

LEMMA RefreshBusy ==
    ASSUME TypeOK, HistoryTyped, DeadlineAhead, RanksBusy, NEW r \in Ranks,
           Refresh(r),
           busy' = [busy EXCEPT ![r] = CYCLE_VAL + RefreshLead(r) + T_RFC]
    PROVE  RanksBusy'
  <1>1. /\ UNCHANGED <<CYCLE_VAL, next_refresh_completion_deadline,
                       refresh_issue_deadline, forced_refresh_mode_on>>
        /\ num_issued_refreshes' = [num_issued_refreshes EXCEPT ![r] = @ + 1]
        /\ ~forced_refresh_mode_on[r]
    BY DEF Refresh, IsRefreshAllowed, ChannelFree
  <1> SUFFICES ASSUME NEW i \in Ranks
               PROVE  BusyEnds(i)' /\ ForcedIsLate(i)'
    BY DEF RanksBusy
  <1>2. BusyEnds(i) /\ ForcedIsLate(i)
    BY DEF RanksBusy
  <1>3. ForcedIsLate(i)'
    BY <1>1, <1>2 DEF ForcedIsLate
  <1>4. CASE i = r
    <2>1. /\ busy'[i] = CYCLE_VAL + RefreshLead(i) + T_RFC
          /\ num_issued_refreshes'[i] = num_issued_refreshes[i] + 1
      BY <1>1, <1>4 DEF HistoryTyped, TypeOK
    <2>2. num_issued_refreshes[i] + 1 < REFRESH_QUOTA =>
             CYCLE_VAL + T_RP + T_RFC + T_RFC
                 < next_refresh_completion_deadline[i]
      <3> SUFFICES ASSUME num_issued_refreshes[i] + 1 < REFRESH_QUOTA
                   PROVE  CYCLE_VAL + T_RP + T_RFC + T_RFC
                              < next_refresh_completion_deadline[i]
        OBVIOUS
      <3>1. num_issued_refreshes[i] < REFRESH_QUOTA
        BY AllTimers, Indices, Times
      <3> QED
        BY <1>1, <1>4, <3>1, MissingFit
    <2>3. /\ CYCLE_VAL \in Int /\ num_issued_refreshes[i] \in Nat
          /\ next_refresh_completion_deadline[i] \in Int
      BY AllTimers, Indices
    <2>4. BusyEnds(i)'
      BY <1>1, <2>1, <2>2, <2>3, Times, LeadBounds, LongestBounds DEF BusyEnds
    <2> QED
      BY <1>3, <2>4
  <1>5. CASE i # r
    <2>1. /\ busy'[i] = busy[i]
          /\ num_issued_refreshes'[i] = num_issued_refreshes[i]
      BY <1>1, <1>5 DEF HistoryTyped, TypeOK
    <2> QED
      BY <1>1, <1>2, <1>3, <2>1 DEF BusyEnds
  <1> QED
    BY <1>4, <1>5

LEMMA UpdateMemoryBusy ==
    ASSUME TypeOK, HistoryTyped, RanksBusy, UpdateMemory,
           busy' = [r \in Ranks |->
                  IF ForcedRefreshDue(r) THEN next_refresh_completion_deadline[r]
                  ELSE busy[r]]
    PROVE  RanksBusy'
  <1> SUFFICES ASSUME NEW i \in Ranks
               PROVE  BusyEnds(i)' /\ ForcedIsLate(i)'
    BY DEF RanksBusy
  <1> DEFINE window == REFRESH_QUOTA * T_REFI
             blackout == REFRESH_QUOTA * T_RFC
  <1>1. BusyEnds(i) /\ ForcedIsLate(i)
    BY DEF RanksBusy
  <1>2. /\ CYCLE_VAL' = CYCLE_VAL + 1
        /\ busy'[i] = IF ForcedRefreshDue(i)
                      THEN next_refresh_completion_deadline[i] ELSE busy[i]
        /\ num_issued_refreshes'[i] =
               IF WindowEnds(i) THEN 0 ELSE num_issued_refreshes[i]
        /\ next_refresh_completion_deadline'[i] =
               IF WindowEnds(i) THEN CYCLE_VAL + 1 + window
               ELSE next_refresh_completion_deadline[i]
        /\ refresh_issue_deadline'[i] = AdvanceDeadlines(i)
        /\ forced_refresh_mode_on'[i] =
               \/ ForcedRefreshDue(i)
               \/ ~WindowEnds(i) /\ forced_refresh_mode_on[i]
    BY DEF UpdateMemory, UpdateRefresh, IssueForcedRefreshCommands
  <1>3. /\ CYCLE_VAL \in Nat /\ refresh_issue_deadline[i] \in Int
        /\ num_issued_refreshes[i] \in Nat
        /\ next_refresh_completion_deadline[i] \in Int /\ busy[i] \in Int
    BY AllTimers, HistoryTypes, Indices DEF TypeOK
  <1>4. ForcedIsLate(i)'
    <2> SUFFICES ASSUME forced_refresh_mode_on'[i]
                 PROVE  refresh_issue_deadline'[i] <= CYCLE_VAL'
      BY DEF ForcedIsLate
    <2>1. /\ ~WindowEnds(i)
          /\ refresh_issue_deadline[i] <= CYCLE_VAL + 1
      <3>1. CASE ForcedRefreshDue(i)
        BY <1>3, <3>1 DEF ForcedRefreshDue
      <3>2. CASE ~WindowEnds(i) /\ forced_refresh_mode_on[i]
        BY <1>1, <1>3, <3>2 DEF ForcedIsLate
      <3> QED
        BY <1>2, <3>1, <3>2
    <2>2. refresh_issue_deadline'[i] = refresh_issue_deadline[i]
      BY <1>2, <1>3, <2>1 DEF AdvanceDeadlines
    <2> QED
      BY <1>2, <2>1, <2>2
  <1>5. BusyEnds(i)'
    <2>1. /\ window \in Int /\ blackout \in Int /\ T_RFC <= blackout
          /\ T_RP + blackout + Longest <= window
      <3>1. blackout = T_RFC + (REFRESH_QUOTA - 1) * T_RFC
        BY Times
      <3>2. (REFRESH_QUOTA - 1) * T_RFC \in Nat
        <4>1. REFRESH_QUOTA - 1 \in Nat
          BY Times
        <4> QED
          BY <4>1, Times
      <3> QED
        BY <3>1, <3>2, Times, WindowIsRoomy
    <2> HIDE DEF window, blackout
    <2>2. CASE ForcedRefreshDue(i)
      <3>1. ~WindowEnds(i)
        BY <2>2 DEF ForcedRefreshDue
      <3> QED
        BY <1>2, <1>3, <2>2, <3>1 DEF BusyEnds
    <2>3. CASE ~ForcedRefreshDue(i) /\ ~WindowEnds(i)
      BY <1>1, <1>2, <1>3, <2>3, Times, LongestBounds DEF BusyEnds
    <2>4. CASE ~ForcedRefreshDue(i) /\ WindowEnds(i)
      <3>1. next_refresh_completion_deadline[i] = CYCLE_VAL + 1
        BY <2>4 DEF WindowEnds
      <3>2. busy[i] <= CYCLE_VAL + 1 + window
        BY <1>1, <1>3, <2>1, <3>1, Times, LongestBounds DEF BusyEnds
      <3> QED
        BY <1>2, <2>4, <3>2 DEF BusyEnds
    <2> QED
      BY <2>2, <2>3, <2>4
  <1> QED
    BY <1>4, <1>5

-----------------------------------------------------------------------------
(* Each command keeps the invariant and is one the devices accept.         *)

ControlInv == StructureInv /\ DeadlineAhead /\ QuietInv

\* What the flag of a queued request promises of the timer of its command.
LEMMA IssuableReady ==
    ASSUME StructureInv, NEW q \in requests, q.command_issuable,
           ~command_issued_current_cycle
    PROVE  /\ q.next_command = "COL_READ" => Reached(q.rank, q.bank, "read")
           /\ q.next_command = "COL_WRITE" => Reached(q.rank, q.bank, "write")
           /\ q.next_command = "PRE" => FitsBeforeRefresh(q.rank, T_RP)
           /\ q.next_command = "PWR_UP" => Reached(q.rank, q.bank, "powerup")
  <1>1. q.next_command = NextCommand(q) /\ CommandIssuable(q)
    BY DEF StructureInv, FlagsAreCurrent
  <1> QED
    BY <1>1 DEF CommandIssuable

LEMMA OpenRowStep ==
    ASSUME ControlInv, DeviceInv, TypeOK', Recording,
           NEW r \in Ranks, NEW b \in Banks, NEW row \in Rows,
           state[r][b] \in Closed, Reached(r, b, "act"),
           FitsBeforeRefresh(r, T_RAS), OpenRow(r, b, row),
           UNCHANGED <<CYCLE_VAL, refreshVars>>
    PROVE  DeviceInv' /\ Device!Activate(r, b, row)
  <1>1. /\ TypeOK /\ OpenRowMatchesState /\ HistoryTyped /\ AllCovered
        /\ AllEnd /\ RanksBusy
    BY DEF ControlInv, StructureInv, BankInv, DeviceInv
  <1>2. /\ last' = [last EXCEPT ![r][b]["act"] = CYCLE_VAL]
        /\ UNCHANGED <<busy, burst>> /\ active_row[r][b] = NoRow
    BY <1>1, OpenRowHistory
  <1>3. CYCLE_VAL \in Int /\ ByDeadline(r, CYCLE_VAL + T_RAS)
    BY <1>1, AllTimers, Times, LongestBounds DEF FitsBeforeRefresh, ByDeadline
  <1>4. AllEnd'
    <2>1. "act" \in Kinds
      BY DEF Kinds
    <2> QED
      BY <1>1, <1>2, <1>3, <2>1, EndsOne DEF refreshVars
  <1>5. DeviceInv'
    BY <1>1, <1>2, <1>4, HistoryStaysTyped, OpenRowCovers, BusyStaysBounded
    DEF DeviceInv
  <1>6. ActCovers(r, b) /\ next[r][b]["act"] <= CYCLE_VAL
    BY <1>1, AllTimers DEF AllCovered, Covers, Reached
  <1>7. /\ CYCLE_VAL >= busy[r] /\ Device!Since(r, b, "act", T_RC, CYCLE_VAL)
        /\ Device!Since(r, b, "pre", T_RP, CYCLE_VAL)
        /\ \A i \in Banks : Device!Since(r, i, "act", T_RRD, CYCLE_VAL)
    BY <1>1, <1>6, AllTimers, HistoryTypes, Times
    DEF ActCovers, Device!Since
  <1> QED
    BY <1>2, <1>5, <1>7 DEF OpenRow, Device!Activate

LEMMA ColumnReadStep ==
    ASSUME ControlInv, DeviceInv, TypeOK', Recording,
           NEW r \in Ranks, NEW b \in Banks, ~command_issued_current_cycle,
           state[r][b] = "ROW_ACTIVE", Reached(r, b, "read"),
           FitsBeforeRefresh(r, T_RTP), ColumnRead(r, b),
           UNCHANGED <<CYCLE_VAL, refreshVars>>
    PROVE  DeviceInv' /\ Device!Read(r, b)
  <1>1. /\ TypeOK /\ OpenRowMatchesState /\ CasIsThisCycles /\ HistoryTyped
        /\ AllCovered /\ AllEnd /\ RanksBusy
    BY DEF ControlInv, StructureInv, BankInv, DeviceInv
  <1>2. /\ last' = [last EXCEPT ![r][b]["read"] = CYCLE_VAL]
        /\ burst' = [rank |-> r, kind |-> "read",
                     end |-> CYCLE_VAL + T_CAS + T_DATA_TRANS]
        /\ UNCHANGED <<busy, active_row>>
    <2>1. cas_issued_current_cycle[r][b] = "NONE"
      BY <1>1 DEF CasIsThisCycles
    <2> DEFINE same == Later(T_CCD, T_DATA_TRANS)
               other == T_DATA_TRANS + T_RTRS
               turn == T_CAS + T_DATA_TRANS + T_RTRS - T_CWD
    <2>2. ColumnAccess(r, b, "READ", same, other, turn, turn, T_RTP)
      BY DEF ColumnRead
    <2> HIDE DEF same, other, turn
    <2>3. active_row' = active_row
      BY <2>2 DEF ColumnAccess
    <2> QED
      BY <1>1, <2>1, <2>2, <2>3, ColumnHistory
  <1>3. CYCLE_VAL \in Int /\ ByDeadline(r, CYCLE_VAL + T_RTP)
    BY <1>1, AllTimers, Times, LongestBounds DEF FitsBeforeRefresh, ByDeadline
  <1>4. AllEnd'
    <2>1. "read" \in Kinds
      BY DEF Kinds
    <2> QED
      BY <1>1, <1>2, <1>3, <2>1, EndsOne DEF refreshVars
  <1>5. DeviceInv'
    BY <1>1, <1>2, <1>4, HistoryStaysTyped, ColumnReadCovers, BusyStaysBounded
    DEF DeviceInv
  <1>6. /\ ColumnCovers(r, b) /\ BusCovers(r, b) /\ state[r][b] \in RowOpen
        /\ next[r][b]["read"] <= CYCLE_VAL /\ active_row[r][b] # NoRow
    BY <1>1, AllTimers
    DEF AllCovered, Covers, Reached, RowOpen, OpenRowMatchesState
  <1>7. /\ CYCLE_VAL >= busy[r] /\ Device!Since(r, b, "act", T_RCD, CYCLE_VAL)
        /\ \A i \in Banks :
              /\ Device!Since(r, i, "read", T_CCD, CYCLE_VAL)
              /\ Device!Since(r, i, "write", T_CWD + T_DATA_TRANS + T_WTR,
                              CYCLE_VAL)
    BY <1>1, <1>6, AllTimers, HistoryTypes, Times
    DEF ColumnCovers, Device!Since
  <1>8. Device!BusFree(r, "read", CYCLE_VAL + T_CAS)
    BY <1>1, <1>6, AllTimers, HistoryTypes, Times
    DEF BusCovers, BusFreeFrom, Device!BusFree
  <1> QED
    BY <1>2, <1>5, <1>6, <1>7, <1>8 DEF Device!Read, Device!Column

LEMMA ColumnWriteStep ==
    ASSUME ControlInv, DeviceInv, TypeOK', Recording,
           NEW r \in Ranks, NEW b \in Banks, ~command_issued_current_cycle,
           state[r][b] = "ROW_ACTIVE", Reached(r, b, "write"),
           FitsBeforeRefresh(r, T_CWD + T_DATA_TRANS + T_WR), ColumnWrite(r, b),
           UNCHANGED <<CYCLE_VAL, refreshVars>>
    PROVE  DeviceInv' /\ Device!Write(r, b)
  <1>1. /\ TypeOK /\ OpenRowMatchesState /\ CasIsThisCycles /\ HistoryTyped
        /\ AllCovered /\ AllEnd /\ RanksBusy
    BY DEF ControlInv, StructureInv, BankInv, DeviceInv
  <1>2. /\ last' = [last EXCEPT ![r][b]["write"] = CYCLE_VAL]
        /\ burst' = [rank |-> r, kind |-> "write",
                     end |-> CYCLE_VAL + T_CWD + T_DATA_TRANS]
        /\ UNCHANGED <<busy, active_row>>
    <2>1. cas_issued_current_cycle[r][b] = "NONE"
      BY <1>1 DEF CasIsThisCycles
    <2> DEFINE same == Later(T_CCD, T_DATA_TRANS)
               other == T_DATA_TRANS + T_RTRS
               turnSame == T_CWD + T_DATA_TRANS + T_WTR
               turnOther == T_CWD + T_DATA_TRANS + T_RTRS - T_CAS
               close == T_CWD + T_DATA_TRANS + T_WR
    <2>2. ColumnAccess(r, b, "WRITE", turnSame, turnOther, same, other, close)
      BY DEF ColumnWrite
    <2> HIDE DEF same, other, turnSame, turnOther, close
    <2>3. active_row' = active_row
      BY <2>2 DEF ColumnAccess
    <2> QED
      BY <1>1, <2>1, <2>2, <2>3, ColumnHistory
  <1>3. CYCLE_VAL \in Int /\ ByDeadline(r, CYCLE_VAL + WriteTime)
    BY <1>1, AllTimers, Times, LongestBounds
    DEF FitsBeforeRefresh, ByDeadline, WriteTime
  <1>4. AllEnd'
    <2>1. "write" \in Kinds
      BY DEF Kinds
    <2> QED
      BY <1>1, <1>2, <1>3, <2>1, EndsOne DEF refreshVars
  <1>5. DeviceInv'
    BY <1>1, <1>2, <1>4, HistoryStaysTyped, ColumnWriteCovers, BusyStaysBounded
    DEF DeviceInv
  <1>6. /\ ColumnCovers(r, b) /\ BusCovers(r, b) /\ state[r][b] \in RowOpen
        /\ next[r][b]["write"] <= CYCLE_VAL /\ active_row[r][b] # NoRow
    BY <1>1, AllTimers
    DEF AllCovered, Covers, Reached, RowOpen, OpenRowMatchesState
  <1>7. /\ CYCLE_VAL >= busy[r] /\ Device!Since(r, b, "act", T_RCD, CYCLE_VAL)
        /\ \A i \in Banks : Device!Since(r, i, "write", T_CCD, CYCLE_VAL)
    BY <1>1, <1>6, AllTimers, HistoryTypes, Times
    DEF ColumnCovers, Device!Since
  <1>8. Device!BusFree(r, "write", CYCLE_VAL + T_CWD)
    BY <1>1, <1>6, AllTimers, HistoryTypes, Times
    DEF BusCovers, BusFreeFrom, Device!BusFree
  <1> QED
    BY <1>2, <1>5, <1>6, <1>7, <1>8 DEF Device!Write, Device!Column

\* The precharge of banks none of which has an open row is no command to the
\* devices.
LEMMA CloseRowsStep ==
    ASSUME ControlInv, DeviceInv, TypeOK', Recording,
           NEW r \in Ranks, NEW bs, ~command_issued_current_cycle,
           \A b \in Banks : b \in bs => /\ Reached(r, b, "pre")
                                        /\ FitsBeforeRefresh(r, T_RP),
           CloseRows(r, bs), UNCHANGED <<CYCLE_VAL, refreshVars>>
    PROVE  /\ DeviceInv'
           /\ \/ \E cs \in SUBSET Banks : Device!Precharge(r, cs, CYCLE_VAL)
              \/ UNCHANGED Device!deviceVars
  <1>1. /\ TypeOK /\ CasIsThisCycles /\ HistoryTyped
        /\ AllCovered /\ AllEnd /\ RanksBusy
    BY DEF ControlInv, StructureInv, BankInv, DeviceInv
  <1>2. /\ last' = [last EXCEPT ![r] = [b \in Banks |->
                  IF b \in bs /\ active_row[r][b] # NoRow
                  THEN [last[r][b] EXCEPT !["pre"] = CYCLE_VAL]
                  ELSE last[r][b]]]
        /\ UNCHANGED <<busy, burst>>
    BY <1>1, CloseRowsHistory
  <1>3. AllEnd'
    BY <1>1, <1>2, CloseRowsEnds DEF refreshVars
  <1>4. DeviceInv'
    BY <1>1, <1>2, <1>3, HistoryStaysTyped, CloseRowsCovers, BusyStaysBounded
    DEF DeviceInv
  <1> DEFINE cs == {b \in Banks : b \in bs /\ active_row[r][b] # NoRow}
  <1>5. /\ last' = [last EXCEPT ![r] = [b \in Banks |->
              IF b \in cs THEN [last[r][b] EXCEPT !["pre"] = CYCLE_VAL]
              ELSE last[r][b]]]
        /\ active_row' = [active_row EXCEPT ![r] = [b \in Banks |->
              IF b \in cs THEN NoRow ELSE active_row[r][b]]]
    BY <1>2 DEF CloseRows
  <1>6. CASE cs = {}
    <2>1. last' = last /\ active_row' = active_row
      BY <1>1, <1>5, <1>6 DEF TypeOK, HistoryTyped
    <2> QED
      BY <1>2, <1>4, <2>1 DEF Device!deviceVars
  <1>7. ASSUME NEW b \in cs
        PROVE  /\ busy[r] <= CYCLE_VAL /\ active_row[r][b] # NoRow
               /\ Device!MayClose(r, b, CYCLE_VAL)
    <2>1. CloseCovers(r, b) /\ next[r][b]["pre"] <= CYCLE_VAL
      BY <1>1, AllTimers DEF AllCovered, Covers, Reached
    <2> QED
      BY <1>1, <2>1, AllTimers, HistoryTypes, Times, WriteTimes
      DEF CloseCovers, Closable, WriteTime, Device!MayClose, Device!Since
  <1>8. CASE cs # {}
    <2>1. CYCLE_VAL >= CYCLE_VAL /\ CYCLE_VAL >= busy[r]
      BY <1>1, <1>7, <1>8, AllTimers, HistoryTypes
    <2> HIDE DEF cs
    <2>2. Device!Precharge(r, cs, CYCLE_VAL)
      BY <1>2, <1>5, <1>7, <2>1 DEF Device!Precharge
    <2> QED
      BY <1>4, <2>2 DEF cs
  <1> QED
    BY <1>6, <1>8

LEMMA AutoprechargeStep ==
    ASSUME ControlInv, DeviceInv, TypeOK', Recording,
           NEW r \in Ranks, NEW b \in Banks, Autoprecharge(r, b)
    PROVE  DeviceInv' /\ Device!Precharge(r, {b}, last[r][b]["pre"]')
  <1> DEFINE start == AutoprechargeStart(r, b)
  <1>1. /\ TypeOK /\ OpenRowMatchesState /\ CasIsThisCycles /\ HistoryTyped
        /\ AllCovered /\ AllEnd /\ RanksBusy /\ Quiet(r, b)
    BY DEF ControlInv, StructureInv, BankInv, DeviceInv, QuietInv, AllQuiet
  <1>2. /\ last' = [last EXCEPT ![r][b]["pre"] = start]
        /\ UNCHANGED <<busy, burst>> /\ active_row[r][b] # NoRow
    BY <1>1, AutoprechargeHistory
  <1>3. /\ UNCHANGED <<CYCLE_VAL, refreshVars>>
        /\ active_row' = [active_row EXCEPT ![r][b] = NoRow]
        /\ start + T_RP <= refresh_issue_deadline[r]
        /\ cas_issued_current_cycle[r][b] # "NONE"
    BY DEF Autoprecharge, Unqueued, IsAutoprechargeAllowed
  <1>4. /\ next[r][b]["pre"] <= CYCLE_VAL + Longest
        /\ CloseCovers(r, b)
    BY <1>1, <1>3
    DEF CasIsThisCycles, Quiet, RowOpen, InTime, AllCovered, Covers
  <1>5. /\ start \in Int /\ next[r][b]["pre"] <= start /\ CYCLE_VAL <= start
        /\ start <= CYCLE_VAL + Longest
    BY <1>1, <1>4, AllTimers, Times, LongestBounds
    DEF AutoprechargeStart, Later
  <1> HIDE DEF start
  <1>6. AllEnd'
    <2>1. "pre" \in Kinds
      BY DEF Kinds
    <2>2. ByDeadline(r, start)
      BY <1>1, <1>3, <1>5, AllTimers, Times DEF ByDeadline
    <2> QED
      BY <1>1, <1>2, <1>3, <1>5, <2>1, <2>2, EndsOne DEF refreshVars
  <1>7. DeviceInv'
    <2>1. AllCovered'
      BY <1>1, <1>2, AutoprechargeCovers DEF start
    <2> QED
      BY <1>1, <1>2, <1>3, <1>6, <2>1, HistoryStaysTyped, BusyStaysBounded
      DEF DeviceInv
  <1>8. busy[r] <= start /\ Device!MayClose(r, b, start)
    BY <1>1, <1>4, <1>5, AllTimers, HistoryTypes, Times, WriteTimes
    DEF CloseCovers, Closable, WriteTime, Device!MayClose, Device!Since
  <1>9. Device!Precharge(r, {b}, start)
    <2>1. active_row' = [active_row EXCEPT ![r] = [i \in Banks |->
             IF i \in {b} THEN NoRow ELSE active_row[r][i]]]
      BY <1>1, <1>3, ZenonT(60) DEF TypeOK
    <2>2. last' = [last EXCEPT ![r] = [i \in Banks |->
             IF i \in {b} THEN [last[r][i] EXCEPT !["pre"] = start]
             ELSE last[r][i]]]
      BY <1>1, <1>2 DEF HistoryTyped
    <2> QED
      BY <1>2, <1>3, <1>5, <1>8, <2>1, <2>2, AllTimers, HistoryTypes, <1>1
      DEF Device!Precharge
  <1>10. last[r][b]["pre"]' = start
    BY <1>1, <1>2 DEF HistoryTyped, Kinds
  <1> QED
    BY <1>7, <1>9, <1>10

LEMMA WakeRankStep ==
    ASSUME ControlInv, DeviceInv, TypeOK', Recording, NEW r \in Ranks,
           NEW b \in Banks, state[r][b] \in PoweredDown,
           Reached(r, b, "powerup"), WakeRank(r),
           UNCHANGED <<CYCLE_VAL, refreshVars>>
    PROVE  DeviceInv' /\ Device!WakeUp(r)
  <1>1. /\ TypeOK /\ OpenRowMatchesState /\ HistoryTyped /\ AllCovered
        /\ AllEnd /\ RanksBusy /\ DeadlineAhead
        /\ PowerStateIsRankWide /\ ForcedRefreshHoldsRank
    BY DEF ControlInv, StructureInv, BankInv, DeviceInv
  <1>2. \A i \in Banks : state[r][i] \in PoweredDown
    BY <1>1 DEF PowerStateIsRankWide
  <1>3. ~forced_refresh_mode_on[r]
    BY <1>1 DEF ForcedRefreshHoldsRank, PoweredDown, PrechargePowerDown
  <1>4. /\ UNCHANGED <<active_row, last, burst>>
        /\ busy' = [busy EXCEPT ![r] = CYCLE_VAL + T_XP]
    BY <1>1, <1>2, WakeRankHistory
  <1>5. AllEnd'
    BY <1>1, <1>4, EndsStays DEF refreshVars
  <1>6. DeviceInv'
    BY <1>1, <1>3, <1>4, <1>5, HistoryStaysTyped, WakeRankCovers, WakeRankBusy
    DEF DeviceInv
  <1>7. CYCLE_VAL >= busy[r]
    BY <1>1, AllTimers, HistoryTypes
    DEF AllCovered, Covers, PowerCovers, Reached
  <1> QED
    BY <1>4, <1>6, <1>7 DEF Device!WakeUp

LEMMA RefreshStep ==
    ASSUME ControlInv, DeviceInv, TypeOK', Recording, NEW r \in Ranks, Refresh(r)
    PROVE  DeviceInv' /\ Device!Refresh(r, busy'[r])
  <1> DEFINE done == CYCLE_VAL + RefreshLead(r) + T_RFC
  <1>1. /\ TypeOK /\ HistoryTyped /\ AllCovered
        /\ AllEnd /\ RanksBusy /\ DeadlineAhead
    BY DEF ControlInv, StructureInv, BankInv, DeviceInv
  <1>2. /\ active_row' = [active_row EXCEPT ![r] = [b \in Banks |-> NoRow]]
        /\ UNCHANGED <<last, burst>>
        /\ busy' = [busy EXCEPT ![r] = done]
    BY <1>1, RefreshHistory
  <1>3. AllEnd'
    BY <1>1, <1>2, EndsStays DEF Refresh
  <1>4. DeviceInv'
    BY <1>1, <1>2, <1>3, HistoryStaysTyped, RefreshCovers, RefreshBusy
    DEF DeviceInv
  <1>5. ASSUME NEW b \in Banks
        PROVE  /\ busy[r] <= CYCLE_VAL /\ Device!MayClose(r, b, CYCLE_VAL)
               /\ Device!Since(r, b, "pre", T_RP, CYCLE_VAL)
    <2>1. CloseCovers(r, b) /\ next[r][b]["refresh"] <= CYCLE_VAL
      BY <1>1, AllTimers
      DEF AllCovered, Covers, Refresh, IsRefreshAllowed, Reached
    <2> QED
      BY <1>1, <2>1, AllTimers, HistoryTypes, Times, WriteTimes
      DEF CloseCovers, Closable, WriteTime, Device!MayClose, Device!Since
  <1>6. busy[r] <= CYCLE_VAL
    BY <1>5, Indices
  <1>7. busy'[r] = done /\ done >= CYCLE_VAL + T_RFC
    BY <1>1, <1>2, AllTimers, Indices, LeadBounds, Times DEF HistoryTyped
  <1>8. UNCHANGED CYCLE_VAL
    BY DEF Refresh
  <1> HIDE DEF done
  <1>9. CYCLE_VAL >= busy[r]
    BY <1>1, <1>6, AllTimers, HistoryTypes, Indices
  <1>10. Device!Refresh(r, done)
    BY <1>2, <1>5, <1>7, <1>8, <1>9 DEF Device!Refresh
  <1> QED
    BY <1>4, <1>7, <1>10

LEMMA PowerDownStep ==
    ASSUME ControlInv, DeviceInv, TypeOK', Recording, NEW r \in Ranks,
           NEW low \in PrechargePowerDown,
           \A b \in Banks : state[r][b] \notin PoweredDown, PowerDown(r, low)
    PROVE  DeviceInv' /\ UNCHANGED Device!deviceVars
  <1>1. /\ TypeOK /\ OpenRowMatchesState /\ HistoryTyped /\ AllCovered
        /\ AllEnd /\ RanksBusy
    BY DEF ControlInv, StructureInv, BankInv, DeviceInv
  <1>2. UNCHANGED <<CYCLE_VAL, active_row, last, busy, burst, refreshVars>>
    BY <1>1, PowerDownHistory DEF history, PowerDown, Unqueued
  <1>3. AllCovered'
    BY <1>1, <1>2, PowerDownCovers DEF history
  <1>4. DeviceInv'
    BY <1>1, <1>2, <1>3, HistoryStaysTyped, EndsStays, BusyStaysBounded
    DEF DeviceInv, refreshVars
  <1> QED
    BY <1>2, <1>4 DEF Device!deviceVars

LEMMA IdleStep ==
    ASSUME ControlInv, DeviceInv, TypeOK', Recording,
           UNCHANGED <<CYCLE_VAL, bankVars, cycleVars, refreshVars>>
    PROVE  DeviceInv' /\ UNCHANGED Device!deviceVars
  <1>1. /\ TypeOK /\ HistoryTyped /\ AllCovered /\ AllEnd /\ RanksBusy
    BY DEF ControlInv, StructureInv, DeviceInv
  <1>2. UNCHANGED <<CYCLE_VAL, state, active_row, next, last, busy, burst,
                    refreshVars>>
    BY <1>1, IdleHistory DEF history, bankVars
  <1>3. AllCovered'
    <2> SUFFICES ASSUME NEW i \in Ranks, NEW j \in Banks
                 PROVE  Covers(i, j)'
      BY DEF AllCovered
    <2> QED
      BY <1>1, <1>2, CoversSame DEF AllCovered
  <1>4. DeviceInv'
    BY <1>1, <1>2, <1>3, HistoryStaysTyped, EndsStays, BusyStaysBounded
    DEF DeviceInv, refreshVars
  <1> QED
    BY <1>2, <1>4 DEF Device!deviceVars

LEMMA UpdateMemoryStep ==
    ASSUME ControlInv, DeviceInv, TypeOK', Recording, UpdateMemory
    PROVE  /\ DeviceInv'
           /\ \E rs \in SUBSET Ranks : Device!Elapse(rs, busy')
  <1> DEFINE rs == {r \in Ranks : ForcedRefreshDue(r)}
  <1>1. /\ TypeOK /\ HistoryTyped /\ AllCovered
        /\ AllEnd /\ RanksBusy /\ DeadlineNotLate
    BY DEF ControlInv, StructureInv, DeviceInv, QuietInv
  <1>2. \A r \in Ranks : ForcedIsLate(r) /\ BusyEnds(r)
    BY <1>1 DEF RanksBusy
  <1>3. /\ active_row' = [r \in Ranks |-> [b \in Banks |->
              IF ForcedRefreshDue(r) THEN NoRow ELSE active_row[r][b]]]
        /\ UNCHANGED <<last, burst>>
        /\ busy' = [r \in Ranks |->
              IF ForcedRefreshDue(r) THEN next_refresh_completion_deadline[r]
              ELSE busy[r]]
    BY <1>1, <1>2, UpdateMemoryHistory
  <1>4. DeviceInv'
    BY <1>1, <1>3, HistoryStaysTyped, UpdateMemoryCovers, UpdateMemoryEnds,
       UpdateMemoryBusy DEF DeviceInv
  <1>5. CYCLE_VAL' = CYCLE_VAL + 1
    BY DEF UpdateMemory
  <1>6. ASSUME NEW r \in rs
        PROVE  /\ \A b \in Banks : Device!MayClose(r, b, CYCLE_VAL')
               /\ busy'[r] >= busy[r]
               /\ busy'[r] >= CYCLE_VAL' + T_RP + T_RFC
    <2>1. /\ CYCLE_VAL + 1 = refresh_issue_deadline[r]
          /\ refresh_issue_deadline[r] + T_RP + T_RFC
                <= next_refresh_completion_deadline[r]
      BY <1>1, ForcedRefreshFits
    <2>2. busy'[r] = next_refresh_completion_deadline[r]
      BY <1>3
    <2>3. busy[r] <= next_refresh_completion_deadline[r]
      <3>1. num_issued_refreshes[r] < REFRESH_QUOTA
        BY DEF ForcedRefreshDue
      <3> QED
        BY <1>1, <1>2, <3>1, AllTimers, Indices, Times DEF BusyEnds
    <2>4. ASSUME NEW b \in Banks
          PROVE  Device!MayClose(r, b, CYCLE_VAL')
      <3>1. EndsByDeadline(r, b)
        BY <1>1 DEF AllEnd
      <3> QED
        BY <1>1, <1>5, <2>1, <3>1, AllTimers, HistoryTypes, Times, WriteTimes
        DEF EndsByDeadline, ByDeadline, WriteTime, Device!MayClose, Device!Since
    <2> QED
      BY <1>1, <1>5, <2>1, <2>2, <2>3, <2>4, AllTimers, HistoryTypes, Indices,
         Times
  <1>7. /\ active_row' = [r \in Ranks |-> [b \in Banks |->
              IF r \in rs THEN NoRow ELSE active_row[r][b]]]
        /\ busy' = [r \in Ranks |-> IF r \in rs THEN busy'[r] ELSE busy[r]]
    BY <1>3
  <1> HIDE DEF rs
  <1>8. Device!Elapse(rs, busy')
    BY <1>3, <1>5, <1>6, <1>7 DEF Device!Elapse
  <1>9. rs \in SUBSET Ranks
    BY DEF rs
  <1> QED
    BY <1>4, <1>8, <1>9

-----------------------------------------------------------------------------
(* Every step of the controller is one the devices accept, or none.        *)

LEMMA InitDevice == TimingInit => DeviceInv /\ Device!Init
  <1> SUFFICES ASSUME TimingInit PROVE DeviceInv /\ Device!Init
    OBVIOUS
  <1>1. /\ Init
        /\ last = [r \in Ranks |-> [b \in Banks |-> [c \in Kinds |-> LongAgo]]]
        /\ busy = [r \in Ranks |-> LongAgo]
        /\ burst = [rank |-> 0, kind |-> "read", end |-> LongAgo]
    BY DEF TimingInit
  <1>2. HistoryTyped
    BY <1>1, LongAgoBounds, Indices DEF HistoryTyped
  <1>3. ASSUME NEW r \in Ranks, NEW b \in Banks
        PROVE  /\ last[r][b]["act"] = LongAgo /\ last[r][b]["read"] = LongAgo
               /\ last[r][b]["write"] = LongAgo /\ last[r][b]["pre"] = LongAgo
               /\ busy[r] = LongAgo
    BY <1>1 DEF Kinds
  <1>4. ASSUME NEW r \in Ranks, NEW b \in Banks
        PROVE  /\ next[r][b]["act"] = 0 /\ next[r][b]["pre"] = -1
               /\ next[r][b]["read"] = 0 /\ next[r][b]["write"] = 0
               /\ next[r][b]["powerdown"] = 0 /\ next[r][b]["powerup"] = 0
               /\ next[r][b]["refresh"] = 0 /\ state[r][b] = "IDLE"
    BY <1>1 DEF Init, Timers
  <1>5. TypeOK /\ DeadlineAhead /\ CYCLE_VAL = 0
    BY <1>1, InitType, InitDeadline DEF Init
  <1>6. /\ LongAgo \in Int /\ LongAgo <= -1 /\ LongAgo + T_RC <= -1
        /\ LongAgo + T_RP <= -1 /\ LongAgo + T_RRD <= -1
        /\ LongAgo + T_RAS <= -1 /\ LongAgo + T_RCD <= -1
        /\ LongAgo + T_RTP <= -1 /\ LongAgo + T_CCD <= -1
        /\ LongAgo + T_RTRS <= -1 /\ LongAgo + WriteTime <= -1
        /\ LongAgo + T_CWD + T_DATA_TRANS + T_WTR <= -1
    BY LongAgoBounds, Times DEF WriteTime
  <1>7. ASSUME NEW r \in Ranks, NEW b \in Banks
        PROVE  Covers(r, b)
    <2>1. ActCovers(r, b)
      BY <1>3, <1>4, <1>6, Times DEF ActCovers
    <2>2. CloseCovers(r, b)
      BY <1>3, <1>4, <1>6, Times, WriteTimes DEF CloseCovers, Closable
    <2>3. PowerCovers(r, b)
      BY <1>3, <1>4, <1>6 DEF PowerCovers
    <2>4. ColumnCovers(r, b)
      BY <1>3, <1>4, <1>6, Times DEF ColumnCovers
    <2>5. BusCovers(r, b)
      BY <1>1, <1>4, <1>6, Times DEF BusCovers, BusFreeFrom
    <2> QED
      BY <2>1, <2>2, <2>3, <2>4, <2>5 DEF Covers
  <1>8. ASSUME NEW r \in Ranks
        PROVE  /\ 0 < refresh_issue_deadline[r]
               /\ 0 < next_refresh_completion_deadline[r]
               /\ ~forced_refresh_mode_on[r]
    <2>1. ~forced_refresh_mode_on[r] /\ num_issued_refreshes[r] = 0
      BY <1>1 DEF Init
    <2>2. num_issued_refreshes[r] < REFRESH_QUOTA
      BY <2>1, Times
    <2>3. CYCLE_VAL + T_RP + T_RFC < next_refresh_completion_deadline[r]
      BY <1>5, <2>1, <2>2, MissingFit
    <2>4. CYCLE_VAL < refresh_issue_deadline[r]
      BY <1>5, <2>1, <2>2 DEF DeadlineAhead
    <2> QED
      BY <1>5, <2>1, <2>3, <2>4, AllTimers, Indices, Times
  <1>9. ASSUME NEW r \in Ranks, NEW b \in Banks
        PROVE  EndsByDeadline(r, b)
    BY <1>3, <1>5, <1>6, <1>8, AllTimers, Times, WriteTimes, LongestBounds
    DEF EndsByDeadline, ByDeadline
  <1>10. RanksBusy
    BY <1>3, <1>5, <1>6, <1>8, AllTimers, Indices
    DEF RanksBusy, BusyEnds, ForcedIsLate
  <1>11. Device!Init
    BY <1>1 DEF Init, Device!Init, Kinds, Device!Kinds
  <1> QED
    BY <1>2, <1>7, <1>9, <1>10, <1>11 DEF DeviceInv, AllCovered, AllEnd

\* The steps of the queue's command: the flags are current, so they have been
\* tested as the interface functions test a direct command.
LEMMA IssueRequestStep ==
    ASSUME ControlInv, DeviceInv, TypeOK', Recording, NEW q \in requests,
           IssueRequestCommand(q)
    PROVE  DeviceInv' /\ (Device!Next \/ UNCHANGED Device!deviceVars)
  <1> DEFINE r == q.rank
             b == q.bank
  <1>1. StructureInv /\ ~command_issued_current_cycle /\ q.command_issuable
    BY DEF ControlInv, IssueRequestCommand
  <1>2. r \in Ranks /\ b \in Banks /\ q.row \in Rows
    BY <1>1 DEF StructureInv, TypeOK, Request
  <1>3. UNCHANGED <<CYCLE_VAL, refreshVars>>
    BY DEF IssueRequestCommand
  <1>4. CASE q.next_command = "ACT" /\ OpenRow(r, b, q.row)
    <2>1. /\ state[r][b] \in Closed /\ Reached(r, b, "act")
          /\ FitsBeforeRefresh(r, T_RAS)
      BY <1>1, <1>4, IssuableRequest, IssuableInTime
    <2> HIDE DEF r, b
    <2>2. DeviceInv' /\ Device!Activate(r, b, q.row)
      BY <1>2, <1>3, <1>4, <2>1, OpenRowStep
    <2> QED
      BY <1>2, <2>2 DEF Device!Next
  <1>5. CASE q.next_command = "COL_READ" /\ ColumnRead(r, b)
    <2>1. /\ state[r][b] = "ROW_ACTIVE" /\ Reached(r, b, "read")
          /\ FitsBeforeRefresh(r, T_RTP)
      BY <1>1, <1>5, IssuableRequest, IssuableInTime, IssuableReady
    <2> HIDE DEF r, b
    <2>2. DeviceInv' /\ Device!Read(r, b)
      BY <1>1, <1>2, <1>3, <1>5, <2>1, ColumnReadStep
    <2> QED
      BY <1>2, <2>2 DEF Device!Next
  <1>6. CASE q.next_command = "COL_WRITE" /\ ColumnWrite(r, b)
    <2>1. /\ state[r][b] = "ROW_ACTIVE" /\ Reached(r, b, "write")
          /\ FitsBeforeRefresh(r, T_CWD + T_DATA_TRANS + T_WR)
      BY <1>1, <1>6, IssuableRequest, IssuableInTime, IssuableReady
    <2> HIDE DEF r, b
    <2>2. DeviceInv' /\ Device!Write(r, b)
      BY <1>1, <1>2, <1>3, <1>6, <2>1, ColumnWriteStep
    <2> QED
      BY <1>2, <2>2 DEF Device!Next
  <1>7. CASE q.next_command = "PRE" /\ CloseRows(r, {b})
    <2>1. Reached(r, b, "pre") /\ FitsBeforeRefresh(r, T_RP)
      BY <1>1, <1>7, IssuableInTime, IssuableReady
    <2> HIDE DEF r, b
    <2>2. /\ DeviceInv'
          /\ \/ \E cs \in SUBSET Banks : Device!Precharge(r, cs, CYCLE_VAL)
             \/ UNCHANGED Device!deviceVars
      BY <1>1, <1>2, <1>3, <1>7, <2>1, CloseRowsStep
    <2> QED
      BY <1>2, <2>2 DEF Device!Next
  <1>8. CASE q.next_command = "PWR_UP" /\ WakeRank(r)
    <2>1. state[r][b] \in PoweredDown /\ Reached(r, b, "powerup")
      BY <1>1, <1>8, IssuableRequest, IssuableReady
    <2> HIDE DEF r, b
    <2>2. DeviceInv' /\ Device!WakeUp(r)
      BY <1>2, <1>3, <1>8, <2>1, WakeRankStep
    <2> QED
      BY <1>2, <2>2 DEF Device!Next
  <1> QED
    BY <1>4, <1>5, <1>6, <1>7, <1>8 DEF IssueRequestCommand

LEMMA RankCommandStep ==
    ASSUME ControlInv, DeviceInv, TypeOK', Recording, NEW r \in Ranks,
           RankCommand(r)
    PROVE  DeviceInv' /\ (Device!Next \/ UNCHANGED Device!deviceVars)
  <1>1. CASE PowerDownFast(r)
    <2>1. \A b \in Banks : state[r][b] \notin PoweredDown
      BY <1>1 DEF PowerDownFast, IsPowerdownFastAllowed
    <2>2. /\ "PRECHARGE_POWER_DOWN_FAST" \in PrechargePowerDown
          /\ PowerDown(r, "PRECHARGE_POWER_DOWN_FAST")
      BY <1>1 DEF PowerDownFast, PrechargePowerDown
    <2> QED
      BY <2>1, <2>2, PowerDownStep
  <1>2. CASE PowerDownSlow(r)
    <2>1. \A b \in Banks : state[r][b] \notin PoweredDown
      BY <1>2 DEF PowerDownSlow, IsPowerdownSlowAllowed, Closed, PoweredDown,
                  PrechargePowerDown
    <2>2. /\ "PRECHARGE_POWER_DOWN_SLOW" \in PrechargePowerDown
          /\ PowerDown(r, "PRECHARGE_POWER_DOWN_SLOW")
      BY <1>2 DEF PowerDownSlow, PrechargePowerDown
    <2> QED
      BY <2>1, <2>2, PowerDownStep
  <1>3. CASE PowerUp(r)
    <2>1. /\ state[r][0] \in PoweredDown /\ Reached(r, 0, "powerup")
          /\ WakeRank(r) /\ UNCHANGED <<CYCLE_VAL, refreshVars>>
      BY <1>3 DEF PowerUp, IsPowerupAllowed, Unqueued
    <2>2. DeviceInv' /\ Device!WakeUp(r)
      BY <2>1, Indices, WakeRankStep
    <2> QED
      BY <2>2 DEF Device!Next
  <1>4. CASE AllBankPrecharge(r)
    <2>1. /\ \A b \in Banks : IsPrechargeAllowed(r, b)
          /\ CloseRows(r, Banks) /\ UNCHANGED <<CYCLE_VAL, refreshVars>>
      BY <1>4 DEF AllBankPrecharge, IsAllBankPrechargeAllowed, Unqueued
    <2>2. /\ \A b \in Banks : /\ Reached(r, b, "pre")
                              /\ FitsBeforeRefresh(r, T_RP)
          /\ ~command_issued_current_cycle
      BY <2>1, Indices DEF IsPrechargeAllowed, ChannelFree
    <2>3. /\ DeviceInv'
          /\ \/ \E cs \in SUBSET Banks : Device!Precharge(r, cs, CYCLE_VAL)
             \/ UNCHANGED Device!deviceVars
      BY <2>1, <2>2, CloseRowsStep
    <2> QED
      BY <2>3 DEF Device!Next
  <1>5. CASE Refresh(r)
    <2>1. DeviceInv' /\ Device!Refresh(r, busy'[r])
      BY <1>5, RefreshStep
    <2> QED
      BY <2>1 DEF Device!Next
  <1> QED
    BY <1>1, <1>2, <1>3, <1>4, <1>5 DEF RankCommand

LEMMA BankCommandStep ==
    ASSUME ControlInv, DeviceInv, TypeOK', Recording, NEW r \in Ranks,
           NEW b \in Banks, BankCommand(r, b)
    PROVE  DeviceInv' /\ (Device!Next \/ UNCHANGED Device!deviceVars)
  <1>1. CASE Autoprecharge(r, b)
    <2>1. DeviceInv' /\ Device!Precharge(r, {b}, last[r][b]["pre"]')
      BY <1>1, AutoprechargeStep
    <2> QED
      BY <2>1 DEF Device!Next
  <1>2. CASE Precharge(r, b)
    <2>1. /\ Reached(r, b, "pre") /\ FitsBeforeRefresh(r, T_RP)
          /\ ~command_issued_current_cycle /\ CloseRows(r, {b})
          /\ UNCHANGED <<CYCLE_VAL, refreshVars>>
      BY <1>2 DEF Precharge, IsPrechargeAllowed, ChannelFree, Unqueued
    <2>2. /\ DeviceInv'
          /\ \/ \E cs \in SUBSET Banks : Device!Precharge(r, cs, CYCLE_VAL)
             \/ UNCHANGED Device!deviceVars
      BY <2>1, CloseRowsStep
    <2> QED
      BY <2>2 DEF Device!Next
  <1>3. ASSUME NEW row \in Rows, Activate(r, b, row)
        PROVE  DeviceInv' /\ Device!Next
    <2>1. /\ state[r][b] \in Closed /\ Reached(r, b, "act")
          /\ FitsBeforeRefresh(r, T_RAS) /\ OpenRow(r, b, row)
          /\ UNCHANGED <<CYCLE_VAL, refreshVars>>
      BY <1>3 DEF Activate, IsActivateAllowed, Unqueued
    <2>2. DeviceInv' /\ Device!Activate(r, b, row)
      BY <2>1, OpenRowStep
    <2> QED
      BY <2>2 DEF Device!Next
  <1> QED
    BY <1>1, <1>2, <1>3 DEF BankCommand

LEMMA DeviceStep ==
    ControlInv /\ DeviceInv /\ TypeOK' /\ [TimingNext]_timingVars
        => DeviceInv' /\ [Device!Next]_(Device!deviceVars)
  <1> SUFFICES ASSUME ControlInv, DeviceInv, TypeOK', [TimingNext]_timingVars
               PROVE  DeviceInv' /\ (Device!Next \/ UNCHANGED Device!deviceVars)
    OBVIOUS
  <1>1. CASE UNCHANGED timingVars
    <2>1. UNCHANGED <<CYCLE_VAL, state, active_row, next, last, busy, burst,
                      refreshVars>>
      BY <1>1 DEF timingVars, vars, history, bankVars
    <2>2. /\ TypeOK /\ HistoryTyped /\ AllCovered /\ AllEnd /\ RanksBusy
      BY DEF ControlInv, StructureInv, DeviceInv
    <2>3. AllCovered'
      <3> SUFFICES ASSUME NEW i \in Ranks, NEW j \in Banks
                   PROVE  Covers(i, j)'
        BY DEF AllCovered
      <3> QED
        BY <2>1, <2>2, CoversSame DEF AllCovered
    <2>4. DeviceInv'
      BY <2>1, <2>2, <2>3, EndsStays, BusyStaysBounded
      DEF DeviceInv, HistoryTyped, refreshVars
    <2> QED
      BY <2>1, <2>4 DEF Device!deviceVars
  <1>2. CASE TimingNext
    <2>1. Recording
      BY <1>2 DEF TimingNext, Recording
    <2>2. CASE UpdateMemory
      <3>1. DeviceInv' /\ \E rs \in SUBSET Ranks : Device!Elapse(rs, busy')
        BY <2>1, <2>2, UpdateMemoryStep
      <3> QED
        BY <3>1 DEF Device!Next
    <2>3. ASSUME NEW n \in Nodes, NEW op \in {"READ", "WRITE"},
                 NEW r \in Ranks, NEW b \in Banks, NEW row \in Rows,
                 Insert(n, op, r, b, row)
          PROVE  DeviceInv' /\ UNCHANGED Device!deviceVars
      <3>1. UNCHANGED <<CYCLE_VAL, bankVars, cycleVars, refreshVars>>
        BY <2>3 DEF Insert
      <3> QED
        BY <2>1, <3>1, IdleStep
    <2>4. ASSUME NEW q \in requests, Answer(q)
          PROVE  DeviceInv' /\ UNCHANGED Device!deviceVars
      <3>1. UNCHANGED <<CYCLE_VAL, bankVars, cycleVars, refreshVars>>
        BY <2>4 DEF Answer
      <3> QED
        BY <2>1, <3>1, IdleStep
    <2>5. ASSUME NEW q \in requests, IssueRequestCommand(q)
          PROVE  DeviceInv' /\ (Device!Next \/ UNCHANGED Device!deviceVars)
      BY <2>1, <2>5, IssueRequestStep
    <2>6. ASSUME NEW r \in Ranks, RankCommand(r)
          PROVE  DeviceInv' /\ (Device!Next \/ UNCHANGED Device!deviceVars)
      BY <2>1, <2>6, RankCommandStep
    <2>7. ASSUME NEW r \in Ranks, NEW b \in Banks, BankCommand(r, b)
          PROVE  DeviceInv' /\ (Device!Next \/ UNCHANGED Device!deviceVars)
      BY <2>1, <2>7, BankCommandStep
    <2> QED
      BY <1>2, <2>2, <2>3, <2>4, <2>5, <2>6, <2>7 DEF TimingNext, Next
  <1> QED
    BY <1>1, <1>2

\* The history watches the controller and does not influence it.
LEMMA TimingIsController == TimingSpec => Spec
  <1>1. TimingInit => Init
    BY DEF TimingInit
  <1>2. [TimingNext]_timingVars => [Next]_vars
    BY DEF TimingNext, timingVars
  <1> QED
    BY <1>1, <1>2, PTL DEF TimingSpec, Spec

\* Whatever the scheduler asks for, and for every number of ranks, banks and
\* requests and all timing parameters of a real chip, the commands the
\* controller lets through are ones the DRAM devices accept.
THEOREM CommandsAreLegal == TimingSpec => IssuesLegalCommands
  <1>1. TimingInit => DeviceInv /\ Device!Init
    BY InitDevice
  <1>2. ControlInv /\ DeviceInv /\ TypeOK' /\ [TimingNext]_timingVars
            => DeviceInv' /\ [Device!Next]_(Device!deviceVars)
    BY DeviceStep
  <1>3. TimingSpec => []ControlInv
    BY TimingIsController, StructureInvariant, DeadlineInvariant,
       QuietInvariant, PTL DEF ControlInv
  <1>4. TimingSpec => []TypeOK
    BY TimingIsController, Typing, PTL
  <1> QED
    BY <1>1, <1>2, <1>3, <1>4, PTL
    DEF TimingSpec, IssuesLegalCommands, Device!Spec

-----------------------------------------------------------------------------
(* The statistics.                                                         *)

-----------------------------------------------------------------------------
(* The counted controller makes the steps of the controller.               *)

LEMMA StatsStep == [StatsNext]_statsVars => [Next]_vars
  <1>1. ASSUME NEW q \in requests, IssueRequestCommand(q) PROVE Next
    BY <1>1 DEF Next
  <1>2. ASSUME NEW r \in Ranks, NEW b \in Banks, NEW row \in Rows,
               Activate(r, b, row)
        PROVE  Next
    BY <1>2 DEF Next, BankCommand
  <1>3. Uncounted => Next
    BY DEF Uncounted, Next, BankCommand
  <1>4. UpdateMemory => Next
    BY DEF Next
  <1>5. UNCHANGED statsVars => UNCHANGED vars
    BY DEF statsVars
  <1> QED
    BY <1>1, <1>2, <1>3, <1>4, <1>5 DEF StatsNext

LEMMA StatsUsesController == StatsSpec => Spec
  <1>1. StatsInit => Init
    BY DEF StatsInit
  <1> QED
    BY <1>1, StatsStep, PTL DEF StatsSpec, Spec

\* What a step does to the counters, whatever it does to the controller.
LEMMA StatsCases ==
    ASSUME TypeOK, [StatsNext]_statsVars
    PROVE  \/ CYCLE_VAL' = CYCLE_VAL + 1 /\ GatherStats
           \/ /\ CYCLE_VAL' = CYCLE_VAL
              /\ \/ \E r \in Ranks, op \in Operations : CountAccess(r, op)
                 \/ \E r \in Ranks, why \in Operations \cup {"SPEC"} :
                       CountActivate(r, why)
                 \/ UNCHANGED stats
  <1>1. CASE UpdateMemory /\ GatherStats
    BY <1>1 DEF UpdateMemory
  <1>2. ASSUME NEW q \in requests, IssueRequestCommand(q), CountIssued(q)
        PROVE  /\ CYCLE_VAL' = CYCLE_VAL
               /\ \/ \E r \in Ranks, op \in Operations : CountAccess(r, op)
                  \/ \E r \in Ranks, why \in Operations \cup {"SPEC"} :
                        CountActivate(r, why)
                  \/ UNCHANGED stats
    <2>1. q.rank \in Ranks /\ q.op \in Operations
      BY DEF TypeOK, Request, Operations
    <2>2. CYCLE_VAL' = CYCLE_VAL
      BY <1>2 DEF IssueRequestCommand
    <2>3. CASE q.next_command \in {"COL_READ", "COL_WRITE"}
      <3>1. CountAccess(q.rank, q.op)
        BY <1>2, <2>3 DEF CountIssued
      <3> QED
        BY <2>1, <2>2, <3>1
    <2>4. CASE q.next_command = "ACT"
      <3>1. CountActivate(q.rank, q.op)
        BY <1>2, <2>4 DEF CountIssued
      <3> QED
        BY <2>1, <2>2, <3>1
    <2>5. CASE q.next_command \notin {"COL_READ", "COL_WRITE", "ACT"}
      BY <1>2, <2>2, <2>5 DEF CountIssued
    <2> QED
      BY <2>3, <2>4, <2>5
  <1>3. ASSUME NEW r \in Ranks, NEW b \in Banks, NEW row \in Rows,
               Activate(r, b, row), CountActivate(r, "SPEC")
        PROVE  /\ CYCLE_VAL' = CYCLE_VAL
               /\ \E i \in Ranks, why \in Operations \cup {"SPEC"} :
                     CountActivate(i, why)
    BY <1>3 DEF Activate, Unqueued
  <1>4. CASE Uncounted /\ UNCHANGED stats
    <2>1. CYCLE_VAL' = CYCLE_VAL
      BY <1>4 DEF Uncounted, Insert, Answer, RankCommand, PowerDownFast,
                  PowerDownSlow, PowerDown, PowerUp, AllBankPrecharge, Refresh,
                  Autoprecharge, Precharge, Unqueued
    <2> QED
      BY <1>4, <2>1
  <1>5. CASE UNCHANGED statsVars
    BY <1>5 DEF statsVars, vars
  <1> QED
    BY <1>1, <1>2, <1>3, <1>4, <1>5 DEF StatsNext

-----------------------------------------------------------------------------
(* The bus cycles.                                                         *)

AccessTyped ==
    /\ num_access \in [Ranks -> [Operations -> Nat]]
    /\ time_terminating \in [Ranks -> [Operations -> Nat]]

\* One more access of either kind adds one burst.
LEMMA OneMoreBurst ==
    ASSUME NEW t \in Nat, NEW x \in Nat, NEW y \in Nat
    PROVE  /\ t * ((x + 1) + y) = t * (x + y) + t
           /\ t * (x + (y + 1)) = t * (x + y) + t
    OBVIOUS

LEMMA CountAccessShare ==
    ASSUME AccessTyped, NEW r \in Ranks, NEW op \in Operations,
           CountAccess(r, op), NEW i \in Ranks
    PROVE  BusShare(i)' = BusShare(i) + T_DATA_TRANS
  <1>1. /\ num_access[i]["READ"] \in Nat /\ num_access[i]["WRITE"] \in Nat
        /\ time_terminating[i]["READ"] \in Nat
        /\ time_terminating[i]["WRITE"] \in Nat
    BY DEF AccessTyped, Operations
  <1>2. CASE i = r
    <2>1. time_terminating'[i] = time_terminating[i]
      BY <1>2 DEF CountAccess
    <2>2. num_access'[i] = [num_access[i] EXCEPT ![op] = @ + 1]
      BY <1>2 DEF CountAccess, AccessTyped
    <2>3. \/ /\ num_access'[i]["READ"] = num_access[i]["READ"] + 1
             /\ num_access'[i]["WRITE"] = num_access[i]["WRITE"]
          \/ /\ num_access'[i]["READ"] = num_access[i]["READ"]
             /\ num_access'[i]["WRITE"] = num_access[i]["WRITE"] + 1
      BY <2>2 DEF AccessTyped, Operations
    <2>4. T_DATA_TRANS * (num_access'[i]["READ"] + num_access'[i]["WRITE"])
            = T_DATA_TRANS * (num_access[i]["READ"] + num_access[i]["WRITE"])
                + T_DATA_TRANS
      BY <1>1, <2>3, OneMoreBurst, Times
    <2>5. T_DATA_TRANS * (num_access[i]["READ"] + num_access[i]["WRITE"]) \in Int
      BY <1>1, Times
    <2> DEFINE own == T_DATA_TRANS
                          * (num_access[i]["READ"] + num_access[i]["WRITE"])
               own1 == T_DATA_TRANS
                          * (num_access'[i]["READ"] + num_access'[i]["WRITE"])
    <2>6. /\ BusShare(i)' = own1 + time_terminating[i]["READ"]
                                 + time_terminating[i]["WRITE"]
          /\ BusShare(i) = own + time_terminating[i]["READ"]
                               + time_terminating[i]["WRITE"]
      BY <2>1 DEF BusShare
    <2> HIDE DEF own, own1
    <2>7. own1 = own + T_DATA_TRANS /\ own \in Int
      BY <2>4, <2>5 DEF own, own1
    <2> QED
      BY <1>1, <2>6, <2>7, Times
  <1>3. CASE i # r
    <2>1. num_access'[i] = num_access[i]
      BY <1>3 DEF CountAccess, AccessTyped
    <2>2. time_terminating'[i] =
              [time_terminating[i] EXCEPT ![op] = @ + T_DATA_TRANS]
      BY <1>3 DEF CountAccess
    <2>3. \/ /\ time_terminating'[i]["READ"]
                    = time_terminating[i]["READ"] + T_DATA_TRANS
             /\ time_terminating'[i]["WRITE"] = time_terminating[i]["WRITE"]
          \/ /\ time_terminating'[i]["READ"] = time_terminating[i]["READ"]
             /\ time_terminating'[i]["WRITE"]
                    = time_terminating[i]["WRITE"] + T_DATA_TRANS
      BY <2>2 DEF AccessTyped, Operations
    <2> DEFINE own == T_DATA_TRANS
                          * (num_access[i]["READ"] + num_access[i]["WRITE"])
    <2>4. /\ BusShare(i)' = own + time_terminating'[i]["READ"]
                                + time_terminating'[i]["WRITE"]
          /\ BusShare(i) = own + time_terminating[i]["READ"]
                               + time_terminating[i]["WRITE"]
      BY <2>1 DEF BusShare
    <2>5. own \in Int
      BY <1>1, Times
    <2> HIDE DEF own
    <2> QED
      BY <1>1, <2>3, <2>4, <2>5, Times
  <1> QED
    BY <1>2, <1>3

LEMMA CountAccessType ==
    ASSUME AccessTyped, NEW r \in Ranks, NEW op \in Operations,
           CountAccess(r, op)
    PROVE  AccessTyped'
  <1>1. num_access' \in [Ranks -> [Operations -> Nat]]
    BY DEF AccessTyped, CountAccess
  <1>2. ASSUME NEW i \in Ranks
        PROVE  [time_terminating[i] EXCEPT ![op] = @ + T_DATA_TRANS]
                   \in [Operations -> Nat]
    BY Times DEF AccessTyped
  <1>3. time_terminating' \in [Ranks -> [Operations -> Nat]]
    BY <1>2 DEF AccessTyped, CountAccess
  <1> QED
    BY <1>1, <1>3 DEF AccessTyped

\* Every rank of the channel accounts for the same cycles of the data bus.
THEOREM BusShares == StatsSpec => []BusShareIsSame
  <1> DEFINE I == AccessTyped /\ BusShareIsSame
  <1>1. StatsInit => I
    <2> SUFFICES ASSUME StatsInit PROVE I
      OBVIOUS
    <2>1. AccessTyped
      BY DEF StatsInit, AccessTyped
    <2>2. ASSUME NEW r \in Ranks
          PROVE  BusShare(r) = T_DATA_TRANS * (0 + 0) + 0 + 0
      BY DEF StatsInit, BusShare, Operations
    <2> QED
      BY <2>1, <2>2 DEF BusShareIsSame
  <1>2. TypeOK /\ I /\ [StatsNext]_statsVars => I'
    <2> SUFFICES ASSUME TypeOK, I, [StatsNext]_statsVars PROVE I'
      OBVIOUS
    <2>1. CASE UNCHANGED accessStats
      BY <2>1 DEF accessStats, AccessTyped, BusShareIsSame, BusShare
    <2>2. ASSUME NEW r \in Ranks, NEW op \in Operations, CountAccess(r, op)
          PROVE  I'
      <3>1. \A i \in Ranks : BusShare(i)' = BusShare(i) + T_DATA_TRANS
        BY <2>2, CountAccessShare
      <3>2. AccessTyped'
        BY <2>2, CountAccessType
      <3> QED
        BY <3>1, <3>2 DEF BusShareIsSame
    <2>3. \/ UNCHANGED accessStats
          \/ \E r \in Ranks, op \in Operations : CountAccess(r, op)
      BY StatsCases DEF GatherStats, CountActivate, stats
    <2> QED
      BY <2>1, <2>2, <2>3
  <1>3. I => BusShareIsSame
    OBVIOUS
  <1>4. StatsSpec => []TypeOK
    BY StatsUsesController, Typing, PTL
  <1> HIDE DEF I
  <1> QED
    BY <1>1, <1>2, <1>3, <1>4, PTL DEF StatsSpec

-----------------------------------------------------------------------------
(* The gaps between activations.                                           *)

ActivateTyped ==
    /\ last_activate \in [Ranks -> Int]
    /\ sum_of_gaps \in [Ranks -> Int]

\* The gaps add up to the time of the last activation, whichever function
\* made it.
THEOREM Gaps == StatsSpec => []GapsReachLastActivate
  <1> DEFINE I == ActivateTyped /\ GapsReachLastActivate
  <1>1. StatsInit => I
    BY DEF StatsInit, ActivateTyped, GapsReachLastActivate
  <1>2. TypeOK /\ I /\ [StatsNext]_statsVars => I'
    <2> SUFFICES ASSUME TypeOK, I, [StatsNext]_statsVars PROVE I'
      OBVIOUS
    <2>1. CASE UNCHANGED <<last_activate, sum_of_gaps>>
      BY <2>1 DEF ActivateTyped, GapsReachLastActivate
    <2>2. ASSUME NEW r \in Ranks, NEW why, CountActivate(r, why),
                 CYCLE_VAL' = CYCLE_VAL
          PROVE  I'
      <3>1. /\ last_activate[r] \in Int /\ sum_of_gaps[r] = last_activate[r]
            /\ CYCLE_VAL \in Int
        BY DEF TypeOK, ActivateTyped, GapsReachLastActivate
      <3>2. /\ sum_of_gaps' = [sum_of_gaps EXCEPT ![r] =
                   sum_of_gaps[r] + CYCLE_VAL - last_activate[r]]
            /\ last_activate' = [last_activate EXCEPT ![r] = CYCLE_VAL]
        BY <2>2 DEF CountActivate
      <3>3. sum_of_gaps[r] + CYCLE_VAL - last_activate[r] = CYCLE_VAL
        BY <3>1
      <3> QED
        BY <3>1, <3>2, <3>3 DEF ActivateTyped, GapsReachLastActivate
    <2>3. \/ UNCHANGED <<last_activate, sum_of_gaps>>
          \/ \E r \in Ranks, why \in Operations \cup {"SPEC"} :
                CountActivate(r, why) /\ CYCLE_VAL' = CYCLE_VAL
      BY StatsCases DEF GatherStats, CountAccess, activateStats, stats
    <2> QED
      BY <2>1, <2>2, <2>3
  <1>3. I => GapsReachLastActivate
    OBVIOUS
  <1>4. StatsSpec => []TypeOK
    BY StatsUsesController, Typing, PTL
  <1> HIDE DEF I
  <1> QED
    BY <1>1, <1>2, <1>3, <1>4, PTL DEF StatsSpec

-----------------------------------------------------------------------------
(* The time in each power state.  gather_stats looks at bank 0; that the   *)
(* other banks agree with it is the invariant of the controller.           *)

TimesTyped == time_spent \in [Ranks -> [Modes -> Nat]]

\* The four modes that calculate_power subtracts.
LEMMA ModesSpent ==
    {"ACTIVE_STANDBY", "PRECHARGE_POWER_DOWN_SLOW",
     "PRECHARGE_POWER_DOWN_FAST", "ACTIVE_POWER_DOWN"} \subseteq Modes
    BY DEF Modes, PoweredDown, PrechargePowerDown

\* A step in which nothing is gathered.
LEMMA NothingSpent ==
    ASSUME TypeOK, TimesTyped, CYCLE_VAL' = CYCLE_VAL,
           UNCHANGED time_spent, NEW r \in Ranks
    PROVE  ChargedTruly(r)
  <1>1. \A m \in Modes : time_spent[r][m] \in Int
    BY DEF TimesTyped
  <1>2. PrechargeStandby(r)' = PrechargeStandby(r)
    BY DEF PrechargeStandby
  <1>3. PrechargeStandby(r) \in Int
    BY <1>1, ModesSpent DEF PrechargeStandby, TypeOK
  <1>4. CYCLE_VAL' # CYCLE_VAL + 1
    BY DEF TypeOK
  <1> QED
    BY <1>1, <1>2, <1>3, <1>4, ModesSpent DEF ChargedTruly

\* A gathered cycle goes to one of the four modes or to precharge standby.
LEMMA OneModeSpent ==
    ASSUME TypeOK, TimesTyped, PowerStateIsRankWide, OpenRowMatchesState,
           CYCLE_VAL' = CYCLE_VAL + 1, GatherStats, NEW r \in Ranks
    PROVE  ChargedTruly(r)
  <1> DEFINE asleep == \A b \in Banks : state[r][b] \in PoweredDown
             awake == \A b \in Banks : state[r][b] \notin PoweredDown
             closed == \A b \in Banks : active_row[r][b] = NoRow
             slow == \A b \in Banks : state[r][b] = "PRECHARGE_POWER_DOWN_SLOW"
             open == \E b \in Banks : state[r][b] = "ROW_ACTIVE"
             Spent(m) == time_spent'[r][m] - time_spent[r][m]
  <1>1. 0 \in Banks /\ state[r][0] \in BankStates
    BY Indices DEF TypeOK
  <1>2. \/ asleep /\ ~awake /\ state[r][0] \in PoweredDown
        \/ awake /\ state[r][0] \notin PoweredDown
    BY <1>1 DEF PowerStateIsRankWide
  <1>3. awake => (open <=> ~closed)
    BY DEF OpenRowMatchesState, PoweredDown
  <1>4. state[r][0] = "PRECHARGE_POWER_DOWN_SLOW" <=> slow
    BY <1>1 DEF PowerStateIsRankWide
  <1>5. state[r][0] = "ACTIVE_POWER_DOWN" => ~closed
    BY <1>1 DEF OpenRowMatchesState
  <1>6. ASSUME NEW m \in Modes
        PROVE  /\ time_spent[r][m] \in Nat
               /\ time_spent'[r][m] =
                      IF IF m = "ACTIVE_STANDBY"
                         THEN state[r][0] \notin PoweredDown /\ open
                         ELSE state[r][0] = m
                      THEN time_spent[r][m] + 1 ELSE time_spent[r][m]
    BY DEF GatherStats, TimesTyped
  <1>7. Spent("ACTIVE_STANDBY") =
            IF state[r][0] \notin PoweredDown /\ open THEN 1 ELSE 0
    BY <1>6, ModesSpent
  <1>8. /\ Spent("PRECHARGE_POWER_DOWN_SLOW") =
               IF state[r][0] = "PRECHARGE_POWER_DOWN_SLOW" THEN 1 ELSE 0
        /\ Spent("PRECHARGE_POWER_DOWN_FAST") =
               IF state[r][0] = "PRECHARGE_POWER_DOWN_FAST" THEN 1 ELSE 0
        /\ Spent("ACTIVE_POWER_DOWN") =
               IF state[r][0] = "ACTIVE_POWER_DOWN" THEN 1 ELSE 0
    BY <1>6, ModesSpent
  <1>9. PrechargeStandby(r)' - PrechargeStandby(r) =
            1 - Spent("ACTIVE_STANDBY") - Spent("PRECHARGE_POWER_DOWN_SLOW")
              - Spent("PRECHARGE_POWER_DOWN_FAST") - Spent("ACTIVE_POWER_DOWN")
    <2>1. \A m \in Modes : time_spent[r][m] \in Int /\ time_spent'[r][m] \in Int
      BY <1>6
    <2>2. PrechargeStandby(r) =
              CYCLE_VAL - time_spent[r]["ACTIVE_STANDBY"]
                        - time_spent[r]["PRECHARGE_POWER_DOWN_SLOW"]
                        - time_spent[r]["PRECHARGE_POWER_DOWN_FAST"]
                        - time_spent[r]["ACTIVE_POWER_DOWN"]
      BY DEF PrechargeStandby
    <2>3. PrechargeStandby(r)' =
              (CYCLE_VAL + 1) - time_spent'[r]["ACTIVE_STANDBY"]
                              - time_spent'[r]["PRECHARGE_POWER_DOWN_SLOW"]
                              - time_spent'[r]["PRECHARGE_POWER_DOWN_FAST"]
                              - time_spent'[r]["ACTIVE_POWER_DOWN"]
      BY DEF PrechargeStandby
    <2>4. /\ CYCLE_VAL \in Int
          /\ \A m \in {"ACTIVE_STANDBY", "PRECHARGE_POWER_DOWN_SLOW",
                       "PRECHARGE_POWER_DOWN_FAST", "ACTIVE_POWER_DOWN"} :
                time_spent[r][m] \in Int /\ time_spent'[r][m] \in Int
      BY <2>1, ModesSpent DEF TypeOK
    <2> QED
      BY <2>2, <2>3, <2>4
  <1> HIDE DEF asleep, awake, closed, slow, open, Spent
  <1>10. PrechargeStandby(r)' - PrechargeStandby(r) =
             IF state[r][0] \notin PoweredDown /\ ~open THEN 1 ELSE 0
    BY <1>7, <1>8, <1>9 DEF PoweredDown, PrechargePowerDown
  <1>11. PrechargeStandby(r)' - PrechargeStandby(r) =
             IF awake /\ closed THEN 1 ELSE 0
    BY <1>2, <1>3, <1>10
  <1>12. Spent("ACTIVE_STANDBY") = IF awake /\ ~closed THEN 1 ELSE 0
    BY <1>2, <1>3, <1>7
  <1>13. Spent("PRECHARGE_POWER_DOWN_SLOW") = IF slow THEN 1 ELSE 0
    BY <1>4, <1>8
  <1>14. Spent("ACTIVE_POWER_DOWN") <= IF asleep /\ ~closed THEN 1 ELSE 0
    BY <1>2, <1>5, <1>8 DEF PoweredDown
  <1> QED
    BY <1>11, <1>12, <1>13, <1>14
    DEF ChargedTruly, asleep, awake, closed, slow, Spent

\* The counters of time keep their type.
LEMMA TimesStep == TypeOK /\ TimesTyped /\ [StatsNext]_statsVars => TimesTyped'
  <1> SUFFICES ASSUME TypeOK, TimesTyped, [StatsNext]_statsVars
               PROVE  TimesTyped'
    OBVIOUS
  <1>1. CASE GatherStats
    <2>1. \A r \in Ranks, m \in Modes :
             time_spent[r][m] \in Nat /\ time_spent[r][m] + 1 \in Nat
      BY DEF TimesTyped
    <2> QED
      BY <1>1, <2>1 DEF GatherStats, TimesTyped
  <1>2. GatherStats \/ UNCHANGED time_spent
    BY StatsCases DEF CountAccess, CountActivate, stats
  <1> QED
    BY <1>1, <1>2 DEF TimesTyped

\* Every cycle is charged to what all banks of the rank are doing, because
\* bank 0 stands for the rank.
THEOREM TimesTruly == StatsSpec => TimesAreTrue
  <1>1. StatsInit => TimesTyped
    BY DEF StatsInit, TimesTyped
  <1>2. TypeOK /\ TimesTyped /\ PowerStateIsRankWide /\ OpenRowMatchesState
            /\ [StatsNext]_statsVars
            => [\A r \in Ranks : ChargedTruly(r)]_statsVars
    <2> SUFFICES ASSUME TypeOK, TimesTyped, PowerStateIsRankWide,
                        OpenRowMatchesState, [StatsNext]_statsVars,
                        NEW r \in Ranks
                 PROVE  ChargedTruly(r)
      OBVIOUS
    <2>1. \/ CYCLE_VAL' = CYCLE_VAL + 1 /\ GatherStats
          \/ CYCLE_VAL' = CYCLE_VAL /\ UNCHANGED time_spent
      BY StatsCases DEF CountAccess, CountActivate, stats
    <2> QED
      BY <2>1, NothingSpent, OneModeSpent
  <1>3. StatsSpec => [](TypeOK /\ PowerStateIsRankWide /\ OpenRowMatchesState)
    BY StatsUsesController, Typing, PowerStates, OpenRows, PTL
  <1> QED
    BY <1>1, <1>2, <1>3, TimesStep, PTL DEF StatsSpec, TimesAreTrue
=============================================================================
