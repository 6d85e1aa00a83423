----------------------------- MODULE DramDevice -----------------------------
(***************************************************************************)
(* What the DRAM devices of a channel require of whoever drives them,      *)
(* stated on the commands they have received and not on timers: a command  *)
(* is legal when it comes long enough after every earlier command it       *)
(* depends on, and when its burst finds the channel's data bus free.       *)
(*                                                                         *)
(* This is the specification MemoryController is shown to implement; the   *)
(* distances are those the comments of params.h give the T_* parameters.   *)
(***************************************************************************)
EXTENDS Integers

CONSTANTS Ranks, Banks, Rows, NoRow, LongAgo,
          T_RCD, T_RP, T_CAS, T_RAS, T_RC, T_CWD, T_WR, T_WTR, T_RTRS,
          T_DATA_TRANS, T_RTP, T_CCD, T_XP, T_RRD, T_RFC

VARIABLES
    now,     \* the current cycle
    open,    \* open[r][b]: the row in the row buffer, or NoRow
    last,    \* last[r][b][c]: the cycle of the bank's last command c
    busy,    \* busy[r]: the rank is refreshing or waking up before this cycle
    burst    \* the last burst on the data bus: its rank, kind and end

deviceVars == <<now, open, last, busy, burst>>

Kinds == {"act", "read", "write", "pre"}

\* Bank b last got command c at least gap cycles before cycle t.
Since(r, b, c, gap, t) == t >= last[r][b][c] + gap

\* The open row of bank b may be closed at cycle t.
MayClose(r, b, t) ==
    /\ Since(r, b, "act", T_RAS, t)
    /\ Since(r, b, "read", T_RTP, t)
    /\ Since(r, b, "write", T_CWD + T_DATA_TRANS + T_WR, t)

\* A burst of this kind to rank r may start at cycle t: the bus is free, and
\* has had its turnaround if the rank or the direction changes.  (A write
\* followed by a read of the same rank has the longer T_WTR instead.)
BusFree(r, kind, t) ==
    t >= burst.end + IF r # burst.rank \/ (kind = "write" /\ burst.kind = "read")
                     THEN T_RTRS ELSE 0

-----------------------------------------------------------------------------
Init ==
    /\ now = 0
    /\ open = [r \in Ranks |-> [b \in Banks |-> NoRow]]
    /\ last = [r \in Ranks |-> [b \in Banks |-> [c \in Kinds |-> LongAgo]]]
    /\ busy = [r \in Ranks |-> LongAgo]
    /\ burst = [rank |-> 0, kind |-> "read", end |-> LongAgo]

Activate(r, b, row) ==
    /\ open[r][b] = NoRow
    /\ now >= busy[r]
    /\ Since(r, b, "act", T_RC, now)
    /\ Since(r, b, "pre", T_RP, now)
    /\ \A i \in Banks : Since(r, i, "act", T_RRD, now)
    /\ open' = [open EXCEPT ![r][b] = row]
    /\ last' = [last EXCEPT ![r][b]["act"] = now]
    /\ UNCHANGED <<now, busy, burst>>

Column(r, b, kind, delay) ==
    /\ open[r][b] # NoRow
    /\ now >= busy[r]
    /\ Since(r, b, "act", T_RCD, now)
    /\ \A i \in Banks : Since(r, i, kind, T_CCD, now)
    /\ BusFree(r, kind, now + delay)
    /\ last' = [last EXCEPT ![r][b][kind] = now]
    /\ burst' = [rank |-> r, kind |-> kind, end |-> now + delay + T_DATA_TRANS]
    /\ UNCHANGED <<now, open, busy>>

Read(r, b) ==
    /\ \A i \in Banks :
          Since(r, i, "write", T_CWD + T_DATA_TRANS + T_WTR, now)
    /\ Column(r, b, "read", T_CAS)

Write(r, b) == Column(r, b, "write", T_CWD)

\* A precharge starts at once, or later when it was asked for together with
\* a column access.
Precharge(r, bs, start) ==
    /\ start >= now
    /\ \A b \in bs : open[r][b] # NoRow /\ MayClose(r, b, start)
    /\ start >= busy[r]
    /\ open' = [open EXCEPT ![r] = [b \in Banks |->
           IF b \in bs THEN NoRow ELSE open[r][b]]]
    /\ last' = [last EXCEPT ![r] = [b \in Banks |->
           IF b \in bs THEN [last[r][b] EXCEPT !["pre"] = start]
           ELSE last[r][b]]]
    /\ UNCHANGED <<now, busy, burst>>

WakeUp(r) ==
    /\ now >= busy[r]
    /\ busy' = [busy EXCEPT ![r] = now + T_XP]
    /\ UNCHANGED <<now, open, last, burst>>

\* A refresh closes the rows that are still open.
Refresh(r, until) ==
    /\ now >= busy[r]
    /\ \A b \in Banks : IF open[r][b] = NoRow
                        THEN Since(r, b, "pre", T_RP, now)
                        ELSE MayClose(r, b, now)
    /\ until >= now + T_RFC
    /\ busy' = [busy EXCEPT ![r] = until]
    /\ open' = [open EXCEPT ![r] = [b \in Banks |-> NoRow]]
    /\ UNCHANGED <<now, last, burst>>

\* The cycle ends.  The ranks in rs start their overdue refreshes with the
\* next one and are busy until the cycle until[r]; a refresh that is already
\* running in such a rank becomes the first of them.
Elapse(rs, until) ==
    /\ now' = now + 1
    /\ \A r \in rs :
          /\ \A b \in Banks : open[r][b] # NoRow => MayClose(r, b, now')
          /\ until[r] >= busy[r]
          /\ until[r] >= now' + T_RP + T_RFC
    /\ open' = [r \in Ranks |-> [b \in Banks |->
           IF r \in rs THEN NoRow ELSE open[r][b]]]
    /\ busy' = [r \in Ranks |-> IF r \in rs THEN until[r] ELSE busy[r]]
    /\ UNCHANGED <<last, burst>>

\* until ranges over what the refinement gives the new busy.
Next ==
    \/ \E r \in Ranks, b \in Banks :
          \/ \E row \in Rows : Activate(r, b, row)
          \/ Read(r, b)
          \/ Write(r, b)
    \/ \E r \in Ranks, bs \in SUBSET Banks : Precharge(r, bs, now)
    \/ \E r \in Ranks, b \in Banks : Precharge(r, {b}, last[r][b]["pre"]')
    \/ \E r \in Ranks : WakeUp(r) \/ Refresh(r, busy'[r])
    \/ \E rs \in SUBSET Ranks : Elapse(rs, busy')

Spec == Init /\ [][Next]_deviceVars
=============================================================================
