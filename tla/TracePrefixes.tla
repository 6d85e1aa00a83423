---------------------------- MODULE TracePrefixes ----------------------------
(***************************************************************************)
(* How main assigns the trace files of its command line to programs: the   *)
(* threads of a multi-threaded program, whose traces are named MT0..,      *)
(* MT1.., share a prefix.  The name of an argument is abstracted to what   *)
(* main looks for in it.                                                   *)
(***************************************************************************)
EXTENDS Integers

CONSTANT NUMCORES

VARIABLES argv,          \* the names from argv[3] on: the configuration, traces
          numc, currMTapp, prefixtable,
          quit           \* main has returned an error

vars == <<argv, numc, currMTapp, prefixtable, quit>>

-----------------------------------------------------------------------------
Cores == 0..(NUMCORES - 1)

Names == {"MT0", "MT", "other"}

\* The trace file of core n; the configuration file is argv[3].
TraceFile(n) == argv[n + 4]

\* The argument whose name is looked at for core n.
Examined(n) == argv[n + 3]

Init ==
    /\ argv \in [3..(NUMCORES + 3) -> Names]
    /\ argv[3] = "other"
    /\ numc = 0
    /\ currMTapp = -1
    /\ prefixtable = [n \in Cores |-> n]
    /\ quit = FALSE

FirstThread ==
    /\ Examined(numc) = "MT0"
    /\ currMTapp' = numc
    /\ UNCHANGED <<prefixtable, quit>>

NextThread ==
    /\ Examined(numc) = "MT" /\ currMTapp >= 0
    /\ prefixtable' = [prefixtable EXCEPT ![numc] = currMTapp]
    /\ UNCHANGED <<currMTapp, quit>>

ThreadWithoutFirst ==
    /\ Examined(numc) = "MT" /\ currMTapp < 0
    /\ quit' = TRUE
    /\ UNCHANGED <<currMTapp, prefixtable>>

OwnProgram ==
    /\ Examined(numc) = "other"
    /\ UNCHANGED <<currMTapp, prefixtable, quit>>

Next ==
    /\ ~quit /\ numc < NUMCORES
    /\ numc' = numc + 1
    /\ FirstThread \/ NextThread \/ ThreadWithoutFirst \/ OwnProgram
    /\ UNCHANGED argv

Spec == Init /\ [][Next]_vars

-----------------------------------------------------------------------------
(* Properties.                                                             *)

\* main.c:241-242: "The addresses from this trace file are given a prefix that
\* equals that of the last seen input trace file that starts with "MT0"."  The
\* code looks at the argument before the trace file instead.
ThreadsShareAPrefix ==
    \A n, first \in 0..(numc - 1) :
        ~quit /\ TraceFile(n) = "MT" /\ TraceFile(first) = "MT0" /\ first < n
        /\ (\A i \in (first + 1)..n : TraceFile(i) # "MT0")
            => prefixtable[n] = prefixtable[first]
=============================================================================
