---------------------------- MODULE AddressPath ----------------------------
(***************************************************************************)
(* What main.c does with addresses from its start: it shuffles the tables  *)
(* of the address randomizer, and only then puts requests in the queues of *)
(* the channels.  The tables do not change any more.                       *)
(***************************************************************************)
EXTENDS ChannelQueues, AddressRandomizer

pathVars == <<pending, randomizerVars>>

PathInit == ChannelInit /\ RandomizerInit

Started == jj = numcores

PathNext ==
    \/ Swap /\ UNCHANGED pending
    \/ Started /\ ChannelNext /\ UNCHANGED randomizerVars

PathSpec == PathInit /\ [][PathNext]_pathVars
=============================================================================
