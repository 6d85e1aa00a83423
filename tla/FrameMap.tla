------------------------------ MODULE FrameMap ------------------------------
(***************************************************************************)
(* What the paging of os.c promises: the pages that are in memory have a   *)
(* frame each and no two pages the same one; a page keeps its frame until  *)
(* the frame is taken, as a whole, for another page.                       *)
(***************************************************************************)
CONSTANTS Pages, Frames, NoFrame

VARIABLE map    \* map[p]: the frame of page p, or NoFrame

Init == map = [p \in Pages |-> NoFrame]

Assign(p, f) ==
    /\ map[p] = NoFrame
    /\ map' = [q \in Pages |-> IF q = p THEN f
                               ELSE IF map[q] = f THEN NoFrame ELSE map[q]]

Next == \E p \in Pages, f \in Frames : Assign(p, f)

Spec == Init /\ [][Next]_map

\* Two pages never share a frame.
NoSharedFrames ==
    \A p, q \in Pages : map[p] = map[q] /\ map[p] # NoFrame => p = q
=============================================================================
