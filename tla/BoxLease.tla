------------------------------ MODULE BoxLease ------------------------------
(***************************************************************************)
(* What the isolate boxes promise to the sandboxed programs: a box is      *)
(* leased to one Isolator at a time, it passes from one Isolator to the    *)
(* next only by being removed in between, and a box that was lost (its     *)
(* directory exists and nobody owns it) is leased to nobody.               *)
(***************************************************************************)
CONSTANTS Isolator, Box, Free, Lost   \* Free and Lost differ and are no Isolators

VARIABLE lease          \* lease[b]: the Isolator that owns box b, Free or Lost

Init == lease = [b \in Box |-> Free]

Acquire(i, b) == /\ lease[b] = Free
                 /\ \A c \in Box : lease[c] # i
                 /\ lease' = [lease EXCEPT ![b] = i]

\* The owner's cleanup, or that of an owner that died, removes the directory.
Remove(b) == /\ lease[b] # Free
             /\ lease' = [lease EXCEPT ![b] = Free]

\* Directories that exist with no owner: a failed init, a failed cleanup, a crash.
Lose(S) == lease' = [b \in Box |-> IF b \in S THEN Lost ELSE lease[b]]

Next == \/ \E i \in Isolator, b \in Box : Acquire(i, b)
        \/ \E b \in Box : Remove(b)
        \/ \E S \in SUBSET Box : Lose(S)

Spec == Init /\ [][Next]_lease
=============================================================================
