----------------------------- MODULE NewestWins -----------------------------
(* What the save claims promise of each directory: snapshots of it are       *)
(* formed one after the other, and the one on disk is only ever replaced by  *)
(* one formed later.                                                         *)
EXTENDS Naturals

CONSTANT Dirs

VARIABLES formed,   \* directory -> how many snapshots have been formed
          shown     \* directory -> the snapshot on disk, 0 before the first

vars == <<formed, shown>>

TypeOK == /\ formed \in [Dirs -> Nat]
          /\ shown \in [Dirs -> Nat]

Init == /\ formed = [d \in Dirs |-> 0]
        /\ shown = [d \in Dirs |-> 0]

Form(d) == /\ formed' = [formed EXCEPT ![d] = @ + 1]
           /\ UNCHANGED shown

Show(d) == \E n \in (shown[d] + 1)..formed[d] :
             /\ shown' = [shown EXCEPT ![d] = n]
             /\ UNCHANGED formed

\* The process ends: what is on disk is what the next one starts from.
Restart == /\ formed' = [d \in Dirs |-> 0]
           /\ shown' = [d \in Dirs |-> 0]

Next == Restart \/ \E d \in Dirs : Form(d) \/ Show(d)

Spec == Init /\ [][Next]_vars

=============================================================================
