--------------------------- MODULE MCDurableFiles ---------------------------
(* Two process IDs and two documents on one disk.                          *)
EXTENDS DurableFiles, TLC

CONSTANTS p1, p2, d1

Untouched(fs) ==
    \A f \in fs, p \in Pids :
        name[f] = None /\ temp[f][p] = None /\ run[p].file # f

(***************************************************************************)
(* The debt lies on a receiver and the rest on the origin, so a disk has   *)
(* one of them.  What runs without the lock is the second process, from an *)
(* empty journal on.                                                       *)
(***************************************************************************)
OneMachine ==
    /\ Untouched({Debt}) \/ Untouched(Files \ {Debt})
    /\ ~Untouched({Debt}) => \A p \in Pids : run[p].job \in {None, "debt"}
    /\ run[p1].job # "unlocked"
    /\ run[p2].job = "unlocked" /\ run[p2].pc = "recover"
          => Latest(name) = 0 /\ run[p2].doc = d1

OneMachineSpec ==
    /\ Init
    /\ [][Next /\ OneMachine']_vars
    /\ \A p \in Pids : WF_vars(Running(p) /\ OneMachine')
=============================================================================
