----------------------------- MODULE TwoReceivers -----------------------------
(***************************************************************************)
(* "A timer-driven receiver and an operator running the same binary by     *)
(* hand" (src/atomicfile.rs): two processes of Receiver over one machine,  *)
(* one pin and one debt, with no lock between them (src/receive.rs takes   *)
(* none, and systemd keeps apart the timer's own runs only).               *)
(*                                                                         *)
(* Each is a whole Receiver; what they share are its variables.  The       *)
(* scripts' switches are taken one at a time: a switch under way holds the *)
(* backend, as switch-to-configuration does by a lock of its own.          *)
(***************************************************************************)
EXTENDS Receiver

VARIABLE hand  \* the run started by hand; the timer's is run

ByHand == INSTANCE Receiver WITH run <- hand

both == <<vars, hand>>

InitBoth == Init /\ hand = Idle

(* One switch is under way at most.                                        *)
OneSwitch == ~(run'.pc \in Switching /\ hand'.pc \in Switching)

ByTimer == Running /\ UNCHANGED hand /\ OneSwitch

Manually == ByHand!Running /\ UNCHANGED run /\ OneSwitch

(* Everything else happens to the machine: to both runs when it is replaced.*)
AroundBoth ==
    \/ (Publish \/ RemovePin \/ DamageState \/ Kill) /\ UNCHANGED hand
    \/ ByHand!Kill /\ UNCHANGED run
    \/ Replace /\ hand' = Idle

NextBoth == ByTimer \/ Manually \/ AroundBoth

SpecBoth == InitBoth /\ [][NextBoth]_both

(***************************************************************************)
(* The timer fires again and again, and a run somebody started goes on;    *)
(* nobody has to start one by hand.                                        *)
(***************************************************************************)
FairnessBoth ==
    /\ WF_both(ByTimer)
    /\ WF_both(Manually /\ hand.pc # "idle")

FairSpecBoth == SpecBoth /\ FairnessBoth

-----------------------------------------------------------------------------
(***************************************************************************)
(* Receiver!Settles with a second receiver on the machine: interleaved     *)
(* runs may undo each other's work, but when faults and publications stop, *)
(* both come to rest on the published closure, its pin, a debt, or before  *)
(* a pin that somebody spoiled.                                            *)
(***************************************************************************)
BothSettle == <>[](Settled \/ pin = Corrupt)

(***************************************************************************)
(* README.md: a target that failed its health gate "is pinned before       *)
(* rollback and is not activated on every timer tick: later runs stop      *)
(* before delta sizing".  A published closure that was rejected and undone,*)
(* with no other having passed its gate since, is the one the pin names    *)
(* (unless somebody spoiled the file).                                     *)
(***************************************************************************)
RejectionIsRemembered ==
    published \in rejected => pin \in {published, Corrupt}
=============================================================================
