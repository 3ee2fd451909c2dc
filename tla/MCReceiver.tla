----------------------------- MODULE MCReceiver -----------------------------
(* One receiver, two or three published closures and the one a machine     *)
(* that was never activated runs.                                          *)
EXTENDS Receiver

CONSTANTS a, b, c, fresh

BothTargets == {a, b}
ThreeTargets == {a, b, c}
EveryClosure == {a, b, fresh}
FirstOnly == {a}
=============================================================================
