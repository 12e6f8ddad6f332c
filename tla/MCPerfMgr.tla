----------------------------- MODULE MCPerfMgr -----------------------------
(* Configurations of PerfMgr for TLC: what a powerhint.json would say.      *)
EXTENDS PerfMgr, TLC

CONSTANTS launch, interaction

A(n, v, t) == [node |-> n, value |-> v, timeout |-> t]

(* Two nodes, three values: LAUNCH boosts the first fully and for longer,   *)
(* INTERACTION half way; the second node sees them the other way round.     *)
SchedActions == (launch      :> {A(1, 0, 1), A(2, 1, 0)}) @@
                (interaction :> {A(1, 1, 2), A(2, 0, 2)})
SchedDefault == <<2, 2>>

(* A maximum frequency (node 2) between two minimum frequencies (1 and 3):  *)
(* the nodes depend on one another against and along the order of updates.  *)
(* The fourth node is a property without actions whose writes may fail.     *)
CapActions == (launch      :> {A(1, 0, 1), A(2, 0, 1), A(3, 0, 1)}) @@
              (interaction :> {A(1, 1, 0), A(2, 1, 0), A(3, 1, 0)})
CapDefault == <<2, 2, 2, 0>>
CapPairs   == {<<1, 2>>, <<3, 2>>}

StopActions == (launch :> {A(1, 0, 1)}) @@ (interaction :> {})
StopDefault == <<1>>

NoPairs == {}

(* The caps are a configuration that TwoPassesAreEnough speaks of.          *)
ASSUME CapsSettle == Capped = CapPairs => Settleable
=============================================================================
