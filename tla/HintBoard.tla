----------------------------- MODULE HintBoard -----------------------------
(***************************************************************************)
(* What libperfmgr promises to the Power HAL, without its threads, clock   *)
(* or maps: every node has a value somebody wants (the highest-priority    *)
(* outstanding hint, or the default), the want may change at any moment,   *)
(* a node is only ever driven to what is wanted at that moment, and a node *)
(* that keeps being wanted elsewhere is eventually driven there.           *)
(***************************************************************************)
CONSTANTS Node,       \* the nodes of the configuration file
          Value,      \* the value indices a node may take
          Reliable    \* the nodes whose writes are retried until they succeed

VARIABLES want,       \* want[n]: the value the outstanding hints ask for
          current     \* current[n]: the value the node was last driven to

vars == <<want, current>>

Init == /\ want \in [Node -> Value]
        /\ current \in [Node -> Value]

(* Hints begin, end and expire: any number of nodes may be wanted elsewhere. *)
Rewant == /\ want' \in [Node -> Value]
          /\ UNCHANGED current

(* One node is driven to the value wanted now. *)
Apply(n) == /\ current' = [current EXCEPT ![n] = want[n]]
            /\ UNCHANGED want

Next == Rewant \/ \E n \in Node : Apply(n)

Spec == /\ Init
        /\ [][Next]_vars
        /\ \A n \in Reliable : WF_vars(Apply(n))
=============================================================================
