----------------------------- MODULE MCTeleport ------------------------------
(* Two instances of Teleport for TLC in one: teleports that nothing disturbs, *)
(* one after the other on both paths, as the cfg sets the constants; and the  *)
(* registry path under everything but failing forks.                          *)
EXTENDS Teleport

CONSTANTS r3

VARIABLES scene     \* "quiet" or "troubled"

Troubled == INSTANCE Teleport WITH
    Movable <- Agent, Path <- {"registry"},
    Circumstances <- {"overlap", "busy", "network", "hangup", "restart"}

SceneInit == scene \in {"quiet", "troubled"} /\ Init

\* Bound: there are two requests where there is trouble.
SceneNext ==
    \/ scene = "quiet" /\ Next /\ UNCHANGED scene
    \/ scene = "troubled" /\ Troubled!Next /\ task'[r3] = IdleTask /\ UNCHANGED scene

SceneSpec == SceneInit /\ [][SceneNext]_<<vars, scene>>

\* When nothing is in flight an agent is not registered on both nodes, and one that has
\* left the source is resumed from its last execution, not from an earlier one: as long
\* as no acknowledgement is lost and no execution overlaps (TeleportRequest::execute).
QuietHandoff == scene = "quiet" => NoSplitBrain /\ LastStateMoves
=============================================================================
