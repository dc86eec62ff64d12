---------------------------- MODULE MCMonsters ----------------------------
(* Instances of module Monsters for TLC, with NORMAL_SPEED scaled to 1. *)
EXTENDS Monsters, TLC

CONSTANTS m1, m2, m3, L1, L2, x1, x2, x3

\* A pony is ridden, a fire vortex engulfs and glows, a demon holds on.
Forms    == {"pony", "vortex", "demon"}
Speeds   == "pony" :> 1 @@ "vortex" :> 2 @@ "demon" :> 1

\* A pony with the hero, and a vortex on the level below.
Zoo      == L1 :> <<[id |-> m1, data |-> "pony"]>> @@ L2 :> <<[id |-> m2, data |-> "vortex"]>>
=============================================================================
