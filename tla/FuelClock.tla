----------------------------- MODULE FuelClock -----------------------------
(***************************************************************************)
(* What the player is promised about things that burn, without timers,     *)
(* light sources, level files or pauses in a burn: each burning object     *)
(* uses one turn of its fuel every turn, wherever it is, until the fuel is *)
(* gone; nothing that is out uses any; and neither leaving a level nor     *)
(* saving the game nor running the timers changes what is left.            *)
(***************************************************************************)
EXTENDS Integers

CONSTANT ObjId
VARIABLES
    turn,       \* turns played
    busy,       \* the game is catching up with the time that has passed
    kind,       \* what it is; "NONE" if it is used up or not made yet
    lit,        \* what burns
    fuel        \* turns of fuel left

clock == <<turn, busy, kind, lit, fuel>>

Lamp == {"OIL_LAMP", "MAGIC_LAMP"}
Kind == Lamp \cup {"POT_OIL", "CANDLE", "CANDELABRUM", "NONE"}

Init == /\ turn = 1 /\ busy = FALSE
        /\ kind \in [ObjId -> Kind]
        /\ lit = [o \in ObjId |-> FALSE]
        /\ fuel \in [ObjId -> Nat]
        /\ \A o \in ObjId : kind[o] = "NONE" => fuel[o] = 0

\* A turn passes for all objects of the game at once.
Pass == /\ ~busy
        /\ turn' = turn + 1
        /\ busy' \in BOOLEAN /\ kind' = kind
        /\ fuel' = [o \in ObjId |-> IF lit[o] THEN fuel[o] - 1 ELSE fuel[o]]
        /\ lit' = [o \in ObjId |-> lit[o] /\ fuel[o] > 1]

\* Levels are left and entered, games saved and restored, timers run; oil or a candle
\* has burnt up, or has rotted where it lies buried.
CatchUp == /\ busy' \in BOOLEAN /\ turn' = turn
           /\ \/ UNCHANGED <<kind, lit, fuel>>
              \/ \E o \in ObjId : /\ busy /\ kind[o] \in {"POT_OIL", "CANDLE"}
                                  /\ kind' = [kind EXCEPT ![o] = "NONE"]
                                  /\ lit' = [lit EXCEPT ![o] = FALSE]
                                  /\ fuel' = [fuel EXCEPT ![o] = 0]

\* What may become of one object and its fuel when objects are handled.
Keep(o)   == kind'[o] = kind[o] /\ fuel'[o] = fuel[o]
Vanish(o) == kind'[o] = "NONE" /\ fuel'[o] = 0
Copy(o)   == /\ kind[o] = "NONE"                \* a split-off part
             /\ \E p \in ObjId : kind'[o] = kind[p] /\ fuel'[o] = fuel[p]
Mix(o)    == /\ ~lit'[o]                        \* a stack, with another
             /\ \E p, q \in ObjId :
                    /\ p = o \/ kind[o] = "NONE"
                    /\ kind[p] = kind[q] /\ kind[q] = kind'[o]
                    /\ kind'[o] \in {"POT_OIL", "CANDLE"}
                    /\ fuel'[o] \in fuel[p] .. fuel[q] \cup fuel[q] .. fuel[p]
Refill(o) == /\ kind[o] \in Lamp /\ kind'[o] = "OIL_LAMP"
             /\ ~lit[o] /\ ~lit'[o]
             /\ \E p \in ObjId : /\ kind[p] = "POT_OIL" /\ (Keep(p) \/ Vanish(p))
                                 /\ fuel'[o] \in fuel[o] .. fuel[o] + 2 * fuel[p]
Waste(o)  == /\ kind[o] = "CANDELABRUM" /\ kind'[o] = kind[o]
             /\ ~lit[o] /\ fuel'[o] = fuel[o] \div 2    \* lit off the invocation square
Attach(o) == /\ kind[o] = "CANDELABRUM" /\ kind'[o] = kind[o]
             /\ lit'[o] => lit[o]
             /\ \E p \in ObjId : /\ kind[p] = "CANDLE" /\ (Keep(p) \/ Vanish(p))
                                 /\ fuel'[o] <= fuel[o] \/ fuel'[o] <= fuel[p]
Djinni(o) == kind[o] = "MAGIC_LAMP" /\ kind'[o] = "OIL_LAMP" /\ fuel'[o] > 0

Handle ==
    /\ ~busy /\ busy' = busy /\ turn' = turn
    /\ kind' \in [ObjId -> Kind] /\ lit' \in [ObjId -> BOOLEAN] /\ fuel' \in [ObjId -> Nat]
    /\ \A o \in ObjId : /\ lit'[o] => fuel'[o] > 0
                        /\ \/ Keep(o) \/ Vanish(o) \/ Copy(o) \/ Mix(o)
                           \/ Refill(o) \/ Waste(o) \/ Attach(o) \/ Djinni(o)

Next == Pass \/ CatchUp \/ Handle

Spec == Init /\ [][Next]_clock
=============================================================================
