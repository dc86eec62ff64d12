---------------------------- MODULE MCOccupation ----------------------------
(***************************************************************************)
(* Instances of module Occupation for TLC.                                 *)
(***************************************************************************)
EXTENDS Occupation, TLC

CONSTANTS a1, a2, a3

Item(otyp, where, quan) ==
    [where |-> where, at |-> 1, otyp |-> otyp, quan |-> quan, oeaten |-> 0,
     orotten |-> FALSE, named |-> FALSE]

Memory(x, y) == (a1 :> x) @@ (a2 :> y) @@ [a \in Addr |-> Free]

\* A stack of food, or food and something else to be busy with.
Goods == {Memory(Item("CORPSE", "INVENT", 2), Free),
          Memory(Item("RATION", "FLOOR", 1), Item("TIN", "INVENT", 1)),
          Memory(Item("BOOK", "INVENT", 1), Free)}
Amount == ("CORPSE" :> 2) @@ ("RATION" :> 3)
Turns  == ("CORPSE" :> 2) @@ ("RATION" :> 5)
=============================================================================
