----------------------------- MODULE MCBurning -----------------------------
(***************************************************************************)
(* Instances of module Burning for TLC, with the times scaled down.        *)
(***************************************************************************)
EXTENDS Burning, TLC

CONSTANTS o1, o2, o3, L1, L2

Item(otyp, where, age, spe, quan) ==
    [otyp |-> otyp, where |-> where, lev |-> L1, age |-> age, spe |-> spe,
     quan |-> quan, lamplit |-> FALSE, timed |-> 0, unpaid |-> FALSE]

None == {Freed}

\* A stack of two candles, a lamp or the candelabrum; and an identity for
\* what is split off, a potion of oil or one more candle.
Goods    == (o1 :> {Item("CANDLE", "FLOOR", 3, 0, 2), Item("OIL_LAMP", "FLOOR", 4, 1, 1),
                    Item("CANDELABRUM", "INVENT", 0, 0, 1)})
         @@ (o2 :> {Freed, Item("POT_OIL", "INVENT", 2, 0, 1), Item("CANDLE", "FLOOR", 3, 0, 1)})

\* A magic lamp, with a djinni or without, or the candelabrum; two candles or two potions of
\* oil; and an identity for what is split off.
Stacks   == (o1 :> {Item("CANDELABRUM", "INVENT", 0, 0, 1),
                    Item("MAGIC_LAMP", "FLOOR", 1, 0, 1), Item("MAGIC_LAMP", "FLOOR", 1, 1, 1)})
         @@ (o2 :> {Item("POT_OIL", "INVENT", 2, 0, 2), Item("CANDLE", "INVENT", 3, 0, 2)})
         @@ (o3 :> None)

\* A magic lamp for sale.
GenieLamp == (o1 :> {Item("MAGIC_LAMP", "FLOOR", 1, 1, 1)}) @@ (o2 :> None)
=============================================================================
