---------------------------- MODULE MCShopBill ----------------------------
(* An instance of module ShopBill for TLC: a stack of two on the shelf,    *)
(* and identities for what is split off and for dummies.                   *)
EXTENDS ShopBill, TLC

CONSTANTS o1, o2, o3

Kinds  == {"potion"}
Lists  == [k \in Kinds |-> 2]
Costs  == [k \in Kinds |-> 1]
Thing(where, quan) == [where |-> where, kind |-> "potion", quan |-> quan,
                       unpaid |-> FALSE, no_charge |-> FALSE]
Shelf  == o1 :> Thing("inside", 2) @@ o2 :> Thing("free", 1) @@ o3 :> Thing("free", 1)

\* The identities are interchangeable: NewObj takes any of the unused ones, which
\* are all alike.
Perms == Permutations({o1, o2, o3})
=============================================================================
