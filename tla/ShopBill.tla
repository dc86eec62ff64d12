------------------------------ MODULE ShopBill ------------------------------
(***************************************************************************)
(* One shop, its keeper and its customer: the bill (struct bill_x), the    *)
(* flag unpaid of the objects, the list billobjs of used-up goods, and the *)
(* accounts that the keeper holds on the hero (credit, debit, loan,        *)
(* robbed).  Goods are picked up, dropped, sold, thrown, split, merged,    *)
(* used up and paid for; the hero walks or teleports in and out; the       *)
(* keeper is angered, teleported away, follows, comes back or dies, and    *)
(* other monsters take, use and drop what they find.                       *)
(*                                                                         *)
(* Each command of the hero is one step.  The keeper's being awake, the    *)
(* hero's answers and what else could keep two stacks apart are choices.   *)
(* Containers, other shops and the haggling of get_cost are left out.      *)
(***************************************************************************)
EXTENDS Integers, FiniteSets, Sequences, SequencesExt, FiniteSetsExt, Functions

CONSTANTS
    ObjId,          \* identities of struct obj
    Kind,           \* kinds of goods
    ListPrice,      \* ListPrice[k]: getprice() of one
    Cost,           \* Cost[k]: get_cost() of one, before the surcharge
    Saleable,       \* the kinds this shop deals in
    BILLSZ,         \* entries of the bill: 200
    APPEASEMENT,    \* what soothes a keeper who was not robbed: 1000
    Stock,          \* Stock[o]: what there is at first
    Purse,          \* the hero's gold at first
    Till,           \* the keeper's gold at first
    PastRobbery,    \* robbed at first: what an earlier hero, now bones, stole
    Fees,           \* usage fees (cost_per_charge)
    MaxOwed,        \* bound on debit, robbed and credit
    Oversights      \* {"flee"} or {}: see FollowOut

Places == {"invent", "inside", "outside", "minvent", "bill", "shk", "free"}
Obj    == [where : Places, kind : Kind, quan : Nat, unpaid : BOOLEAN,
           no_charge : BOOLEAN]
BillX  == [bo_id : ObjId, bquan : Nat, useup : BOOLEAN, price : Nat]

ASSUME PriceAssumption ==
    /\ ListPrice \in [Kind -> Nat \ {0}] /\ Cost \in [Kind -> Nat \ {0}]
    \* charisma above 18 halves get_cost, and then odd prices break this
    /\ \A k \in Kind : ListPrice[k] <= 2 * Cost[k]
    /\ Saleable \subseteq Kind /\ Fees \subseteq Nat \ {0}
ASSUME ShopAssumption ==
    /\ Stock \in [ObjId -> Obj] /\ IsFiniteSet(ObjId)
    /\ \A o \in ObjId : Stock[o].where \in {"invent", "inside", "free"}
    /\ \A o \in ObjId : ~Stock[o].unpaid /\ Stock[o].quan > 0
    /\ {BILLSZ, APPEASEMENT} \subseteq Nat \ {0}
    /\ {Purse, Till, MaxOwed} \subseteq Nat /\ PastRobbery \subseteq Nat
    /\ Oversights \subseteq {"flee"}

VARIABLES
    obj,        \* every object
    bill,       \* bill_p[0 .. billct-1]
    shk,        \* the keeper: place, temper and accounts
    ugold,      \* u.ugold
    floorgold,  \* gold on the floor of the shop
    at,         \* where the hero is: "inside", "door" or "outside"
    impossible  \* impossible() has been called

vars == <<obj, bill, shk, ugold, floorgold, at, impossible>>

Shk == [place : {"home", "away", "dead"}, angry : BOOLEAN, surcharge : BOOLEAN,
        following : BOOLEAN, you : BOOLEAN, robbed : Nat, credit : Nat,
        debit : Nat, loan : Nat, mgold : Nat]

World == [obj |-> obj, bill |-> bill, shk |-> shk, ugold |-> ugold,
          floorgold |-> floorgold, impossible |-> impossible]

\* What every step does.  The shop is followed until its keeper dies, for then
\* shop_keeper() is null and none of this code changes more than the objects.
Becomes(W) == /\ shk.place # "dead"
              /\ W.shk.robbed <= MaxOwed
              /\ W.shk.debit <= MaxOwed
              /\ W.shk.credit <= MaxOwed
              /\ obj' = W.obj
              /\ bill' = W.bill
              /\ shk' = W.shk
              /\ ugold' = W.ugold
              /\ floorgold' = W.floorgold
              /\ impossible' = W.impossible

Impossible(W) == [W EXCEPT !.impossible = TRUE]

(***************************************************************************)
(* The bill.                                                               *)
(***************************************************************************)
OnBill(W, o) == \E i \in DOMAIN W.bill : W.bill[i].bo_id = o
Entry(W, o)  == CHOOSE i \in DOMAIN W.bill : W.bill[i].bo_id = o
Full(W)      == Len(W.bill) = BILLSZ

\* *bp = bill_p[--billct]
Unlist(b, i) == Front([b EXCEPT ![i] = Last(b)])

Unused(W) == {o \in ObjId : W.obj[o].where = "free"}
NewObj(W) == CHOOSE o \in Unused(W) : TRUE

Cleared(W, o, where) ==
    [W EXCEPT !.obj[o] = [@ EXCEPT !.where = where, !.quan = 1,
                                   !.unpaid = FALSE, !.no_charge = FALSE]]
Dealloc(W, o) == Cleared(W, o, "free")

\* What is on billobjs counts by its entry alone: dopay takes the quantity from
\* there, and nothing reads the flags again.
AddToBillObjs(W, o) == Cleared(W, o, "bill")

InHisShop(W) == W.shk.place = "home"

Raised(price)  == price + (price + 2) \div 3
Lowered(price) == price - (price + 3) \div 4

Reprice(b, Op(_)) == <<>> \o [i \in DOMAIN b |-> [b[i] EXCEPT !.price = Op(@)]]

RileShk(W) ==
    [W EXCEPT !.shk.angry = TRUE, !.shk.surcharge = TRUE,
              !.bill = IF W.shk.surcharge THEN @ ELSE Reprice(@, Raised)]
PacifyShk(W) ==
    [W EXCEPT !.shk.angry = FALSE, !.shk.surcharge = FALSE,
              !.bill = IF W.shk.surcharge THEN Reprice(@, Lowered) ELSE @]

\* shop_keeper() and next_shkp(): the surcharge follows the temper.
ShopKeeper(W) ==
    IF W.shk.angry = W.shk.surcharge THEN W
    ELSE IF W.shk.angry THEN RileShk(W) ELSE PacifyShk(W)

GetCost(W, o) == LET c == Cost[W.obj[o].kind]
                 IN  IF W.shk.surcharge THEN Raised(c) ELSE c

AddUpBill(W) ==
    LET total[i \in 0..Len(W.bill)] ==
            IF i = 0 THEN 0 ELSE total[i - 1] + W.bill[i].price * W.bill[i].bquan
    IN  total[Len(W.bill)]

SetPaid(W) ==
    [W EXCEPT !.obj = [o \in ObjId |->
                          IF @[o].where = "bill" THEN Dealloc(W, o).obj[o]
                          ELSE [@[o] EXCEPT !.unpaid = FALSE]],
              !.bill = <<>>, !.shk.credit = 0, !.shk.debit = 0, !.shk.loan = 0]

\* addtobill and add_one_tobill, by a customer whose u.ushops is this shop.
AddToBill(W, o, dummy) ==
    IF ~InHisShop(W) \/ OnBill(W, o) \/ Full(W) THEN W
    ELSE IF W.obj[o].no_charge THEN [W EXCEPT !.obj[o].no_charge = FALSE]
    ELSE [(IF dummy THEN AddToBillObjs(W, o) ELSE [W EXCEPT !.obj[o].unpaid = TRUE])
            EXCEPT !.bill = Append(@, [bo_id |-> o, bquan |-> W.obj[o].quan,
                                       useup |-> dummy, price |-> GetCost(W, o)])]

\* d has been split off from o.
SplitBill(W, o, d) ==
    LET i == Entry(W, o)
        n == W.obj[d].quan
        V == [W EXCEPT !.bill[i].bquan = @ - n,
                       !.impossible = @ \/ W.bill[i].bquan <= n]
    IN  IF ~InHisShop(W) \/ at = "outside" \/ ~OnBill(W, o) THEN Impossible(W)
        ELSE IF Full(W) THEN [V EXCEPT !.obj[d].unpaid = FALSE]
        ELSE [V EXCEPT !.bill = Append(@, [bo_id |-> d, bquan |-> n,
                                           useup |-> FALSE, price |-> W.bill[i].price])]

SplitObj(W, o, d, n) ==
    LET V == [W EXCEPT !.obj[d] = [W.obj[o] EXCEPT !.quan = n],
                       !.obj[o].quan = @ - n]
    IN  IF W.obj[o].unpaid THEN SplitBill(V, o, d) ELSE V

\* Mutant: what was used up of the stack is forgotten.
SubFromBillAll(W, o) ==
    LET V == [W EXCEPT !.obj[o].unpaid = FALSE]
    IN  IF ~OnBill(W, o)
        THEN IF W.obj[o].unpaid THEN Impossible(V) ELSE W
        ELSE [V EXCEPT !.bill = Unlist(@, Entry(W, o))]

SubFromBill(W, o) ==
    LET i == Entry(W, o)
        d == NewObj(W)
        V == [W EXCEPT !.obj[o].unpaid = FALSE]
        left == W.bill[i].bquan - W.obj[o].quan
    IN  IF ~OnBill(W, o)
        THEN IF W.obj[o].unpaid THEN Impossible(V) ELSE W
        ELSE IF left > 0
        THEN AddToBillObjs(
                 [V EXCEPT !.obj[d] = V.obj[o],
                           !.bill[i] = [@ EXCEPT !.bo_id = d, !.bquan = left,
                                                 !.useup = TRUE]], d)
        ELSE [V EXCEPT !.bill = Unlist(@, i)]

\* obfree(obj, NULL)
ObFree(W, o) ==
    IF OnBill(W, o)
    THEN AddToBillObjs([W EXCEPT !.bill[Entry(W, o)].useup = TRUE], o)
    ELSE Dealloc(W, o)

\* obfree(obj, merge)
\* Mutant: the entry of the stack is not enlarged.
ObFreeMergedUncounted(W, o, into) ==
    IF ~OnBill(W, o) THEN Dealloc(W, o)
    ELSE IF ~OnBill(W, into) THEN Impossible(W)
    ELSE Dealloc([W EXCEPT !.bill = Unlist(@, Entry(W, o))], o)

ObFreeMerged(W, o, into) ==
    LET i == Entry(W, o)
        j == Entry(W, into)
    IN  IF ~OnBill(W, o) THEN Dealloc(W, o)
        ELSE IF ~OnBill(W, into) THEN Impossible(W)
        ELSE Dealloc([W EXCEPT !.bill = Unlist([W.bill EXCEPT ![j].bquan = @ + W.bill[i].bquan],
                                               i)], o)

SamePrice(W, o, p) == /\ OnBill(W, o) /\ OnBill(W, p)
                      /\ W.bill[Entry(W, o)].price = W.bill[Entry(W, p)].price

Mergable(W, o, p) ==
    /\ o # p /\ W.obj[o].where = W.obj[p].where
    /\ W.obj[o].kind = W.obj[p].kind
    /\ W.obj[o].unpaid = W.obj[p].unpaid
    /\ W.obj[o].no_charge = W.obj[p].no_charge
    /\ W.obj[o].unpaid => SamePrice(W, o, p)

Merged(W, o, p) == ObFreeMerged([W EXCEPT !.obj[p].quan = @ + W.obj[o].quan], o, p)

\* o has been put where it now is, and may join a stack there (addinv, stackobj).
Stacked(W, o) == {W} \cup {Merged(W, o, p) : p \in {q \in ObjId : Mergable(W, o, q)}}

(***************************************************************************)
(* The accounts.                                                           *)
(***************************************************************************)
\* Mutant: credit covers everything.
CreditedAll(W, amount) == IF W.shk.credit > 0 THEN amount ELSE 0
Credited(W, amount) == IF W.shk.credit < amount THEN W.shk.credit ELSE amount

\* pay(amount, shkp) for amount > 0, with check_credit
Pay(W, amount) ==
    LET balance == amount - Credited(W, amount)
    IN  [W EXCEPT !.ugold = @ - balance,
                  !.shk.mgold = @ + balance,
                  !.shk.credit = @ - Credited(W, amount),
                  !.shk.robbed = IF @ > amount THEN @ - amount ELSE 0]

HotPursuit(W) == [RileShk(W) EXCEPT !.shk.you = TRUE, !.shk.following = TRUE]

MakeHappyShk(W) ==
    [PacifyShk(W) EXCEPT !.shk.following = FALSE, !.shk.robbed = 0,
                         !.shk.place = "home"]

RobShop(W) ==
    LET total == AddUpBill(W) + W.shk.debit
        V == SetPaid(W)
    IN  IF W.shk.credit >= total THEN V
        ELSE HotPursuit([V EXCEPT !.shk.robbed = @ + total - W.shk.credit])

Owes(W) == W.bill # <<>> \/ W.shk.debit > 0

\* Mutant: an open bill alone is no reason.
LeavesIndebted(W) == IF InHisShop(W) /\ W.shk.debit > 0 THEN RobShop(W) ELSE W
\* the end of u_left_shop, and remote_burglary
Leaves(W) == IF InHisShop(W) /\ Owes(W) THEN RobShop(W) ELSE W

MakeAngryShk(W) ==
    LET due == W.shk.robbed + AddUpBill(W) + W.shk.debit + W.shk.loan - W.shk.credit
        V == SetPaid(W)
    IN  HotPursuit(IF Owes(W) \/ W.shk.loan > 0 \/ W.shk.credit > 0
                   THEN [V EXCEPT !.shk.robbed = IF due < 0 THEN 0 ELSE due]
                   ELSE W)

UEnteredShop(W) ==
    IF InHisShop(W) /\ ~W.shk.you
    THEN [PacifyShk(W) EXCEPT !.shk.you = TRUE, !.shk.following = FALSE]
    ELSE W

StolenValue(W, o, peaceful) ==
    LET value == IF ~W.obj[o].no_charge /\ W.obj[o].kind \in Saleable
                 THEN GetCost(W, o) ELSE 0
        rest  == value - Credited(W, value)
        V     == [W EXCEPT !.shk.credit = @ - Credited(W, value)]
    IN  IF ~InHisShop(W) \/ value = 0 THEN W
        ELSE IF ~peaceful THEN HotPursuit([W EXCEPT !.shk.robbed = @ + value])
        ELSE IF W.shk.angry THEN [V EXCEPT !.shk.robbed = @ + rest]
        ELSE [V EXCEPT !.shk.debit = @ + rest]

CostlyGold(W, amount) ==
    LET delta == amount - Credited(W, amount)
    IN  IF ~InHisShop(W) THEN W
        ELSE [W EXCEPT !.shk.credit = @ - Credited(W, amount),
                       !.shk.debit = @ + delta, !.shk.loan = @ + delta]

\* sellobj for gold
\* Mutant: the loan is not repaid with the debit.
GiveGoldKeepLoan(W, amount) ==
    IF ~InHisShop(W) \/ W.shk.angry THEN W
    ELSE IF W.shk.debit >= amount THEN [W EXCEPT !.shk.debit = @ - amount]
    ELSE [W EXCEPT !.shk.credit = @ + amount - W.shk.debit, !.shk.debit = 0]

GiveGold(W, amount) ==
    IF ~InHisShop(W) \/ W.shk.angry THEN W
    ELSE IF W.shk.robbed > 0
    THEN [W EXCEPT !.shk.robbed = 0]    \* robbed -= (offer < 0), then 0
    ELSE IF W.shk.debit >= amount
    THEN [W EXCEPT !.shk.debit = @ - amount,
                   !.shk.loan = IF @ >= amount THEN @ - amount ELSE 0]
    ELSE [W EXCEPT !.shk.credit = @ + amount - W.shk.debit,
                   !.shk.debit = 0,
                   !.shk.loan = IF W.shk.debit > 0 THEN 0 ELSE @]

\* set_cost of n things: half or a third of the price, or a quarter less.
Offers(k, n) == LET tmp == {(ListPrice[k] * n) \div 2, (ListPrice[k] * n) \div 3}
                IN  tmp \cup {t - t \div 4 : t \in tmp}

\* sellobj for anything else, dropped inside the shop.
SellObj(W, o, answer, price) ==
    LET offer  == IF W.obj[o].kind \in Saleable THEN price ELSE 0
        kept   == [W EXCEPT !.obj[o].no_charge = TRUE]
        gold   == IF offer > W.shk.mgold THEN W.shk.mgold ELSE offer
        credit == (offer * 9) \div 10 + (IF offer <= 1 THEN 1 ELSE 0)
    IN  IF ~InHisShop(W) \/ at = "outside" THEN W
        ELSE IF W.obj[o].unpaid THEN SubFromBill(W, o)
        ELSE IF offer = 0 \/ answer = "dont" THEN kept
        ELSE IF W.shk.angry THEN W
        ELSE IF W.shk.robbed > 0 THEN [W EXCEPT !.shk.robbed = 0]
        ELSE IF Full(W) \/ answer = "no" THEN kept
        ELSE IF W.shk.mgold = 0 THEN [W EXCEPT !.shk.credit = @ + credit]
        ELSE [W EXCEPT !.ugold = @ + gold, !.shk.mgold = @ - gold]

(***************************************************************************)
(* Paying the bill.                                                        *)
(***************************************************************************)
Purchasing(W) == W.ugold + W.shk.credit

PayDebit(W) ==
    LET d == W.shk.debit
        balance == d - Credited(W, d)
    IN  [W EXCEPT !.ugold = @ - balance, !.shk.mgold = @ + balance,
                  !.shk.credit = @ - Credited(W, d),
                  !.shk.debit = 0, !.shk.loan = 0]

\* Mutant: the whole entry is paid where only the used-up part is struck off.
DoPayObjWhole(s) ==
    LET W == s.W
        e == W.bill[s.tmp]
        V == Pay(W, e.price * e.bquan)
    IN  IF e.price * e.bquan > Purchasing(W) THEN [s EXCEPT !.tmp = @ + 1]
        ELSE IF e.useup
        THEN [s EXCEPT !.W = Dealloc([V EXCEPT !.bill = Unlist(@, s.tmp)], e.bo_id)]
        ELSE IF s.pass = 0
        THEN [s EXCEPT !.W = [V EXCEPT !.bill[s.tmp].bquan = W.obj[e.bo_id].quan]]
        ELSE [s EXCEPT !.W = [V EXCEPT !.bill = Unlist(@, s.tmp), !.obj[e.bo_id].unpaid = FALSE]]

\* dopayobj on entry s.tmp, in pass s.pass.  s.yes holds what the hero
\* consents to; skipping moves to the next entry, buying removes this one.
DoPayObj(s) ==
    LET W == s.W
        e == W.bill[s.tmp]
        o == e.bo_id
        quan == IF e.useup THEN e.bquan ELSE W.obj[o].quan
        consumed == s.pass = 0
        n == IF ~consumed THEN quan
             ELSE IF e.bquan > quan THEN e.bquan - quan ELSE e.bquan
        refused == s.itemize /\ (<<s.pass, o>> \notin s.yes
                                 \/ (n < e.bquan /\ ~consumed))
        short == e.price * n > Purchasing(W)
        V == Pay(W, e.price * n)
        bought == [V EXCEPT !.bill = Unlist(@, s.tmp)]
    IN  IF ~W.obj[o].unpaid /\ ~e.useup
        THEN [s EXCEPT !.W = Impossible([W EXCEPT !.bill = Unlist(@, s.tmp)])]
        ELSE IF s.itemize /\ Purchasing(W) = 0 THEN [s EXCEPT !.stop = TRUE]
        ELSE IF refused \/ short
        THEN [s EXCEPT !.tmp = @ + 1, !.stop = ~refused /\ ~s.itemize]
        ELSE IF ~consumed
        THEN [s EXCEPT !.W = [bought EXCEPT !.obj[o].unpaid = FALSE]]
        ELSE IF n = e.bquan
        THEN [s EXCEPT !.W = Dealloc(bought, o)]
        ELSE [s EXCEPT !.W = [V EXCEPT !.bill[s.tmp].bquan = quan,
                                       !.bill[s.tmp].useup = FALSE,
                                       !.obj[o].unpaid = TRUE]]

\* One turn of dopay's loops.
PayEntry(s) ==
    LET W == s.W
        e == W.bill[s.tmp]
        o == e.bo_id
        found == W.obj[o].where # "free" /\ (e.useup <=> W.obj[o].where = "bill")
        whole == e.useup \/ W.obj[o].quan = e.bquan
    IN  IF s.stop THEN s
        ELSE IF s.tmp > Len(W.bill)
        THEN [s EXCEPT !.pass = 1, !.tmp = 1, !.stop = s.pass = 1]
        ELSE IF ~found
        THEN [s EXCEPT !.W = Impossible(SetPaid(W)), !.stop = TRUE]
        ELSE IF (s.pass = 1) = e.useup /\ whole THEN [s EXCEPT !.tmp = @ + 1]
        ELSE DoPayObj(s)

PayBill(W, itemize, yes) ==
    LET first == [W |-> W, tmp |-> 1, pass |-> 0, stop |-> FALSE,
                  itemize |-> itemize, yes |-> yes]
        turns[i \in 0..4 * BILLSZ + 2] ==
            IF i = 0 THEN first ELSE PayEntry(turns[i - 1])
    IN  turns[4 * BILLSZ + 2].W

Cheapest(W) == Min({W.bill[i].price * W.bill[i].bquan : i \in DOMAIN W.bill})

\* dopay when something is due in the shop the hero is in.
Settle(W, itemize, yes) ==
    LET V == PayDebit(W)
    IN  IF W.shk.debit > Purchasing(W) THEN W
        ELSE IF V.bill = <<>> \/ Purchasing(V) = 0 \/ Purchasing(V) < Cheapest(V) THEN V
        ELSE PayBill(V, itemize, yes)

\* dopay when nothing is on the bill, or to a keeper who is not in his shop.
Compensate(W, resident, stashed, calms) ==
    LET due == W.shk.robbed
        most == IF W.ugold < due THEN W.ugold ELSE due
        little == W.ugold < due \div 2 \/ (W.ugold < due /\ stashed)
    IN  IF ~resident /\ ~W.shk.angry
        THEN IF due = 0 \/ W.ugold = 0 THEN W
             ELSE IF little THEN Pay(W, most)
             ELSE MakeHappyShk(Pay(W, most))
        ELSE IF due > 0
        THEN IF little THEN W ELSE MakeHappyShk(Pay(W, most))
        ELSE IF ~W.shk.angry \/ W.ugold < APPEASEMENT THEN W
        ELSE IF calms THEN MakeHappyShk(Pay(W, APPEASEMENT))
        ELSE Pay(W, APPEASEMENT)

(***************************************************************************)
(* The hero.                                                               *)
(***************************************************************************)
Init == /\ obj = Stock
        /\ bill = <<>>
        /\ \E r \in PastRobbery : \E mad \in BOOLEAN :
              /\ mad => r > 0
              /\ shk = [place |-> "home", angry |-> mad, surcharge |-> mad,
                        following |-> FALSE, you |-> r = 0, robbed |-> r,
                        credit |-> 0, debit |-> 0, loan |-> 0, mgold |-> Till]
        /\ ugold = Purse
        /\ floorgold = 0
        /\ at = "outside"
        /\ impossible = FALSE

Now  == ShopKeeper(World)
Here == IF at = "inside" THEN "inside" ELSE "outside"    \* the door is no shop floor
Held == {o \in ObjId : obj[o].where = "invent"}

\* The world after o is split if only n of it are meant, and the part meant.
Part(o, n) == IF n = obj[o].quan
              THEN [W |-> Now, o |-> o]
              ELSE [W |-> SplitObj(Now, o, NewObj(Now), n), o |-> NewObj(Now)]

\* pickup_object and pick_obj; from outside with a grappling hook.
PickUp(o, n) ==
    LET P == Part(o, n)
        B == IF obj[o].where = "inside" THEN AddToBill(P.W, P.o, FALSE) ELSE P.W
        R == IF obj[o].where = "inside" /\ at = "outside" THEN Leaves(B) ELSE B
        I == [R EXCEPT !.obj[P.o].where = "invent", !.obj[P.o].no_charge = FALSE]
    IN  /\ obj[o].where \in {Here, "inside"} /\ n \in 1..obj[o].quan
        /\ n < obj[o].quan => Unused(Now) # {}
        /\ \E W \in Stacked(I, P.o) : Becomes(W)
        /\ UNCHANGED at

\* drop and dropy; placed before sellobj looks at it.
Drop(o, n, answer) ==
    LET P == Part(o, n)
        D == [P.W EXCEPT !.obj[P.o].where = Here]
    IN  /\ o \in Held /\ n \in 1..obj[o].quan
        /\ Unused(Now) # {}
        /\ \E price \in IF answer = "yes" THEN Offers(obj[o].kind, n) ELSE {1} :
           \E W \in Stacked(IF at = "inside" THEN SellObj(D, P.o, answer, price) ELSE D,
                            P.o) : Becomes(W)
        /\ UNCHANGED at

\* check_shop_obj, for an object in flight that lands or breaks.
CheckShopObj(W, o, lands, price) ==
    LET gone == IF W.obj[o].unpaid
                THEN SubFromBill(StolenValue(W, o, ~W.shk.angry), o) ELSE W
    IN  IF lands = "broken" THEN [gone EXCEPT !.obj[o].no_charge = TRUE]
        ELSE IF lands = "outside" \/ ~InHisShop(W) THEN gone
        ELSE IF at # "inside" THEN W
        ELSE SellObj(W, o, "yes", price)

\* throwit with one of o.
Throw(o, lands) ==
    LET P == Part(o, 1)
    IN  /\ o \in Held /\ at # "outside"
        /\ Unused(Now) # {}
        /\ \E price \in Offers(obj[o].kind, 1) :
             LET C == CheckShopObj(P.W, P.o, lands, price)
             IN  IF lands = "broken" THEN Becomes(ObFree(C, P.o))
                 ELSE \E W \in Stacked([C EXCEPT !.obj[P.o].where = lands], P.o) : Becomes(W)
        /\ UNCHANGED at

\* doorganize
Merge(o, p) == /\ {o, p} \subseteq Held /\ Mergable(Now, o, p)
               /\ Becomes(Merged(Now, o, p))
               /\ UNCHANGED at

UseUp(o) == /\ o \in Held
            /\ Becomes(IF obj[o].quan > 1 THEN [Now EXCEPT !.obj[o].quan = @ - 1]
                       ELSE ObFree(Now, o))
            /\ UNCHANGED at

\* useupf, by a hero who may be standing elsewhere
UseUpF(o) ==
    LET P == Part(o, 1)
        B == IF at = "outside" THEN StolenValue(P.W, P.o, FALSE)
             ELSE AddToBill(P.W, P.o, FALSE)
    IN  /\ obj[o].where = "inside"
        /\ obj[o].quan > 1 => Unused(Now) # {}
        /\ Becomes(ObFree(B, P.o))
        /\ UNCHANGED at

\* bill_dummy_object, for an unpaid object that is changed by its use
BillDummyObject(o) ==
    LET V == SubFromBill(Now, o)
        d == NewObj(V)
        C == [V EXCEPT !.obj[d] = [V.obj[o] EXCEPT !.where = "free"]]
        B == AddToBill(C, d, TRUE)
        D == IF B.obj[d].where = "bill" THEN B ELSE Dealloc(B, d)
    IN  /\ o \in Held /\ obj[o].unpaid /\ at = "inside"
        /\ Unused(Now) # {} /\ Unused(V) # {}
        /\ Becomes([D EXCEPT !.obj[o].no_charge = TRUE, !.obj[o].unpaid = FALSE])
        /\ UNCHANGED at

CheckUnpaidUsage(o, fee) ==
    /\ o \in Held /\ obj[o].unpaid /\ at # "outside" /\ InHisShop(World)
    /\ Becomes([Now EXCEPT !.shk.debit = @ + fee])
    /\ UNCHANGED at

PickUpGold(n) == /\ at = "inside" /\ n \in 1..floorgold
                 /\ Becomes([CostlyGold(Now, n) EXCEPT !.ugold = @ + n, !.floorgold = @ - n])
                 /\ UNCHANGED at

DropGold(n) == /\ at = "inside" /\ n \in 1..ugold
               /\ Becomes([GiveGold(Now, n) EXCEPT !.ugold = @ - n, !.floorgold = @ + n])
               /\ UNCHANGED at

Resident == InHisShop(World) /\ at # "outside"

\* dopay, to a keeper who is owed something; and otherwise
DoPay(itemize, yes) ==
    /\ Owes(World) /\ (Resident \/ shk.angry)
    /\ itemize \/ Len(bill) > 1
    /\ Becomes(IF Resident THEN Settle(Now, itemize, yes) ELSE Impossible(Now))
    /\ UNCHANGED at

DoCompensate(stashed, calms) ==
    /\ ~Owes(World) \/ ~(Resident \/ shk.angry)
    /\ Becomes(Compensate(Now, Resident, stashed, calms))
    /\ UNCHANGED at

\* check_special_room: to the door, through it, or by teleportation.
Go(to, awake) ==
    /\ to # at
    /\ awake => to = "door"
    /\ at' = to
    /\ Becomes(IF at = "outside" THEN UEnteredShop(Now)
               ELSE IF to = "outside" \/ (to = "door" /\ ~awake) THEN Leaves(Now)
               ELSE Now)

\* shopdig(1): the keeper grabs all that is not worn; then the hero is gone.
FallThroughHole(worn, grabs) ==
    LET taken == SetToSeq(Held \ worn)
        grab[i \in 0..Len(taken)] ==
            IF i = 0 THEN Now
            ELSE [SubFromBill(grab[i - 1], taken[i]) EXCEPT !.obj[taken[i]].where = "shk"]
        G == grab[Len(taken)]
    IN  /\ at = "inside"
        /\ Cardinality(Unused(Now)) >= Len(taken)
        /\ IF grabs THEN InHisShop(World) /\ Owes(World) ELSE worn = {}
        /\ Becomes(Leaves(IF grabs THEN G ELSE Now))
        /\ at' = "outside"

(***************************************************************************)
(* Other monsters: steal from the hero, take from the floor, use, drop.    *)
(***************************************************************************)
MonsterTakes(o) ==
    /\ obj[o].where \in {"invent", "inside", "outside"}
    /\ \E W \in Stacked([Now EXCEPT !.obj[o].where = "minvent"], o) : Becomes(W)
    /\ UNCHANGED at

MUseUp(o) ==
    /\ obj[o].where = "minvent"
    /\ Becomes(IF obj[o].quan > 1 THEN [Now EXCEPT !.obj[o].quan = @ - 1]
               ELSE ObFree(Now, o))
    /\ UNCHANGED at

MDropObj(o, where) ==
    /\ obj[o].where = "minvent"
    /\ \E W \in Stacked([Now EXCEPT !.obj[o].where = where], o) : Becomes(W)
    /\ UNCHANGED at

(***************************************************************************)
(* The keeper.                                                             *)
(***************************************************************************)
SetMangry == /\ ~shk.angry
             /\ Becomes([World EXCEPT !.shk.angry = TRUE])
             /\ UNCHANGED at

\* a scroll of taming
Soothe == /\ shk.angry
          /\ Becomes(MakeHappyShk(Now))
          /\ UNCHANGED at

\* rloc_to, or a hole dug under the keeper
SendAway == /\ InHisShop(World)
            /\ Becomes([MakeAngryShk(Now) EXCEPT !.shk.place = "away"])
            /\ UNCHANGED at

\* shk_move leaves an angry keeper who follows to m_move.  While the hero
\* owes something he heads for the hero, who is inside, unless he flees.
FollowOut == /\ InHisShop(World) /\ shk.following
             /\ Owes(World) => "flee" \in Oversights
             /\ Becomes([Now EXCEPT !.shk.place = "away"])
             /\ UNCHANGED at

\* after_shk_move
ComeBack == /\ shk.place = "away"
            /\ LET V == [Now EXCEPT !.shk.place = "home"]
               IN  Becomes(IF at = "outside" THEN V ELSE UEnteredShop(V))
            /\ UNCHANGED at

ShkGone ==
    LET V == IF at # "outside" THEN SetPaid(Now) ELSE Now
    IN  /\ Becomes([V EXCEPT !.shk.place = "dead",
                             !.obj = [o \in ObjId |->
                                 IF V.obj[o].where = "inside"
                                 THEN [V.obj[o] EXCEPT !.no_charge = FALSE]
                                 ELSE V.obj[o]]])
        /\ UNCHANGED at

\* What the hero is asked: in the first pass for what is used up, in the second
\* for what is not.
Asked == {<<0, bill[i].bo_id>> : i \in {j \in DOMAIN bill :
                 bill[j].useup \/ obj[bill[j].bo_id].quan < bill[j].bquan}}
         \cup {<<1, bill[i].bo_id>> : i \in {j \in DOMAIN bill : ~bill[j].useup}}

Command ==
    \/ \E o \in ObjId :
         \/ \E n \in 1..obj[o].quan : \/ PickUp(o, n)
                                      \/ \E a \in {"yes", "no", "dont"} : Drop(o, n, a)
         \/ \E lands \in {"inside", "outside", "broken"} : Throw(o, lands)
         \/ \E p \in ObjId : Merge(o, p)
         \/ UseUp(o)
         \/ UseUpF(o)
         \/ BillDummyObject(o)
         \/ \E fee \in Fees : CheckUnpaidUsage(o, fee)
    \/ \E n \in 1..floorgold : PickUpGold(n)
    \/ \E n \in 1..ugold : DropGold(n)
    \/ \E yes \in SUBSET Asked : DoPay(TRUE, yes)
    \/ DoPay(FALSE, {})
    \/ \E stashed, calms \in BOOLEAN : DoCompensate(stashed, calms)
    \/ \E to \in {"inside", "door", "outside"}, awake \in BOOLEAN : Go(to, awake)
    \/ \E worn \in SUBSET Held, grabs \in BOOLEAN : FallThroughHole(worn, grabs)

Next == \/ Command
        \/ \E o \in ObjId : \/ MonsterTakes(o)
                            \/ MUseUp(o)
                            \/ \E where \in {"inside", "outside"} : MDropObj(o, where)
        \/ SetMangry
        \/ Soothe
        \/ SendAway
        \/ FollowOut
        \/ ComeBack
        \/ ShkGone

Spec == Init /\ [][Next]_vars

(***************************************************************************)
(* Properties.                                                             *)
(***************************************************************************)
TypeOK == /\ obj \in [ObjId -> Obj]
          /\ bill \in Seq(BillX)
          /\ shk \in Shk
          /\ ugold \in Nat /\ floorgold \in Nat
          /\ at \in {"inside", "door", "outside"}
          /\ impossible \in BOOLEAN

Loose == {o \in ObjId : obj[o].where \notin {"free", "bill"}}

\* Every price on the bill is what get_cost would ask today: rounding leaves no
\* trace of a surcharge that came and went (rile_shk, pacify_shk, get_cost).
PricesFollowTemper ==
    \A i \in DOMAIN bill : bill[i].price = GetCost(World, bill[i].bo_id)

\* The records of what is owed for agree, whatever is split, merged, used up,
\* thrown and paid for: an object is unpaid exactly if an entry that is not
\* used up names it, with at least its quantity; the used-up entries name
\* exactly the objects on billobjs; no object is billed twice; prices are
\* today's; and splitbill, obfree, sub_one_frombill, dopay and dopayobj never
\* come to their impossible().
BillAgrees ==
    LET named(used) == {bill[i].bo_id : i \in {j \in DOMAIN bill : bill[j].useup = used}}
    IN  /\ Len(bill) <= BILLSZ
        /\ Cardinality(named(TRUE)) + Cardinality(named(FALSE)) = Len(bill)
        /\ named(FALSE) = {o \in Loose : obj[o].unpaid}
        /\ named(TRUE) = {o \in ObjId : obj[o].where = "bill"}
        /\ \A i \in DOMAIN bill : ~bill[i].useup => bill[i].bquan >= obj[bill[i].bo_id].quan
        /\ PricesFollowTemper
        /\ ~impossible

\* Gold only changes hands: what pay, dopay, sellobj and the gold on the floor
\* do to the purse of the one they undo to that of the other; nobody pays what
\* he has not got; and the gold taken from the shop is a part of the debt.
GoldConserved == /\ ugold + shk.mgold + floorgold = Purse + Till
                 /\ ugold >= 0 /\ shk.mgold >= 0 /\ floorgold >= 0
                 /\ 0 <= shk.loan /\ shk.loan <= shk.debit

\* A hero who is outside carries nothing that is unpaid and has no bill open;
\* u_left_shop, remote_burglary and setpaid have seen to it.
SettledOutside == at = "outside" => /\ bill = <<>>
                                    /\ \A o \in Loose : ~obj[o].unpaid

\* "not meaningful for invent" (addinv), "only applies to objects outside
\* invent" (pick_obj): what the hero carries is not marked no_charge.
\* bill_dummy_object does not keep to it; NoFreeLunch presupposes it.
NoChargeOutsideOnly == \A o \in Held : ~obj[o].no_charge

\* What the hero would have if he settled everything: the gold and credit less
\* what is owed for use, theft and used-up goods, and the goods he owns, all at
\* the price without surcharge.
Worth(k, n) == n * Cost[k]
Estate ==
    LET spent(i) == IF bill[i].useup THEN bill[i].bquan
                    ELSE bill[i].bquan - obj[bill[i].bo_id].quan
        own == {o \in Loose : \/ obj[o].where = "inside" /\ obj[o].no_charge
                              \/ obj[o].where \in {"invent", "outside"}
                                 /\ ~obj[o].unpaid}
    IN  ugold + shk.credit - shk.debit - shk.robbed
        + SumFunction([o \in own |-> Worth(obj[o].kind, obj[o].quan)])
        - SumFunction([i \in DOMAIN bill |-> Worth(obj[bill[i].bo_id].kind, spent(i))])

\* A tended shop gives nothing away: while the keeper stays in his shop, was
\* not robbed and has room on his bill, no command leaves the hero better off,
\* through any mix of splitting, merging, partial use, selling and paying;
\* unless the hero carries something marked no_charge.
NoFreeLunch ==
    [][(/\ shk.place = "home" /\ shk'.place = "home"
        /\ shk.robbed = 0 /\ Len(bill) < BILLSZ
        /\ \A o \in ObjId : obj[o].where = "minvent" <=> obj'[o].where = "minvent"
        /\ NoChargeOutsideOnly) => Estate' <= Estate]_vars

\* dopay takes from the hero exactly what it strikes off the bill and the
\* debt, in whatever order, pass and selection the entries are paid.
PaysWhatIsBilled ==
    [][(/\ ugold' + shk'.credit < ugold + shk.credit
        /\ at' = at /\ floorgold' = floorgold /\ shk'.place = shk.place
        /\ shk.robbed = 0 /\ shk'.robbed = 0 /\ shk'.debit <= shk.debit
        /\ shk'.surcharge = shk.surcharge /\ ~shk.angry
        /\ \A o \in Loose : obj'[o].where = obj[o].where /\ obj'[o].quan = obj[o].quan)
       => ugold' + shk'.credit - shk'.debit - AddUpBill(World)'
          = ugold + shk.credit - shk.debit - AddUpBill(World)]_vars
=============================================================================
