--------------------------- MODULE ShopBillProofs ---------------------------
(***************************************************************************)
(* Theorems about module ShopBill, for any goods, prices, purses, accounts *)
(* and size of the bill: what its arithmetic does, and that every command  *)
(* leaves the bill, the goods and the accounts in agreement.               *)
(***************************************************************************)
EXTENDS ShopBill, ListTheorems

(***************************************************************************)
(* rile_shk adds a third, rounded up, to every price on the bill, and      *)
(* pacify_shk takes a quarter, rounded up, away again: whatever the price, *)
(* it comes out as it was, so that no keeper can be made to lower his      *)
(* prices by angering and soothing him.                                    *)
(***************************************************************************)
THEOREM SurchargeUndone == \A p \in Nat : Lowered(Raised(p)) = p
  BY DEF Lowered, Raised

\* The surcharge never lowers a price, and raises each that is not zero.
THEOREM SurchargeRaises ==
    \A p \in Nat : /\ Raised(p) \in Nat
                   /\ p > 0 => Raised(p) > p
  BY DEF Raised

Worlds == [obj : [ObjId -> Obj], bill : Seq(BillX), shk : Shk, ugold : Nat,
           floorgold : Nat, impossible : BOOLEAN]

Gold(W) == W.ugold + W.shk.mgold + W.floorgold
LoanInDebit(W) == W.shk.loan <= W.shk.debit

\* check_credit takes from the credit no more than there is, nor than asked for.
LEMMA CreditedWithin ==
    ASSUME NEW W \in Worlds, NEW amount \in Nat
    PROVE  /\ Credited(W, amount) \in Nat
           /\ Credited(W, amount) <= amount
           /\ Credited(W, amount) <= W.shk.credit
           /\ amount <= Purchasing(W) => amount - Credited(W, amount) <= W.ugold
  BY DEF Worlds, Shk, Credited, Purchasing

(***************************************************************************)
(* pay, for an amount that gold and credit cover: no gold is made or lost, *)
(* no balance falls below zero, and gold and credit together are less by   *)
(* exactly the amount.                                                     *)
(***************************************************************************)
THEOREM PayIsExact ==
    ASSUME NEW W \in Worlds, NEW amount \in Nat, amount <= Purchasing(W)
    PROVE  /\ Pay(W, amount).ugold \in Nat /\ Pay(W, amount).shk.mgold \in Nat
           /\ Pay(W, amount).shk.credit \in Nat /\ Pay(W, amount).shk.robbed \in Nat
           /\ Gold(Pay(W, amount)) = Gold(W)
           /\ Purchasing(Pay(W, amount)) = Purchasing(W) - amount
<1> DEFINE c == Credited(W, amount)
           P == Pay(W, amount)
<1>1. /\ c \in Nat /\ c <= amount /\ c <= W.shk.credit
      /\ amount - c <= W.ugold
  BY CreditedWithin
<1>2. /\ W.shk.mgold \in Nat /\ W.shk.credit \in Nat
      /\ W.ugold \in Nat /\ W.floorgold \in Nat
  BY DEF Worlds, Shk
<1>3. /\ P.ugold = W.ugold - (amount - c)
      /\ P.floorgold = W.floorgold
  BY DEF Pay, Worlds
<1>4. /\ P.shk.mgold = W.shk.mgold + (amount - c)
      /\ P.shk.credit = W.shk.credit - c
  BY <1>1 DEF Pay, Worlds, Shk
<1>5. P.shk.robbed = IF W.shk.robbed > amount THEN W.shk.robbed - amount ELSE 0
  BY DEF Pay, Worlds, Shk
<1>6. W.shk.robbed \in Nat
  BY DEF Worlds, Shk
<1> HIDE DEF c, P
<1>7. /\ P.ugold \in Nat /\ P.shk.mgold \in Nat /\ P.shk.credit \in Nat
      /\ P.shk.robbed \in Nat
  BY <1>1, <1>2, <1>3, <1>4, <1>5, <1>6
<1>8. Gold(P) = Gold(W)
  BY <1>1, <1>2, <1>3, <1>4 DEF Gold
<1>9. Purchasing(P) = Purchasing(W) - amount
  BY <1>1, <1>2, <1>3, <1>4 DEF Purchasing
<1> QED
  BY <1>7, <1>8, <1>9 DEF P

(***************************************************************************)
(* The gold taken from the shop stays a part of the debt: picking gold up  *)
(* (costly_gold), giving it back (sellobj), paying the debit and closing   *)
(* the accounts each keep the loan within the debit.                       *)
(***************************************************************************)
THEOREM LoanStaysInDebit ==
    ASSUME NEW W \in Worlds, LoanInDebit(W), NEW amount \in Nat
    PROVE  /\ LoanInDebit(CostlyGold(W, amount))
           /\ LoanInDebit(GiveGold(W, amount))
           /\ LoanInDebit(PayDebit(W))
           /\ LoanInDebit(SetPaid(W))
<1>1. W.shk.loan \in Nat /\ W.shk.debit \in Nat /\ W.shk.credit \in Nat
  BY DEF Worlds, Shk
<1>2. Credited(W, amount) \in Nat /\ Credited(W, amount) <= amount
  BY CreditedWithin
<1>3. LoanInDebit(CostlyGold(W, amount))
  <2> DEFINE delta == amount - Credited(W, amount)
  <2>1. CASE InHisShop(W)
    <3>1. /\ CostlyGold(W, amount).shk.loan = W.shk.loan + delta
          /\ CostlyGold(W, amount).shk.debit = W.shk.debit + delta
      BY <2>1, <1>2 DEF CostlyGold, Worlds, Shk
    <3> QED
      BY <3>1, <1>1, <1>2 DEF LoanInDebit
  <2>2. CASE ~InHisShop(W)
    BY <2>2 DEF CostlyGold
  <2> QED
    BY <2>1, <2>2
<1>4. LoanInDebit(GiveGold(W, amount))
  <2>1. CASE ~InHisShop(W) \/ W.shk.angry
    BY <2>1 DEF GiveGold
  <2>2. CASE InHisShop(W) /\ ~W.shk.angry /\ W.shk.robbed > 0
    BY <2>2, <1>1 DEF GiveGold, LoanInDebit, Worlds, Shk
  <2>3. CASE InHisShop(W) /\ ~W.shk.angry /\ ~(W.shk.robbed > 0) /\ W.shk.debit >= amount
    <3>1. /\ GiveGold(W, amount).shk.debit = W.shk.debit - amount
          /\ GiveGold(W, amount).shk.loan =
                 IF W.shk.loan >= amount THEN W.shk.loan - amount ELSE 0
      BY <2>3 DEF GiveGold, Worlds, Shk
    <3> QED
      BY <3>1, <2>3, <1>1 DEF LoanInDebit
  <2>4. CASE InHisShop(W) /\ ~W.shk.angry /\ ~(W.shk.robbed > 0) /\ ~(W.shk.debit >= amount)
    <3>1. /\ GiveGold(W, amount).shk.debit = 0
          /\ GiveGold(W, amount).shk.loan = IF W.shk.debit > 0 THEN 0 ELSE W.shk.loan
      BY <2>4 DEF GiveGold, Worlds, Shk
    <3> QED
      BY <3>1, <1>1 DEF LoanInDebit
  <2> QED
    BY <2>1, <2>2, <2>3, <2>4
<1>5. LoanInDebit(PayDebit(W))
  <2>1. PayDebit(W).shk.loan = 0 /\ PayDebit(W).shk.debit = 0
    BY DEF PayDebit, Worlds, Shk
  <2> QED
    BY <2>1 DEF LoanInDebit
<1>6. LoanInDebit(SetPaid(W))
  <2>1. SetPaid(W).shk.loan = 0 /\ SetPaid(W).shk.debit = 0
    BY DEF SetPaid, Worlds, Shk
  <2> QED
    BY <2>1 DEF LoanInDebit
<1> QED
  BY <1>3, <1>4, <1>5, <1>6

(***************************************************************************)
(* The bill as the set of its entries.                                     *)
(***************************************************************************)
Entries(b)  == {b[i] : i \in 1..Len(b)}
\* No object is billed twice.
Distinct(b) == \A i, j \in 1..Len(b) : b[i].bo_id = b[j].bo_id => i = j

\* An entry has its place on the bill.
LEMMA BillIs ==
    ASSUME NEW b \in Seq(BillX)
    PROVE  /\ Len(b) \in Nat /\ DOMAIN b = 1..Len(b) /\ Entries(b) \in SUBSET BillX
           /\ b = <<>> <=> Len(b) = 0
           /\ b = <<>> <=> Entries(b) = {}
<1>1. DOMAIN b = 1..Len(b) /\ Len(b) \in Nat /\ \A i \in 1..Len(b) : b[i] \in BillX
  BY LenProperties, ElementOfSeq
<1>2. b = <<>> <=> Len(b) = 0
  BY EmptySeq
<1>3. Len(b) = 0 \/ 1 \in 1..Len(b)
  BY <1>1
<1> QED BY <1>1, <1>2, <1>3 DEF Entries

\* addtobill puts an entry at the end.
LEMMA Listed ==
    ASSUME NEW b \in Seq(BillX), NEW e \in BillX
    PROVE  /\ Append(b, e) \in Seq(BillX) /\ Len(Append(b, e)) = Len(b) + 1
           /\ Entries(Append(b, e)) = Entries(b) \cup {e}
           /\ Distinct(b) /\ (\A f \in Entries(b) : f.bo_id # e.bo_id) => Distinct(Append(b, e))
<1> DEFINE c == Append(b, e)
<1>1. /\ c \in Seq(BillX) /\ Len(c) = Len(b) + 1 /\ c[Len(b) + 1] = e
      /\ \A i \in 1..Len(b) : c[i] = b[i]
  BY AppendProperties
<1>2. Len(b) \in Nat
  BY BillIs
<1> HIDE DEF c
<1>3. 1..Len(c) = (1..Len(b)) \cup {Len(b) + 1}
  BY <1>1, <1>2
<1>4. Entries(c) = Entries(b) \cup {e}
  BY <1>1, <1>3 DEF Entries
<1>5. ASSUME Distinct(b), \A f \in Entries(b) : f.bo_id # e.bo_id,
             NEW i \in 1..Len(c), NEW j \in 1..Len(c), c[i].bo_id = c[j].bo_id
      PROVE  i = j
  <2>1. \A k \in 1..Len(b) : b[k].bo_id # e.bo_id
    BY <1>5 DEF Entries
  <2> QED BY <1>1, <1>3, <1>5, <2>1 DEF Distinct
<1> QED BY <1>1, <1>4, <1>5 DEF Distinct, c

\* An entry is changed in its place.
LEMMA Amended ==
    ASSUME NEW b \in Seq(BillX), NEW i \in 1..Len(b), NEW e \in BillX, Distinct(b),
           \A f \in Entries(b) \ {b[i]} : f.bo_id # e.bo_id
    PROVE  /\ [b EXCEPT ![i] = e] \in Seq(BillX) /\ Len([b EXCEPT ![i] = e]) = Len(b)
           /\ [b EXCEPT ![i] = e][i] = e
           /\ \A j \in 1..Len(b) : j # i => [b EXCEPT ![i] = e][j] = b[j]
           /\ Entries([b EXCEPT ![i] = e]) = (Entries(b) \ {b[i]}) \cup {e}
           /\ Distinct([b EXCEPT ![i] = e])
<1> DEFINE c == [b EXCEPT ![i] = e]
<1>1. /\ c \in Seq(BillX) /\ Len(c) = Len(b)
      /\ \A j \in 1..Len(b) : c[j] = IF j = i THEN e ELSE b[j]
  BY ExceptSeq
<1> HIDE DEF c
<1>2. \A j \in 1..Len(b) : j # i => b[j] # b[i] /\ b[j].bo_id # e.bo_id
  BY DEF Distinct, Entries
<1>3. Entries(c) = (Entries(b) \ {b[i]}) \cup {e}
  <2>1. ASSUME NEW x \in Entries(c) PROVE x \in (Entries(b) \ {b[i]}) \cup {e}
    BY <1>1, <1>2 DEF Entries
  <2>2. ASSUME NEW x \in Entries(b) \ {b[i]} PROVE x \in Entries(c)
    BY <1>1 DEF Entries
  <2>3. e \in Entries(c)
    BY <1>1 DEF Entries
  <2> QED BY <2>1, <2>2, <2>3
<1>4. Distinct(c)
  BY <1>1, <1>2 DEF Distinct
<1> QED BY <1>1, <1>3, <1>4 DEF c

\* *bp = bill_p[--billct]: an entry is taken off.
LEMMA Unlisted ==
    ASSUME NEW b \in Seq(BillX), NEW i \in 1..Len(b), Distinct(b)
    PROVE  /\ Unlist(b, i) \in Seq(BillX) /\ Len(Unlist(b, i)) = Len(b) - 1
           /\ Entries(Unlist(b, i)) = Entries(b) \ {b[i]}
           /\ Distinct(Unlist(b, i))
<1> DEFINE n == Len(b)
           c == [b EXCEPT ![i] = b[n]]
           d == SubSeq(c, 1, n - 1)
<1>1. n \in Nat /\ n >= 1 /\ i \in 1..n /\ n \in 1..n /\ \A j \in 1..n : b[j] \in BillX
  BY BillIs, ElementOfSeq
<1>2. /\ c \in Seq(BillX) /\ Len(c) = n
      /\ \A j \in 1..n : c[j] = IF j = i THEN b[n] ELSE b[j]
  BY <1>1, ExceptSeq
<1>3. Unlist(b, i) = d
  BY <1>2 DEF Unlist, Front, Last
<1> HIDE DEF n, c
<1>4. \A j \in 1..n - 1 : c[j] \in BillX
  BY <1>1, <1>2
<1>5. /\ d \in Seq(BillX) /\ Len(d) = IF 1 <= n - 1 THEN (n - 1) - 1 + 1 ELSE 0
      /\ \A j \in 1..(n - 1) - 1 + 1 : d[j] = c[1 + j - 1]
  BY <1>1, <1>4, SubSeqProperties
<1>6. Len(d) = n - 1 /\ \A j \in 1..n - 1 : d[j] = IF j = i THEN b[n] ELSE b[j]
  BY <1>1, <1>2, <1>5
<1> HIDE DEF d
<1>7. \A j, k \in 1..n : b[j].bo_id = b[k].bo_id => j = k
  BY DEF Distinct, n
<1>8. Entries(d) = Entries(b) \ {b[i]}
  <2>1. Entries(d) = {d[j] : j \in 1..n - 1} /\ Entries(b) = {b[j] : j \in 1..n}
    BY <1>6 DEF Entries, n
  <2>2. ASSUME NEW j \in 1..n - 1 PROVE d[j] \in Entries(b) \ {b[i]}
    <3>1. CASE j = i
      <4>1. d[j] = b[n] /\ n # i
        BY <1>1, <1>6, <3>1
      <4> QED BY <1>1, <1>7, <2>1, <4>1
    <3>2. CASE j # i
      <4>1. d[j] = b[j] /\ j \in 1..n
        BY <1>1, <1>6, <3>2
      <4> QED BY <1>1, <1>7, <2>1, <3>2, <4>1
    <3> QED BY <3>1, <3>2
  <2>3. ASSUME NEW j \in 1..n, j # i PROVE b[j] \in Entries(d)
    <3>1. CASE j = n
      <4>1. i \in 1..n - 1 /\ d[i] = b[n]
        BY <1>1, <1>6, <2>3, <3>1
      <4> QED BY <2>1, <3>1, <4>1
    <3>2. CASE j # n
      <4>1. j \in 1..n - 1 /\ d[j] = b[j]
        BY <1>1, <1>6, <2>3, <3>2
      <4> QED BY <2>1, <4>1
    <3> QED BY <3>1, <3>2
  <2> QED BY <2>1, <2>2, <2>3
<1>9. ASSUME NEW j \in 1..Len(d), NEW k \in 1..Len(d), d[j].bo_id = d[k].bo_id PROVE j = k
  <2>1. j \in 1..n /\ k \in 1..n /\ j # n /\ k # n
    BY <1>1, <1>6
  <2> QED BY <1>1, <1>6, <1>7, <1>9, <2>1
<1> QED BY <1>3, <1>5, <1>6, <1>8, <1>9 DEF Distinct, n

\* rile_shk and pacify_shk change the prices and nothing else.
LEMMA RaisedBill ==
    ASSUME NEW b \in Seq(BillX)
    PROVE  /\ Reprice(b, Raised) \in Seq(BillX) /\ Len(Reprice(b, Raised)) = Len(b)
           /\ \A i \in 1..Len(b) : Reprice(b, Raised)[i] = [b[i] EXCEPT !.price = Raised(@)]
<1> DEFINE c == [i \in DOMAIN b |-> [b[i] EXCEPT !.price = Raised(@)]]
<1>1. DOMAIN b = 1..Len(b) /\ Len(b) \in Nat /\ \A i \in 1..Len(b) : b[i] \in BillX
  BY BillIs, ElementOfSeq
<1>2. \A i \in 1..Len(b) : [b[i] EXCEPT !.price = Raised(@)] \in BillX
  BY <1>1, SurchargeRaises DEF BillX
<1>3. c \in Seq(BillX) /\ Len(c) = Len(b)
  BY <1>1, <1>2
<1>4. Reprice(b, Raised) = c
  BY <1>3, ConcatEmptySeq DEF Reprice
<1> QED BY <1>1, <1>3, <1>4

LEMMA LoweredBill ==
    ASSUME NEW b \in Seq(BillX), \A i \in 1..Len(b) : Lowered(b[i].price) \in Nat
    PROVE  /\ Reprice(b, Lowered) \in Seq(BillX) /\ Len(Reprice(b, Lowered)) = Len(b)
           /\ \A i \in 1..Len(b) : Reprice(b, Lowered)[i] = [b[i] EXCEPT !.price = Lowered(@)]
<1> DEFINE c == [i \in DOMAIN b |-> [b[i] EXCEPT !.price = Lowered(@)]]
<1>1. DOMAIN b = 1..Len(b) /\ Len(b) \in Nat /\ \A i \in 1..Len(b) : b[i] \in BillX
  BY BillIs, ElementOfSeq
<1>2. \A i \in 1..Len(b) : [b[i] EXCEPT !.price = Lowered(@)] \in BillX
  BY <1>1 DEF BillX
<1>3. c \in Seq(BillX) /\ Len(c) = Len(b)
  BY <1>1, <1>2
<1>4. Reprice(b, Lowered) = c
  BY <1>3, ConcatEmptySeq DEF Reprice
<1> QED BY <1>1, <1>3, <1>4

(***************************************************************************)
(* The inductive invariant, of a world: what the runs check of the state,  *)
(* with the bill as a set of entries that no two objects share, with       *)
(* stacks that are never empty, and with nothing owed while the keeper is  *)
(* not in his shop.                                                        *)
(***************************************************************************)
LooseIn(W, o) == W.obj[o].where \notin {"free", "bill"}
Due(W, o)     == \E e \in Entries(W.bill) : e.bo_id = o /\ ~e.useup
UsedUp(W, o)  == \E e \in Entries(W.bill) : e.bo_id = o /\ e.useup

Books(W) ==
    /\ Len(W.bill) <= BILLSZ
    /\ Distinct(W.bill)
    /\ \A o \in ObjId : /\ W.obj[o].quan > 0
                        /\ Due(W, o) <=> LooseIn(W, o) /\ W.obj[o].unpaid
                        /\ UsedUp(W, o) <=> W.obj[o].where = "bill"
    /\ \A e \in Entries(W.bill) : /\ ~e.useup => e.bquan >= W.obj[e.bo_id].quan
                                  /\ e.price = GetCost(W, e.bo_id)
    /\ ~W.impossible

Sound(W)  == Gold(W) = Purse + Till /\ LoanInDebit(W)
Closed(W) == Owes(W) => W.shk.place = "home"
Fine(W)   == W \in Worlds /\ Books(W) /\ Sound(W) /\ Closed(W)

IInv == /\ Fine(World)
        /\ at \in {"inside", "door", "outside"}
        /\ at = "outside" => ~Owes(World)

\* The goods may be moved, marked no_charge and partly used up.
LEMMA BooksStay ==
    ASSUME NEW W \in Worlds, NEW V \in Worlds, Books(W), V.bill = W.bill,
           V.shk.surcharge = W.shk.surcharge, V.impossible = W.impossible,
           \A o \in ObjId : /\ V.obj[o].kind = W.obj[o].kind
                            /\ V.obj[o].quan > 0 /\ V.obj[o].quan <= W.obj[o].quan
                            /\ LooseIn(V, o) = LooseIn(W, o)
                            /\ (V.obj[o].where = "bill") = (W.obj[o].where = "bill")
                            /\ V.obj[o].unpaid = W.obj[o].unpaid
    PROVE  Books(V)
<1>1. \A o \in ObjId : V.obj[o].quan \in Nat /\ W.obj[o].quan \in Nat
  BY DEF Worlds, Obj
<1>2. \A e \in Entries(W.bill) : e.bo_id \in ObjId /\ e.bquan \in Nat
  BY BillIs DEF Worlds, BillX
<1>3. \A o \in ObjId : Due(V, o) = Due(W, o) /\ UsedUp(V, o) = UsedUp(W, o)
  BY DEF Due, UsedUp
<1>4. \A o \in ObjId : GetCost(V, o) = GetCost(W, o)
  BY DEF GetCost
<1> QED BY <1>1, <1>2, <1>3, <1>4 DEF Books

\* The accounts may change.
LEMMA AccountsChange ==
    ASSUME NEW W \in Worlds, NEW V \in Worlds, Books(W), V.bill = W.bill, V.obj = W.obj,
           V.shk.surcharge = W.shk.surcharge, V.impossible = W.impossible
    PROVE  Books(V)
<1>1. \A o \in ObjId : W.obj[o].quan > 0 /\ W.obj[o].quan \in Nat
  BY DEF Books, Worlds, Obj
<1> QED BY <1>1, BooksStay DEF LooseIn

(***************************************************************************)
(* The keeper's temper.                                                    *)
(***************************************************************************)
\* What rile_shk and pacify_shk leave alone.
SameButTemper(V, W) ==
    /\ V.obj = W.obj /\ V.ugold = W.ugold /\ V.floorgold = W.floorgold
    /\ V.impossible = W.impossible
    /\ V.shk.mgold = W.shk.mgold /\ V.shk.credit = W.shk.credit
    /\ V.shk.debit = W.shk.debit /\ V.shk.loan = W.shk.loan
    /\ V.bill = <<>> <=> W.bill = <<>>

LEMMA CostType ==
    ASSUME NEW W \in Worlds, NEW o \in ObjId
    PROVE  /\ Cost[W.obj[o].kind] \in Nat /\ Cost[W.obj[o].kind] > 0
           /\ GetCost(W, o) \in Nat /\ GetCost(W, o) > 0
<1>1. W.obj[o].kind \in Kind
  BY DEF Worlds, Obj
<1>2. Cost[W.obj[o].kind] \in Nat \ {0}
  BY <1>1, PriceAssumption
<1>3. Raised(Cost[W.obj[o].kind]) \in Nat /\ Raised(Cost[W.obj[o].kind]) > 0
  BY <1>2, SurchargeRaises
<1> QED BY <1>2, <1>3 DEF GetCost

LEMMA FineRile ==
    ASSUME NEW W, Fine(W)
    PROVE  /\ Fine(RileShk(W)) /\ SameButTemper(RileShk(W), W)
           /\ RileShk(W).shk.place = W.shk.place /\ RileShk(W).shk.robbed = W.shk.robbed
           /\ RileShk(W).shk.angry /\ RileShk(W).shk.surcharge
<1> DEFINE V == RileShk(W)
           b == W.bill
           c == Reprice(b, Raised)
<1> USE DEF Fine
<1>1. /\ W \in Worlds /\ b \in Seq(BillX) /\ W.shk \in Shk
      /\ \A i \in 1..Len(b) : b[i] \in BillX
  <2>1. W \in Worlds /\ b \in Seq(BillX) /\ W.shk \in Shk
    BY DEF Worlds
  <2> QED BY <2>1, ElementOfSeq
<1> DEFINE new == IF W.shk.surcharge THEN b ELSE c
<1>2. V = [W EXCEPT !.shk = [W.shk EXCEPT !.angry = TRUE, !.surcharge = TRUE],
                    !.bill = new]
  BY <1>1 DEF RileShk, Worlds, Shk
<1>3. c \in Seq(BillX) /\ Len(c) = Len(b)
      /\ \A i \in 1..Len(b) : c[i] = [b[i] EXCEPT !.price = Raised(@)]
  BY <1>1, RaisedBill
<1> HIDE DEF c
<1>4. V \in Worlds /\ V.shk.angry /\ V.shk.surcharge /\ V.shk.place = W.shk.place
      /\ V.shk.robbed = W.shk.robbed
      /\ V.bill = IF W.shk.surcharge THEN b ELSE c
  <2>1. new \in Seq(BillX)
    BY <1>1, <1>3
  <2> HIDE DEF new, V
  <2>2. /\ V \in Worlds /\ V.shk.angry /\ V.shk.surcharge /\ V.shk.place = W.shk.place
        /\ V.shk.robbed = W.shk.robbed /\ V.bill = new
    BY <1>1, <1>2, <2>1 DEF Worlds, Shk
  <2> QED BY <2>2 DEF new
<1>5. SameButTemper(V, W)
  <2>1. b = <<>> <=> c = <<>>
    BY <1>1, <1>3, BillIs
  <2> QED BY <1>1, <1>2, <1>4, <2>1, ZenonT(30) DEF SameButTemper, Worlds, Shk
<1> HIDE DEF V
<1>6. Books(V)
  <2>1. CASE W.shk.surcharge
    BY <1>1, <1>4, <1>5, <2>1, AccountsChange DEF SameButTemper
  <2>2. CASE ~W.shk.surcharge
    <3>1. V.bill = c /\ Len(c) <= BILLSZ
      BY <1>3, <1>4, <2>2 DEF Books
    <3>2. \A i \in 1..Len(b) : /\ c[i].bo_id = b[i].bo_id /\ c[i].useup = b[i].useup
                               /\ c[i].bquan = b[i].bquan /\ c[i].price = Raised(b[i].price)
      BY <1>1, <1>3 DEF BillX
    <3>3. Distinct(c)
      BY <1>3, <3>2 DEF Books, Distinct
    <3>4. \A o \in ObjId : Due(V, o) = Due(W, o) /\ UsedUp(V, o) = UsedUp(W, o)
      BY <1>3, <3>1, <3>2 DEF Due, UsedUp, Entries
    <3>5. \A o \in ObjId : ~W.shk.surcharge => GetCost(V, o) = Raised(GetCost(W, o))
      BY <1>4, <1>5 DEF GetCost, SameButTemper
    <3>6. ASSUME NEW i \in 1..Len(b)
          PROVE  /\ ~c[i].useup => c[i].bquan >= V.obj[c[i].bo_id].quan
                 /\ c[i].price = GetCost(V, c[i].bo_id)
      <4>1. b[i] \in Entries(b) /\ b[i].bo_id \in ObjId
        BY <1>1 DEF Entries, BillX
      <4> QED BY <1>5, <2>2, <3>2, <3>5, <4>1 DEF Books, SameButTemper
    <3>7. \A e \in Entries(V.bill) : /\ ~e.useup => e.bquan >= V.obj[e.bo_id].quan
                                     /\ e.price = GetCost(V, e.bo_id)
      BY <1>3, <3>1, <3>6 DEF Entries
    <3> QED BY <1>5, <3>1, <3>3, <3>4, <3>7 DEF Books, SameButTemper, LooseIn
  <2> QED BY <2>1, <2>2
<1>7. Sound(V) /\ Closed(V)
  BY <1>4, <1>5 DEF Sound, Closed, Owes, SameButTemper, Gold, LoanInDebit
<1> QED BY <1>4, <1>5, <1>6, <1>7 DEF V

LEMMA FinePacify ==
    ASSUME NEW W, Fine(W)
    PROVE  /\ Fine(PacifyShk(W)) /\ SameButTemper(PacifyShk(W), W)
           /\ PacifyShk(W).shk.place = W.shk.place /\ PacifyShk(W).shk.robbed = W.shk.robbed
           /\ ~PacifyShk(W).shk.surcharge
<1> DEFINE V == PacifyShk(W)
           b == W.bill
           c == Reprice(b, Lowered)
<1> USE DEF Fine
<1>1. /\ W \in Worlds /\ b \in Seq(BillX) /\ W.shk \in Shk
      /\ \A i \in 1..Len(b) : b[i] \in BillX
  <2>1. W \in Worlds /\ b \in Seq(BillX) /\ W.shk \in Shk
    BY DEF Worlds
  <2> QED BY <2>1, ElementOfSeq
<1> DEFINE new == IF W.shk.surcharge THEN c ELSE b
<1>2. V = [W EXCEPT !.shk = [W.shk EXCEPT !.angry = FALSE, !.surcharge = FALSE],
                    !.bill = new]
  BY <1>1 DEF PacifyShk, Worlds, Shk
<1>3. ASSUME W.shk.surcharge, NEW i \in 1..Len(b)
      PROVE  /\ b[i].price = Raised(Cost[W.obj[b[i].bo_id].kind])
             /\ Lowered(b[i].price) = Cost[W.obj[b[i].bo_id].kind]
             /\ Lowered(b[i].price) \in Nat
  <2>1. b[i] \in Entries(b) /\ b[i].bo_id \in ObjId
    BY <1>1 DEF Entries, BillX
  <2>2. b[i].price = Raised(Cost[W.obj[b[i].bo_id].kind])
    BY <1>3, <2>1 DEF Books, GetCost
  <2> QED BY <1>1, <2>1, <2>2, CostType, SurchargeUndone
<1>4. W.shk.surcharge => c \in Seq(BillX) /\ Len(c) = Len(b)
      /\ \A i \in 1..Len(b) : c[i] = [b[i] EXCEPT !.price = Lowered(@)]
  BY <1>1, <1>3, LoweredBill
<1> HIDE DEF c
<1>5. V \in Worlds /\ ~V.shk.surcharge /\ V.shk.place = W.shk.place
      /\ V.shk.robbed = W.shk.robbed
      /\ V.bill = IF W.shk.surcharge THEN c ELSE b
  <2>1. new \in Seq(BillX)
    BY <1>1, <1>4
  <2> HIDE DEF new, V
  <2>2. /\ V \in Worlds /\ ~V.shk.surcharge /\ V.shk.place = W.shk.place
        /\ V.shk.robbed = W.shk.robbed /\ V.bill = new
    BY <1>1, <1>2, <2>1 DEF Worlds, Shk
  <2> QED BY <2>2 DEF new
<1>6. SameButTemper(V, W)
  <2>1. W.shk.surcharge => (b = <<>> <=> c = <<>>)
    BY <1>1, <1>4, BillIs
  <2>2. V.bill = <<>> <=> W.bill = <<>>
    BY <1>5, <2>1
  <2> HIDE DEF new, V
  <2> QED BY <1>1, <1>2, <2>2 DEF SameButTemper, Worlds, Shk
<1> HIDE DEF V
<1>7. Books(V)
  <2>1. CASE ~W.shk.surcharge
    BY <1>1, <1>5, <1>6, <2>1, AccountsChange DEF SameButTemper, Worlds, Shk
  <2>2. CASE W.shk.surcharge
    <3>1. V.bill = c /\ Len(c) <= BILLSZ
      BY <1>4, <1>5, <2>2 DEF Books
    <3>2. \A i \in 1..Len(b) : /\ c[i].bo_id = b[i].bo_id /\ c[i].useup = b[i].useup
                               /\ c[i].bquan = b[i].bquan /\ c[i].price = Lowered(b[i].price)
      BY <1>1, <1>4, <2>2 DEF BillX
    <3>3. Distinct(c)
      BY <1>4, <2>2, <3>2 DEF Books, Distinct
    <3>4. \A o \in ObjId : Due(V, o) = Due(W, o) /\ UsedUp(V, o) = UsedUp(W, o)
      BY <1>4, <2>2, <3>1, <3>2 DEF Due, UsedUp, Entries
    <3>5. \A o \in ObjId : GetCost(V, o) = Cost[W.obj[o].kind]
      BY <1>5, <1>6 DEF GetCost, SameButTemper
    <3>6. ASSUME NEW i \in 1..Len(b)
          PROVE  /\ ~c[i].useup => c[i].bquan >= V.obj[c[i].bo_id].quan
                 /\ c[i].price = GetCost(V, c[i].bo_id)
      <4>1. b[i] \in Entries(b) /\ b[i].bo_id \in ObjId
        BY <1>1 DEF Entries, BillX
      <4> QED BY <1>3, <1>6, <2>2, <3>2, <3>5, <4>1 DEF Books, SameButTemper
    <3>7. \A e \in Entries(V.bill) : /\ ~e.useup => e.bquan >= V.obj[e.bo_id].quan
                                     /\ e.price = GetCost(V, e.bo_id)
      BY <1>4, <2>2, <3>1, <3>6 DEF Entries
    <3> QED BY <1>6, <3>1, <3>3, <3>4, <3>7 DEF Books, SameButTemper, LooseIn
  <2> QED BY <2>1, <2>2
<1>8. Sound(V) /\ Closed(V)
  BY <1>5, <1>6 DEF Sound, Closed, Owes, SameButTemper, Gold, LoanInDebit
<1> QED BY <1>5, <1>6, <1>7, <1>8 DEF V

LEMMA FineShopKeeper ==
    ASSUME NEW W, Fine(W)
    PROVE  /\ Fine(ShopKeeper(W)) /\ SameButTemper(ShopKeeper(W), W)
           /\ ShopKeeper(W).shk.place = W.shk.place
           /\ ShopKeeper(W).shk.robbed = W.shk.robbed
BY FineRile, FinePacify DEF ShopKeeper, SameButTemper

\* Where the keeper is, whether he follows, and what was stolen are no part of it.
LEMMA FineKeeper ==
    ASSUME NEW W, Fine(W), NEW place \in {"home", "away", "dead"},
           place = "home" \/ ~Owes(W),
           NEW following \in BOOLEAN, NEW you \in BOOLEAN, NEW robbed \in Nat
    PROVE  Fine([W EXCEPT !.shk = [W.shk EXCEPT !.place = place, !.following = following,
                                                !.you = you, !.robbed = robbed]])
<1> DEFINE V == [W EXCEPT !.shk = [W.shk EXCEPT !.place = place, !.following = following,
                                                !.you = you, !.robbed = robbed]]
<1> USE DEF Fine
<1>1. /\ V \in Worlds /\ V.bill = W.bill /\ V.obj = W.obj /\ V.impossible = W.impossible
      /\ V.shk.surcharge = W.shk.surcharge /\ V.shk.place = place
      /\ V.ugold = W.ugold /\ V.floorgold = W.floorgold /\ V.shk.mgold = W.shk.mgold
      /\ V.shk.loan = W.shk.loan /\ V.shk.debit = W.shk.debit
  BY DEF Worlds, Shk
<1> HIDE DEF V
<1>2. Books(V)
  BY <1>1, AccountsChange
<1>3. Sound(V) /\ Closed(V)
  BY <1>1 DEF Sound, Closed, Owes, Gold, LoanInDebit
<1> QED BY <1>1, <1>2, <1>3 DEF V

LEMMA FineHotPursuit ==
    ASSUME NEW W, Fine(W)
    PROVE  /\ Fine(HotPursuit(W)) /\ SameButTemper(HotPursuit(W), W)
           /\ HotPursuit(W).shk.place = W.shk.place
<1> DEFINE R == RileShk(W)
<1>1. Fine(R) /\ SameButTemper(R, W) /\ R.shk.place = W.shk.place
  BY FineRile
<1> HIDE DEF R
<1>2. R \in Worlds /\ R.shk \in Shk
  BY <1>1 DEF Fine, Worlds
<1> DEFINE V == [R EXCEPT !.shk = [R.shk EXCEPT !.place = R.shk.place, !.following = TRUE,
                                                !.you = TRUE, !.robbed = R.shk.robbed]]
<1>3. HotPursuit(W) = V
  BY <1>2 DEF HotPursuit, R, Worlds, Shk
<1>4. Fine(V)
  <2>1. /\ R.shk.place \in {"home", "away", "dead"} /\ R.shk.robbed \in Nat
        /\ R.shk.place = "home" \/ ~Owes(R)
    BY <1>1, <1>2 DEF Fine, Closed, Owes, Shk
  <2> QED BY <1>1, <2>1, FineKeeper
<1>5. SameButTemper(V, W) /\ V.shk.place = W.shk.place
  BY <1>1, <1>2 DEF SameButTemper, Worlds, Shk
<1> QED BY <1>3, <1>4, <1>5

LEMMA FineMakeHappy ==
    ASSUME NEW W, Fine(W)
    PROVE  Fine(MakeHappyShk(W)) /\ SameButTemper(MakeHappyShk(W), W)
<1> DEFINE R == PacifyShk(W)
<1>1. Fine(R) /\ SameButTemper(R, W)
  BY FinePacify
<1> HIDE DEF R
<1>2. R \in Worlds /\ R.shk \in Shk
  BY <1>1 DEF Fine, Worlds
<1> DEFINE V == [R EXCEPT !.shk = [R.shk EXCEPT !.place = "home", !.following = FALSE,
                                                !.you = R.shk.you, !.robbed = 0]]
<1>3. MakeHappyShk(W) = V
  BY <1>2 DEF MakeHappyShk, R, Worlds, Shk
<1>4. Fine(V)
  BY <1>1, <1>2, FineKeeper DEF Shk
<1>5. SameButTemper(V, W)
  BY <1>1, <1>2 DEF SameButTemper, Worlds, Shk
<1> QED BY <1>3, <1>4, <1>5

(***************************************************************************)
(* What is owed, and closing the accounts.                                 *)
(***************************************************************************)
LEMMA Products == \A a, b \in Nat : a * b \in Nat
  OBVIOUS

\* addupbill goes once through the bill.
LEMMA AddUpBillType ==
    ASSUME NEW W \in Worlds
    PROVE  AddUpBill(W) \in Nat
<1> DEFINE n == Len(W.bill)
           due(i) == W.bill[i].price * W.bill[i].bquan
           next(i, t) == t + due(i)
           Is(f) == f = [i \in 0..n |-> IF i = 0 THEN 0
                                        ELSE f[i - 1] + W.bill[i].price * W.bill[i].bquan]
<1>1. n \in Nat /\ \A i \in 1..n : W.bill[i] \in BillX
  BY ElementOfSeq, BillIs DEF Worlds
<1>2. ASSUME NEW i \in 1..n, NEW t \in Nat PROVE next(i, t) \in Nat
  <2>1. W.bill[i].price \in Nat /\ W.bill[i].bquan \in Nat
    BY <1>1 DEF BillX
  <2>2. due(i) \in Nat
    BY <2>1, Products
  <2> HIDE DEF due
  <2> QED BY <2>2
<1>3. \E f : Is(f) /\ \A i \in 0..n : f[i] \in Nat
  <2> HIDE DEF next, n
  <2> DEFINE S == [i \in 0..n |-> Nat]
             step == [i \in 1..n |-> [t \in Nat |-> next(i, t)]]
  <2>1. 0 \in S[0] /\ \A i \in 0..n : S[i] = Nat
    BY <1>1
  <2>2. \A i \in 1..n : i - 1 \in 0..n /\ i \in 0..n /\ \A t \in S[i - 1] : step[i][t] \in S[i]
    BY <1>1, <1>2, <2>1
  <2>3. \A i \in 1..n : \A t \in Nat : step[i][t] = next(i, t)
    OBVIOUS
  <2> HIDE DEF S, step
  <2>4. PICK f : Runs(f, n, 0, step) /\ \A i \in 0..n : f[i] \in S[i]
    BY <1>1, <2>1, <2>2, LoopRuns
  <2>5. ASSUME NEW i \in 0..n
        PROVE  f[i] = IF i = 0 THEN 0 ELSE next(i, f[i - 1])
    <3>1. f[i] = IF i = 0 THEN 0 ELSE step[i][f[i - 1]]
      BY <2>4 DEF Runs
    <3>2. i # 0 => i \in 1..n /\ i - 1 \in 0..n
      BY <1>1
    <3> QED BY <2>1, <2>3, <2>4, <3>1, <3>2
  <2>6. f = [i \in 0..n |-> f[i]]
    BY <2>4 DEF Runs
  <2>7. f = [i \in 0..n |-> IF i = 0 THEN 0 ELSE next(i, f[i - 1])]
    BY <2>5, <2>6
  <2>8. Is(f)
    <3> HIDE DEF due
    <3>1. \A i \in 0..n : next(i, f[i - 1]) = f[i - 1] + W.bill[i].price * W.bill[i].bquan
      BY DEF next, due
    <3> HIDE DEF next
    <3> QED BY <2>7, <3>1
  <2>9. \A i \in 0..n : f[i] \in Nat
    BY <2>1, <2>4
  <2> HIDE DEF Is
  <2> QED BY <2>8, <2>9
<1> DEFINE total == CHOOSE f : Is(f)
<1>4. Is(total)
  BY <1>3
<1>5. AddUpBill(W) = total[n]
  BY DEF AddUpBill
<1> HIDE DEF total
<1> DEFINE B == {i \in 0..n : total[i] \in Nat}
<1>6. \A i \in 0..n : i \in B
  <2>1. \A i \in 0..n : total[i] = IF i = 0 THEN 0 ELSE next(i, total[i - 1])
    BY <1>4
  <2> HIDE DEF next, n
  <2>2. 0 \in B
    BY <1>1, <2>1
  <2>3. \A i \in 1..n : i - 1 \in B => i \in B
    BY <1>1, <1>2, <2>1
  <2> HIDE DEF B
  <2> QED BY <1>1, <2>2, <2>3, CountingUp
<1> QED BY <1>1, <1>5, <1>6

\* setpaid: nothing is unpaid, nothing billed, and nothing owed.
LEMMA FineSetPaid ==
    ASSUME NEW W \in Worlds, Books(W), Gold(W) = Purse + Till
    PROVE  /\ Fine(SetPaid(W)) /\ SetPaid(W).bill = <<>>
           /\ SetPaid(W).shk.place = W.shk.place /\ SetPaid(W).shk.robbed = W.shk.robbed
           /\ SetPaid(W).shk.surcharge = W.shk.surcharge
           /\ SetPaid(W).shk.debit = 0
           /\ \A o \in ObjId : SetPaid(W).obj[o].where =
                  IF W.obj[o].where = "bill" THEN "free" ELSE W.obj[o].where
<1> DEFINE V == SetPaid(W)
           new == [o \in ObjId |-> IF W.obj[o].where = "bill"
                                   THEN [W.obj[o] EXCEPT !.where = "free", !.quan = 1,
                                             !.unpaid = FALSE, !.no_charge = FALSE]
                                   ELSE [W.obj[o] EXCEPT !.unpaid = FALSE]]
<1>1. W.obj \in [ObjId -> Obj] /\ W.shk \in Shk
  BY DEF Worlds
<1>2. new \in [ObjId -> Obj]
  BY <1>1 DEF Obj, Places
<1>3. V = [W EXCEPT !.obj = new, !.bill = <<>>,
                    !.shk = [W.shk EXCEPT !.credit = 0, !.debit = 0, !.loan = 0]]
  <2>1. \A o \in ObjId : Dealloc(W, o).obj[o] =
               [W.obj[o] EXCEPT !.where = "free", !.quan = 1,
                                !.unpaid = FALSE, !.no_charge = FALSE]
    BY <1>1 DEF Dealloc, Cleared, Worlds
  <2> DEFINE g == [o \in ObjId |-> IF W.obj[o].where = "bill" THEN Dealloc(W, o).obj[o]
                                   ELSE [W.obj[o] EXCEPT !.unpaid = FALSE]]
  <2>2. g = new
    BY <2>1
  <2>3. V = [W EXCEPT !.obj = g, !.bill = <<>>, !.shk.credit = 0, !.shk.debit = 0,
                      !.shk.loan = 0]
    BY DEF SetPaid
  <2> HIDE DEF g, new, V
  <2> QED BY <1>1, <2>2, <2>3 DEF Worlds, Shk
<1>4. \A o \in ObjId : /\ ~new[o].unpaid /\ new[o].kind = W.obj[o].kind /\ new[o].quan > 0
                       /\ new[o].where = IF W.obj[o].where = "bill" THEN "free"
                                         ELSE W.obj[o].where
  BY <1>1 DEF Obj, Books
<1> HIDE DEF new, V
<1>5. /\ V \in Worlds /\ V.obj = new /\ V.bill = <<>> /\ V.impossible = W.impossible
      /\ V.shk.place = W.shk.place /\ V.shk.robbed = W.shk.robbed
      /\ V.shk.surcharge = W.shk.surcharge /\ V.shk.debit = 0 /\ V.shk.loan = 0
      /\ V.ugold = W.ugold /\ V.floorgold = W.floorgold /\ V.shk.mgold = W.shk.mgold
  <2>1. <<>> \in Seq(BillX)
    BY EmptySeq
  <2> QED BY <1>1, <1>2, <1>3, <2>1 DEF Worlds, Shk
<1>6. Entries(V.bill) = {} /\ Len(V.bill) = 0 /\ Distinct(V.bill)
  BY <1>5, EmptySeq DEF Entries, Distinct
<1>7. Books(V)
  BY <1>4, <1>5, <1>6, ShopAssumption DEF Books, Due, UsedUp, LooseIn
<1>8. Sound(V) /\ Closed(V)
  BY <1>5 DEF Sound, Closed, Owes, Gold, LoanInDebit
<1> QED BY <1>4, <1>5, <1>7, <1>8 DEF Fine, V

\* rob_shop: the bill is closed, and the keeper may be after the hero.
LEMMA FineRobShop ==
    ASSUME NEW W, Fine(W)
    PROVE  /\ Fine(RobShop(W)) /\ RobShop(W).bill = <<>>
           /\ RobShop(W).shk.place = W.shk.place
           /\ RobShop(W).shk.debit = 0
           /\ \A o \in ObjId : RobShop(W).obj[o].where =
                  IF W.obj[o].where = "bill" THEN "free" ELSE W.obj[o].where
<1> DEFINE V == SetPaid(W)
           total == AddUpBill(W) + W.shk.debit
           r == V.shk.robbed + total - W.shk.credit
           H == [V EXCEPT !.shk = [V.shk EXCEPT !.place = V.shk.place,
                     !.following = V.shk.following, !.you = V.shk.you, !.robbed = r]]
<1>1. W \in Worlds /\ Books(W) /\ Gold(W) = Purse + Till
  BY DEF Fine, Sound
<1>2. /\ Fine(V) /\ V.bill = <<>> /\ V.shk.place = W.shk.place /\ V.shk.debit = 0
      /\ \A o \in ObjId : V.obj[o].where =
            IF W.obj[o].where = "bill" THEN "free" ELSE W.obj[o].where
  BY <1>1, FineSetPaid
<1> HIDE DEF V
<1>3. V \in Worlds /\ V.shk \in Shk
  BY <1>2 DEF Fine, Worlds
<1>4. total \in Nat /\ W.shk.credit \in Nat /\ V.shk.robbed \in Nat
  <2>1. AddUpBill(W) \in Nat
    BY <1>1, AddUpBillType
  <2> QED BY <1>1, <1>3, <2>1 DEF Worlds, Shk
<1> HIDE DEF total
<1>5. CASE W.shk.credit >= total
  <2>1. RobShop(W) = V
    BY <1>5 DEF RobShop, V, total
  <2> QED BY <1>2, <2>1
<1>6. CASE ~(W.shk.credit >= total)
  <2>1. r \in Nat
    BY <1>4, <1>6
  <2> HIDE DEF r
  <2>2. [V EXCEPT !.shk.robbed = r] = H
    BY <1>3 DEF Worlds, Shk
  <2>3. RobShop(W) = HotPursuit(H)
    <3>1. RobShop(W) = HotPursuit([V EXCEPT !.shk.robbed = r])
      BY <1>3, <1>6 DEF RobShop, V, total, r, Worlds, Shk
    <3> QED BY <2>2, <3>1
  <2>4. V.shk.place \in {"home", "away", "dead"} /\ V.shk.following \in BOOLEAN
        /\ V.shk.you \in BOOLEAN
    BY <1>3 DEF Shk
  <2>5. Fine(H)
    <3>1. ~Owes(V)
      BY <1>2 DEF Owes
    <3> QED BY <1>2, <2>1, <2>4, <3>1, FineKeeper
  <2>6. /\ H.bill = V.bill /\ H.obj = V.obj /\ H.shk.place = V.shk.place
        /\ H.shk.debit = V.shk.debit
    BY <1>3 DEF Worlds, Shk
  <2> HIDE DEF H
  <2>7. Fine(HotPursuit(H)) /\ SameButTemper(HotPursuit(H), H)
        /\ HotPursuit(H).shk.place = H.shk.place
    BY <2>5, FineHotPursuit
  <2> QED BY <1>2, <2>3, <2>6, <2>7 DEF SameButTemper
<1> QED BY <1>5, <1>6

\* u_left_shop and remote_burglary leave nothing owed.
LEMMA FineLeaves ==
    ASSUME NEW W, Fine(W)
    PROVE  /\ Fine(Leaves(W)) /\ Leaves(W).bill = <<>> /\ ~Owes(Leaves(W))
           /\ Leaves(W).shk.place = W.shk.place
           /\ \A o \in ObjId : Leaves(W).obj[o].where =
                  IF W.obj[o].where = "bill" THEN "free" ELSE W.obj[o].where
<1>1. CASE InHisShop(W) /\ Owes(W)
  BY <1>1, FineRobShop DEF Leaves, Owes
<1>2. CASE ~(InHisShop(W) /\ Owes(W))
  <2>1. Leaves(W) = W /\ W.bill = <<>> /\ ~Owes(W)
    BY <1>2 DEF Leaves, Owes, Fine, Closed, InHisShop
  <2>2. \A o \in ObjId : W.obj[o].where # "bill"
    <3>1. Entries(W.bill) = {}
      BY <2>1, BillIs DEF Fine, Worlds
    <3> QED BY <3>1 DEF Fine, Books, UsedUp
  <2> QED BY <2>1, <2>2
<1> QED BY <1>1, <1>2

\* make_angry_shk, for a keeper who is sent away.
LEMMA FineMakeAngry ==
    ASSUME NEW W, Fine(W)
    PROVE  Fine(MakeAngryShk(W)) /\ ~Owes(MakeAngryShk(W))
<1> DEFINE V == SetPaid(W)
           due == W.shk.robbed + AddUpBill(W) + W.shk.debit + W.shk.loan - W.shk.credit
           r == IF due < 0 THEN 0 ELSE due
           H == [V EXCEPT !.shk = [V.shk EXCEPT !.place = V.shk.place,
                     !.following = V.shk.following, !.you = V.shk.you, !.robbed = r]]
           owing == Owes(W) \/ W.shk.loan > 0 \/ W.shk.credit > 0
<1>1. W \in Worlds /\ Books(W) /\ Gold(W) = Purse + Till
  BY DEF Fine, Sound
<1>2. Fine(V) /\ V.bill = <<>> /\ V.shk.debit = 0
  BY <1>1, FineSetPaid
<1> HIDE DEF V
<1>3. V \in Worlds /\ V.shk \in Shk
  BY <1>2 DEF Fine, Worlds
<1>4. r \in Nat
  <2>1. AddUpBill(W) \in Nat
    BY <1>1, AddUpBillType
  <2> QED BY <1>1, <2>1 DEF Worlds, Shk
<1> HIDE DEF due, r
<1>5. CASE owing
  <2>1. MakeAngryShk(W) = HotPursuit(H)
    <3>1. MakeAngryShk(W) = HotPursuit([V EXCEPT !.shk.robbed = r])
      BY <1>5 DEF MakeAngryShk, V, due, r
    <3>2. [V EXCEPT !.shk.robbed = r] = H
      BY <1>3 DEF Worlds, Shk
    <3> QED BY <3>1, <3>2
  <2>2. V.shk.place \in {"home", "away", "dead"} /\ V.shk.following \in BOOLEAN
        /\ V.shk.you \in BOOLEAN
    BY <1>3 DEF Shk
  <2>3. Fine(H)
    <3>1. ~Owes(V)
      BY <1>2 DEF Owes
    <3> QED BY <1>2, <1>4, <2>2, <3>1, FineKeeper
  <2>4. H.bill = V.bill /\ H.shk.debit = V.shk.debit
    BY <1>3 DEF Worlds, Shk
  <2> HIDE DEF H
  <2> QED BY <1>2, <2>1, <2>3, <2>4, FineHotPursuit DEF SameButTemper, Owes
<1>6. CASE ~owing
  <2>1. MakeAngryShk(W) = HotPursuit(W) /\ ~Owes(W)
    BY <1>6 DEF MakeAngryShk, Owes
  <2> QED BY <2>1, FineHotPursuit DEF SameButTemper, Owes
<1> QED BY <1>5, <1>6

\* u_entered_shop
LEMMA FineEntered ==
    ASSUME NEW W, Fine(W)
    PROVE  Fine(UEnteredShop(W)) /\ SameButTemper(UEnteredShop(W), W)
<1>1. CASE InHisShop(W) /\ ~W.shk.you
  <2> DEFINE R == PacifyShk(W)
             V == [R EXCEPT !.shk = [R.shk EXCEPT !.place = R.shk.place, !.following = FALSE,
                                                  !.you = TRUE, !.robbed = R.shk.robbed]]
  <2>1. Fine(R) /\ SameButTemper(R, W)
    BY FinePacify
  <2> HIDE DEF R
  <2>2. R \in Worlds /\ R.shk \in Shk
    BY <2>1 DEF Fine, Worlds
  <2>3. UEnteredShop(W) = V
    BY <1>1, <2>2 DEF UEnteredShop, R, Worlds, Shk
  <2>4. /\ R.shk.place \in {"home", "away", "dead"} /\ R.shk.robbed \in Nat
        /\ R.shk.place = "home" \/ ~Owes(R)
    BY <2>1, <2>2 DEF Fine, Closed, Owes, Shk
  <2>5. Fine(V)
    BY <2>1, <2>4, FineKeeper
  <2>6. SameButTemper(V, W)
    BY <2>1, <2>2 DEF SameButTemper, Worlds, Shk
  <2> QED BY <2>3, <2>5, <2>6
<1>2. CASE ~(InHisShop(W) /\ ~W.shk.you)
  BY <1>2 DEF UEnteredShop, SameButTemper
<1> QED BY <1>1, <1>2

(***************************************************************************)
(* The operations on the bill.                                             *)
(***************************************************************************)
\* onbill finds the one entry of an object.
LEMMA EntryIs ==
    ASSUME NEW W \in Worlds, NEW o \in ObjId
    PROVE  /\ OnBill(W, o) <=> \E e \in Entries(W.bill) : e.bo_id = o
           /\ OnBill(W, o) <=> Due(W, o) \/ UsedUp(W, o)
           /\ OnBill(W, o) => /\ Entry(W, o) \in 1..Len(W.bill)
                              /\ W.bill[Entry(W, o)].bo_id = o
                              /\ W.bill[Entry(W, o)] \in Entries(W.bill)
                              /\ W.bill[Entry(W, o)] \in BillX
<1>1. DOMAIN W.bill = 1..Len(W.bill) /\ Entries(W.bill) \in SUBSET BillX
  BY BillIs DEF Worlds
<1>2. OnBill(W, o) <=> \E e \in Entries(W.bill) : e.bo_id = o
  BY <1>1 DEF OnBill, Entries
<1>3. OnBill(W, o) => /\ Entry(W, o) \in 1..Len(W.bill)
                      /\ W.bill[Entry(W, o)].bo_id = o
  BY <1>1 DEF OnBill, Entry
<1> QED BY <1>1, <1>2, <1>3 DEF Entries, Due, UsedUp

LEMMA OneEntry ==
    ASSUME NEW b \in Seq(BillX), Distinct(b)
    PROVE  /\ \A i, j \in 1..Len(b) : b[i] = b[j] => i = j
           /\ \A e, f \in Entries(b) : e.bo_id = f.bo_id => e = f
BY DEF Distinct, Entries

\* A world with other goods and another bill.
Rebooked(W, V, goods, b) ==
    /\ V \in Worlds /\ V.obj = goods /\ V.bill = b /\ V.shk = W.shk /\ V.ugold = W.ugold
    /\ V.floorgold = W.floorgold /\ V.impossible = W.impossible
LEMMA RebookedIs ==
    ASSUME NEW W \in Worlds, NEW goods \in [ObjId -> Obj], NEW b \in Seq(BillX), NEW V,
           V = [W EXCEPT !.obj = goods, !.bill = b]
    PROVE  Rebooked(W, V, goods, b)
BY DEF Worlds, Rebooked

LEMMA FineRebooked ==
    ASSUME NEW W, Fine(W), NEW V, NEW goods, NEW b, Rebooked(W, V, goods, b), Books(V),
           b # <<>> => W.shk.place = "home"
    PROVE  Fine(V)
BY DEF Fine, Rebooked, Sound, Closed, Owes, Gold, LoanInDebit

\* The books are right again if they are right about the objects that were touched.
LEMMA BooksMade ==
    ASSUME NEW W \in Worlds, Books(W), NEW V \in Worlds,
           V.shk.surcharge = W.shk.surcharge, V.impossible = W.impossible,
           Len(V.bill) <= BILLSZ, Distinct(V.bill), NEW M \in SUBSET ObjId,
           \A o \in ObjId \ M : V.obj[o] = W.obj[o],
           \A e \in Entries(W.bill) \cup Entries(V.bill) :
               e.bo_id \notin M => (e \in Entries(W.bill) <=> e \in Entries(V.bill)),
           \A o \in M : /\ V.obj[o].quan > 0
                        /\ Due(V, o) <=> LooseIn(V, o) /\ V.obj[o].unpaid
                        /\ UsedUp(V, o) <=> V.obj[o].where = "bill",
           \A e \in Entries(V.bill) :
               e.bo_id \in M => /\ ~e.useup => e.bquan >= V.obj[e.bo_id].quan
                                /\ e.price = GetCost(V, e.bo_id)
    PROVE  Books(V)
<1>1. \A e \in Entries(V.bill) : e.bo_id \in ObjId
  BY BillIs DEF Worlds, BillX
<1>2. \A o \in ObjId \ M : /\ Due(V, o) = Due(W, o) /\ UsedUp(V, o) = UsedUp(W, o)
                           /\ GetCost(V, o) = GetCost(W, o)
  BY DEF Due, UsedUp, GetCost
<1>3. ASSUME NEW o \in ObjId
      PROVE  /\ V.obj[o].quan > 0
             /\ Due(V, o) <=> LooseIn(V, o) /\ V.obj[o].unpaid
             /\ UsedUp(V, o) <=> V.obj[o].where = "bill"
  BY <1>2 DEF Books, LooseIn
<1>4. ASSUME NEW e \in Entries(V.bill)
      PROVE  /\ ~e.useup => e.bquan >= V.obj[e.bo_id].quan
             /\ e.price = GetCost(V, e.bo_id)
  BY <1>1, <1>2 DEF Books
<1> QED BY <1>3, <1>4 DEF Books

\* addtobill: what is not there yet is unpaid, or used up, and on the bill.
LEMMA FineAddToBill ==
    ASSUME NEW W, Fine(W), NEW o \in ObjId, NEW dummy \in BOOLEAN,
           IF dummy THEN W.obj[o].where = "free" ELSE LooseIn(W, o)
    PROVE  LET V == AddToBill(W, o, dummy)
           IN  /\ Fine(V) /\ V.shk = W.shk
               /\ \A p \in ObjId \ {o} : V.obj[p] = W.obj[p]
               /\ V.obj[o].quan = IF V.obj[o].where = "bill" THEN 1 ELSE W.obj[o].quan
               /\ V.obj[o].where = W.obj[o].where \/ (dummy /\ V.obj[o].where = "bill")
<1> DEFINE V == AddToBill(W, o, dummy)
           e == [bo_id |-> o, bquan |-> W.obj[o].quan, useup |-> dummy, price |-> GetCost(W, o)]
           x == W.obj[o]
<1>1. /\ W \in Worlds /\ Books(W) /\ W.obj \in [ObjId -> Obj] /\ x \in Obj
      /\ W.bill \in Seq(BillX)
  BY DEF Fine, Worlds
<1>2. CASE ~InHisShop(W) \/ OnBill(W, o) \/ Full(W)
  <2>1. V = W
    BY <1>2 DEF AddToBill
  <2>2. x.where = "bill" => FALSE
    BY DEF LooseIn
  <2> QED BY <2>1, <2>2
<1>3. CASE ~(~InHisShop(W) \/ OnBill(W, o) \/ Full(W)) /\ x.no_charge
  <2> DEFINE goods == [W.obj EXCEPT ![o] = [x EXCEPT !.no_charge = FALSE]]
  <2>1. goods \in [ObjId -> Obj]
    BY <1>1 DEF Obj
  <2>2. V = [W EXCEPT !.obj = goods, !.bill = W.bill]
    BY <1>1, <1>3 DEF AddToBill, Worlds
  <2>3. /\ goods[o].where = x.where /\ goods[o].quan = x.quan /\ goods[o].kind = x.kind
        /\ goods[o].unpaid = x.unpaid
        /\ \A p \in ObjId \ {o} : goods[p] = W.obj[p]
    BY <1>1 DEF Obj
  <2> HIDE DEF goods, V
  <2>4. Rebooked(W, V, goods, W.bill)
    BY <1>1, <2>1, <2>2, RebookedIs
  <2>5. \A p \in ObjId : /\ goods[p].kind = W.obj[p].kind /\ goods[p].quan = W.obj[p].quan
                         /\ goods[p].where = W.obj[p].where /\ goods[p].unpaid = W.obj[p].unpaid
                         /\ W.obj[p].quan \in Nat /\ W.obj[p].quan > 0
    BY <1>1, <2>3 DEF Obj, Books
  <2>6. Books(V)
    BY <1>1, <2>4, <2>5, BooksStay DEF Rebooked, LooseIn
  <2>7. Fine(V)
    BY <2>4, <2>6, FineRebooked DEF Fine, Closed, Owes
  <2> QED BY <2>3, <2>4, <2>7 DEF Rebooked, V, LooseIn
<1>4. CASE ~(~InHisShop(W) \/ OnBill(W, o) \/ Full(W)) /\ ~x.no_charge
  <2> DEFINE y == IF dummy THEN [x EXCEPT !.where = "bill", !.quan = 1, !.unpaid = FALSE,
                                          !.no_charge = FALSE]
                  ELSE [x EXCEPT !.unpaid = TRUE]
             goods == [W.obj EXCEPT ![o] = y]
             b == Append(W.bill, e)
  <2>1. e \in BillX
    BY <1>1, CostType DEF BillX, Obj
  <2>2. y \in Obj /\ goods \in [ObjId -> Obj]
    BY <1>1 DEF Obj, Places
  <2>3. V = [W EXCEPT !.obj = goods, !.bill = b]
    <3>1. CASE dummy
      BY <1>1, <1>4, <3>1 DEF AddToBill, AddToBillObjs, Cleared, Worlds, Obj
    <3>2. CASE ~dummy
      BY <1>1, <1>4, <3>2 DEF AddToBill, Worlds, Obj
    <3> QED BY <3>1, <3>2
  <2>4. /\ y.kind = x.kind /\ y.quan > 0
        /\ y.quan = IF dummy THEN 1 ELSE x.quan
        /\ y.where = IF dummy THEN "bill" ELSE x.where
        /\ y.unpaid = ~dummy
        /\ goods[o] = y /\ \A p \in ObjId \ {o} : goods[p] = W.obj[p]
    <3>1. x.quan > 0
      BY <1>1 DEF Books
    <3>2. goods[o] = y /\ \A p \in ObjId \ {o} : goods[p] = W.obj[p]
      BY <1>1
    <3> HIDE DEF goods
    <3>3. CASE dummy
      <4>1. y = [x EXCEPT !.where = "bill", !.quan = 1, !.unpaid = FALSE, !.no_charge = FALSE]
        BY <3>3
      <4> HIDE DEF y
      <4>2. y.kind = x.kind /\ y.quan = 1 /\ y.where = "bill" /\ ~y.unpaid /\ y.unpaid \in BOOLEAN
        BY <1>1, <4>1 DEF Obj
      <4>3. y.unpaid = ~dummy
        BY <3>3, <4>2
      <4> QED BY <3>2, <3>3, <4>2, <4>3
    <3>4. CASE ~dummy
      <4>1. y = [x EXCEPT !.unpaid = TRUE]
        BY <3>4
      <4> HIDE DEF y
      <4> QED BY <1>1, <3>1, <3>2, <3>4, <4>1 DEF Obj
    <3> QED BY <3>3, <3>4
  <2>5. /\ e.bo_id = o /\ e.bquan = x.quan /\ e.useup = dummy /\ e.price = GetCost(W, o)
    OBVIOUS
  <2>6. \A f \in Entries(W.bill) : f.bo_id # o
    BY <1>1, <1>4, EntryIs
  <2> HIDE DEF y, e, goods, b, V
  <2>7. b \in Seq(BillX) /\ Len(b) = Len(W.bill) + 1 /\ Entries(b) = Entries(W.bill) \cup {e}
        /\ Distinct(b)
    BY <1>1, <2>1, <2>5, <2>6, Listed DEF b, Books
  <2>8. Rebooked(W, V, goods, b)
    BY <1>1, <2>2, <2>3, <2>7, RebookedIs
  <2>9. Len(b) <= BILLSZ
    BY <1>1, <1>4, <2>7, BillIs, ShopAssumption DEF Full, Books
  <2>10. GetCost(V, o) = GetCost(W, o)
    BY <2>4, <2>8 DEF Rebooked, GetCost
  <2>11. (Due(V, o) <=> ~dummy) /\ (UsedUp(V, o) <=> dummy)
    BY <2>5, <2>6, <2>7, <2>8 DEF Due, UsedUp, Rebooked
  <2>12. /\ V.obj[o].quan > 0
         /\ Due(V, o) <=> LooseIn(V, o) /\ V.obj[o].unpaid
         /\ UsedUp(V, o) <=> V.obj[o].where = "bill"
    BY <2>4, <2>8, <2>11 DEF Rebooked, LooseIn
  <2>13. \A f \in Entries(V.bill) :
            f.bo_id = o => /\ ~f.useup => f.bquan >= V.obj[f.bo_id].quan
                           /\ f.price = GetCost(V, f.bo_id)
    <3>1. \A f \in Entries(V.bill) : f.bo_id = o => f = e
      BY <2>6, <2>7, <2>8 DEF Rebooked
    <3>2. ~dummy => e.bquan >= V.obj[o].quan
      BY <1>1, <2>4, <2>5, <2>8 DEF Rebooked, Obj
    <3> QED BY <2>5, <2>10, <3>1, <3>2
  <2>14. \A f \in Entries(W.bill) \cup Entries(V.bill) :
            f.bo_id \notin {o} => (f \in Entries(W.bill) <=> f \in Entries(V.bill))
    BY <2>5, <2>7, <2>8 DEF Rebooked
  <2>15. Books(V)
    <3>1. /\ {o} \in SUBSET ObjId /\ \A p \in ObjId \ {o} : V.obj[p] = W.obj[p]
          /\ V \in Worlds /\ V.shk.surcharge = W.shk.surcharge
          /\ V.impossible = W.impossible /\ Len(V.bill) <= BILLSZ /\ Distinct(V.bill)
      BY <2>4, <2>7, <2>8, <2>9 DEF Rebooked
    <3>2. \A p \in {o} : /\ V.obj[p].quan > 0
                         /\ Due(V, p) <=> LooseIn(V, p) /\ V.obj[p].unpaid
                         /\ UsedUp(V, p) <=> V.obj[p].where = "bill"
      BY <2>12
    <3>3. \A f \in Entries(V.bill) :
             f.bo_id \in {o} => /\ ~f.useup => f.bquan >= V.obj[f.bo_id].quan
                               /\ f.price = GetCost(V, f.bo_id)
      BY <2>13
    <3> QED BY <1>1, <2>14, <3>1, <3>2, <3>3, BooksMade
  <2>16. Fine(V)
    BY <1>4, <2>8, <2>15, FineRebooked DEF InHisShop
  <2> QED BY <2>4, <2>8, <2>16 DEF Rebooked, V, LooseIn
<1> QED BY <1>2, <1>3, <1>4

\* Nobody needs a new object to strike o off the bill.
Exact(W, o) == \A e \in Entries(W.bill) : e.bo_id = o => e.bquan = W.obj[o].quan
Room(W, o)  == Unused(W) # {} \/ Exact(W, o)

LEMMA NewObjIs ==
    ASSUME NEW W, Unused(W) # {}
    PROVE  NewObj(W) \in ObjId /\ W.obj[NewObj(W)].where = "free"
<1>1. NewObj(W) \in Unused(W)
  BY DEF NewObj
<1> QED BY <1>1 DEF Unused

\* sub_one_frombill and subfrombill: the rest that was used up stays.
LEMMA FineSubFromBill ==
    ASSUME NEW W, Fine(W), NEW o \in ObjId, LooseIn(W, o), Room(W, o)
    PROVE  LET V == SubFromBill(W, o)
           IN  /\ Fine(V) /\ V.shk = W.shk
               /\ ~OnBill(V, o) /\ V.obj[o] = [W.obj[o] EXCEPT !.unpaid = FALSE]
               /\ \A p \in ObjId \ {o} : \/ V.obj[p] = W.obj[p]
                                         \/ p = NewObj(W) /\ W.obj[p].where = "free"
                                            /\ V.obj[p].where = "bill"
               /\ W.bill = <<>> => V.bill = <<>>
<1> DEFINE V == SubFromBill(W, o)
           x == W.obj[o]
           x1 == [x EXCEPT !.unpaid = FALSE]
           i == Entry(W, o)
           e == W.bill[i]
           d == NewObj(W)
           left == e.bquan - x.quan
           goods1 == [W.obj EXCEPT ![o] = x1]
<1>1. /\ W \in Worlds /\ Books(W) /\ W.obj \in [ObjId -> Obj] /\ x \in Obj
      /\ W.bill \in Seq(BillX) /\ Len(W.bill) \in Nat /\ Distinct(W.bill)
  BY BillIs DEF Fine, Worlds, Books
<1>2. /\ x1 \in Obj /\ x1.kind = x.kind /\ x1.quan = x.quan /\ x1.where = x.where
      /\ ~x1.unpaid /\ x.quan > 0 /\ x.quan \in Nat
      /\ goods1 \in [ObjId -> Obj] /\ goods1[o] = x1
      /\ \A p \in ObjId \ {o} : goods1[p] = W.obj[p]
  BY <1>1 DEF Obj, Books
<1>3. OnBill(W, o) <=> x.unpaid
  <2>1. OnBill(W, o) <=> Due(W, o) \/ UsedUp(W, o)
    BY <1>1, EntryIs
  <2>2. (Due(W, o) <=> x.unpaid) /\ ~UsedUp(W, o)
    BY <1>1 DEF Books, LooseIn
  <2> QED BY <2>1, <2>2
<1>4. CASE ~OnBill(W, o)
  <2>1. V = W
    BY <1>3, <1>4 DEF SubFromBill
  <2>2. x1 = x
    BY <1>1, <1>3, <1>4 DEF Obj
  <2> QED BY <1>4, <2>1, <2>2
<1>5. CASE OnBill(W, o)
  <2>1. /\ i \in 1..Len(W.bill) /\ e.bo_id = o /\ e \in Entries(W.bill) /\ e \in BillX
        /\ ~e.useup /\ e.bquan >= x.quan /\ e.price = GetCost(W, o)
    <3>1. i \in 1..Len(W.bill) /\ e.bo_id = o /\ e \in Entries(W.bill) /\ e \in BillX
      BY <1>1, <1>5, EntryIs
    <3>2. ~UsedUp(W, o)
      BY <1>1 DEF Books, LooseIn
    <3> QED BY <1>1, <3>1, <3>2 DEF UsedUp, Books
  <2>2. \A f \in Entries(W.bill) : f.bo_id = o => f = e
    BY <1>1, <2>1, OneEntry
  <2>3. W.shk.place = "home"
    <3>1. W.bill # <<>>
      BY <1>1, <2>1, BillIs
    <3> QED BY <3>1 DEF Fine, Closed, Owes
  <2>4. CASE ~(left > 0)
    <3> DEFINE b == Unlist(W.bill, i)
    <3>1. V = [W EXCEPT !.obj = goods1, !.bill = b]
      BY <1>1, <1>5, <2>4 DEF SubFromBill, Worlds
    <3>2. b \in Seq(BillX) /\ Len(b) = Len(W.bill) - 1 /\ Entries(b) = Entries(W.bill) \ {e}
          /\ Distinct(b)
      BY <1>1, <2>1, Unlisted
    <3> HIDE DEF V, b, goods1, x1
    <3>3. Rebooked(W, V, goods1, b)
      BY <1>1, <1>2, <3>1, <3>2, RebookedIs
    <3>4. \A f \in Entries(b) : f.bo_id # o
      BY <2>2, <3>2
    <3>5. ~Due(V, o) /\ ~UsedUp(V, o) /\ ~OnBill(V, o)
      BY <3>3, <3>4, EntryIs DEF Due, UsedUp, Rebooked
    <3>6. Books(V)
      <4>1. /\ {o} \in SUBSET ObjId /\ \A p \in ObjId \ {o} : V.obj[p] = W.obj[p]
            /\ V \in Worlds /\ V.shk.surcharge = W.shk.surcharge
            /\ V.impossible = W.impossible /\ Len(V.bill) <= BILLSZ /\ Distinct(V.bill)
        BY <1>1, <1>2, <3>2, <3>3, ShopAssumption DEF Rebooked, Books
      <4>2. \A p \in {o} : /\ V.obj[p].quan > 0
                           /\ Due(V, p) <=> LooseIn(V, p) /\ V.obj[p].unpaid
                           /\ UsedUp(V, p) <=> V.obj[p].where = "bill"
        BY <1>2, <3>3, <3>5 DEF Rebooked, LooseIn
      <4>3. \A f \in Entries(W.bill) \cup Entries(V.bill) :
               f.bo_id \notin {o} => (f \in Entries(W.bill) <=> f \in Entries(V.bill))
        BY <2>1, <3>2, <3>3 DEF Rebooked
      <4>4. \A f \in Entries(V.bill) :
               f.bo_id \in {o} => /\ ~f.useup => f.bquan >= V.obj[f.bo_id].quan
                                  /\ f.price = GetCost(V, f.bo_id)
        BY <3>3, <3>4 DEF Rebooked
      <4> QED BY <1>1, <4>1, <4>2, <4>3, <4>4, BooksMade
    <3>7. Fine(V)
      BY <2>3, <3>3, <3>6, FineRebooked
    <3> QED BY <1>1, <1>2, <2>1, <3>3, <3>5, <3>7, BillIs DEF Rebooked, V, x1
  <2>5. CASE left > 0
    <3> DEFINE e1 == [e EXCEPT !.bo_id = d, !.bquan = left, !.useup = TRUE]
               z == [x1 EXCEPT !.where = "bill", !.quan = 1, !.unpaid = FALSE,
                               !.no_charge = FALSE]
               goods == [goods1 EXCEPT ![d] = z]
               b == [W.bill EXCEPT ![i] = e1]
    <3>1. Unused(W) # {}
      BY <1>2, <2>1, <2>5 DEF Room, Exact
    <3>2. d \in ObjId /\ W.obj[d].where = "free" /\ d # o
      BY <3>1, NewObjIs DEF LooseIn
    <3>3. \A f \in Entries(W.bill) : f.bo_id # d
      BY <1>1, <3>2 DEF Books, Due, UsedUp, LooseIn
    <3>4. left \in Nat
      BY <1>2, <2>1, <2>5 DEF BillX
    <3>5. V = [W EXCEPT !.obj = goods, !.bill = b]
      <4>1. V = AddToBillObjs([W EXCEPT !.obj = [goods1 EXCEPT ![d] = x1], !.bill = b], d)
        <5>1. [W EXCEPT !.obj[o].unpaid = FALSE] = [W EXCEPT !.obj = goods1]
          BY <1>1 DEF Worlds
        <5>2. [W EXCEPT !.obj = goods1].obj[o] = x1 /\ [W EXCEPT !.obj = goods1].bill = W.bill
          BY <1>1, <1>2 DEF Worlds
        <5> QED BY <1>1, <1>5, <2>5, <5>1, <5>2 DEF SubFromBill, Worlds
      <4> HIDE DEF V, b, goods1, x1
      <4> QED BY <1>1, <1>2, <3>2, <4>1 DEF AddToBillObjs, Cleared, Worlds
    <3>6. z \in Obj /\ z.kind = x.kind /\ z.quan = 1 /\ z.where = "bill" /\ ~z.unpaid
      <4>1. z = [x1 EXCEPT !.where = "bill", !.quan = 1, !.unpaid = FALSE, !.no_charge = FALSE]
        OBVIOUS
      <4>2. "bill" \in Places
        BY DEF Places
      <4> HIDE DEF x1, z
      <4> QED BY <1>2, <4>1, <4>2 DEF Obj
    <3>7. /\ e1 \in BillX /\ e1.bo_id = d /\ e1.bquan = left /\ e1.useup /\ e1.price = e.price
      BY <2>1, <3>2, <3>4 DEF BillX
    <3>8. /\ goods \in [ObjId -> Obj] /\ goods[o] = x1 /\ goods[d] = z
          /\ \A p \in ObjId \ {o, d} : goods[p] = W.obj[p]
      <4> HIDE DEF z, x1, goods1
      <4> QED BY <1>2, <3>2, <3>6
    <3> HIDE DEF V, goods1, goods, x1, z, e1
    <3>9. b \in Seq(BillX) /\ Len(b) = Len(W.bill) /\ Entries(b) = (Entries(W.bill) \ {e}) \cup {e1}
          /\ Distinct(b)
      BY <1>1, <2>1, <3>3, <3>7, Amended
    <3> HIDE DEF b
    <3>10. Rebooked(W, V, goods, b)
      BY <1>1, <3>5, <3>8, <3>9, RebookedIs
    <3>11. \A f \in Entries(b) : f.bo_id # o /\ (f.bo_id = d => f = e1)
      BY <2>2, <3>2, <3>3, <3>7, <3>9
    <3>12. ~Due(V, o) /\ ~UsedUp(V, o) /\ ~OnBill(V, o) /\ ~Due(V, d) /\ UsedUp(V, d)
      BY <3>7, <3>9, <3>10, <3>11, EntryIs DEF Due, UsedUp, Rebooked
    <3>13. GetCost(V, d) = GetCost(W, o)
      BY <3>6, <3>8, <3>10 DEF Rebooked, GetCost
    <3>14. Books(V)
      <4>1. /\ {o, d} \in SUBSET ObjId /\ \A p \in ObjId \ {o, d} : V.obj[p] = W.obj[p]
            /\ V \in Worlds /\ V.shk.surcharge = W.shk.surcharge
            /\ V.impossible = W.impossible /\ Len(V.bill) <= BILLSZ /\ Distinct(V.bill)
        BY <1>1, <3>2, <3>8, <3>9, <3>10 DEF Rebooked, Books
      <4>2. \A p \in {o, d} : /\ V.obj[p].quan > 0
                              /\ Due(V, p) <=> LooseIn(V, p) /\ V.obj[p].unpaid
                              /\ UsedUp(V, p) <=> V.obj[p].where = "bill"
        BY <1>2, <3>6, <3>8, <3>10, <3>12 DEF Rebooked, LooseIn
      <4>3. \A f \in Entries(W.bill) \cup Entries(V.bill) :
               f.bo_id \notin {o, d} => (f \in Entries(W.bill) <=> f \in Entries(V.bill))
        BY <2>1, <3>7, <3>9, <3>10 DEF Rebooked
      <4>4. \A f \in Entries(V.bill) :
               f.bo_id \in {o, d} => /\ ~f.useup => f.bquan >= V.obj[f.bo_id].quan
                                     /\ f.price = GetCost(V, f.bo_id)
        BY <2>1, <3>7, <3>10, <3>11, <3>13 DEF Rebooked
      <4> QED BY <1>1, <4>1, <4>2, <4>3, <4>4, BooksMade
    <3>15. Fine(V)
      BY <2>3, <3>10, <3>14, FineRebooked
    <3>16. \A p \in ObjId \ {o} : \/ V.obj[p] = W.obj[p]
                                  \/ p = d /\ W.obj[p].where = "free" /\ V.obj[p].where = "bill"
      BY <3>2, <3>6, <3>8, <3>10 DEF Rebooked
    <3>17. W.bill # <<>>
      BY <1>1, <2>1, BillIs
    <3> QED BY <3>8, <3>10, <3>12, <3>15, <3>16, <3>17 DEF Rebooked, V, x1
  <2> QED BY <2>4, <2>5
<1> QED BY <1>4, <1>5

\* obfree of the last of what is held or lies about: what is billed stays on billobjs.
LEMMA FineObFree ==
    ASSUME NEW W, Fine(W), NEW o \in ObjId, LooseIn(W, o)
    PROVE  LET V == ObFree(W, o)
           IN  /\ Fine(V) /\ V.shk = W.shk
               /\ \A p \in ObjId \ {o} : V.obj[p] = W.obj[p]
               /\ W.bill = <<>> => V.bill = <<>>
<1> DEFINE V == ObFree(W, o)
           x == W.obj[o]
           i == Entry(W, o)
           e == W.bill[i]
<1>1. /\ W \in Worlds /\ Books(W) /\ W.obj \in [ObjId -> Obj] /\ x \in Obj
      /\ W.bill \in Seq(BillX) /\ Len(W.bill) \in Nat /\ Distinct(W.bill)
      /\ "free" \in Places /\ "bill" \in Places
  BY BillIs DEF Fine, Worlds, Books, Places
<1>2. CASE ~OnBill(W, o)
  <2> DEFINE z == [x EXCEPT !.where = "free", !.quan = 1, !.unpaid = FALSE,
                            !.no_charge = FALSE]
             goods == [W.obj EXCEPT ![o] = z]
  <2>1. V = [W EXCEPT !.obj = goods, !.bill = W.bill]
    BY <1>1, <1>2 DEF ObFree, Dealloc, Cleared, Worlds
  <2>2. z \in Obj /\ z.quan = 1 /\ z.where = "free" /\ ~z.unpaid
    BY <1>1 DEF Obj
  <2>3. /\ goods \in [ObjId -> Obj] /\ goods[o] = z
        /\ \A p \in ObjId \ {o} : goods[p] = W.obj[p]
    <3> HIDE DEF z
    <3> QED BY <1>1, <2>2
  <2> HIDE DEF V, z, goods
  <2>4. Rebooked(W, V, goods, W.bill)
    BY <1>1, <2>1, <2>3, RebookedIs
  <2>5. ~Due(V, o) /\ ~UsedUp(V, o) /\ \A f \in Entries(W.bill) : f.bo_id # o
    BY <1>1, <1>2, <2>4, EntryIs DEF Due, UsedUp, Rebooked
  <2>6. Books(V)
    <3>1. /\ {o} \in SUBSET ObjId /\ \A p \in ObjId \ {o} : V.obj[p] = W.obj[p]
          /\ V \in Worlds /\ V.shk.surcharge = W.shk.surcharge
          /\ V.impossible = W.impossible /\ Len(V.bill) <= BILLSZ /\ Distinct(V.bill)
      BY <1>1, <2>3, <2>4 DEF Rebooked, Books
    <3>2. \A p \in {o} : /\ V.obj[p].quan > 0
                         /\ Due(V, p) <=> LooseIn(V, p) /\ V.obj[p].unpaid
                         /\ UsedUp(V, p) <=> V.obj[p].where = "bill"
      BY <2>2, <2>3, <2>4, <2>5 DEF Rebooked, LooseIn
    <3>3. \A f \in Entries(W.bill) \cup Entries(V.bill) :
             f.bo_id \notin {o} => (f \in Entries(W.bill) <=> f \in Entries(V.bill))
      BY <2>4 DEF Rebooked
    <3>4. \A f \in Entries(V.bill) :
             f.bo_id \in {o} => /\ ~f.useup => f.bquan >= V.obj[f.bo_id].quan
                                /\ f.price = GetCost(V, f.bo_id)
      BY <2>4, <2>5 DEF Rebooked
    <3> QED BY <1>1, <3>1, <3>2, <3>3, <3>4, BooksMade
  <2>7. Fine(V)
    BY <2>4, <2>6, FineRebooked DEF Fine, Closed, Owes
  <2> QED BY <2>3, <2>4, <2>7 DEF Rebooked, V
<1>3. CASE OnBill(W, o)
  <2> DEFINE z == [x EXCEPT !.where = "bill", !.quan = 1, !.unpaid = FALSE,
                            !.no_charge = FALSE]
             goods == [W.obj EXCEPT ![o] = z]
             e1 == [e EXCEPT !.useup = TRUE]
             b == [W.bill EXCEPT ![i] = e1]
  <2>1. i \in 1..Len(W.bill) /\ e.bo_id = o /\ e \in Entries(W.bill) /\ e \in BillX
        /\ e.price = GetCost(W, o)
    <3>1. i \in 1..Len(W.bill) /\ e.bo_id = o /\ e \in Entries(W.bill) /\ e \in BillX
      BY <1>1, <1>3, EntryIs
    <3> QED BY <1>1, <3>1 DEF Books
  <2>2. \A f \in Entries(W.bill) : f.bo_id = o => f = e
    BY <1>1, <2>1, OneEntry
  <2>3. V = [W EXCEPT !.obj = goods, !.bill = b]
    <3>1. [W EXCEPT !.bill[i].useup = TRUE] = [W EXCEPT !.bill = b]
      BY <1>1 DEF Worlds
    <3> HIDE DEF b
    <3> QED BY <1>1, <1>3, <3>1 DEF ObFree, AddToBillObjs, Cleared, Worlds
  <2>4. z \in Obj /\ z.kind = x.kind /\ z.quan = 1 /\ z.where = "bill" /\ ~z.unpaid
    BY <1>1 DEF Obj
  <2>5. /\ goods \in [ObjId -> Obj] /\ goods[o] = z
        /\ \A p \in ObjId \ {o} : goods[p] = W.obj[p]
    <3> HIDE DEF z
    <3> QED BY <1>1, <2>4
  <2>6. e1 \in BillX /\ e1.bo_id = o /\ e1.useup /\ e1.price = e.price
    BY <2>1 DEF BillX
  <2> HIDE DEF V, z, goods, e1
  <2>7. \A f \in Entries(W.bill) \ {e} : f.bo_id # e1.bo_id
    BY <2>2, <2>6
  <2>8. b \in Seq(BillX) /\ Len(b) = Len(W.bill) /\ Entries(b) = (Entries(W.bill) \ {e}) \cup {e1}
        /\ Distinct(b)
    BY <1>1, <2>1, <2>6, <2>7, Amended
  <2> HIDE DEF b
  <2>9. Rebooked(W, V, goods, b)
    BY <1>1, <2>3, <2>5, <2>8, RebookedIs
  <2>10. \A f \in Entries(b) : f.bo_id = o => f = e1
    BY <2>2, <2>8
  <2>11. ~Due(V, o) /\ UsedUp(V, o) /\ GetCost(V, o) = GetCost(W, o)
    BY <2>4, <2>5, <2>6, <2>8, <2>9, <2>10 DEF Due, UsedUp, Rebooked, GetCost
  <2>12. Books(V)
    <3>1. /\ {o} \in SUBSET ObjId /\ \A p \in ObjId \ {o} : V.obj[p] = W.obj[p]
          /\ V \in Worlds /\ V.shk.surcharge = W.shk.surcharge
          /\ V.impossible = W.impossible /\ Len(V.bill) <= BILLSZ /\ Distinct(V.bill)
      BY <1>1, <2>5, <2>8, <2>9 DEF Rebooked, Books
    <3>2. \A p \in {o} : /\ V.obj[p].quan > 0
                         /\ Due(V, p) <=> LooseIn(V, p) /\ V.obj[p].unpaid
                         /\ UsedUp(V, p) <=> V.obj[p].where = "bill"
      BY <2>4, <2>5, <2>9, <2>11 DEF Rebooked, LooseIn
    <3>3. \A f \in Entries(W.bill) \cup Entries(V.bill) :
             f.bo_id \notin {o} => (f \in Entries(W.bill) <=> f \in Entries(V.bill))
      BY <2>1, <2>6, <2>8, <2>9 DEF Rebooked
    <3>4. \A f \in Entries(V.bill) :
             f.bo_id \in {o} => /\ ~f.useup => f.bquan >= V.obj[f.bo_id].quan
                                /\ f.price = GetCost(V, f.bo_id)
      BY <2>1, <2>6, <2>9, <2>10, <2>11 DEF Rebooked
    <3> QED BY <1>1, <3>1, <3>2, <3>3, <3>4, BooksMade
  <2>13. W.bill # <<>>
    BY <1>1, <2>1, BillIs
  <2>14. Fine(V)
    BY <2>9, <2>12, <2>13, FineRebooked DEF Fine, Closed, Owes
  <2> QED BY <2>5, <2>9, <2>13, <2>14 DEF Rebooked, V
<1> QED BY <1>2, <1>3

\* merged: two stacks become one, and so do their entries.
LEMMA FineMerged ==
    ASSUME NEW W, Fine(W), NEW o \in ObjId, NEW p \in ObjId, LooseIn(W, o), Mergable(W, o, p)
    PROVE  LET V == Merged(W, o, p)
           IN  /\ Fine(V) /\ V.shk = W.shk
               /\ W.bill = <<>> => V.bill = <<>>
<1> DEFINE x == W.obj[o]
           y == W.obj[p]
           y1 == [y EXCEPT !.quan = y.quan + x.quan]
           z == [x EXCEPT !.where = "free", !.quan = 1, !.unpaid = FALSE, !.no_charge = FALSE]
           goods1 == [W.obj EXCEPT ![p] = y1]
           goods == [goods1 EXCEPT ![o] = z]
           U == [W EXCEPT !.obj = goods1]
           V == Merged(W, o, p)
           i == Entry(W, o)
           j == Entry(W, p)
           e == W.bill[i]
           f == W.bill[j]
<1>1. /\ W \in Worlds /\ Books(W) /\ W.obj \in [ObjId -> Obj] /\ x \in Obj /\ y \in Obj
      /\ W.bill \in Seq(BillX) /\ Len(W.bill) \in Nat /\ Distinct(W.bill)
      /\ "free" \in Places
  BY BillIs DEF Fine, Worlds, Books, Places
<1>2. /\ o # p /\ x.kind = y.kind /\ x.unpaid = y.unpaid /\ LooseIn(W, p)
      /\ x.unpaid => OnBill(W, o) /\ OnBill(W, p) /\ e.price = f.price
      /\ x.quan \in Nat /\ y.quan \in Nat /\ x.quan > 0 /\ y.quan > 0
  BY <1>1 DEF Mergable, SamePrice, LooseIn, Obj, Books
<1>3. /\ y1 \in Obj /\ y1.kind = y.kind /\ y1.quan = y.quan + x.quan /\ y1.where = y.where
      /\ y1.unpaid = y.unpaid
  BY <1>1, <1>2 DEF Obj
<1>4. z \in Obj /\ z.quan = 1 /\ z.where = "free" /\ ~z.unpaid
  BY <1>1 DEF Obj
<1>5. /\ goods1 \in [ObjId -> Obj] /\ goods1[o] = x
      /\ goods \in [ObjId -> Obj] /\ goods[o] = z /\ goods[p] = y1
      /\ \A q \in ObjId \ {o, p} : goods[q] = W.obj[q]
  <2> HIDE DEF y1, z
  <2> QED BY <1>1, <1>2, <1>3, <1>4
<1>6. V = ObFreeMerged(U, o, p)
  BY <1>1, <1>2 DEF Merged, Worlds
<1>7. /\ U.bill = W.bill /\ U.obj = goods1
      /\ OnBill(U, o) = OnBill(W, o) /\ OnBill(U, p) = OnBill(W, p)
      /\ Entry(U, o) = i /\ Entry(U, p) = j
  BY <1>1 DEF OnBill, Entry, Worlds
<1>8. /\ OnBill(W, o) <=> x.unpaid
      /\ OnBill(W, p) <=> y.unpaid
  <2>1. OnBill(W, o) <=> Due(W, o) \/ UsedUp(W, o)
    BY <1>1, EntryIs
  <2>2. OnBill(W, p) <=> Due(W, p) \/ UsedUp(W, p)
    BY <1>1, EntryIs
  <2>3. (Due(W, o) <=> x.unpaid) /\ ~UsedUp(W, o)
    BY <1>1 DEF Books, LooseIn
  <2>4. (Due(W, p) <=> y.unpaid) /\ ~UsedUp(W, p)
    BY <1>1, <1>2 DEF Books, LooseIn
  <2> QED BY <2>1, <2>2, <2>3, <2>4
<1>9. CASE ~OnBill(W, o)
  <2>1. V = [W EXCEPT !.obj = goods, !.bill = W.bill]
    <3>1. V = Dealloc(U, o)
      BY <1>6, <1>7, <1>9 DEF ObFreeMerged
    <3> HIDE DEF V, goods1
    <3> QED BY <1>1, <1>5, <3>1 DEF Dealloc, Cleared, Worlds
  <2> HIDE DEF V, z, y1, goods1, goods, U
  <2>2. Rebooked(W, V, goods, W.bill)
    BY <1>1, <1>5, <2>1, RebookedIs
  <2>3. \A g \in Entries(W.bill) : g.bo_id # o /\ g.bo_id # p
    <3>1. ~OnBill(W, p)
      BY <1>2, <1>8, <1>9
    <3> QED BY <1>1, <1>9, <3>1, EntryIs
  <2>4. ~Due(V, o) /\ ~UsedUp(V, o) /\ ~Due(V, p) /\ ~UsedUp(V, p)
    BY <2>2, <2>3 DEF Due, UsedUp, Rebooked
  <2>5. Books(V)
    <3>1. /\ {o, p} \in SUBSET ObjId /\ \A q \in ObjId \ {o, p} : V.obj[q] = W.obj[q]
          /\ V \in Worlds /\ V.shk.surcharge = W.shk.surcharge
          /\ V.impossible = W.impossible /\ Len(V.bill) <= BILLSZ /\ Distinct(V.bill)
      BY <1>1, <1>5, <2>2 DEF Rebooked, Books
    <3>2. \A q \in {o, p} : /\ V.obj[q].quan > 0
                            /\ Due(V, q) <=> LooseIn(V, q) /\ V.obj[q].unpaid
                            /\ UsedUp(V, q) <=> V.obj[q].where = "bill"
      BY <1>2, <1>3, <1>4, <1>5, <1>8, <1>9, <2>2, <2>4 DEF Rebooked, LooseIn
    <3>3. \A g \in Entries(W.bill) \cup Entries(V.bill) :
             g.bo_id \notin {o, p} => (g \in Entries(W.bill) <=> g \in Entries(V.bill))
      BY <2>2 DEF Rebooked
    <3>4. \A g \in Entries(V.bill) :
             g.bo_id \in {o, p} => /\ ~g.useup => g.bquan >= V.obj[g.bo_id].quan
                                   /\ g.price = GetCost(V, g.bo_id)
      BY <2>2, <2>3 DEF Rebooked
    <3> QED BY <1>1, <3>1, <3>2, <3>3, <3>4, BooksMade
  <2>6. Fine(V)
    BY <2>2, <2>5, FineRebooked DEF Fine, Closed, Owes
  <2> QED BY <2>2, <2>6 DEF Rebooked, V
<1>10. CASE OnBill(W, o)
  <2>1. /\ i \in 1..Len(W.bill) /\ e.bo_id = o /\ e \in Entries(W.bill) /\ e \in BillX
        /\ j \in 1..Len(W.bill) /\ f.bo_id = p /\ f \in Entries(W.bill) /\ f \in BillX
        /\ x.unpaid /\ y.unpaid
    BY <1>1, <1>2, <1>8, <1>10, EntryIs
  <2>2. \A g \in Entries(W.bill) : (g.bo_id = o => g = e) /\ (g.bo_id = p => g = f)
    BY <1>1, <2>1, OneEntry
  <2>3. /\ ~e.useup /\ e.bquan >= x.quan /\ ~f.useup /\ f.bquan >= y.quan
        /\ f.price = GetCost(W, p)
    <3>1. ~UsedUp(W, o) /\ ~UsedUp(W, p)
      BY <1>1, <1>2 DEF Books, LooseIn
    <3> QED BY <1>1, <2>1, <3>1 DEF Books, UsedUp
  <2> DEFINE f1 == [f EXCEPT !.bquan = f.bquan + e.bquan]
             b1 == [W.bill EXCEPT ![j] = f1]
             b == Unlist(b1, i)
  <2>4. V = [W EXCEPT !.obj = goods, !.bill = b]
    <3>1. V = Dealloc([U EXCEPT !.bill = Unlist([U.bill EXCEPT ![j].bquan = @ + U.bill[i].bquan], i)], o)
      BY <1>2, <1>6, <1>7, <1>8, <1>10 DEF ObFreeMerged
    <3>2. [U.bill EXCEPT ![j].bquan = @ + U.bill[i].bquan] = b1
      BY <1>7
    <3>3. V = Dealloc([U EXCEPT !.bill = b], o)
      BY <3>1, <3>2
    <3> HIDE DEF V, goods1, b
    <3> QED BY <1>1, <1>5, <3>3 DEF Dealloc, Cleared, Worlds
  <2>5. /\ f1 \in BillX /\ f1.bo_id = p /\ ~f1.useup /\ f1.price = f.price
        /\ f1.bquan = f.bquan + e.bquan /\ f1.bquan >= y.quan + x.quan
    <3>1. e.bquan \in Nat /\ f.bquan \in Nat
      BY <2>1 DEF BillX
    <3>2. f1 \in BillX /\ f1.bo_id = p /\ f1.useup = f.useup /\ f1.price = f.price
          /\ f1.bquan = f.bquan + e.bquan
      BY <2>1, <3>1 DEF BillX
    <3> HIDE DEF f1
    <3> QED BY <1>2, <2>3, <3>1, <3>2
  <2> HIDE DEF V, z, y1, goods1, goods, U, f1
  <2>6. i # j
    BY <1>2, <2>1
  <2>7. /\ b1 \in Seq(BillX) /\ Len(b1) = Len(W.bill) /\ b1[i] = e
        /\ Entries(b1) = (Entries(W.bill) \ {f}) \cup {f1} /\ Distinct(b1)
    <3>1. \A g \in Entries(W.bill) \ {f} : g.bo_id # f1.bo_id
      BY <2>2, <2>5
    <3> QED BY <1>1, <2>1, <2>5, <2>6, <3>1, Amended
  <2> HIDE DEF b1
  <2>8. b \in Seq(BillX) /\ Len(b) = Len(W.bill) - 1 /\ Entries(b) = Entries(b1) \ {e}
        /\ Distinct(b)
    BY <2>1, <2>7, Unlisted, ZenonT(30)
  <2> HIDE DEF b
  <2>9. Rebooked(W, V, goods, b)
    BY <1>1, <1>5, <2>4, <2>8, RebookedIs
  <2>10. \A g \in Entries(b) : g.bo_id # o /\ (g.bo_id = p => g = f1)
    BY <1>2, <2>2, <2>5, <2>7, <2>8
  <2>11. f1 \in Entries(b)
    BY <1>2, <2>1, <2>5, <2>7, <2>8
  <2>12. /\ ~Due(V, o) /\ ~UsedUp(V, o) /\ Due(V, p) /\ ~UsedUp(V, p)
         /\ GetCost(V, p) = GetCost(W, p)
    BY <1>3, <1>5, <2>5, <2>9, <2>10, <2>11 DEF Due, UsedUp, Rebooked, GetCost
  <2>13. Books(V)
    <3>1. /\ {o, p} \in SUBSET ObjId /\ \A q \in ObjId \ {o, p} : V.obj[q] = W.obj[q]
          /\ V \in Worlds /\ V.shk.surcharge = W.shk.surcharge
          /\ V.impossible = W.impossible /\ Len(V.bill) <= BILLSZ /\ Distinct(V.bill)
      BY <1>1, <1>5, <2>8, <2>9, ShopAssumption DEF Rebooked, Books
    <3>2. \A q \in {o, p} : /\ V.obj[q].quan > 0
                            /\ Due(V, q) <=> LooseIn(V, q) /\ V.obj[q].unpaid
                            /\ UsedUp(V, q) <=> V.obj[q].where = "bill"
      <4>1. V.obj[o] = z /\ V.obj[p] = y1
        BY <1>5, <2>9 DEF Rebooked
      <4>2. z.quan > 0 /\ ~z.unpaid /\ z.where = "free"
        BY <1>4
      <4>3. y1.quan > 0
        BY <1>2, <1>3
      <4>4. y1.unpaid /\ y1.where \notin {"free", "bill"}
        BY <1>2, <1>3, <2>1 DEF LooseIn
      <4> HIDE DEF y1, z
      <4> QED BY <2>12, <4>1, <4>2, <4>3, <4>4 DEF LooseIn
    <3>3. \A g \in Entries(W.bill) \cup Entries(V.bill) :
             g.bo_id \notin {o, p} => (g \in Entries(W.bill) <=> g \in Entries(V.bill))
      BY <2>1, <2>5, <2>7, <2>8, <2>9 DEF Rebooked
    <3>4. \A g \in Entries(V.bill) :
             g.bo_id \in {o, p} => /\ ~g.useup => g.bquan >= V.obj[g.bo_id].quan
                                   /\ g.price = GetCost(V, g.bo_id)
      BY <1>3, <1>5, <2>3, <2>5, <2>9, <2>10, <2>12 DEF Rebooked
    <3> QED BY <1>1, <3>1, <3>2, <3>3, <3>4, BooksMade
  <2>14. W.bill # <<>>
    BY <1>1, <2>1, BillIs
  <2>15. Fine(V)
    BY <2>9, <2>13, <2>14, FineRebooked DEF Fine, Closed, Owes
  <2> QED BY <2>9, <2>14, <2>15 DEF Rebooked, V
<1> QED BY <1>9, <1>10

\* What is not billed may become anything that is neither unpaid nor used up.
LEMMA FineUnbilled ==
    ASSUME NEW W, Fine(W), NEW o \in ObjId, ~OnBill(W, o), NEW x \in Obj, x.quan > 0,
           x.where # "bill", ~x.unpaid, NEW V, V = [W EXCEPT !.obj = [W.obj EXCEPT ![o] = x]]
    PROVE  /\ Fine(V) /\ V.shk = W.shk /\ V.bill = W.bill /\ V.obj[o] = x
           /\ \A p \in ObjId \ {o} : V.obj[p] = W.obj[p]
<1> DEFINE goods == [W.obj EXCEPT ![o] = x]
<1>1. /\ W \in Worlds /\ Books(W) /\ W.obj \in [ObjId -> Obj] /\ W.bill \in Seq(BillX)
  BY DEF Fine, Worlds
<1>2. goods \in [ObjId -> Obj] /\ goods[o] = x /\ \A p \in ObjId \ {o} : goods[p] = W.obj[p]
  BY <1>1
<1>3. V = [W EXCEPT !.obj = goods, !.bill = W.bill]
  BY <1>1 DEF Worlds
<1> HIDE DEF goods
<1>4. Rebooked(W, V, goods, W.bill)
  BY <1>1, <1>2, <1>3, RebookedIs
<1>5. \A f \in Entries(W.bill) : f.bo_id # o
  BY <1>1, EntryIs
<1>6. ~Due(V, o) /\ ~UsedUp(V, o)
  BY <1>4, <1>5 DEF Rebooked, Due, UsedUp
<1>7. Books(V)
  <2>1. /\ {o} \in SUBSET ObjId /\ \A p \in ObjId \ {o} : V.obj[p] = W.obj[p]
        /\ V \in Worlds /\ V.shk.surcharge = W.shk.surcharge
        /\ V.impossible = W.impossible /\ Len(V.bill) <= BILLSZ /\ Distinct(V.bill)
    BY <1>1, <1>2, <1>4 DEF Rebooked, Books
  <2>2. \A p \in {o} : /\ V.obj[p].quan > 0
                       /\ Due(V, p) <=> LooseIn(V, p) /\ V.obj[p].unpaid
                       /\ UsedUp(V, p) <=> V.obj[p].where = "bill"
    BY <1>2, <1>4, <1>6 DEF Rebooked
  <2>3. \A f \in Entries(W.bill) \cup Entries(V.bill) :
           f.bo_id \notin {o} => (f \in Entries(W.bill) <=> f \in Entries(V.bill))
    BY <1>4 DEF Rebooked
  <2>4. \A f \in Entries(V.bill) :
           f.bo_id \in {o} => /\ ~f.useup => f.bquan >= V.obj[f.bo_id].quan
                              /\ f.price = GetCost(V, f.bo_id)
    BY <1>4, <1>5 DEF Rebooked
  <2> QED BY <1>1, <2>1, <2>2, <2>3, <2>4, BooksMade, ZenonT(30)
<1>8. Fine(V)
  BY <1>4, <1>7, FineRebooked DEF Fine, Closed, Owes
<1> QED BY <1>2, <1>4, <1>8 DEF Rebooked

\* What is loose may be moved, marked and partly used up.
Alike(x, y) == /\ x \in Obj /\ x.kind = y.kind /\ x.unpaid = y.unpaid
               /\ x.quan > 0 /\ x.quan <= y.quan /\ x.where \notin {"free", "bill"}
LEMMA FineMoved ==
    ASSUME NEW W, Fine(W), NEW o \in ObjId, LooseIn(W, o), NEW x, Alike(x, W.obj[o]),
           NEW V, V = [W EXCEPT !.obj = [W.obj EXCEPT ![o] = x]]
    PROVE  /\ Fine(V) /\ V.shk = W.shk /\ V.bill = W.bill /\ V.obj[o] = x
           /\ \A p \in ObjId \ {o} : V.obj[p] = W.obj[p]
<1> DEFINE goods == [W.obj EXCEPT ![o] = x]
<1>1. /\ W \in Worlds /\ Books(W) /\ W.obj \in [ObjId -> Obj] /\ W.bill \in Seq(BillX)
  BY DEF Fine, Worlds
<1>2. goods \in [ObjId -> Obj] /\ goods[o] = x /\ \A p \in ObjId \ {o} : goods[p] = W.obj[p]
  BY <1>1 DEF Alike
<1>3. V = [W EXCEPT !.obj = goods, !.bill = W.bill]
  BY <1>1 DEF Worlds
<1> HIDE DEF goods
<1>4. Rebooked(W, V, goods, W.bill)
  BY <1>1, <1>2, <1>3, RebookedIs
<1>5. \A p \in ObjId : /\ V.obj[p].kind = W.obj[p].kind
                       /\ V.obj[p].quan > 0 /\ V.obj[p].quan <= W.obj[p].quan
                       /\ LooseIn(V, p) = LooseIn(W, p)
                       /\ (V.obj[p].where = "bill") = (W.obj[p].where = "bill")
                       /\ V.obj[p].unpaid = W.obj[p].unpaid
  <2>1. ASSUME NEW p \in ObjId \ {o}
        PROVE  V.obj[p] = W.obj[p] /\ W.obj[p].quan > 0 /\ W.obj[p].quan \in Nat
    BY <1>1, <1>2, <1>4 DEF Rebooked, Books, Obj
  <2>2. V.obj[o] = x
    BY <1>2, <1>4 DEF Rebooked
  <2> QED BY <2>1, <2>2 DEF LooseIn, Alike
<1>6. Books(V)
  BY <1>1, <1>4, <1>5, BooksStay DEF Rebooked
<1>7. Fine(V)
  BY <1>4, <1>6, FineRebooked DEF Fine, Closed, Owes
<1> QED BY <1>2, <1>4, <1>7 DEF Rebooked

\* splitobj and splitbill: the new stack has an entry of its own, exactly its size,
\* or is not unpaid.
LEMMA FineSplit ==
    ASSUME NEW W, Fine(W), NEW o \in ObjId, NEW d \in ObjId, LooseIn(W, o),
           W.obj[d].where = "free", NEW n \in 1..W.obj[o].quan - 1,
           at = "outside" => W.bill = <<>>
    PROVE  LET V == SplitObj(W, o, d, n)
           IN  /\ Fine(V) /\ V.shk = W.shk /\ d # o /\ Exact(V, d)
               /\ V.obj[d].where = W.obj[o].where /\ V.obj[o].where = W.obj[o].where
               /\ V.obj[d].kind = W.obj[o].kind
               /\ \A p \in ObjId \ {o, d} : V.obj[p] = W.obj[p]
               /\ W.bill = <<>> => V.bill = <<>>
<1> DEFINE V == SplitObj(W, o, d, n)
           x == W.obj[o]
           x1 == [x EXCEPT !.quan = x.quan - n]
           y == [x EXCEPT !.quan = n]
           goods1 == [W.obj EXCEPT ![d] = y]
           goods == [goods1 EXCEPT ![o] = x1]
           U == [W EXCEPT !.obj = goods]
           i == Entry(W, o)
           e == W.bill[i]
<1>1. /\ W \in Worlds /\ Books(W) /\ W.obj \in [ObjId -> Obj] /\ x \in Obj
      /\ W.bill \in Seq(BillX) /\ Len(W.bill) \in Nat /\ Distinct(W.bill)
      /\ x.quan \in Nat /\ n \in Nat /\ n > 0 /\ n < x.quan /\ d # o
  BY BillIs DEF Fine, Worlds, Books, Obj, LooseIn
<1>2. /\ x1 \in Obj /\ x1.quan = x.quan - n /\ x1.quan > 0 /\ x1.kind = x.kind
      /\ x1.where = x.where /\ x1.unpaid = x.unpaid
      /\ y \in Obj /\ y.quan = n /\ y.kind = x.kind /\ y.where = x.where /\ y.unpaid = x.unpaid
  BY <1>1 DEF Obj
<1>3. ~OnBill(W, d) /\ (OnBill(W, o) <=> x.unpaid)
  <2>1. ~Due(W, d) /\ ~UsedUp(W, d) /\ (Due(W, o) <=> x.unpaid) /\ ~UsedUp(W, o)
    BY <1>1 DEF Books, LooseIn
  <2> QED BY <1>1, <2>1, EntryIs
<1>4. /\ goods \in [ObjId -> Obj] /\ goods[o] = x1 /\ goods[d] = y
      /\ \A p \in ObjId \ {o, d} : goods[p] = W.obj[p]
      /\ goods1 \in [ObjId -> Obj] /\ goods1[o] = x /\ goods1[d] = y
      /\ \A p \in ObjId \ {d} : goods1[p] = W.obj[p]
  <2> HIDE DEF x1, y
  <2> QED BY <1>1, <1>2
<1>5. V = IF x.unpaid THEN SplitBill(U, o, d) ELSE U
  <2>1. [W EXCEPT !.obj[d] = y, !.obj[o].quan = @ - n] = U
    <3> HIDE DEF y
    <3> QED BY <1>1, <1>4 DEF Worlds
  <2> QED BY <2>1 DEF SplitObj
<1>6. /\ U.obj = goods /\ U.bill = W.bill /\ U.shk = W.shk /\ U.impossible = W.impossible
      /\ OnBill(U, o) = OnBill(W, o) /\ Entry(U, o) = i /\ Full(U) = Full(W)
  BY <1>1 DEF Worlds, OnBill, Entry, Full
<1>7. CASE ~x.unpaid
  <2> DEFINE A == [W EXCEPT !.obj = goods1]
  <2>1. V = U /\ ~OnBill(W, o) /\ ~OnBill(W, d)
    BY <1>3, <1>5, <1>7
  <2>2. Fine(A) /\ A.shk = W.shk /\ A.bill = W.bill /\ A.obj = goods1
    <3>1. y.where # "bill"
      BY <1>2 DEF LooseIn
    <3>2. Fine(A) /\ A.shk = W.shk /\ A.bill = W.bill
      <4> HIDE DEF y
      <4> QED BY <1>2, <1>7, <2>1, <3>1, FineUnbilled
    <3>3. A.obj = goods1
      BY <1>1 DEF Worlds
    <3> QED BY <3>2, <3>3
  <2>3. U = [A EXCEPT !.obj = [A.obj EXCEPT ![o] = x1]]
    BY <1>1, <2>2 DEF Worlds
  <2>4. ~OnBill(A, o)
    BY <2>1, <2>2 DEF OnBill
  <2> HIDE DEF A, x1, y, U, goods
  <2>5. x1.where # "bill" /\ ~x1.unpaid
    BY <1>2, <1>7 DEF LooseIn
  <2>6. Fine(U) /\ U.shk = A.shk
    BY <1>2, <2>2, <2>3, <2>4, <2>5, FineUnbilled
  <2>7. Exact(U, d)
    BY <1>1, <1>3, <1>6, EntryIs DEF Exact
  <2> QED BY <1>1, <1>2, <1>4, <1>6, <2>1, <2>2, <2>6, <2>7
<1>8. CASE x.unpaid
  <2> DEFINE left == [e EXCEPT !.bquan = e.bquan - n]
             b1 == [W.bill EXCEPT ![i] = left]
             new == [bo_id |-> d, bquan |-> n, useup |-> FALSE, price |-> e.price]
             y1 == IF Full(W) THEN [y EXCEPT !.unpaid = FALSE] ELSE y
             goods2 == [goods EXCEPT ![d] = y1]
             b == IF Full(W) THEN b1 ELSE Append(b1, new)
  <2>1. /\ i \in 1..Len(W.bill) /\ e.bo_id = o /\ e \in Entries(W.bill) /\ e \in BillX
        /\ ~e.useup /\ e.bquan >= x.quan /\ e.price = GetCost(W, o) /\ OnBill(W, o)
    <3>1. i \in 1..Len(W.bill) /\ e.bo_id = o /\ e \in Entries(W.bill) /\ e \in BillX
      BY <1>1, <1>3, <1>8, EntryIs
    <3>2. ~UsedUp(W, o)
      BY <1>1 DEF Books, LooseIn
    <3> QED BY <1>1, <1>3, <1>8, <3>1, <3>2 DEF UsedUp, Books
  <2>2. W.bill # <<>> /\ InHisShop(U) /\ at # "outside"
    <3>1. W.bill # <<>>
      BY <1>1, <2>1, BillIs
    <3> QED BY <1>6, <3>1 DEF Fine, Closed, Owes, InHisShop
  <2>3. \A f \in Entries(W.bill) : (f.bo_id = o => f = e) /\ f.bo_id # d
    BY <1>1, <1>3, <2>1, OneEntry, EntryIs
  <2>4. /\ left \in BillX /\ left.bo_id = o /\ ~left.useup /\ left.price = e.price
        /\ left.bquan = e.bquan - n /\ left.bquan >= x1.quan /\ ~(e.bquan <= n)
        /\ new \in BillX /\ new.bo_id = d /\ ~new.useup /\ new.price = e.price /\ new.bquan = n
    <3>1. e.bquan \in Nat /\ e.bquan - n \in Nat /\ e.bquan - n >= x1.quan /\ ~(e.bquan <= n)
      BY <1>1, <1>2, <2>1, SMTT(30) DEF BillX
    <3> QED BY <1>1, <2>1, <3>1 DEF BillX
  <2>5. y1 \in Obj /\ y1.quan = n /\ y1.kind = x.kind /\ y1.where = x.where
        /\ y1.unpaid = ~Full(W)
    <3>1. CASE Full(W)
      <4>1. y1 = [y EXCEPT !.unpaid = FALSE]
        BY <3>1
      <4> HIDE DEF y, y1
      <4> QED BY <1>2, <3>1, <4>1 DEF Obj
    <3>2. CASE ~Full(W)
      <4>1. y1 = y
        BY <3>2
      <4> HIDE DEF y, y1
      <4> QED BY <1>2, <1>8, <3>2, <4>1 DEF Obj
    <3> QED BY <3>1, <3>2
  <2>6. V = [W EXCEPT !.obj = goods2, !.bill = b]
    <3> DEFINE A == [U EXCEPT !.bill = b1]
    <3>1. U.obj[d] = y /\ y.quan = n /\ U.impossible = FALSE
      BY <1>1, <1>2, <1>4, <1>6 DEF Books, Worlds
    <3>2. [U EXCEPT !.bill[i].bquan = @ - U.obj[d].quan,
                    !.impossible = @ \/ U.bill[i].bquan <= U.obj[d].quan] = A
      <4>1. U \in Worlds
        <5> HIDE DEF goods
        <5> QED BY <1>1, <1>4 DEF Worlds
      <4> HIDE DEF U, y
      <4> QED BY <1>6, <2>4, <3>1, <4>1 DEF Worlds
    <3>3. V = IF Full(W) THEN [A EXCEPT !.obj[d].unpaid = FALSE]
              ELSE [A EXCEPT !.bill = Append(@, new)]
      <4>1. V = SplitBill(U, o, d)
        BY <1>5, <1>8
      <4>2. SplitBill(U, o, d) = IF Full(U)
               THEN [[U EXCEPT !.bill[i].bquan = @ - U.obj[d].quan,
                               !.impossible = @ \/ U.bill[i].bquan <= U.obj[d].quan]
                        EXCEPT !.obj[d].unpaid = FALSE]
               ELSE [[U EXCEPT !.bill[i].bquan = @ - U.obj[d].quan,
                               !.impossible = @ \/ U.bill[i].bquan <= U.obj[d].quan]
                        EXCEPT !.bill = Append(@, [bo_id |-> d, bquan |-> U.obj[d].quan,
                                        useup |-> FALSE, price |-> U.bill[i].price])]
        <5>1. InHisShop(U) /\ at # "outside" /\ OnBill(U, o) /\ Entry(U, o) = i
          BY <1>6, <2>1, <2>2
        <5> HIDE DEF A, U, V, y, i
        <5> QED BY <5>1 DEF SplitBill
      <4> HIDE DEF A, U, V, y
      <4> QED BY <1>6, <3>1, <3>2, <4>1, <4>2
    <3>4. U = [W EXCEPT !.obj = goods]
      OBVIOUS
    <3> HIDE DEF V, U, goods, y, b1, new
    <3>5. CASE Full(W)
      <4>1. goods2 = [goods EXCEPT ![d].unpaid = FALSE]
        BY <1>4, <3>5
      <4> HIDE DEF goods2
      <4> QED BY <1>1, <3>3, <3>4, <3>5, <4>1 DEF Worlds
    <3>6. CASE ~Full(W)
      <4>1. goods2 = goods
        BY <1>4, <3>6
      <4> HIDE DEF goods2
      <4> QED BY <1>1, <3>3, <3>4, <3>6, <4>1 DEF Worlds
    <3> QED BY <3>5, <3>6
  <2> HIDE DEF V, U, left, new
  <2>7. /\ goods2 \in [ObjId -> Obj] /\ goods2[o] = x1 /\ goods2[d] = y1
        /\ \A p \in ObjId \ {o, d} : goods2[p] = W.obj[p]
    <3> HIDE DEF goods, y1, x1, y
    <3> QED BY <1>1, <1>4, <2>5
  <2> HIDE DEF x1, y, y1, goods, goods1, goods2
  <2>8. /\ b1 \in Seq(BillX) /\ Len(b1) = Len(W.bill)
        /\ Entries(b1) = (Entries(W.bill) \ {e}) \cup {left} /\ Distinct(b1)
    <3>1. \A g \in Entries(W.bill) \ {e} : g.bo_id # left.bo_id
      BY <2>3, <2>4
    <3> QED BY <1>1, <2>1, <2>4, <3>1, Amended
  <2> HIDE DEF b1
  <2>9. /\ b \in Seq(BillX) /\ Distinct(b) /\ Len(b) <= BILLSZ
        /\ Entries(b) = Entries(b1) \cup (IF Full(W) THEN {} ELSE {new})
    <3>1. \A g \in Entries(b1) : g.bo_id # d
      BY <1>1, <2>3, <2>4, <2>8
    <3>2. CASE Full(W)
      BY <1>1, <2>8, <3>2 DEF Books
    <3>3. CASE ~Full(W)
      <4>1. Len(W.bill) < BILLSZ
        BY <1>1, <3>3, ShopAssumption DEF Full, Books
      <4> QED BY <1>1, <2>4, <2>8, <3>1, <3>3, <4>1, Listed, ShopAssumption
    <3> QED BY <3>2, <3>3
  <2> HIDE DEF b
  <2>10. Rebooked(W, V, goods2, b)
    BY <1>1, <2>6, <2>7, <2>9, RebookedIs
  <2>11. \A g \in Entries(b) : /\ g.bo_id = o => g = left
                               /\ g.bo_id = d => g = new /\ ~Full(W)
    BY <1>1, <2>3, <2>4, <2>8, <2>9
  <2>12. left \in Entries(b) /\ (~Full(W) => new \in Entries(b))
    BY <2>8, <2>9
  <2>13. /\ Due(V, o) /\ ~UsedUp(V, o) /\ (Due(V, d) <=> ~Full(W)) /\ ~UsedUp(V, d)
    BY <2>4, <2>10, <2>11, <2>12 DEF Due, UsedUp, Rebooked
  <2>14. GetCost(V, o) = GetCost(W, o) /\ GetCost(V, d) = GetCost(W, o)
    BY <1>2, <2>5, <2>7, <2>10 DEF Rebooked, GetCost
  <2>15. Books(V)
    <3>1. /\ {o, d} \in SUBSET ObjId /\ \A p \in ObjId \ {o, d} : V.obj[p] = W.obj[p]
          /\ V \in Worlds /\ V.shk.surcharge = W.shk.surcharge
          /\ V.impossible = W.impossible /\ Len(V.bill) <= BILLSZ /\ Distinct(V.bill)
      BY <2>7, <2>9, <2>10 DEF Rebooked
    <3>2. \A p \in {o, d} : /\ V.obj[p].quan > 0
                            /\ Due(V, p) <=> LooseIn(V, p) /\ V.obj[p].unpaid
                            /\ UsedUp(V, p) <=> V.obj[p].where = "bill"
      <4>1. V.obj[o] = x1 /\ V.obj[d] = y1
        BY <2>7, <2>10 DEF Rebooked
      <4> QED BY <1>1, <1>2, <1>8, <2>5, <2>13, <4>1 DEF LooseIn
    <3>3. \A g \in Entries(W.bill) \cup Entries(V.bill) :
             g.bo_id \notin {o, d} => (g \in Entries(W.bill) <=> g \in Entries(V.bill))
      BY <2>1, <2>4, <2>8, <2>9, <2>10 DEF Rebooked
    <3>4. \A g \in Entries(V.bill) :
             g.bo_id \in {o, d} => /\ ~g.useup => g.bquan >= V.obj[g.bo_id].quan
                                   /\ g.price = GetCost(V, g.bo_id)
      <4>1. V.obj[o] = x1 /\ V.obj[d] = y1 /\ V.bill = b
        BY <2>7, <2>10 DEF Rebooked
      <4> QED BY <1>1, <2>1, <2>4, <2>5, <2>11, <2>14, <4>1
    <3> QED BY <1>1, <3>1, <3>2, <3>3, <3>4, BooksMade
  <2>16. Fine(V)
    BY <2>2, <2>10, <2>15, FineRebooked DEF Fine, Closed, Owes
  <2>17. Exact(V, d)
    BY <2>4, <2>5, <2>7, <2>10, <2>11 DEF Exact, Rebooked
  <2>18. /\ V.obj[d].where = x.where /\ V.obj[o].where = x.where /\ V.obj[d].kind = x.kind
         /\ \A p \in ObjId \ {o, d} : V.obj[p] = W.obj[p]
    BY <1>2, <2>5, <2>7, <2>10 DEF Rebooked
  <2> QED BY <1>1, <2>2, <2>10, <2>16, <2>17, <2>18 DEF Rebooked, V
<1> QED BY <1>7, <1>8

\* stackobj and addinv: nothing happens, or what was put there joins a stack.
LEMMA FineStacked ==
    ASSUME NEW W, Fine(W), NEW o \in ObjId, LooseIn(W, o), NEW V \in Stacked(W, o)
    PROVE  Fine(V) /\ V.shk = W.shk /\ (W.bill = <<>> => V.bill = <<>>)
<1>1. V = W \/ \E p \in ObjId : Mergable(W, o, p) /\ V = Merged(W, o, p)
  BY DEF Stacked
<1> QED BY <1>1, FineMerged

(***************************************************************************)
(* The accounts.                                                           *)
(***************************************************************************)
\* The accounts may be changed as long as no gold is made and the loan is owed,
\* to a keeper who is in his shop.
Balanced(W, V) ==
    /\ V \in Worlds /\ V.obj = W.obj /\ V.bill = W.bill /\ V.impossible = W.impossible
    /\ V.shk.place = W.shk.place /\ V.shk.surcharge = W.shk.surcharge
    /\ V.ugold + V.shk.mgold + V.floorgold = W.ugold + W.shk.mgold + W.floorgold
    /\ V.shk.loan <= V.shk.debit
    /\ V.shk.debit > 0 => W.shk.debit > 0 \/ InHisShop(W)
LEMMA FineAccounts ==
    ASSUME NEW W, Fine(W), NEW V, Balanced(W, V)
    PROVE  Fine(V)
<1>1. W \in Worlds /\ Books(W) /\ Sound(W) /\ Closed(W)
  BY DEF Fine
<1>2. Books(V)
  BY <1>1, AccountsChange DEF Balanced
<1>3. Sound(V) /\ Closed(V)
  BY <1>1 DEF Balanced, Sound, Closed, Owes, Gold, LoanInDebit, InHisShop
<1> QED BY <1>2, <1>3 DEF Fine, Balanced

\* pay
LEMMA FinePay ==
    ASSUME NEW W, Fine(W), NEW amount \in Nat, amount <= Purchasing(W)
    PROVE  LET V == Pay(W, amount)
           IN  /\ Fine(V) /\ V.obj = W.obj /\ V.bill = W.bill
               /\ V.shk.place = W.shk.place /\ V.shk.debit = W.shk.debit
<1> DEFINE c == Credited(W, amount)
           V == Pay(W, amount)
           g == W.ugold - (amount - c)
           m == W.shk.mgold + (amount - c)
           k == W.shk.credit - c
           r == IF W.shk.robbed > amount THEN W.shk.robbed - amount ELSE 0
           s == [W.shk EXCEPT !.mgold = m, !.credit = k, !.robbed = r]
<1>1. W \in Worlds /\ W.shk \in Shk /\ W.ugold \in Nat /\ W.floorgold \in Nat
      /\ W.shk.mgold \in Nat /\ W.shk.credit \in Nat /\ W.shk.robbed \in Nat
      /\ W.shk.loan <= W.shk.debit
  BY DEF Fine, Worlds, Shk, Sound, LoanInDebit
<1>2. c \in Nat /\ c <= amount /\ c <= W.shk.credit /\ amount - c <= W.ugold
  BY <1>1, CreditedWithin
<1>3. V = [W EXCEPT !.shk = s, !.ugold = g, !.floorgold = W.floorgold]
  BY <1>1 DEF Pay, Worlds, Shk
<1> HIDE DEF c
<1>4. /\ g \in Nat /\ m \in Nat /\ k \in Nat /\ r \in Nat
      /\ g + m + W.floorgold = W.ugold + W.shk.mgold + W.floorgold
  BY <1>1, <1>2
<1> HIDE DEF g, m, k, r, V
<1>5. /\ s \in Shk /\ s.place = W.shk.place /\ s.surcharge = W.shk.surcharge
      /\ s.loan <= s.debit /\ s.mgold = m /\ s.debit = W.shk.debit
  BY <1>1, <1>4 DEF Shk
<1> HIDE DEF s
<1>6. /\ V \in Worlds /\ V.obj = W.obj /\ V.bill = W.bill /\ V.impossible = W.impossible
      /\ V.shk = s /\ V.ugold = g /\ V.floorgold = W.floorgold
  BY <1>1, <1>3, <1>4, <1>5 DEF Worlds
<1>7. Balanced(W, V)
  BY <1>4, <1>5, <1>6 DEF Balanced
<1> QED BY <1>5, <1>6, <1>7, FineAccounts DEF V

LEMMA FinePayDebit ==
    ASSUME NEW W, Fine(W), W.shk.debit <= Purchasing(W)
    PROVE  LET V == PayDebit(W)
           IN  /\ Fine(V) /\ V.obj = W.obj /\ V.bill = W.bill
               /\ V.shk.place = W.shk.place
<1> DEFINE amount == W.shk.debit
           c == Credited(W, amount)
           V == PayDebit(W)
           g == W.ugold - (amount - c)
           m == W.shk.mgold + (amount - c)
           k == W.shk.credit - c
           s == [W.shk EXCEPT !.mgold = m, !.credit = k, !.debit = 0, !.loan = 0]
<1>1. W \in Worlds /\ W.shk \in Shk /\ W.ugold \in Nat /\ W.floorgold \in Nat
      /\ W.shk.mgold \in Nat /\ W.shk.credit \in Nat /\ amount \in Nat
  BY DEF Fine, Worlds, Shk
<1>2. c \in Nat /\ c <= amount /\ c <= W.shk.credit /\ amount - c <= W.ugold
  BY <1>1, CreditedWithin
<1>3. V = [W EXCEPT !.shk = s, !.ugold = g, !.floorgold = W.floorgold]
  BY <1>1 DEF PayDebit, Worlds, Shk
<1> HIDE DEF c, amount
<1>4. /\ g \in Nat /\ m \in Nat /\ k \in Nat
      /\ g + m + W.floorgold = W.ugold + W.shk.mgold + W.floorgold
  BY <1>1, <1>2
<1> HIDE DEF g, m, k, V
<1>5. /\ s \in Shk /\ s.place = W.shk.place /\ s.surcharge = W.shk.surcharge
      /\ s.loan = 0 /\ s.debit = 0 /\ s.mgold = m
  BY <1>1, <1>4 DEF Shk
<1> HIDE DEF s
<1>6. /\ V \in Worlds /\ V.obj = W.obj /\ V.bill = W.bill /\ V.impossible = W.impossible
      /\ V.shk = s /\ V.ugold = g /\ V.floorgold = W.floorgold
  BY <1>1, <1>3, <1>4, <1>5 DEF Worlds
<1>7. Balanced(W, V)
  BY <1>4, <1>5, <1>6 DEF Balanced
<1> QED BY <1>5, <1>6, <1>7, FineAccounts DEF V

\* costly_gold, for gold that is picked up from the floor of the shop.
LEMMA FineCostlyGold ==
    ASSUME NEW W, Fine(W), NEW n \in Nat, n <= W.floorgold
    PROVE  LET V == [CostlyGold(W, n) EXCEPT !.ugold = @ + n, !.floorgold = @ - n]
           IN  Fine(V) /\ V.bill = W.bill
<1> DEFINE c == Credited(W, n)
           C == CostlyGold(W, n)
           V == [C EXCEPT !.ugold = @ + n, !.floorgold = @ - n]
           k == W.shk.credit - c
           d == W.shk.debit + (n - c)
           l == W.shk.loan + (n - c)
           t == [W.shk EXCEPT !.credit = k, !.debit = d, !.loan = l]
           s == IF InHisShop(W) THEN t ELSE W.shk
           g == W.ugold + n
           f == W.floorgold - n
<1>1. /\ W \in Worlds /\ W.shk \in Shk /\ W.ugold \in Nat /\ W.floorgold \in Nat
      /\ W.shk.mgold \in Nat /\ W.shk.credit \in Nat /\ W.shk.debit \in Nat
      /\ W.shk.loan \in Nat /\ W.shk.loan <= W.shk.debit
  BY DEF Fine, Worlds, Shk, Sound, LoanInDebit
<1>2. c \in Nat /\ c <= n /\ c <= W.shk.credit
  BY <1>1, CreditedWithin
<1>3. V = [W EXCEPT !.shk = s, !.ugold = g, !.floorgold = f]
  <2>1. CASE InHisShop(W)
    <3>1. C = [W EXCEPT !.shk = t]
      BY <1>1, <2>1 DEF CostlyGold, Worlds, Shk
    <3> HIDE DEF t, C
    <3> QED BY <1>1, <2>1, <3>1 DEF Worlds
  <2>2. CASE ~InHisShop(W)
    <3>1. C = W
      BY <2>2 DEF CostlyGold
    <3> HIDE DEF t, C
    <3> QED BY <1>1, <2>2, <3>1 DEF Worlds
  <2> QED BY <2>1, <2>2
<1> HIDE DEF c, V
<1>4. k \in Nat /\ d \in Nat /\ l \in Nat /\ l <= d /\ g \in Nat /\ f \in Nat
  BY <1>1, <1>2
<1> HIDE DEF k, d, l
<1>5. /\ s \in Shk /\ s.place = W.shk.place /\ s.surcharge = W.shk.surcharge
      /\ s.loan <= s.debit /\ s.mgold = W.shk.mgold
      /\ s.debit > 0 => W.shk.debit > 0 \/ InHisShop(W)
  <2>1. /\ t \in Shk /\ t.place = W.shk.place /\ t.surcharge = W.shk.surcharge
        /\ t.loan <= t.debit /\ t.mgold = W.shk.mgold
    BY <1>1, <1>4 DEF Shk
  <2> HIDE DEF t
  <2> QED BY <1>1, <2>1
<1> HIDE DEF s
<1>6. g + W.shk.mgold + f = W.ugold + W.shk.mgold + W.floorgold
  BY <1>1
<1> HIDE DEF g, f
<1>7. /\ V \in Worlds /\ V.obj = W.obj /\ V.bill = W.bill /\ V.impossible = W.impossible
      /\ V.shk = s /\ V.ugold = g /\ V.floorgold = f
  BY <1>1, <1>3, <1>4, <1>5 DEF Worlds
<1>8. Balanced(W, V)
  BY <1>5, <1>6, <1>7 DEF Balanced
<1> QED BY <1>7, <1>8, FineAccounts DEF V

\* sellobj for gold, which is dropped on the floor of the shop.
LEMMA FineGiveGold ==
    ASSUME NEW W, Fine(W), NEW n \in Nat, n <= W.ugold
    PROVE  LET V == [GiveGold(W, n) EXCEPT !.ugold = @ - n, !.floorgold = @ + n]
           IN  Fine(V) /\ V.bill = W.bill
<1> DEFINE G == GiveGold(W, n)
           V == [G EXCEPT !.ugold = @ - n, !.floorgold = @ + n]
           g == W.ugold - n
           f == W.floorgold + n
<1>1. /\ W \in Worlds /\ W.shk \in Shk /\ W.ugold \in Nat /\ W.floorgold \in Nat
      /\ W.shk.mgold \in Nat /\ W.shk.credit \in Nat /\ W.shk.debit \in Nat
      /\ W.shk.loan \in Nat /\ W.shk.loan <= W.shk.debit
  BY DEF Fine, Worlds, Shk, Sound, LoanInDebit
<1>2. \E s \in Shk : /\ s.place = W.shk.place /\ s.surcharge = W.shk.surcharge
                     /\ s.loan <= s.debit /\ s.mgold = W.shk.mgold
                     /\ s.debit > 0 => W.shk.debit > 0
                     /\ G = [W EXCEPT !.shk = s]
  <2>1. CASE ~InHisShop(W) \/ W.shk.angry
    <3>1. G = [W EXCEPT !.shk = W.shk]
      BY <1>1, <2>1 DEF GiveGold, Worlds
    <3> QED BY <1>1, <3>1
  <2>2. CASE InHisShop(W) /\ ~W.shk.angry /\ W.shk.robbed > 0
    <3> DEFINE s == [W.shk EXCEPT !.robbed = 0]
    <3>1. G = [W EXCEPT !.shk = s]
      BY <1>1, <2>2 DEF GiveGold, Worlds
    <3>2. /\ s \in Shk /\ s.place = W.shk.place /\ s.surcharge = W.shk.surcharge
          /\ s.loan <= s.debit /\ s.mgold = W.shk.mgold /\ s.debit = W.shk.debit
      BY <1>1 DEF Shk
    <3> QED BY <3>1, <3>2
  <2>3. CASE InHisShop(W) /\ ~W.shk.angry /\ ~(W.shk.robbed > 0) /\ W.shk.debit >= n
    <3> DEFINE d == W.shk.debit - n
               l == IF W.shk.loan >= n THEN W.shk.loan - n ELSE 0
               s == [W.shk EXCEPT !.debit = d, !.loan = l]
    <3>1. G = [W EXCEPT !.shk = s]
      BY <1>1, <2>3 DEF GiveGold, Worlds, Shk
    <3>2. d \in Nat /\ l \in Nat /\ l <= d /\ (d > 0 => W.shk.debit > 0)
      BY <1>1, <2>3
    <3> HIDE DEF d, l
    <3>3. /\ s \in Shk /\ s.place = W.shk.place /\ s.surcharge = W.shk.surcharge
          /\ s.loan <= s.debit /\ s.mgold = W.shk.mgold /\ s.debit = d
      BY <1>1, <3>2 DEF Shk
    <3> QED BY <3>1, <3>2, <3>3
  <2>4. CASE InHisShop(W) /\ ~W.shk.angry /\ ~(W.shk.robbed > 0) /\ ~(W.shk.debit >= n)
    <3> DEFINE k == W.shk.credit + n - W.shk.debit
               l == IF W.shk.debit > 0 THEN 0 ELSE W.shk.loan
               s == [W.shk EXCEPT !.credit = k, !.debit = 0, !.loan = l]
    <3>1. G = [W EXCEPT !.shk = s]
      BY <1>1, <2>4 DEF GiveGold, Worlds, Shk
    <3>2. k \in Nat /\ l = 0
      BY <1>1, <2>4
    <3> HIDE DEF k, l
    <3>3. /\ s \in Shk /\ s.place = W.shk.place /\ s.surcharge = W.shk.surcharge
          /\ s.loan = 0 /\ s.debit = 0 /\ s.mgold = W.shk.mgold
      BY <1>1, <3>2 DEF Shk
    <3>4. s.loan <= s.debit /\ (s.debit > 0 => W.shk.debit > 0)
      BY <3>3
    <3> QED BY <3>1, <3>3, <3>4
  <2> QED BY <2>1, <2>2, <2>3, <2>4
<1> HIDE DEF G
<1>3. PICK s \in Shk : /\ s.place = W.shk.place /\ s.surcharge = W.shk.surcharge
                       /\ s.loan <= s.debit /\ s.mgold = W.shk.mgold
                       /\ s.debit > 0 => W.shk.debit > 0
                       /\ G = [W EXCEPT !.shk = s]
  BY <1>2
<1>4. V = [W EXCEPT !.shk = s, !.ugold = g, !.floorgold = f]
  BY <1>1, <1>3 DEF Worlds
<1>5. /\ g \in Nat /\ f \in Nat
      /\ g + W.shk.mgold + f = W.ugold + W.shk.mgold + W.floorgold
  BY <1>1
<1> HIDE DEF g, f, V
<1>6. /\ V \in Worlds /\ V.obj = W.obj /\ V.bill = W.bill /\ V.impossible = W.impossible
      /\ V.shk = s /\ V.ugold = g /\ V.floorgold = f
  BY <1>1, <1>3, <1>4, <1>5 DEF Worlds
<1>7. Balanced(W, V)
  BY <1>3, <1>5, <1>6 DEF Balanced
<1>8. Fine(V) /\ V.bill = W.bill
  BY <1>6, <1>7, FineAccounts
<1> QED BY <1>8 DEF V, G

\* check_unpaid_usage
LEMMA FineUsageFee ==
    ASSUME NEW W, Fine(W), InHisShop(W), NEW fee \in Nat
    PROVE  LET V == [W EXCEPT !.shk.debit = @ + fee]
           IN  Fine(V) /\ V.bill = W.bill
<1> DEFINE V == [W EXCEPT !.shk.debit = @ + fee]
           d == W.shk.debit + fee
           s == [W.shk EXCEPT !.debit = d]
<1>1. /\ W \in Worlds /\ W.shk \in Shk /\ W.ugold \in Nat /\ W.floorgold \in Nat
      /\ W.shk.loan \in Nat /\ W.shk.debit \in Nat /\ W.shk.loan <= W.shk.debit
  BY DEF Fine, Worlds, Shk, Sound, LoanInDebit
<1>2. V = [W EXCEPT !.shk = s, !.ugold = W.ugold, !.floorgold = W.floorgold]
  BY <1>1 DEF Worlds, Shk
<1>3. d \in Nat /\ W.shk.loan <= d
  BY <1>1
<1> HIDE DEF d, V
<1>4. /\ s \in Shk /\ s.place = W.shk.place /\ s.surcharge = W.shk.surcharge
      /\ s.loan <= s.debit /\ s.mgold = W.shk.mgold
  BY <1>1, <1>3 DEF Shk
<1> HIDE DEF s
<1>5. /\ V \in Worlds /\ V.obj = W.obj /\ V.bill = W.bill /\ V.impossible = W.impossible
      /\ V.shk = s /\ V.ugold = W.ugold /\ V.floorgold = W.floorgold
  BY <1>1, <1>2, <1>4 DEF Worlds
<1>6. Balanced(W, V)
  BY <1>4, <1>5 DEF Balanced
<1> QED BY <1>5, <1>6, FineAccounts DEF V

\* What is billed stays billed when the keeper gets angry.
LEMMA RileKeepsExact ==
    ASSUME NEW W, Fine(W), NEW o \in ObjId, Exact(W, o)
    PROVE  Exact(HotPursuit(W), o)
<1> DEFINE b == W.bill
           c == HotPursuit(W).bill
<1>1. W \in Worlds /\ b \in Seq(BillX) /\ \A i \in 1..Len(b) : b[i] \in BillX
  <2>1. W \in Worlds /\ b \in Seq(BillX)
    BY DEF Fine, Worlds
  <2> QED BY <2>1, ElementOfSeq
<1>2. HotPursuit(W).obj = W.obj
  BY FineHotPursuit DEF SameButTemper
<1>3. c = IF W.shk.surcharge THEN b ELSE Reprice(b, Raised)
  BY <1>1 DEF HotPursuit, RileShk, Worlds
<1>4. /\ Reprice(b, Raised) \in Seq(BillX) /\ Len(Reprice(b, Raised)) = Len(b)
      /\ \A i \in 1..Len(b) : Reprice(b, Raised)[i] = [b[i] EXCEPT !.price = Raised(@)]
  BY <1>1, RaisedBill
<1> HIDE DEF c
<1>5. Len(c) = Len(b) /\ \A i \in 1..Len(b) : c[i].bo_id = b[i].bo_id /\ c[i].bquan = b[i].bquan
  BY <1>1, <1>3, <1>4 DEF BillX
<1> QED BY <1>2, <1>5 DEF Exact, Entries, c

\* stolen_value: what was thrown away is robbed, or owed.
LEMMA FineStolenValue ==
    ASSUME NEW W, Fine(W), NEW o \in ObjId, NEW peaceful \in BOOLEAN
    PROVE  LET V == StolenValue(W, o, peaceful)
           IN  /\ Fine(V) /\ V.obj = W.obj /\ V.shk.place = W.shk.place
               /\ W.bill = <<>> => V.bill = <<>>
               /\ ~peaceful => (Owes(V) => Owes(W))
               /\ \A p \in ObjId : Exact(W, p) => Exact(V, p)
<1> DEFINE value == IF ~W.obj[o].no_charge /\ W.obj[o].kind \in Saleable
                    THEN GetCost(W, o) ELSE 0
           c == Credited(W, value)
           V == StolenValue(W, o, peaceful)
<1>1. /\ W \in Worlds /\ W.shk \in Shk /\ W.ugold \in Nat /\ W.floorgold \in Nat
      /\ W.shk.mgold \in Nat /\ W.shk.credit \in Nat /\ W.shk.debit \in Nat
      /\ W.shk.robbed \in Nat /\ W.shk.loan \in Nat /\ W.shk.loan <= W.shk.debit
  BY DEF Fine, Worlds, Shk, Sound, LoanInDebit
<1>2. value \in Nat
  BY <1>1, CostType
<1>3. c \in Nat /\ c <= value /\ c <= W.shk.credit
  BY <1>1, <1>2, CreditedWithin
<1>4. V = IF ~InHisShop(W) \/ value = 0 THEN W
          ELSE IF ~peaceful THEN HotPursuit([W EXCEPT !.shk.robbed = @ + value])
          ELSE IF W.shk.angry
          THEN [[W EXCEPT !.shk.credit = @ - c] EXCEPT !.shk.robbed = @ + (value - c)]
          ELSE [[W EXCEPT !.shk.credit = @ - c] EXCEPT !.shk.debit = @ + (value - c)]
  BY DEF StolenValue
<1> HIDE DEF value, c, V
<1>5. CASE ~InHisShop(W) \/ value = 0
  BY <1>4, <1>5 DEF V
<1>6. CASE InHisShop(W) /\ value # 0 /\ ~peaceful
  <2> DEFINE r == W.shk.robbed + value
             s == [W.shk EXCEPT !.robbed = r]
             A == [W EXCEPT !.shk = s, !.ugold = W.ugold, !.floorgold = W.floorgold]
  <2>1. V = HotPursuit(A)
    <3>1. [W EXCEPT !.shk.robbed = @ + value] = A
      BY <1>1 DEF Worlds
    <3> QED BY <1>4, <1>6, <3>1
  <2>2. r \in Nat
    BY <1>1, <1>2
  <2> HIDE DEF r
  <2>3. /\ s \in Shk /\ s.place = W.shk.place /\ s.surcharge = W.shk.surcharge
        /\ s.loan <= s.debit /\ s.mgold = W.shk.mgold /\ s.debit = W.shk.debit
    BY <1>1, <2>2 DEF Shk
  <2> HIDE DEF s
  <2>4. Fine(A) /\ A.obj = W.obj /\ A.bill = W.bill /\ A.shk = s
    <3>1. /\ A \in Worlds /\ A.obj = W.obj /\ A.bill = W.bill /\ A.impossible = W.impossible
          /\ A.shk = s /\ A.ugold = W.ugold /\ A.floorgold = W.floorgold
      BY <1>1, <2>3 DEF Worlds
    <3> HIDE DEF A
    <3>2. Balanced(W, A)
      BY <2>3, <3>1 DEF Balanced
    <3> QED BY <3>1, <3>2, FineAccounts
  <2> HIDE DEF A
  <2>5. \A p \in ObjId : Exact(W, p) => Exact(A, p)
    BY <2>4 DEF Exact
  <2>6. Fine(V) /\ SameButTemper(V, A) /\ V.shk.place = A.shk.place
    BY <2>1, <2>4, FineHotPursuit
  <2>7. \A p \in ObjId : Exact(A, p) => Exact(V, p)
    BY <2>1, <2>4, RileKeepsExact
  <2> QED BY <2>3, <2>4, <2>5, <2>6, <2>7 DEF SameButTemper, Owes, V
<1>7. CASE InHisShop(W) /\ value # 0 /\ peaceful
  <2> DEFINE k == W.shk.credit - c
             r == IF W.shk.angry THEN W.shk.robbed + (value - c) ELSE W.shk.robbed
             d == IF W.shk.angry THEN W.shk.debit ELSE W.shk.debit + (value - c)
             s == [W.shk EXCEPT !.credit = k, !.robbed = r, !.debit = d]
  <2>1. V = [W EXCEPT !.shk = s, !.ugold = W.ugold, !.floorgold = W.floorgold]
    <3>1. CASE W.shk.angry
      BY <1>1, <1>4, <1>7, <3>1 DEF Worlds, Shk
    <3>2. CASE ~W.shk.angry
      BY <1>1, <1>4, <1>7, <3>2 DEF Worlds, Shk
    <3> QED BY <3>1, <3>2
  <2>2. k \in Nat /\ r \in Nat /\ d \in Nat /\ W.shk.loan <= d
    BY <1>1, <1>2, <1>3
  <2> HIDE DEF k, r, d
  <2>3. /\ s \in Shk /\ s.place = W.shk.place /\ s.surcharge = W.shk.surcharge
        /\ s.loan <= s.debit /\ s.mgold = W.shk.mgold
    BY <1>1, <2>2 DEF Shk
  <2> HIDE DEF s
  <2>4. Fine(V) /\ V.obj = W.obj /\ V.bill = W.bill /\ V.shk = s
    <3>1. /\ V \in Worlds /\ V.obj = W.obj /\ V.bill = W.bill /\ V.impossible = W.impossible
          /\ V.shk = s /\ V.ugold = W.ugold /\ V.floorgold = W.floorgold
      BY <1>1, <2>1, <2>3 DEF Worlds
    <3>2. Balanced(W, V)
      BY <1>7, <2>3, <3>1 DEF Balanced
    <3> QED BY <3>1, <3>2, FineAccounts
  <2> QED BY <1>7, <2>3, <2>4 DEF Exact, V
<1> QED BY <1>5, <1>6, <1>7

\* sellobj: gold passes to the hero at most as much as the keeper has.
LEMMA FineSellObj ==
    ASSUME NEW W, Fine(W), NEW o \in ObjId, LooseIn(W, o), Room(W, o), NEW answer,
           NEW price \in Nat
    PROVE  LET V == SellObj(W, o, answer, price)
           IN  Fine(V) /\ LooseIn(V, o) /\ (W.bill = <<>> => V.bill = <<>>)
<1> DEFINE offer == IF W.obj[o].kind \in Saleable THEN price ELSE 0
           gold == IF offer > W.shk.mgold THEN W.shk.mgold ELSE offer
           credit == (offer * 9) \div 10 + (IF offer <= 1 THEN 1 ELSE 0)
           kept == [W EXCEPT !.obj[o].no_charge = TRUE]
           V == SellObj(W, o, answer, price)
           Ok == Fine(V) /\ LooseIn(V, o) /\ (W.bill = <<>> => V.bill = <<>>)
<1> SUFFICES Ok
  OBVIOUS
<1>1. /\ W \in Worlds /\ Books(W) /\ W.obj \in [ObjId -> Obj] /\ W.obj[o] \in Obj
      /\ W.shk \in Shk /\ W.ugold \in Nat /\ W.floorgold \in Nat
      /\ W.shk.mgold \in Nat /\ W.shk.credit \in Nat /\ W.shk.debit \in Nat
      /\ W.shk.loan <= W.shk.debit
  BY DEF Fine, Worlds, Shk, Sound, LoanInDebit
<1>2. offer \in Nat /\ gold \in Nat /\ gold <= W.shk.mgold /\ credit \in Nat
  <2>1. offer \in Nat
    OBVIOUS
  <2> HIDE DEF offer
  <2> QED BY <1>1, <2>1
<1>3. V = IF ~InHisShop(W) \/ at = "outside" THEN W
          ELSE IF W.obj[o].unpaid THEN SubFromBill(W, o)
          ELSE IF offer = 0 \/ answer = "dont" THEN kept
          ELSE IF W.shk.angry THEN W
          ELSE IF W.shk.robbed > 0 THEN [W EXCEPT !.shk.robbed = 0]
          ELSE IF Full(W) \/ answer = "no" THEN kept
          ELSE IF W.shk.mgold = 0 THEN [W EXCEPT !.shk.credit = @ + credit]
          ELSE [W EXCEPT !.ugold = @ + gold, !.shk.mgold = @ - gold]
  BY DEF SellObj
<1> HIDE DEF offer, gold, credit, kept, V
<1>4. CASE V = W
  BY <1>4
<1>5. CASE V = SubFromBill(W, o)
  <2>1. /\ Fine(V) /\ V.obj[o] = [W.obj[o] EXCEPT !.unpaid = FALSE]
        /\ W.bill = <<>> => V.bill = <<>>
    BY <1>5, FineSubFromBill
  <2> QED BY <1>1, <2>1 DEF LooseIn, Obj
<1>6. CASE V = kept
  <2> DEFINE x == [W.obj[o] EXCEPT !.no_charge = TRUE]
  <2>1. V = [W EXCEPT !.obj = [W.obj EXCEPT ![o] = x]]
    BY <1>1, <1>6 DEF kept, Worlds
  <2>2. Alike(x, W.obj[o])
    <3>1. W.obj[o].quan > 0 /\ W.obj[o].quan \in Nat
      BY <1>1 DEF Books, Obj
    <3>2. /\ x \in Obj /\ x.kind = W.obj[o].kind /\ x.unpaid = W.obj[o].unpaid
          /\ x.quan = W.obj[o].quan /\ x.where = W.obj[o].where
      BY <1>1 DEF Obj
    <3> HIDE DEF x
    <3> QED BY <3>1, <3>2 DEF LooseIn, Alike
  <2> HIDE DEF x
  <2>3. Fine(V) /\ V.bill = W.bill /\ V.obj[o] = x
    BY <1>1, <2>1, <2>2, FineMoved
  <2> QED BY <2>2, <2>3 DEF LooseIn, Alike
<1>7. ASSUME NEW s \in Shk, NEW g \in Nat, s.place = W.shk.place,
             s.surcharge = W.shk.surcharge, s.loan <= s.debit,
             s.debit = W.shk.debit,
             g + s.mgold + W.floorgold = W.ugold + W.shk.mgold + W.floorgold,
             V = [W EXCEPT !.shk = s, !.ugold = g, !.floorgold = W.floorgold]
      PROVE  Ok
  <2>1. /\ V \in Worlds /\ V.obj = W.obj /\ V.bill = W.bill /\ V.impossible = W.impossible
        /\ V.shk = s /\ V.ugold = g /\ V.floorgold = W.floorgold
    BY <1>1, <1>7 DEF Worlds
  <2>2. Balanced(W, V)
    BY <1>7, <2>1 DEF Balanced
  <2> QED BY <2>1, <2>2, FineAccounts DEF LooseIn
<1>8. CASE V = [W EXCEPT !.shk.robbed = 0]
  <2> DEFINE s == [W.shk EXCEPT !.robbed = 0]
  <2>1. V = [W EXCEPT !.shk = s, !.ugold = W.ugold, !.floorgold = W.floorgold]
    BY <1>1, <1>8 DEF Worlds
  <2>2. /\ s \in Shk /\ s.place = W.shk.place /\ s.surcharge = W.shk.surcharge
        /\ s.loan <= s.debit /\ s.mgold = W.shk.mgold /\ s.debit = W.shk.debit
    BY <1>1 DEF Shk
  <2> HIDE DEF s, Ok
  <2>3. W.ugold + s.mgold + W.floorgold = W.ugold + W.shk.mgold + W.floorgold
    BY <2>2
  <2> QED BY <1>1, <1>7, <2>1, <2>2, <2>3
<1>9. CASE V = [W EXCEPT !.shk.credit = @ + credit]
  <2> DEFINE k == W.shk.credit + credit
             s == [W.shk EXCEPT !.credit = k]
  <2>1. V = [W EXCEPT !.shk = s, !.ugold = W.ugold, !.floorgold = W.floorgold]
    BY <1>1, <1>9 DEF Worlds
  <2>2. k \in Nat
    BY <1>1, <1>2
  <2> HIDE DEF k
  <2>3. /\ s \in Shk /\ s.place = W.shk.place /\ s.surcharge = W.shk.surcharge
        /\ s.loan <= s.debit /\ s.mgold = W.shk.mgold /\ s.debit = W.shk.debit
    BY <1>1, <2>2 DEF Shk
  <2> HIDE DEF s, Ok
  <2>4. W.ugold + s.mgold + W.floorgold = W.ugold + W.shk.mgold + W.floorgold
    BY <2>3
  <2> QED BY <1>1, <1>7, <2>1, <2>3, <2>4
<1>10. CASE V = [W EXCEPT !.ugold = @ + gold, !.shk.mgold = @ - gold]
  <2> DEFINE m == W.shk.mgold - gold
             g == W.ugold + gold
             s == [W.shk EXCEPT !.mgold = m]
  <2>1. V = [W EXCEPT !.shk = s, !.ugold = g, !.floorgold = W.floorgold]
    BY <1>1, <1>10 DEF Worlds
  <2>2. m \in Nat /\ g \in Nat /\ g + m + W.floorgold = W.ugold + W.shk.mgold + W.floorgold
    BY <1>1, <1>2
  <2> HIDE DEF m, g
  <2>3. /\ s \in Shk /\ s.place = W.shk.place /\ s.surcharge = W.shk.surcharge
        /\ s.loan <= s.debit /\ s.mgold = m /\ s.debit = W.shk.debit
    BY <1>1, <2>2 DEF Shk
  <2> HIDE DEF s, Ok
  <2>4. g + s.mgold + W.floorgold = W.ugold + W.shk.mgold + W.floorgold
    BY <2>2, <2>3
  <2> QED BY <1>7, <2>1, <2>2, <2>3, <2>4
<1> HIDE DEF Ok
<1> QED BY <1>3, <1>4, <1>5, <1>6, <1>8, <1>9, <1>10

(***************************************************************************)
(* Paying the bill.                                                        *)
(***************************************************************************)
\* An entry is struck off, and what it was for is neither unpaid nor used up.
LEMMA StruckOff ==
    ASSUME NEW W, Fine(W), NEW i \in 1..Len(W.bill), NEW x \in Obj,
           x.quan > 0, ~x.unpaid, x.where # "bill",
           NEW V, Rebooked(W, V, [W.obj EXCEPT ![W.bill[i].bo_id] = x], Unlist(W.bill, i))
    PROVE  Fine(V)
<1> DEFINE e == W.bill[i]
           o == e.bo_id
           goods == [W.obj EXCEPT ![o] = x]
           b == Unlist(W.bill, i)
<1>1. /\ W \in Worlds /\ Books(W) /\ W.obj \in [ObjId -> Obj]
      /\ W.bill \in Seq(BillX) /\ Len(W.bill) \in Nat /\ Distinct(W.bill) /\ e \in BillX
      /\ e \in Entries(W.bill) /\ e.bo_id = o /\ o \in ObjId
  <2>1. /\ W \in Worlds /\ Books(W) /\ W.obj \in [ObjId -> Obj]
        /\ W.bill \in Seq(BillX) /\ Len(W.bill) \in Nat /\ Distinct(W.bill)
    BY BillIs DEF Fine, Worlds, Books
  <2>2. e \in BillX
    BY <2>1, ElementOfSeq
  <2> QED BY <2>1, <2>2 DEF Entries, BillX
<1>3. /\ goods \in [ObjId -> Obj] /\ goods[o] = x
      /\ \A p \in ObjId \ {o} : goods[p] = W.obj[p]
  BY <1>1
<1>4. b \in Seq(BillX) /\ Len(b) = Len(W.bill) - 1 /\ Entries(b) = Entries(W.bill) \ {e}
      /\ Distinct(b)
  BY <1>1, Unlisted
<1>5. Rebooked(W, V, goods, b)
  OBVIOUS
<1> HIDE DEF goods, b, o
<1>6. \A f \in Entries(b) : f.bo_id # o
  BY <1>1, <1>4, OneEntry
<1>7. ~Due(V, o) /\ ~UsedUp(V, o)
  BY <1>5, <1>6 DEF Due, UsedUp, Rebooked
<1> HIDE DEF e
<1>8. Books(V)
  <2>1. /\ {o} \in SUBSET ObjId /\ \A p \in ObjId \ {o} : V.obj[p] = W.obj[p]
        /\ V \in Worlds /\ V.shk.surcharge = W.shk.surcharge
        /\ V.impossible = W.impossible /\ Len(V.bill) <= BILLSZ /\ Distinct(V.bill)
    BY <1>1, <1>3, <1>4, <1>5, ShopAssumption DEF Rebooked, Books
  <2>2. \A p \in {o} : /\ V.obj[p].quan > 0
                       /\ Due(V, p) <=> LooseIn(V, p) /\ V.obj[p].unpaid
                       /\ UsedUp(V, p) <=> V.obj[p].where = "bill"
    BY <1>3, <1>5, <1>7 DEF Rebooked
  <2>3. \A f \in Entries(W.bill) \cup Entries(V.bill) :
           f.bo_id \notin {o} => (f \in Entries(W.bill) <=> f \in Entries(V.bill))
    BY <1>1, <1>4, <1>5 DEF Rebooked
  <2>4. \A f \in Entries(V.bill) :
           f.bo_id \in {o} => /\ ~f.useup => f.bquan >= V.obj[f.bo_id].quan
                              /\ f.price = GetCost(V, f.bo_id)
    BY <1>5, <1>6 DEF Rebooked
  <2>5. W \in Worlds /\ Books(W)
    BY <1>1
  <2> QED BY <2>1, <2>2, <2>3, <2>4, <2>5, BooksMade
<1>9. W.shk.place = "home"
  <2>1. W.bill # <<>>
    BY <1>1, BillIs
  <2> QED BY <2>1 DEF Fine, Closed, Owes
<1> QED BY <1>5, <1>8, <1>9, FineRebooked

LEMMA FineStruckOff ==
    ASSUME NEW W, Fine(W), NEW i \in 1..Len(W.bill), NEW x \in Obj,
           x.quan > 0, ~x.unpaid, x.where # "bill",
           NEW V, V = [W EXCEPT !.obj = [W.obj EXCEPT ![W.bill[i].bo_id] = x],
                                !.bill = Unlist(W.bill, i)]
    PROVE  Fine(V)
<1>1. W \in Worlds /\ W.obj \in [ObjId -> Obj] /\ W.bill \in Seq(BillX) /\ Distinct(W.bill)
  BY DEF Fine, Worlds, Books
<1>2. Unlist(W.bill, i) \in Seq(BillX)
  BY <1>1, Unlisted
<1>3. [W.obj EXCEPT ![W.bill[i].bo_id] = x] \in [ObjId -> Obj]
  BY <1>1
<1>4. Rebooked(W, V, [W.obj EXCEPT ![W.bill[i].bo_id] = x], Unlist(W.bill, i))
  BY <1>1, <1>2, <1>3, RebookedIs
<1> QED BY <1>4, StruckOff

\* What was used up of a stack is struck off, and the rest stays unpaid.
LEMMA RestKept ==
    ASSUME NEW W, Fine(W), NEW i \in 1..Len(W.bill), ~W.bill[i].useup,
           NEW n, n = W.obj[W.bill[i].bo_id].quan,
           NEW V, Rebooked(W, V, W.obj, [W.bill EXCEPT ![i] = [W.bill[i] EXCEPT !.bquan = n]])
    PROVE  Fine(V)
<1> DEFINE e == W.bill[i]
           o == e.bo_id
           e1 == [e EXCEPT !.bquan = n]
           b == [W.bill EXCEPT ![i] = e1]
<1>1. /\ W \in Worlds /\ Books(W) /\ W.obj \in [ObjId -> Obj]
      /\ W.bill \in Seq(BillX) /\ Len(W.bill) \in Nat /\ Distinct(W.bill) /\ e \in BillX
      /\ e \in Entries(W.bill) /\ e.bo_id = o /\ o \in ObjId
  <2>1. /\ W \in Worlds /\ Books(W) /\ W.obj \in [ObjId -> Obj]
        /\ W.bill \in Seq(BillX) /\ Len(W.bill) \in Nat /\ Distinct(W.bill)
    BY BillIs DEF Fine, Worlds, Books
  <2>2. e \in BillX
    BY <2>1, ElementOfSeq
  <2> QED BY <2>1, <2>2 DEF Entries, BillX
<1>2. n \in Nat
  BY <1>1 DEF Obj
<1>3. e1 \in BillX /\ e1.bo_id = o /\ ~e1.useup /\ e1.price = e.price /\ e1.bquan = n
  BY <1>1, <1>2 DEF BillX
<1>4. Rebooked(W, V, W.obj, b)
  OBVIOUS
<1>0. ~e.useup /\ n = W.obj[o].quan
  OBVIOUS
<1> HIDE DEF e1, o
<1>5. \A f \in Entries(W.bill) \ {e} : f.bo_id # e1.bo_id
  BY <1>1, <1>3, OneEntry
<1>6. b \in Seq(BillX) /\ Len(b) = Len(W.bill) /\ Entries(b) = (Entries(W.bill) \ {e}) \cup {e1}
      /\ Distinct(b)
  BY <1>1, <1>3, <1>5, Amended
<1> HIDE DEF b
<1>7. Rebooked(W, V, W.obj, b)
  BY <1>4
<1>8. \A f \in Entries(b) : f.bo_id = o => f = e1
  BY <1>3, <1>5, <1>6
<1>9. GetCost(V, o) = GetCost(W, o)
  BY <1>7 DEF Rebooked, GetCost
<1>10. Due(V, o) /\ ~UsedUp(V, o) /\ LooseIn(W, o) /\ W.obj[o].unpaid
  <2>1. Due(W, o)
    BY <1>0, <1>1 DEF Due
  <2>2. LooseIn(W, o) /\ W.obj[o].unpaid
    BY <1>1, <1>2, <2>1 DEF Books
  <2> QED BY <1>3, <1>6, <1>7, <1>8, <2>2 DEF Due, UsedUp, Rebooked
<1> HIDE DEF e
<1>11. Books(V)
  <2>1. /\ {o} \in SUBSET ObjId /\ \A p \in ObjId \ {o} : V.obj[p] = W.obj[p]
        /\ V \in Worlds /\ V.shk.surcharge = W.shk.surcharge
        /\ V.impossible = W.impossible /\ Len(V.bill) <= BILLSZ /\ Distinct(V.bill)
    BY <1>1, <1>6, <1>7 DEF Rebooked, Books
  <2>2. \A p \in {o} : /\ V.obj[p].quan > 0
                       /\ Due(V, p) <=> LooseIn(V, p) /\ V.obj[p].unpaid
                       /\ UsedUp(V, p) <=> V.obj[p].where = "bill"
    <3>1. V.obj = W.obj /\ W.obj[o].quan > 0
      BY <1>1, <1>2, <1>7 DEF Rebooked, Books
    <3> QED BY <1>10, <3>1 DEF LooseIn
  <2>3. \A f \in Entries(W.bill) \cup Entries(V.bill) :
           f.bo_id \notin {o} => (f \in Entries(W.bill) <=> f \in Entries(V.bill))
    BY <1>1, <1>3, <1>6, <1>7 DEF Rebooked
  <2>4. \A f \in Entries(V.bill) :
           f.bo_id \in {o} => /\ ~f.useup => f.bquan >= V.obj[f.bo_id].quan
                              /\ f.price = GetCost(V, f.bo_id)
    <3>1. V.obj = W.obj /\ V.bill = b /\ e.price = GetCost(W, o)
      BY <1>1, <1>7 DEF Rebooked, Books
    <3> QED BY <1>0, <1>2, <1>3, <1>8, <1>9, <3>1
  <2>5. W \in Worlds /\ Books(W)
    BY <1>1
  <2> QED BY <2>1, <2>2, <2>3, <2>4, <2>5, BooksMade
<1>12. W.shk.place = "home"
  <2>1. W.bill # <<>>
    BY <1>1, BillIs
  <2> QED BY <2>1 DEF Fine, Closed, Owes
<1> QED BY <1>7, <1>11, <1>12, FineRebooked

LEMMA FineRestKept ==
    ASSUME NEW W, Fine(W), NEW i \in 1..Len(W.bill), ~W.bill[i].useup,
           NEW n, n = W.obj[W.bill[i].bo_id].quan,
           NEW V, V = [W EXCEPT !.bill = [W.bill EXCEPT ![i] = [W.bill[i] EXCEPT !.bquan = n]]]
    PROVE  Fine(V)
<1> DEFINE e == W.bill[i]
           b == [W.bill EXCEPT ![i] = [e EXCEPT !.bquan = n]]
<1>1. W \in Worlds /\ W.obj \in [ObjId -> Obj] /\ W.bill \in Seq(BillX) /\ e \in BillX
  <2>1. W \in Worlds /\ W.obj \in [ObjId -> Obj] /\ W.bill \in Seq(BillX)
    BY DEF Fine, Worlds
  <2> QED BY <2>1, ElementOfSeq
<1>2. n \in Nat
  BY <1>1 DEF BillX, Obj
<1>3. [e EXCEPT !.bquan = n] \in BillX
  BY <1>1, <1>2 DEF BillX
<1>4. b \in Seq(BillX)
  BY <1>1, <1>3, ExceptSeq
<1>5. V = [W EXCEPT !.obj = W.obj, !.bill = b]
  BY <1>1 DEF Worlds
<1> HIDE DEF b
<1>6. Rebooked(W, V, W.obj, b)
  BY <1>1, <1>4, <1>5, RebookedIs
<1> QED BY <1>6, RestKept DEF b

\* The turns of dopay's loops.
Turns(y) == {s \in [W : Worlds, tmp : Nat, pass : {0, 1}, stop : BOOLEAN,
                    itemize : BOOLEAN, yes : {y}] : Fine(s.W) /\ s.tmp > 0}

LEMMA TurnOn ==
    ASSUME NEW y, NEW s \in Turns(y)
    PROVE  /\ \A V : Fine(V) => [s EXCEPT !.W = V] \in Turns(y)
           /\ \A b \in BOOLEAN : /\ [s EXCEPT !.stop = b] \in Turns(y)
                                 /\ [s EXCEPT !.tmp = @ + 1, !.stop = b] \in Turns(y)
                                 /\ [s EXCEPT !.pass = 1, !.tmp = 1, !.stop = b] \in Turns(y)
           /\ [s EXCEPT !.tmp = @ + 1] \in Turns(y)
<1>1. /\ s \in [W : Worlds, tmp : Nat, pass : {0, 1}, stop : BOOLEAN,
               itemize : BOOLEAN, yes : {y}]
      /\ Fine(s.W) /\ s.tmp > 0 /\ s.tmp \in Nat
  BY DEF Turns
<1>2. s.tmp + 1 \in Nat /\ s.tmp + 1 > 0 /\ 1 \in Nat /\ 1 > 0
  BY <1>1
<1>3. ASSUME NEW V, Fine(V) PROVE [s EXCEPT !.W = V] \in Turns(y)
  BY <1>1, <1>3 DEF Turns, Fine
<1>4. ASSUME NEW b \in BOOLEAN
      PROVE  /\ [s EXCEPT !.stop = b] \in Turns(y)
             /\ [s EXCEPT !.tmp = @ + 1, !.stop = b] \in Turns(y)
             /\ [s EXCEPT !.pass = 1, !.tmp = 1, !.stop = b] \in Turns(y)
  <2>1. [s EXCEPT !.stop = b] \in Turns(y)
    BY <1>1 DEF Turns
  <2>2. [s EXCEPT !.tmp = @ + 1, !.stop = b] \in Turns(y)
    BY <1>1, <1>2 DEF Turns
  <2>3. [s EXCEPT !.pass = 1, !.tmp = 1, !.stop = b] \in Turns(y)
    BY <1>1, <1>2 DEF Turns
  <2> QED BY <2>1, <2>2, <2>3
<1>5. [s EXCEPT !.tmp = @ + 1] \in Turns(y)
  BY <1>1, <1>2 DEF Turns
<1> QED BY <1>3, <1>4, <1>5

\* dopayobj pays for what is there, and never comes to its impossible().
LEMMA DoPayObjFine ==
    ASSUME NEW y, NEW s \in Turns(y), s.tmp <= Len(s.W.bill),
           ~((s.pass = 1) = s.W.bill[s.tmp].useup
             /\ (s.W.bill[s.tmp].useup
                 \/ s.W.obj[s.W.bill[s.tmp].bo_id].quan = s.W.bill[s.tmp].bquan))
    PROVE  DoPayObj(s) \in Turns(y)
<1> DEFINE W == s.W
           i == s.tmp
           e == W.bill[i]
           o == e.bo_id
           x == W.obj[o]
           quan == IF e.useup THEN e.bquan ELSE x.quan
           consumed == s.pass = 0
           n == IF ~consumed THEN quan
                ELSE IF e.bquan > quan THEN e.bquan - quan ELSE e.bquan
           refused == s.itemize /\ (<<s.pass, o>> \notin s.yes
                                    \/ (n < e.bquan /\ ~consumed))
           short == e.price * n > Purchasing(W)
           V == Pay(W, e.price * n)
<1>1. /\ Fine(W) /\ W \in Worlds /\ Books(W) /\ W.obj \in [ObjId -> Obj]
      /\ W.bill \in Seq(BillX) /\ Len(W.bill) \in Nat /\ i \in 1..Len(W.bill)
      /\ s.pass \in {0, 1} /\ s.itemize \in BOOLEAN /\ s.stop \in BOOLEAN
      /\ s \in [W : Worlds, tmp : Nat, pass : {0, 1}, stop : BOOLEAN,
                itemize : BOOLEAN, yes : {y}] /\ s.tmp > 0
  <2>1. Fine(W) /\ i \in Nat /\ i > 0
        /\ s.pass \in {0, 1} /\ s.itemize \in BOOLEAN /\ s.stop \in BOOLEAN
        /\ s \in [W : Worlds, tmp : Nat, pass : {0, 1}, stop : BOOLEAN,
                  itemize : BOOLEAN, yes : {y}]
    BY DEF Turns
  <2> QED BY <2>1, BillIs DEF Fine, Worlds
<1>2. e \in BillX /\ e \in Entries(W.bill)
  BY <1>1, ElementOfSeq DEF Entries
<1>3. /\ o \in ObjId /\ e.bquan \in Nat /\ e.price \in Nat /\ e.useup \in BOOLEAN
  BY <1>2 DEF BillX
<1>4. /\ x \in Obj /\ x.quan \in Nat /\ x.quan > 0 /\ x.where \in Places /\ x.unpaid \in BOOLEAN
      /\ ~e.useup => x.unpaid /\ LooseIn(W, o) /\ e.bquan >= x.quan
      /\ e.useup => x.where = "bill"
  BY <1>1, <1>2, <1>3 DEF Books, Obj, Due, UsedUp
<1>5. DoPayObj(s) =
         IF ~x.unpaid /\ ~e.useup
         THEN [s EXCEPT !.W = Impossible([W EXCEPT !.bill = Unlist(@, i)])]
         ELSE IF s.itemize /\ Purchasing(W) = 0 THEN [s EXCEPT !.stop = TRUE]
         ELSE IF refused \/ short
         THEN [s EXCEPT !.tmp = @ + 1, !.stop = ~refused /\ ~s.itemize]
         ELSE IF ~consumed
         THEN [s EXCEPT !.W = [[V EXCEPT !.bill = Unlist(@, i)] EXCEPT !.obj[o].unpaid = FALSE]]
         ELSE IF n = e.bquan
         THEN [s EXCEPT !.W = Dealloc([V EXCEPT !.bill = Unlist(@, i)], o)]
         ELSE [s EXCEPT !.W = [V EXCEPT !.bill[i].bquan = quan,
                                        !.bill[i].useup = FALSE,
                                        !.obj[o].unpaid = TRUE]]
  BY DEF DoPayObj
<1>6. ~(~x.unpaid /\ ~e.useup)
  BY <1>4
<1>7. /\ n \in Nat /\ quan \in Nat
      /\ s.pass = 1 => ~e.useup
      /\ s.pass = 0 /\ e.useup => n = e.bquan
      /\ s.pass = 0 /\ ~e.useup => n # e.bquan
      /\ ~e.useup => quan = x.quan
  <2>1. s.pass = 1 => ~e.useup
    BY <1>3
  <2>2. s.pass = 0 /\ ~e.useup => x.quan # e.bquan
    BY <1>3
  <2> HIDE DEF x, e, o, V
  <2>3. CASE s.pass = 1
    <3>1. quan = x.quan /\ n = quan
      BY <2>1, <2>3
    <3> QED BY <1>4, <2>1, <2>3, <3>1
  <2>4. CASE s.pass = 0 /\ e.useup
    <3>1. quan = e.bquan /\ n = e.bquan
      BY <1>3, <2>4
    <3> QED BY <1>3, <2>4, <3>1
  <2>5. CASE s.pass = 0 /\ ~e.useup
    <3>1. quan = x.quan /\ e.bquan > x.quan
      BY <1>3, <1>4, <2>2, <2>5
    <3>2. n = e.bquan - x.quan
      BY <2>5, <3>1
    <3> HIDE DEF n, quan
    <3> QED BY <1>3, <1>4, <2>5, <3>1, <3>2
  <2> QED BY <1>1, <2>3, <2>4, <2>5
<1> HIDE DEF n, quan, refused
<1>8. CASE s.itemize /\ Purchasing(W) = 0
  <2>1. DoPayObj(s) = [s EXCEPT !.stop = TRUE]
    BY <1>5, <1>6, <1>8
  <2> QED BY <2>1, TurnOn
<1>9. CASE ~(s.itemize /\ Purchasing(W) = 0) /\ (refused \/ short)
  <2> DEFINE b == ~refused /\ ~s.itemize
  <2>1. DoPayObj(s) = [s EXCEPT !.tmp = @ + 1, !.stop = b] /\ b \in BOOLEAN
    BY <1>5, <1>6, <1>9
  <2> HIDE DEF b
  <2>2. CASE b = TRUE
    BY <2>1, <2>2, TurnOn, ZenonT(30)
  <2>3. CASE b = FALSE
    BY <2>1, <2>3, TurnOn, ZenonT(30)
  <2> QED BY <2>1, <2>2, <2>3
<1>10. CASE ~(s.itemize /\ Purchasing(W) = 0) /\ ~(refused \/ short)
  <2>1. e.price * n \in Nat /\ Purchasing(W) \in Nat
    <3>1. Purchasing(W) \in Nat
      BY <1>1 DEF Purchasing, Worlds, Shk
    <3> QED BY <1>3, <1>7, <3>1, Products
  <2>2. e.price * n <= Purchasing(W)
    BY <1>10, <2>1
  <2> DEFINE a == e.price * n
  <2> HIDE DEF a
  <2>3. Fine(V) /\ V.obj = W.obj /\ V.bill = W.bill
    <3>1. a \in Nat /\ a <= Purchasing(W) /\ V = Pay(W, a)
      BY <2>1, <2>2 DEF a
    <3> HIDE DEF V
    <3> QED BY <1>1, <3>1, FinePay
  <2> HIDE DEF V, W, i
  <2>4. V \in Worlds
    BY <2>3 DEF Fine
  <2>5. CASE s.pass = 1
    <3> DEFINE z == [x EXCEPT !.unpaid = FALSE]
               U == [V EXCEPT !.obj = [V.obj EXCEPT ![o] = z], !.bill = Unlist(V.bill, i)]
    <3>1. DoPayObj(s) = [s EXCEPT !.W = U]
      <4>1. [[V EXCEPT !.bill = Unlist(@, i)] EXCEPT !.obj[o].unpaid = FALSE] = U
        BY <2>3, <2>4 DEF Worlds
      <4> QED BY <1>5, <1>6, <1>10, <2>5, <4>1
    <3>2. z \in Obj /\ z.quan > 0 /\ ~z.unpaid /\ z.where # "bill"
      BY <1>4, <1>7, <2>5 DEF Obj, LooseIn
    <3> HIDE DEF z
    <3>3. Fine(U)
      BY <1>1, <2>3, <3>2, FineStruckOff
    <3> HIDE DEF U
    <3> QED BY <1>1, <3>1, <3>3 DEF Turns, Fine
  <2>6. CASE s.pass = 0 /\ e.useup
    <3> DEFINE z == [x EXCEPT !.where = "free", !.quan = 1, !.unpaid = FALSE,
                              !.no_charge = FALSE]
               U == [V EXCEPT !.obj = [V.obj EXCEPT ![o] = z], !.bill = Unlist(V.bill, i)]
    <3>1. DoPayObj(s) = [s EXCEPT !.W = U]
      <4>1. Dealloc([V EXCEPT !.bill = Unlist(@, i)], o) = U
        BY <2>3, <2>4 DEF Dealloc, Cleared, Worlds
      <4> QED BY <1>5, <1>6, <1>7, <1>10, <2>6, <4>1
    <3>2. z \in Obj /\ z.quan = 1 /\ ~z.unpaid /\ z.where = "free"
      <4>1. "free" \in Places
        BY DEF Places
      <4> QED BY <1>4, <4>1 DEF Obj
    <3> HIDE DEF z
    <3>3. Fine(U)
      <4>1. z.quan > 0 /\ z.where # "bill"
        BY <3>2
      <4> QED BY <1>1, <2>3, <3>2, <4>1, FineStruckOff
    <3> HIDE DEF U
    <3> QED BY <1>1, <3>1, <3>3 DEF Turns, Fine
  <2>7. CASE s.pass = 0 /\ ~e.useup
    <3> DEFINE U == [V EXCEPT !.bill = [V.bill EXCEPT ![i] = [V.bill[i] EXCEPT !.bquan = quan]]]
    <3>1. DoPayObj(s) = [s EXCEPT !.W = U]
      <4>1. [V EXCEPT !.bill[i].bquan = quan, !.bill[i].useup = FALSE,
                      !.obj[o].unpaid = TRUE] = U
        <5>1. e.useup = FALSE /\ x.unpaid = TRUE
          BY <1>3, <1>4, <2>7
        <5>2. [e EXCEPT !.bquan = quan, !.useup = FALSE] = [e EXCEPT !.bquan = quan]
          BY <1>2, <5>1 DEF BillX
        <5>3. [x EXCEPT !.unpaid = TRUE] = x
          BY <1>4, <5>1 DEF Obj
        <5>4. [W.obj EXCEPT ![o].unpaid = TRUE] = W.obj
          BY <1>1, <5>3
        <5>5. [V EXCEPT !.bill[i].bquan = quan, !.bill[i].useup = FALSE,
                        !.obj[o].unpaid = TRUE]
              = [V EXCEPT !.bill = [V.bill EXCEPT ![i] = [V.bill[i] EXCEPT !.bquan = quan,
                                                                  !.useup = FALSE]],
                          !.obj = [V.obj EXCEPT ![o].unpaid = TRUE]]
          BY <1>1, <2>3, <2>4, ZenonT(30) DEF Worlds
        <5>6. [V.bill[i] EXCEPT !.bquan = quan, !.useup = FALSE] = [V.bill[i] EXCEPT !.bquan = quan]
          BY <2>3, <5>2
        <5>7. [V.obj EXCEPT ![o].unpaid = TRUE] = V.obj
          BY <2>3, <5>4
        <5>8. [V EXCEPT !.bill[i].bquan = quan, !.bill[i].useup = FALSE, !.obj[o].unpaid = TRUE]
              = [V EXCEPT !.bill = [V.bill EXCEPT ![i] = [V.bill[i] EXCEPT !.bquan = quan]],
                          !.obj = V.obj]
          BY <5>5, <5>6, <5>7
        <5> HIDE DEF V
        <5>9. \A bb : [V EXCEPT !.bill = bb, !.obj = V.obj] = [V EXCEPT !.bill = bb]
          BY <2>4 DEF Worlds
        <5> QED BY <5>8, <5>9
      <4> QED BY <1>5, <1>6, <1>7, <1>10, <2>7, <4>1
    <3>2. ~V.bill[i].useup /\ quan = V.obj[o].quan /\ o = V.bill[i].bo_id
          /\ i \in 1..Len(V.bill)
      BY <1>1, <1>7, <2>3, <2>7
    <3>3. Fine(U)
      BY <2>3, <3>2, FineRestKept
    <3> HIDE DEF U
    <3> QED BY <1>1, <3>1, <3>3 DEF Turns, Fine
  <2> QED BY <1>1, <2>5, <2>6, <2>7
<1> QED BY <1>8, <1>9, <1>10

\* No turn finds the books wrong.
LEMMA PayEntryFine ==
    ASSUME NEW y, NEW s \in Turns(y)
    PROVE  PayEntry(s) \in Turns(y)
<1> DEFINE W == s.W
           e == W.bill[s.tmp]
           o == e.bo_id
           found == W.obj[o].where # "free" /\ (e.useup <=> W.obj[o].where = "bill")
           whole == e.useup \/ W.obj[o].quan = e.bquan
           b == s.pass = 1
<1>1. /\ Fine(W) /\ Books(W) /\ W.bill \in Seq(BillX) /\ Len(W.bill) \in Nat
      /\ s.tmp \in Nat /\ s.tmp > 0
  <2>1. Fine(W) /\ s.tmp \in Nat /\ s.tmp > 0
    BY DEF Turns
  <2> QED BY <2>1, BillIs DEF Fine, Worlds
<1>2. PayEntry(s) =
         IF s.stop THEN s
         ELSE IF s.tmp > Len(W.bill) THEN [s EXCEPT !.pass = 1, !.tmp = 1, !.stop = b]
         ELSE IF ~found THEN [s EXCEPT !.W = Impossible(SetPaid(W)), !.stop = TRUE]
         ELSE IF (s.pass = 1) = e.useup /\ whole THEN [s EXCEPT !.tmp = @ + 1]
         ELSE DoPayObj(s)
  BY DEF PayEntry
<1>3. CASE s.stop
  BY <1>2, <1>3
<1>4. CASE ~s.stop /\ s.tmp > Len(W.bill)
  <2>1. PayEntry(s) = [s EXCEPT !.pass = 1, !.tmp = 1, !.stop = b]
    BY <1>2, <1>4
  <2>2. b = TRUE \/ b = FALSE
    OBVIOUS
  <2> HIDE DEF b
  <2>3. CASE b = TRUE
    BY <2>1, <2>3, TurnOn
  <2>4. CASE b = FALSE
    BY <2>1, <2>4, TurnOn
  <2> QED BY <2>2, <2>3, <2>4
<1>5. CASE ~s.stop /\ ~(s.tmp > Len(W.bill))
  <2>1. s.tmp \in 1..Len(W.bill)
    BY <1>1, <1>5
  <2>2. e \in BillX /\ e \in Entries(W.bill)
    BY <1>1, <2>1, ElementOfSeq DEF Entries
  <2>3. o \in ObjId /\ e.useup \in BOOLEAN
    BY <2>2 DEF BillX
  <2>4. found
    <3>1. CASE e.useup
      <4>1. UsedUp(W, o)
        BY <2>2, <3>1 DEF UsedUp
      <4> QED BY <1>1, <2>3, <3>1, <4>1 DEF Books
    <3>2. CASE ~e.useup
      <4>1. Due(W, o)
        BY <2>2, <3>2 DEF Due
      <4> QED BY <1>1, <2>3, <3>2, <4>1 DEF Books, LooseIn
    <3> QED BY <3>1, <3>2
  <2>5. CASE (s.pass = 1) = e.useup /\ whole
    <3>1. PayEntry(s) = [s EXCEPT !.tmp = @ + 1]
      BY <1>2, <1>5, <2>4, <2>5
    <3> QED BY <3>1, TurnOn
  <2>6. CASE ~((s.pass = 1) = e.useup /\ whole)
    <3>1. PayEntry(s) = DoPayObj(s)
      BY <1>2, <1>5, <2>4, <2>6
    <3>2. s.tmp <= Len(W.bill)
      BY <1>1, <1>5
    <3> QED BY <2>6, <3>1, <3>2, DoPayObjFine
  <2> QED BY <2>5, <2>6
<1> QED BY <1>3, <1>4, <1>5

\* Both passes of dopay over the bill.
LEMMA FinePayBill ==
    ASSUME NEW W, Fine(W), NEW itemize \in BOOLEAN, NEW yes
    PROVE  Fine(PayBill(W, itemize, yes))
<1> DEFINE n == 4 * BILLSZ + 2
           first == [W |-> W, tmp |-> 1, pass |-> 0, stop |-> FALSE,
                     itemize |-> itemize, yes |-> yes]
           Is(f) == f = [i \in 0..4 * BILLSZ + 2 |-> IF i = 0 THEN first
                                                     ELSE PayEntry(f[i - 1])]
           T == Turns(yes)
<1>1. n \in Nat
  BY ShopAssumption
<1>2. first \in T
  BY DEF Turns, Fine
<1>3. \E f : Is(f) /\ \A i \in 0..n : f[i] \in T
  <2> HIDE DEF n, first, T
  <2> DEFINE S == [i \in 0..n |-> T]
             step == [i \in 1..n |-> [s \in T |-> PayEntry(s)]]
  <2>1. first \in S[0] /\ \A i \in 0..n : S[i] = T
    BY <1>1, <1>2
  <2>2. \A s \in T : PayEntry(s) \in T
    BY PayEntryFine DEF T
  <2>3. \A i \in 1..n : i - 1 \in 0..n /\ i \in 0..n /\ \A s \in S[i - 1] : step[i][s] \in S[i]
    BY <1>1, <2>1, <2>2
  <2>4. \A i \in 1..n : \A s \in T : step[i][s] = PayEntry(s)
    OBVIOUS
  <2> HIDE DEF S, step
  <2>5. PICK f : Runs(f, n, first, step) /\ \A i \in 0..n : f[i] \in S[i]
    BY <1>1, <2>1, <2>3, LoopRuns
  <2>6. ASSUME NEW i \in 0..n
        PROVE  f[i] = IF i = 0 THEN first ELSE PayEntry(f[i - 1])
    <3>1. f[i] = IF i = 0 THEN first ELSE step[i][f[i - 1]]
      BY <2>5 DEF Runs
    <3>2. i # 0 => i \in 1..n /\ i - 1 \in 0..n
      BY <1>1
    <3> QED BY <2>1, <2>4, <2>5, <3>1, <3>2
  <2>7. f = [i \in 0..n |-> f[i]]
    BY <2>5 DEF Runs
  <2>8. f = [i \in 0..n |-> IF i = 0 THEN first ELSE PayEntry(f[i - 1])]
    BY <2>6, <2>7
  <2>9. Is(f) /\ \A i \in 0..n : f[i] \in T
    BY <2>1, <2>5, <2>8 DEF n
  <2> HIDE DEF Is, n
  <2> QED BY <2>9
<1> DEFINE turns == CHOOSE f : Is(f)
<1>4. Is(turns)
  BY <1>3
<1>5. PayBill(W, itemize, yes) = turns[n].W
  BY DEF PayBill
<1> HIDE DEF turns
<1> DEFINE B == {i \in 0..n : turns[i] \in T}
<1>6. \A i \in 0..n : i \in B
  <2>1. \A i \in 0..n : turns[i] = IF i = 0 THEN first ELSE PayEntry(turns[i - 1])
    BY <1>4
  <2> HIDE DEF n, first, T
  <2>2. 0 \in B
    BY <1>1, <1>2, <2>1
  <2>3. \A s \in T : PayEntry(s) \in T
    BY PayEntryFine DEF T
  <2>4. \A i \in 1..n : i - 1 \in B => i \in B
    BY <1>1, <2>1, <2>3
  <2> HIDE DEF B
  <2> QED BY <1>1, <2>2, <2>4, CountingUp
<1>7. turns[n] \in Turns(yes)
  <2> HIDE DEF n
  <2> QED BY <1>1, <1>6
<1> HIDE DEF n
<1> QED BY <1>5, <1>7 DEF Turns

LEMMA FineSettle ==
    ASSUME NEW W, Fine(W), NEW itemize \in BOOLEAN, NEW yes
    PROVE  Fine(Settle(W, itemize, yes))
<1> DEFINE V == PayDebit(W)
           broke == V.bill = <<>> \/ Purchasing(V) = 0 \/ Purchasing(V) < Cheapest(V)
<1>1. Settle(W, itemize, yes) =
         IF W.shk.debit > Purchasing(W) THEN W ELSE IF broke THEN V
         ELSE PayBill(V, itemize, yes)
  BY DEF Settle
<1> HIDE DEF broke
<1>2. CASE W.shk.debit > Purchasing(W)
  BY <1>1, <1>2
<1>3. CASE ~(W.shk.debit > Purchasing(W))
  <2>1. W.shk.debit <= Purchasing(W)
    <3>1. W.shk.debit \in Nat /\ Purchasing(W) \in Nat
      BY DEF Fine, Worlds, Shk, Purchasing
    <3> QED BY <1>3, <3>1
  <2>2. Fine(V)
    BY <2>1, FinePayDebit
  <2>3. Fine(PayBill(V, itemize, yes))
    BY <2>2, FinePayBill
  <2> QED BY <1>1, <1>3, <2>2, <2>3
<1> QED BY <1>2, <1>3

LEMMA FineCompensate ==
    ASSUME NEW W, Fine(W), NEW resident \in BOOLEAN, NEW stashed \in BOOLEAN,
           NEW calms \in BOOLEAN
    PROVE  LET V == Compensate(W, resident, stashed, calms)
           IN  Fine(V) /\ (Owes(V) => Owes(W))
<1> DEFINE due == W.shk.robbed
           most == IF W.ugold < due THEN W.ugold ELSE due
           little == W.ugold < due \div 2 \/ (W.ugold < due /\ stashed)
           V == Compensate(W, resident, stashed, calms)
           Ok(U) == Fine(U) /\ (Owes(U) => Owes(W))
<1>1. due \in Nat /\ W.ugold \in Nat /\ W.shk.credit \in Nat /\ APPEASEMENT \in Nat
  BY ShopAssumption DEF Fine, Worlds, Shk
<1>2. most \in Nat /\ most <= Purchasing(W)
  BY <1>1 DEF Purchasing
<1>3. V = IF ~resident /\ ~W.shk.angry
          THEN IF due = 0 \/ W.ugold = 0 THEN W
               ELSE IF little THEN Pay(W, most)
               ELSE MakeHappyShk(Pay(W, most))
          ELSE IF due > 0
          THEN IF little THEN W ELSE MakeHappyShk(Pay(W, most))
          ELSE IF ~W.shk.angry \/ W.ugold < APPEASEMENT THEN W
          ELSE IF calms THEN MakeHappyShk(Pay(W, APPEASEMENT))
          ELSE Pay(W, APPEASEMENT)
  BY DEF Compensate
<1> HIDE DEF due, most, little
<1>4. Ok(W) /\ Ok(Pay(W, most)) /\ Ok(MakeHappyShk(Pay(W, most)))
  <2>1. Fine(Pay(W, most)) /\ Pay(W, most).bill = W.bill
        /\ Pay(W, most).shk.debit = W.shk.debit
    BY <1>2, FinePay
  <2>2. Fine(MakeHappyShk(Pay(W, most)))
        /\ SameButTemper(MakeHappyShk(Pay(W, most)), Pay(W, most))
    BY <2>1, FineMakeHappy
  <2> QED BY <2>1, <2>2 DEF SameButTemper, Owes
<1>5. ~(W.ugold < APPEASEMENT) => Ok(Pay(W, APPEASEMENT)) /\ Ok(MakeHappyShk(Pay(W, APPEASEMENT)))
  <2> SUFFICES ASSUME ~(W.ugold < APPEASEMENT)
               PROVE  Ok(Pay(W, APPEASEMENT)) /\ Ok(MakeHappyShk(Pay(W, APPEASEMENT)))
    OBVIOUS
  <2>1. APPEASEMENT <= Purchasing(W)
    BY <1>1 DEF Purchasing
  <2>2. Fine(Pay(W, APPEASEMENT)) /\ Pay(W, APPEASEMENT).bill = W.bill
        /\ Pay(W, APPEASEMENT).shk.debit = W.shk.debit
    BY <1>1, <2>1, FinePay
  <2>3. Fine(MakeHappyShk(Pay(W, APPEASEMENT)))
        /\ SameButTemper(MakeHappyShk(Pay(W, APPEASEMENT)), Pay(W, APPEASEMENT))
    BY <2>2, FineMakeHappy
  <2> QED BY <2>2, <2>3 DEF SameButTemper, Owes
<1>6. Ok(V)
  <2> HIDE DEF Ok, V
  <2> QED BY <1>3, <1>4, <1>5
<1> QED BY <1>6

(***************************************************************************)
(* The steps.                                                              *)
(***************************************************************************)
\* Every step begins with shop_keeper(), and ends with a world of its own.
LEMMA NowIs ==
    ASSUME IInv
    PROVE  /\ Fine(Now) /\ Now.obj = obj /\ Now.shk.place = shk.place
           /\ Now.ugold = ugold /\ Now.floorgold = floorgold
           /\ Owes(Now) <=> Owes(World)
           /\ at = "outside" => Now.bill = <<>> /\ ~Owes(Now)
           /\ obj \in [ObjId -> Obj]
           /\ \A o \in ObjId : obj[o].quan \in Nat /\ obj[o].quan > 0
<1>1. Fine(World) /\ Fine(Now) /\ SameButTemper(Now, World) /\ Now.shk.place = World.shk.place
  BY FineShopKeeper DEF IInv, Now
<1>2. /\ World.obj = obj /\ World.shk = shk /\ World.ugold = ugold
      /\ World.floorgold = floorgold
  BY DEF World
<1>3. \A o \in ObjId : World.obj[o].quan \in Nat /\ World.obj[o].quan > 0
  BY <1>1 DEF Fine, Books, Worlds, Obj
<1>4. World.obj \in [ObjId -> Obj]
  BY <1>1 DEF Fine, Worlds
<1>5. Owes(Now) <=> Owes(World)
  BY <1>1 DEF SameButTemper, Owes
<1>6. at = "outside" => ~Owes(World)
  BY DEF IInv
<1> HIDE DEF World, Now
<1> QED BY <1>1, <1>2, <1>3, <1>4, <1>5, <1>6 DEF SameButTemper, Owes

LEMMA BecomesIs ==
    ASSUME NEW V, Fine(V), Becomes(V), at' \in {"inside", "door", "outside"},
           at' = "outside" => ~Owes(V)
    PROVE  IInv'
<1>1. V \in Worlds
  BY DEF Fine
<1>2. V = [obj |-> V.obj, bill |-> V.bill, shk |-> V.shk, ugold |-> V.ugold,
           floorgold |-> V.floorgold, impossible |-> V.impossible]
  BY <1>1 DEF Worlds
<1>3. V = [obj |-> obj', bill |-> bill', shk |-> shk', ugold |-> ugold',
           floorgold |-> floorgold', impossible |-> impossible']
  BY <1>2 DEF Becomes
<1>4. World' = V
  BY <1>3 DEF World
<1>5. Fine(World') /\ (at' = "outside" => ~Owes(World'))
  BY <1>4
<1> QED BY <1>5 DEF IInv

LEMMA StaysAt ==
    ASSUME IInv, NEW V, Fine(V), Becomes(V), UNCHANGED at, at = "outside" => ~Owes(V)
    PROVE  IInv'
BY BecomesIs DEF IInv

\* What is loose is put elsewhere, marked, or used up by one.
Elsewhere == Places \ {"free", "bill"}
Placed(W, o, where, c, n) ==
    [W EXCEPT !.obj = [W.obj EXCEPT ![o] = [W.obj[o] EXCEPT
                           !.where = where, !.no_charge = c, !.quan = n]]]
LEMMA FinePlaced ==
    ASSUME NEW W, Fine(W), NEW o \in ObjId, LooseIn(W, o), NEW where \in Elsewhere,
           NEW c \in BOOLEAN, NEW n \in 1..W.obj[o].quan,
           NEW V, V = Placed(W, o, where, c, n)
    PROVE  /\ Fine(V) /\ V.shk = W.shk /\ V.bill = W.bill /\ V.obj[o].where = where
           /\ LooseIn(V, o) /\ (Owes(V) <=> Owes(W))
           /\ n = W.obj[o].quan /\ Room(W, o) => Room(V, o)
<1> DEFINE y == W.obj[o]
           x == [y EXCEPT !.where = where, !.no_charge = c, !.quan = n]
<1>1. /\ W \in Worlds /\ W.obj \in [ObjId -> Obj] /\ y \in Obj /\ y.quan \in Nat /\ n \in Nat /\ n > 0 /\ n <= y.quan
      /\ where \in Places /\ where \notin {"free", "bill"}
  <2>1. W \in Worlds /\ W.obj \in [ObjId -> Obj] /\ y \in Obj /\ y.quan \in Nat
    BY DEF Fine, Worlds, Obj
  <2> QED BY <2>1 DEF Elsewhere
<1> HIDE DEF y
<1>2. x \in Obj /\ x.where = where /\ x.quan = n /\ x.kind = y.kind /\ x.unpaid = y.unpaid
  BY <1>1 DEF Obj
<1> HIDE DEF x
<1>3. V = [W EXCEPT !.obj = [W.obj EXCEPT ![o] = x]]
  BY DEF x, y, Placed
<1>4. Alike(x, W.obj[o])
  BY <1>1, <1>2 DEF Alike, y
<1>5. /\ Fine(V) /\ V.shk = W.shk /\ V.bill = W.bill /\ V.obj[o] = x
      /\ \A p \in ObjId \ {o} : V.obj[p] = W.obj[p]
  BY <1>1, <1>3, <1>4, FineMoved
<1>6. Unused(V) = Unused(W)
  BY <1>1, <1>2, <1>5 DEF Unused, LooseIn
<1>7. n = W.obj[o].quan /\ Exact(W, o) => Exact(V, o)
  BY <1>2, <1>5 DEF Exact
<1> QED BY <1>1, <1>2, <1>5, <1>6, <1>7 DEF LooseIn, Owes, Room

\* What is put somewhere may join a stack there.
LEMMA FineMovedTo ==
    ASSUME NEW W, Fine(W), NEW o \in ObjId, LooseIn(W, o), NEW where \in Elsewhere
    PROVE  LET V == [W EXCEPT !.obj[o].where = where]
           IN  /\ Fine(V) /\ V.shk = W.shk /\ V.bill = W.bill /\ V.obj[o].where = where
               /\ LooseIn(V, o) /\ (Room(W, o) => Room(V, o))
               /\ \A U \in Stacked(V, o) : Fine(U) /\ (Owes(U) => Owes(W))
<1> DEFINE y == W.obj[o]
           V == [W EXCEPT !.obj[o].where = where]
<1>1. /\ W \in Worlds /\ W.obj \in [ObjId -> Obj] /\ y \in Obj /\ y.quan \in Nat
      /\ y.quan > 0 /\ y.no_charge \in BOOLEAN
  BY DEF Fine, Worlds, Books, Obj
<1>2. [y EXCEPT !.where = where] =
          [y EXCEPT !.where = where, !.no_charge = y.no_charge, !.quan = y.quan]
  BY <1>1 DEF Obj
<1>3. V = Placed(W, o, where, y.no_charge, y.quan)
  BY <1>1, <1>2 DEF Worlds, Placed
<1>4. y.quan \in 1..y.quan
  BY <1>1
<1> HIDE DEF V
<1>5. /\ Fine(V) /\ V.shk = W.shk /\ V.bill = W.bill /\ V.obj[o].where = where
      /\ LooseIn(V, o) /\ (Owes(V) <=> Owes(W)) /\ (Room(W, o) => Room(V, o))
  BY <1>1, <1>3, <1>4, FinePlaced
<1>6. \A U \in Stacked(V, o) : Fine(U) /\ U.shk = V.shk /\ (V.bill = <<>> => U.bill = <<>>)
  BY <1>5, FineStacked
<1> QED BY <1>5, <1>6 DEF V, Owes

\* One of a stack is used up.
LEMMA FineOneLess ==
    ASSUME NEW W, Fine(W), NEW o \in ObjId, LooseIn(W, o), W.obj[o].quan > 1
    PROVE  LET V == [W EXCEPT !.obj[o].quan = @ - 1]
           IN  Fine(V) /\ (Owes(V) => Owes(W))
<1> DEFINE y == W.obj[o]
           n == y.quan - 1
           V == [W EXCEPT !.obj[o].quan = @ - 1]
<1>1. /\ W \in Worlds /\ W.obj \in [ObjId -> Obj] /\ y \in Obj /\ y.quan \in Nat
      /\ y.no_charge \in BOOLEAN /\ y.where \in Elsewhere
  BY DEF Fine, Worlds, Books, Obj, LooseIn, Elsewhere
<1>2. n \in 1..y.quan
  BY <1>1
<1>3. V = [W EXCEPT !.obj = [W.obj EXCEPT ![o] = [y EXCEPT !.quan = n]]]
  BY <1>1 DEF Worlds
<1> HIDE DEF n, V
<1>4. [y EXCEPT !.quan = n] =
          [y EXCEPT !.where = y.where, !.no_charge = y.no_charge, !.quan = n]
  BY <1>1 DEF Obj
<1>5. V = Placed(W, o, y.where, y.no_charge, n)
  BY <1>3, <1>4 DEF Placed
<1>6. Fine(V) /\ (Owes(V) <=> Owes(W))
  BY <1>1, <1>2, <1>5, FinePlaced
<1> QED BY <1>6 DEF V

LEMMA FineUsedUp ==
    ASSUME NEW W, Fine(W), NEW o \in ObjId, LooseIn(W, o)
    PROVE  LET V == IF W.obj[o].quan > 1 THEN [W EXCEPT !.obj[o].quan = @ - 1]
                    ELSE ObFree(W, o)
           IN  Fine(V) /\ (Owes(V) => Owes(W))
<1>1. CASE W.obj[o].quan > 1
  BY <1>1, FineOneLess
<1>2. CASE ~(W.obj[o].quan > 1)
  <2>1. Fine(ObFree(W, o)) /\ (Owes(ObFree(W, o)) => Owes(W))
    BY FineObFree DEF Owes
  <2> QED BY <1>2, <2>1
<1> QED BY <1>1, <1>2

\* splitobj, when only a part is meant.
LEMMA PartIs ==
    ASSUME IInv, NEW o \in ObjId, obj[o].where \in Elsewhere, NEW n \in 1..obj[o].quan,
           n < obj[o].quan => Unused(Now) # {}
    PROVE  LET P == Part(o, n)
           IN  /\ Fine(P.W) /\ P.o \in ObjId /\ LooseIn(P.W, P.o)
               /\ P.W.obj[P.o].where = obj[o].where
               /\ P.W.shk = Now.shk /\ (at = "outside" => ~Owes(P.W))
               /\ Unused(Now) # {} => Room(P.W, P.o)
<1> DEFINE P == Part(o, n)
           d == NewObj(Now)
<1>1. /\ Fine(Now) /\ Now.obj = obj /\ (at = "outside" => Now.bill = <<>> /\ ~Owes(Now))
      /\ obj[o].quan \in Nat
  BY NowIs
<1> HIDE DEF Now
<1>2. LooseIn(Now, o)
  BY <1>1 DEF LooseIn, Elsewhere
<1>3. CASE n = obj[o].quan
  <2>1. P.W = Now /\ P.o = o
    BY <1>3 DEF Part
  <2> HIDE DEF P
  <2>2. Unused(Now) # {} => Room(P.W, P.o)
    BY <2>1 DEF Room
  <2>3. /\ Fine(P.W) /\ P.o \in ObjId /\ LooseIn(P.W, P.o)
        /\ P.W.obj[P.o].where = obj[o].where
        /\ P.W.shk = Now.shk /\ (at = "outside" => ~Owes(P.W))
    BY <1>1, <1>2, <2>1
  <2> QED BY <2>2, <2>3 DEF P
<1>4. CASE n # obj[o].quan
  <2> DEFINE V == SplitObj(Now, o, d, n)
  <2>1. P.W = V /\ P.o = d
    BY <1>4 DEF Part
  <2>2. n \in 1..Now.obj[o].quan - 1 /\ Unused(Now) # {}
    BY <1>1, <1>4
  <2>3. d \in ObjId /\ Now.obj[d].where = "free"
    BY <2>2, NewObjIs
  <2> HIDE DEF d, P
  <2>4. /\ Fine(V) /\ V.shk = Now.shk /\ Exact(V, d)
        /\ V.obj[d].where = Now.obj[o].where /\ (Now.bill = <<>> => V.bill = <<>>)
    BY <1>1, <1>2, <2>2, <2>3, FineSplit
  <2> HIDE DEF V
  <2>5. LooseIn(V, d) /\ Room(V, d) /\ (at = "outside" => ~Owes(V))
    BY <1>1, <1>2, <2>4 DEF LooseIn, Room, Owes
  <2>6. /\ Fine(P.W) /\ P.o \in ObjId /\ LooseIn(P.W, P.o)
        /\ P.W.obj[P.o].where = obj[o].where
        /\ P.W.shk = Now.shk /\ (at = "outside" => ~Owes(P.W))
        /\ Unused(Now) # {} => Room(P.W, P.o)
    BY <1>1, <2>1, <2>3, <2>4, <2>5
  <2> QED BY <2>6 DEF P
<1> QED BY <1>3, <1>4

\* What set_cost offers is an amount.
LEMMA OffersType ==
    ASSUME IInv, NEW o \in ObjId, NEW n \in Nat
    PROVE  Offers(obj[o].kind, n) \in SUBSET Nat
<1> DEFINE t == ListPrice[obj[o].kind] * n
<1>1. obj[o].kind \in Kind
  BY NowIs DEF Obj
<1>2. ListPrice[obj[o].kind] \in Nat
  BY <1>1, PriceAssumption
<1>3. t \in Nat
  BY <1>2
<1> HIDE DEF t
<1>4. t \div 2 \in Nat /\ t \div 3 \in Nat
  BY <1>3
<1>5. \A x \in Nat : x - x \div 4 \in Nat
  OBVIOUS
<1>6. Offers(obj[o].kind, n) = {t \div 2, t \div 3} \cup {x - x \div 4 : x \in {t \div 2, t \div 3}}
  BY DEF Offers, t
<1> QED BY <1>4, <1>5, <1>6

\* What the hero puts into his pack is not marked no_charge, and may join a stack.
LEMMA FineCarried ==
    ASSUME NEW W, Fine(W), NEW o \in ObjId, LooseIn(W, o)
    PROVE  LET V == [W EXCEPT !.obj[o].where = "invent", !.obj[o].no_charge = FALSE]
           IN  \A U \in Stacked(V, o) : Fine(U) /\ (Owes(U) => Owes(W))
<1> DEFINE y == W.obj[o]
           V == [W EXCEPT !.obj[o].where = "invent", !.obj[o].no_charge = FALSE]
<1>1. /\ W \in Worlds /\ W.obj \in [ObjId -> Obj] /\ y \in Obj /\ y.quan \in 1..y.quan
      /\ "invent" \in Elsewhere
  BY DEF Fine, Worlds, Books, Obj, Elsewhere, Places
<1>2. V = [W EXCEPT !.obj = [W.obj EXCEPT ![o] =
                                [y EXCEPT !.where = "invent", !.no_charge = FALSE]]]
  BY <1>1 DEF Worlds
<1> HIDE DEF V, y
<1>3. [y EXCEPT !.where = "invent", !.no_charge = FALSE] =
      [y EXCEPT !.where = "invent", !.no_charge = FALSE, !.quan = y.quan]
  BY <1>1 DEF Obj
<1>4. \E c \in BOOLEAN, where \in Elsewhere : V = Placed(W, o, where, c, y.quan)
  BY <1>1, <1>2, <1>3 DEF Placed, y
<1>5. Fine(V) /\ LooseIn(V, o) /\ (Owes(V) <=> Owes(W))
  BY <1>1, <1>4, FinePlaced DEF y
<1>6. \A U \in Stacked(V, o) : Fine(U) /\ (Owes(U) => Owes(W))
  BY <1>5, FineStacked DEF Owes
<1> QED BY <1>6 DEF V

\* pickup_object and pick_obj: who picks up from outside robs the shop.
LEMMA PickUpFine ==
    ASSUME IInv, NEW o \in ObjId, NEW n \in 1..obj[o].quan, PickUp(o, n)
    PROVE  IInv'
<1> DEFINE P == Part(o, n)
           B == IF obj[o].where = "inside" THEN AddToBill(P.W, P.o, FALSE) ELSE P.W
           R == IF obj[o].where = "inside" /\ at = "outside" THEN Leaves(B) ELSE B
           I == [R EXCEPT !.obj[P.o].where = "invent", !.obj[P.o].no_charge = FALSE]
<1>1. /\ obj[o].where \in {Here, "inside"}
      /\ n < obj[o].quan => Unused(Now) # {}
      /\ UNCHANGED at /\ \E U \in Stacked(I, P.o) : Becomes(U)
  BY DEF PickUp
<1>2. /\ Fine(P.W) /\ P.o \in ObjId /\ LooseIn(P.W, P.o)
      /\ at = "outside" => ~Owes(P.W)
  <2>1. obj[o].where \in Elsewhere
    BY <1>1 DEF Here, Elsewhere, Places
  <2> QED BY <1>1, <2>1, PartIs
<1> HIDE DEF P
<1>3. Fine(B) /\ LooseIn(B, P.o)
  <2>1. /\ Fine(AddToBill(P.W, P.o, FALSE))
        /\ AddToBill(P.W, P.o, FALSE).obj[P.o].where = P.W.obj[P.o].where
    BY <1>2, FineAddToBill
  <2> QED BY <1>2, <2>1 DEF LooseIn
<1>4. Fine(R) /\ LooseIn(R, P.o) /\ (at = "outside" => ~Owes(R))
  <2>1. CASE obj[o].where = "inside" /\ at = "outside"
    <3> HIDE DEF B
    <3>1. Fine(Leaves(B)) /\ ~Owes(Leaves(B)) /\ LooseIn(Leaves(B), P.o)
      BY <1>2, <1>3, FineLeaves DEF LooseIn
    <3> QED BY <2>1, <3>1
  <2>2. CASE ~(obj[o].where = "inside" /\ at = "outside")
    <3>1. R = B /\ (at = "outside" => B = P.W)
      BY <2>2
    <3> HIDE DEF R, B
    <3> QED BY <1>2, <1>3, <3>1
  <2> QED BY <2>1, <2>2
<1> HIDE DEF B, R
<1>5. \A U \in Stacked(I, P.o) : Fine(U) /\ (Owes(U) => Owes(R))
  BY <1>2, <1>4, FineCarried
<1> HIDE DEF I
<1>6. PICK U \in Stacked(I, P.o) : Becomes(U)
  BY <1>1
<1>7. Fine(U) /\ (Owes(U) => Owes(R))
  BY <1>5, <1>6
<1> QED BY <1>1, <1>4, <1>6, <1>7, StaysAt

\* drop
LEMMA DropFine ==
    ASSUME IInv, NEW o \in ObjId, NEW n \in 1..obj[o].quan,
           NEW answer \in {"yes", "no", "dont"}, Drop(o, n, answer)
    PROVE  IInv'
<1> DEFINE P == Part(o, n)
           D == [P.W EXCEPT !.obj[P.o].where = Here]
           Sold(price) == IF at = "inside" THEN SellObj(D, P.o, answer, price) ELSE D
           Prices == IF answer = "yes" THEN Offers(obj[o].kind, n) ELSE {1}
<1>1. /\ obj[o].where = "invent" /\ Unused(Now) # {} /\ UNCHANGED at
      /\ \E price \in Prices : \E U \in Stacked(Sold(price), P.o) : Becomes(U)
  BY DEF Drop, Held
<1>2. /\ Fine(P.W) /\ P.o \in ObjId /\ LooseIn(P.W, P.o) /\ Room(P.W, P.o)
      /\ at = "outside" => ~Owes(P.W)
  <2>1. obj[o].where \in Elsewhere
    BY <1>1 DEF Elsewhere, Places
  <2> QED BY <1>1, <2>1, PartIs
<1> HIDE DEF P
<1>3. Here \in Elsewhere
  BY DEF Here, Elsewhere, Places
<1>4. /\ Fine(D) /\ D.shk = P.W.shk /\ D.bill = P.W.bill /\ LooseIn(D, P.o) /\ Room(D, P.o)
  BY <1>2, <1>3, FineMovedTo
<1> HIDE DEF D
<1>5. PICK price \in Prices : \E U \in Stacked(Sold(price), P.o) : Becomes(U)
  BY <1>1
<1>6. price \in Nat
  BY OffersType
<1> HIDE DEF Prices
<1>7. /\ Fine(Sold(price)) /\ LooseIn(Sold(price), P.o)
      /\ at = "outside" => ~Owes(Sold(price))
  <2>1. CASE at = "inside"
    BY <1>2, <1>4, <1>6, <2>1, FineSellObj
  <2>2. CASE at # "inside"
    BY <1>2, <1>4, <2>2 DEF Owes
  <2> QED BY <2>1, <2>2
<1> HIDE DEF Sold
<1>8. PICK U \in Stacked(Sold(price), P.o) : Becomes(U)
  BY <1>5
<1>9. Fine(U) /\ (Owes(U) => Owes(Sold(price)))
  BY <1>2, <1>7, FineStacked DEF Owes
<1> QED BY <1>1, <1>7, <1>8, <1>9, StaysAt

\* check_shop_obj: what is thrown out of the shop is stolen, or owed.
LEMMA FineCheckShopObj ==
    ASSUME NEW W, Fine(W), NEW o \in ObjId, LooseIn(W, o), Room(W, o), NEW lands,
           NEW price \in Nat
    PROVE  LET V == CheckShopObj(W, o, lands, price) IN Fine(V) /\ LooseIn(V, o)
<1> DEFINE V == CheckShopObj(W, o, lands, price)
           angry == W.shk.angry
           S == StolenValue(W, o, ~W.shk.angry)
           gone == IF W.obj[o].unpaid THEN SubFromBill(S, o) ELSE W
           broken == [gone EXCEPT !.obj[o].no_charge = TRUE]
<1>1. V = IF lands = "broken" THEN broken
          ELSE IF lands = "outside" \/ ~InHisShop(W) THEN gone
          ELSE IF at # "inside" THEN W ELSE SellObj(W, o, "yes", price)
  BY DEF CheckShopObj
<1>2. Fine(S) /\ S.obj = W.obj /\ \A p \in ObjId : Exact(W, p) => Exact(S, p)
  BY FineStolenValue
<1> HIDE DEF S
<1>3. LooseIn(S, o) /\ Room(S, o)
  BY <1>2 DEF LooseIn, Room, Unused
<1>4. Fine(gone) /\ LooseIn(gone, o)
  <2>1. /\ Fine(SubFromBill(S, o))
        /\ SubFromBill(S, o).obj[o] = [S.obj[o] EXCEPT !.unpaid = FALSE]
    BY <1>2, <1>3, FineSubFromBill
  <2>2. S.obj[o] \in Obj
    BY <1>2 DEF Fine, Worlds
  <2>3. SubFromBill(S, o).obj[o].where = S.obj[o].where
    BY <2>1, <2>2 DEF Obj
  <2> QED BY <1>3, <2>1, <2>3 DEF LooseIn
<1> HIDE DEF gone
<1> DEFINE y == gone.obj[o]
<1>5. Fine(broken) /\ LooseIn(broken, o)
  <2>1. /\ gone \in Worlds /\ gone.obj \in [ObjId -> Obj] /\ y \in Obj /\ y.where \in Elsewhere
        /\ y.quan \in 1..y.quan
    BY <1>4 DEF Fine, Worlds, LooseIn, Obj, Elsewhere, Books
  <2> HIDE DEF y
  <2>2. [y EXCEPT !.no_charge = TRUE] =
        [y EXCEPT !.where = y.where, !.no_charge = TRUE, !.quan = y.quan]
    BY <2>1 DEF Obj
  <2>3. broken = [gone EXCEPT !.obj = [gone.obj EXCEPT ![o] = [y EXCEPT !.no_charge = TRUE]]]
    BY <2>1 DEF Worlds, y
  <2> HIDE DEF broken
  <2>4. broken = Placed(gone, o, y.where, TRUE, y.quan)
    BY <2>2, <2>3 DEF Placed, y
  <2> QED BY <1>4, <2>1, <2>4, FinePlaced DEF y
<1> HIDE DEF broken
<1>6. Fine(SellObj(W, o, "yes", price)) /\ LooseIn(SellObj(W, o, "yes", price), o)
  BY FineSellObj
<1> HIDE DEF V
<1> QED BY <1>1, <1>4, <1>5, <1>6 DEF V

\* throwit
LEMMA ThrowFine ==
    ASSUME IInv, NEW o \in ObjId, NEW lands \in {"inside", "outside", "broken"},
           Throw(o, lands)
    PROVE  IInv'
<1> DEFINE P == Part(o, 1)
           C(price) == CheckShopObj(P.W, P.o, lands, price)
           Prices == Offers(obj[o].kind, 1)
<1>1. /\ obj[o].where = "invent" /\ at # "outside" /\ Unused(Now) # {} /\ UNCHANGED at
      /\ \E price \in Prices :
            IF lands = "broken" THEN Becomes(ObFree(C(price), P.o))
            ELSE \E U \in Stacked([C(price) EXCEPT !.obj[P.o].where = lands], P.o) : Becomes(U)
  BY DEF Throw, Held
<1>2. /\ Fine(P.W) /\ P.o \in ObjId /\ LooseIn(P.W, P.o) /\ Room(P.W, P.o)
  <2>1. obj[o].where \in Elsewhere /\ 1 \in 1..obj[o].quan
    BY <1>1, NowIs DEF Elsewhere, Places
  <2> QED BY <1>1, <2>1, PartIs
<1> HIDE DEF P
<1>3. Prices \in SUBSET Nat
  BY OffersType
<1> HIDE DEF Prices
<1>4. PICK price \in Prices :
            IF lands = "broken" THEN Becomes(ObFree(C(price), P.o))
            ELSE \E U \in Stacked([C(price) EXCEPT !.obj[P.o].where = lands], P.o) : Becomes(U)
  BY <1>1
<1>5. Fine(C(price)) /\ LooseIn(C(price), P.o)
  BY <1>2, <1>3, FineCheckShopObj
<1> HIDE DEF C
<1>6. CASE lands = "broken"
  BY <1>1, <1>2, <1>4, <1>5, <1>6, FineObFree, StaysAt
<1>7. CASE lands # "broken"
  <2>1. PICK U \in Stacked([C(price) EXCEPT !.obj[P.o].where = lands], P.o) : Becomes(U)
    BY <1>4, <1>7
  <2>2. lands \in Elsewhere
    BY <1>7 DEF Elsewhere, Places
  <2>3. Fine(U)
    BY <1>2, <1>5, <2>2, FineMovedTo
  <2> QED BY <1>1, <2>1, <2>3, StaysAt
<1> QED BY <1>6, <1>7

\* doorganize
LEMMA MergeFine ==
    ASSUME IInv, NEW o \in ObjId, NEW p \in ObjId, Merge(o, p)
    PROVE  IInv'
<1>1. /\ obj[o].where = "invent" /\ Mergable(Now, o, p) /\ Becomes(Merged(Now, o, p))
      /\ UNCHANGED at
  BY DEF Merge, Held
<1>2. Fine(Now) /\ Now.obj = obj /\ (at = "outside" => ~Owes(Now))
  BY NowIs
<1>3. LooseIn(Now, o)
  BY <1>1, <1>2 DEF LooseIn
<1> HIDE DEF Now
<1>4. Fine(Merged(Now, o, p)) /\ (Owes(Merged(Now, o, p)) => Owes(Now))
  BY <1>1, <1>2, <1>3, FineMerged DEF Owes
<1> QED BY <1>1, <1>2, <1>4, StaysAt

\* useup, and what another monster uses up
LEMMA UsedUpFine ==
    ASSUME IInv, NEW o \in ObjId, UseUp(o) \/ MUseUp(o)
    PROVE  IInv'
<1> DEFINE V == IF Now.obj[o].quan > 1 THEN [Now EXCEPT !.obj[o].quan = @ - 1]
                ELSE ObFree(Now, o)
<1>1. Fine(Now) /\ Now.obj = obj /\ (at = "outside" => ~Owes(Now))
  BY NowIs
<1>2. obj[o].where \in {"invent", "minvent"} /\ Becomes(V) /\ UNCHANGED at
  <2> HIDE DEF Now
  <2> QED BY <1>1 DEF UseUp, MUseUp, Held
<1>3. LooseIn(Now, o)
  BY <1>1, <1>2 DEF LooseIn
<1>4. Fine(V) /\ (Owes(V) => Owes(Now))
  BY <1>1, <1>3, FineUsedUp
<1> HIDE DEF V
<1> QED BY <1>1, <1>2, <1>4, StaysAt

\* useupf: what is used up on the floor of the shop is billed, or stolen.
LEMMA UseUpFFine ==
    ASSUME IInv, NEW o \in ObjId, UseUpF(o)
    PROVE  IInv'
<1> DEFINE P == Part(o, 1)
           A == AddToBill(P.W, P.o, FALSE)
           S == StolenValue(P.W, P.o, FALSE)
           B == IF at = "outside" THEN S ELSE A
<1>1. /\ obj[o].where = "inside" /\ UNCHANGED at /\ Becomes(ObFree(B, P.o))
      /\ obj[o].quan > 1 => Unused(Now) # {}
  BY DEF UseUpF
<1>2. Fine(P.W) /\ P.o \in ObjId /\ LooseIn(P.W, P.o) /\ (at = "outside" => ~Owes(P.W))
  <2>1. obj[o].where \in Elsewhere /\ 1 \in 1..obj[o].quan
    BY <1>1, NowIs DEF Elsewhere, Places
  <2>2. 1 < obj[o].quan => Unused(Now) # {}
    BY <1>1, NowIs
  <2> QED BY <2>1, <2>2, PartIs
<1> HIDE DEF P
<1>3. Fine(A) /\ LooseIn(A, P.o)
  <2>1. Fine(A) /\ A.obj[P.o].where = P.W.obj[P.o].where
    BY <1>2, FineAddToBill
  <2> QED BY <1>2, <2>1 DEF LooseIn
<1>4. Fine(S) /\ LooseIn(S, P.o) /\ (Owes(S) => Owes(P.W))
  BY <1>2, FineStolenValue DEF LooseIn
<1> HIDE DEF A, S
<1>5. Fine(B) /\ LooseIn(B, P.o) /\ (at = "outside" => ~Owes(B))
  BY <1>2, <1>3, <1>4
<1> HIDE DEF B
<1>6. Fine(ObFree(B, P.o)) /\ (Owes(ObFree(B, P.o)) => Owes(B))
  BY <1>2, <1>5, FineObFree DEF Owes
<1> QED BY <1>1, <1>5, <1>6, StaysAt

\* Only what is unpaid or used up is on the bill.
LEMMA NotBilled ==
    ASSUME NEW W, Fine(W), NEW o \in ObjId, W.obj[o].where # "bill",
           W.obj[o].where = "free" \/ ~W.obj[o].unpaid
    PROVE  ~OnBill(W, o)
<1>1. ~Due(W, o) /\ ~UsedUp(W, o) /\ W \in Worlds
  BY DEF Fine, Books, LooseIn
<1> QED BY <1>1, EntryIs

\* dealloc_obj, of what is not on the bill
LEMMA FineDealloc ==
    ASSUME NEW W, Fine(W), NEW o \in ObjId, W.obj[o].where = "free"
    PROVE  LET V == Dealloc(W, o)
           IN  Fine(V) /\ \A p \in ObjId \ {o} : V.obj[p] = W.obj[p]
<1> DEFINE y == W.obj[o]
           z == [y EXCEPT !.where = "free", !.quan = 1, !.unpaid = FALSE, !.no_charge = FALSE]
           V == Dealloc(W, o)
<1>1. W \in Worlds /\ W.obj \in [ObjId -> Obj] /\ y \in Obj /\ "free" \in Places
  BY DEF Fine, Worlds, Places
<1>2. V = [W EXCEPT !.obj = [W.obj EXCEPT ![o] = z]]
  BY <1>1 DEF Dealloc, Cleared, Worlds
<1>3. z \in Obj /\ z.quan > 0 /\ z.where = "free" /\ ~z.unpaid
  <2>1. z \in Obj
    BY <1>1 DEF Obj
  <2>2. z.quan = 1
    BY <1>1 DEF Obj
  <2>3. z.where = "free"
    BY <1>1 DEF Obj
  <2>4. ~z.unpaid
    BY <1>1 DEF Obj
  <2> QED BY <2>1, <2>2, <2>3, <2>4
<1> HIDE DEF z, V
<1>4. ~OnBill(W, o)
  BY NotBilled
<1>5. Fine(V) /\ \A p \in ObjId \ {o} : V.obj[p] = W.obj[p]
  BY <1>1, <1>2, <1>3, <1>4, FineUnbilled
<1> QED BY <1>5 DEF V

\* bill_dummy_object: a dummy is billed as used up, and the object is the hero's.
LEMMA FineDummy ==
    ASSUME NEW W, Fine(W), NEW o \in ObjId, LooseIn(W, o), Unused(W) # {},
           Unused(SubFromBill(W, o)) # {}
    PROVE  LET V == SubFromBill(W, o)
               d == NewObj(V)
               C == [V EXCEPT !.obj[d] = [V.obj[o] EXCEPT !.where = "free"]]
               B == AddToBill(C, d, TRUE)
               D == IF B.obj[d].where = "bill" THEN B ELSE Dealloc(B, d)
           IN  Fine([D EXCEPT !.obj[o].no_charge = TRUE, !.obj[o].unpaid = FALSE])
<1> DEFINE V == SubFromBill(W, o)
           d == NewObj(V)
           x == [V.obj[o] EXCEPT !.where = "free"]
           C == [V EXCEPT !.obj[d] = [V.obj[o] EXCEPT !.where = "free"]]
           B == AddToBill(C, d, TRUE)
           L == Dealloc(B, d)
           D == IF B.obj[d].where = "bill" THEN B ELSE L
           E == [D EXCEPT !.obj[o].no_charge = TRUE, !.obj[o].unpaid = FALSE]
           Clear(U) == Fine(U) /\ LooseIn(U, o) /\ ~U.obj[o].unpaid
<1>1. Clear(V)
  <2>1. Fine(V) /\ V.obj[o] = [W.obj[o] EXCEPT !.unpaid = FALSE]
    BY FineSubFromBill DEF Room
  <2>2. W.obj[o] \in Obj
    BY DEF Fine, Worlds
  <2> HIDE DEF V
  <2>3. V.obj[o].where = W.obj[o].where /\ V.obj[o].unpaid = FALSE
    BY <2>1, <2>2 DEF Obj
  <2> QED BY <2>1, <2>3 DEF LooseIn
<1>2. Unused(V) # {}
  OBVIOUS
<1> HIDE DEF V
<1>4. d \in ObjId /\ V.obj[d].where = "free"
  BY <1>2, NewObjIs
<1> HIDE DEF d
<1>5. Clear(C) /\ C.obj[d].where = "free" /\ d # o
  <2>1. /\ V \in Worlds /\ V.obj \in [ObjId -> Obj] /\ V.obj[o] \in Obj /\ V.obj[o].quan > 0
        /\ "free" \in Places /\ V.obj[o].unpaid = FALSE
    BY <1>1 DEF Fine, Worlds, Books, Places, Obj
  <2>2. x \in Obj /\ x.quan > 0 /\ x.where = "free" /\ ~x.unpaid
    BY <2>1 DEF Obj
  <2>3. C = [V EXCEPT !.obj = [V.obj EXCEPT ![d] = x]]
    BY <2>1, <1>4 DEF Worlds
  <2> HIDE DEF x, C
  <2>4. ~OnBill(V, d)
    BY <1>1, <1>4, NotBilled
  <2>5. /\ Fine(C) /\ C.obj[d] = x /\ \A p \in ObjId \ {d} : C.obj[p] = V.obj[p]
    BY <1>1, <1>4, <2>1, <2>2, <2>3, <2>4, FineUnbilled
  <2> QED BY <1>1, <1>4, <2>2, <2>5 DEF LooseIn
<1> HIDE DEF C
<1>6. Clear(B) /\ B.obj[d].where \in {"free", "bill"}
  <2>1. /\ Fine(B) /\ \A p \in ObjId \ {d} : B.obj[p] = C.obj[p]
        /\ B.obj[d].where = C.obj[d].where \/ B.obj[d].where = "bill"
    BY <1>4, <1>5, FineAddToBill
  <2> HIDE DEF B
  <2> QED BY <1>5, <2>1 DEF LooseIn
<1> HIDE DEF B
<1>7. B.obj[d].where = "free" => Clear(L)
  <2>1. B.obj[d].where = "free" =>
            Fine(L) /\ \A p \in ObjId \ {d} : L.obj[p] = B.obj[p]
    BY <1>4, <1>6, FineDealloc
  <2> QED BY <1>5, <1>6, <2>1 DEF LooseIn
<1> HIDE DEF L
<1>8. Clear(D)
  BY <1>6, <1>7
<1> HIDE DEF D
<1>9. Fine(E)
  <2> DEFINE y == D.obj[o]
             z == [y EXCEPT !.no_charge = TRUE, !.unpaid = FALSE]
  <2>1. D \in Worlds /\ D.obj \in [ObjId -> Obj] /\ y \in Obj /\ y.quan > 0
        /\ y.where \notin {"free", "bill"}
    BY <1>8 DEF Fine, Worlds, Books, LooseIn
  <2>2. E = [D EXCEPT !.obj = [D.obj EXCEPT ![o] = z]]
    BY <2>1 DEF Worlds
  <2> HIDE DEF y
  <2>3. z \in Obj /\ z.quan > 0 /\ z.where = y.where /\ ~z.unpaid
    BY <2>1 DEF Obj
  <2> HIDE DEF z, E
  <2>4. ~OnBill(D, o)
    BY <1>8, NotBilled DEF LooseIn
  <2> QED BY <1>8, <2>1, <2>2, <2>3, <2>4, FineUnbilled
<1> HIDE DEF E, Clear
<1> QED BY <1>9 DEF E, D, L, B, C, d, V

LEMMA BillDummyObjectFine ==
    ASSUME IInv, NEW o \in ObjId, BillDummyObject(o)
    PROVE  IInv'
<1> DEFINE V == SubFromBill(Now, o)
           d == NewObj(V)
           C == [V EXCEPT !.obj[d] = [V.obj[o] EXCEPT !.where = "free"]]
           B == AddToBill(C, d, TRUE)
           D == IF B.obj[d].where = "bill" THEN B ELSE Dealloc(B, d)
           E == [D EXCEPT !.obj[o].no_charge = TRUE, !.obj[o].unpaid = FALSE]
<1>1. /\ obj[o].where = "invent" /\ at = "inside" /\ UNCHANGED at
      /\ Unused(Now) # {} /\ Unused(V) # {} /\ Becomes(E)
  BY DEF BillDummyObject, Held
<1>2. Fine(Now) /\ Now.obj = obj
  BY NowIs
<1>3. LooseIn(Now, o)
  BY <1>1, <1>2 DEF LooseIn
<1> HIDE DEF Now
<1>4. Fine(E)
  BY <1>1, <1>2, <1>3, FineDummy
<1> HIDE DEF E
<1> QED BY <1>1, <1>4, StaysAt

\* check_unpaid_usage
LEMMA CheckUnpaidUsageFine ==
    ASSUME IInv, NEW o \in ObjId, NEW fee \in Fees, CheckUnpaidUsage(o, fee)
    PROVE  IInv'
<1> DEFINE V == [Now EXCEPT !.shk.debit = @ + fee]
<1>1. at # "outside" /\ InHisShop(World) /\ Becomes(V) /\ UNCHANGED at
  BY DEF CheckUnpaidUsage
<1>2. Fine(Now) /\ InHisShop(Now)
  BY <1>1, NowIs DEF InHisShop, World
<1>3. fee \in Nat
  BY PriceAssumption
<1>4. Fine(V)
  BY <1>2, <1>3, FineUsageFee
<1> HIDE DEF V
<1> QED BY <1>1, <1>4, StaysAt

\* Gold is picked up from the floor of the shop, or dropped there.
LEMMA GoldFine ==
    ASSUME IInv, \/ \E n \in 1..floorgold : PickUpGold(n)
                 \/ \E n \in 1..ugold : DropGold(n)
    PROVE  IInv'
<1>1. Fine(Now) /\ Now.ugold = ugold /\ Now.floorgold = floorgold
      /\ floorgold \in Nat /\ ugold \in Nat
  <2>1. Fine(Now) /\ Now.ugold = ugold /\ Now.floorgold = floorgold
    BY NowIs
  <2> QED BY <2>1 DEF Fine, Worlds
<1>2. ASSUME NEW n \in 1..floorgold, PickUpGold(n) PROVE IInv'
  <2> DEFINE V == [CostlyGold(Now, n) EXCEPT !.ugold = @ + n, !.floorgold = @ - n]
  <2>1. at = "inside" /\ Becomes(V) /\ UNCHANGED at
    BY <1>2 DEF PickUpGold
  <2>2. n \in Nat /\ n <= Now.floorgold
    BY <1>1, <1>2
  <2>3. Fine(V)
    BY <1>1, <2>2, FineCostlyGold
  <2> HIDE DEF V
  <2> QED BY <2>1, <2>3, StaysAt
<1>3. ASSUME NEW n \in 1..ugold, DropGold(n) PROVE IInv'
  <2> DEFINE V == [GiveGold(Now, n) EXCEPT !.ugold = @ - n, !.floorgold = @ + n]
  <2>1. at = "inside" /\ Becomes(V) /\ UNCHANGED at
    BY <1>3 DEF DropGold
  <2>2. n \in Nat /\ n <= Now.ugold
    BY <1>1, <1>3
  <2>3. Fine(V)
    BY <1>1, <2>2, FineGiveGold
  <2> HIDE DEF V
  <2> QED BY <2>1, <2>3, StaysAt
<1> QED BY <1>2, <1>3

\* dopay: a hero who owes something is in the shop, and so is the keeper.
LEMMA DoPayFine ==
    ASSUME IInv, NEW itemize \in BOOLEAN, NEW yes, DoPay(itemize, yes)
    PROVE  IInv'
<1>1. /\ Owes(World) /\ UNCHANGED at
      /\ Becomes(IF Resident THEN Settle(Now, itemize, yes) ELSE Impossible(Now))
  BY DEF DoPay
<1>2. Resident /\ at # "outside"
  BY <1>1 DEF IInv, Fine, Closed, Resident, InHisShop
<1>3. Fine(Settle(Now, itemize, yes))
  BY NowIs, FineSettle
<1> QED BY <1>1, <1>2, <1>3, StaysAt

LEMMA DoCompensateFine ==
    ASSUME IInv, NEW stashed \in BOOLEAN, NEW calms \in BOOLEAN, DoCompensate(stashed, calms)
    PROVE  IInv'
<1> DEFINE r == Resident
           V == Compensate(Now, r, stashed, calms)
<1>1. Becomes(V) /\ UNCHANGED at
  BY DEF DoCompensate
<1>2. r \in BOOLEAN
  BY DEF Resident
<1> HIDE DEF r
<1>3. Fine(Now) /\ (at = "outside" => ~Owes(Now))
  BY NowIs
<1>4. Fine(V) /\ (Owes(V) => Owes(Now))
  BY <1>2, <1>3, FineCompensate
<1> HIDE DEF V
<1> QED BY <1>1, <1>3, <1>4, StaysAt

\* check_special_room: who comes out has nothing unpaid with him.
LEMMA GoFine ==
    ASSUME IInv, NEW to \in {"inside", "door", "outside"}, NEW awake \in BOOLEAN, Go(to, awake)
    PROVE  IInv'
<1> DEFINE V == IF at = "outside" THEN UEnteredShop(Now)
                ELSE IF to = "outside" \/ (to = "door" /\ ~awake) THEN Leaves(Now)
                ELSE Now
<1>1. to # at /\ at' = to /\ Becomes(V)
  BY DEF Go
<1>2. Fine(Now) /\ Fine(UEnteredShop(Now)) /\ Fine(Leaves(Now)) /\ ~Owes(Leaves(Now))
  BY NowIs, FineEntered, FineLeaves
<1> HIDE DEF Now
<1>3. Fine(V) /\ (to = "outside" => ~Owes(V))
  BY <1>1, <1>2
<1> HIDE DEF V
<1> QED BY <1>1, <1>3, BecomesIs

(***************************************************************************)
(* shopdig: the keeper grabs one thing after the other.                    *)
(***************************************************************************)
Grabbed(W, o) == [SubFromBill(W, o) EXCEPT !.obj[o].where = "shk"]

\* What is grabbed is struck off the bill, with one new object at the most.
LEMMA FineGrabbed ==
    ASSUME NEW W, Fine(W), NEW o \in ObjId, LooseIn(W, o), Unused(W) # {}
    PROVE  /\ Fine(Grabbed(W, o)) /\ Unused(W) \ {NewObj(W)} \subseteq Unused(Grabbed(W, o))
           /\ \A p \in ObjId \ {o} : LooseIn(W, p) => LooseIn(Grabbed(W, o), p)
<1> DEFINE S == SubFromBill(W, o)
           V == Grabbed(W, o)
<1>1. /\ Fine(S) /\ S.obj[o] = [W.obj[o] EXCEPT !.unpaid = FALSE]
      /\ \A p \in ObjId \ {o} : \/ S.obj[p] = W.obj[p]
                                \/ p = NewObj(W) /\ W.obj[p].where = "free"
                                   /\ S.obj[p].where = "bill"
  BY FineSubFromBill DEF Room
<1>2. V = [S EXCEPT !.obj[o].where = "shk"]
  BY DEF Grabbed
<1> HIDE DEF S, V
<1>3. LooseIn(S, o)
  <2>1. W.obj[o] \in Obj
    BY DEF Fine, Worlds
  <2>2. S.obj[o].where = W.obj[o].where
    BY <1>1, <2>1 DEF Obj
  <2> QED BY <2>2 DEF LooseIn
<1>4. Fine(V)
  <2>1. "shk" \in Elsewhere
    BY DEF Elsewhere, Places
  <2> QED BY <1>1, <1>2, <1>3, <2>1, FineMovedTo
<1>5. \A p \in ObjId \ {o} : V.obj[p] = S.obj[p]
  <2>1. S \in Worlds /\ S.obj \in [ObjId -> Obj]
    BY <1>1 DEF Fine, Worlds
  <2> QED BY <1>2, <2>1 DEF Worlds
<1>6. \A p \in ObjId \ {o} : LooseIn(W, p) => LooseIn(V, p)
  BY <1>1, <1>5 DEF LooseIn
<1>7. Unused(W) \ {NewObj(W)} \subseteq Unused(V)
  BY <1>1, <1>5 DEF LooseIn, Unused
<1> QED BY <1>4, <1>6, <1>7 DEF V

Grabs(W, n, taken, g) ==
    g = [i \in 0..n |-> IF i = 0 THEN W ELSE Grabbed(g[i - 1], taken[i])]

\* The loop: every turn finds its object loose, and an identity that is unused.
LEMMA FineGrabs ==
    ASSUME NEW W, Fine(W), NEW n \in Nat, NEW taken,
           \A i \in 1..n : taken[i] \in ObjId /\ LooseIn(W, taken[i]),
           \A i, j \in 1..n : taken[i] = taken[j] => i = j,
           Cardinality(Unused(W)) >= n
    PROVE  /\ \E g : Grabs(W, n, taken, g)
           /\ \A g : Grabs(W, n, taken, g) => Fine(g[n])
<1> DEFINE Ok(V, i) == /\ Fine(V) /\ \A j \in i + 1..n : LooseIn(V, taken[j])
                       /\ Cardinality(Unused(V)) >= n - i
<1>1. ASSUME NEW i \in 1..n, NEW V, Ok(V, i - 1) PROVE Ok(Grabbed(V, taken[i]), i)
  <2> DEFINE o == taken[i]
             U == Grabbed(V, o)
  <2>1. o \in ObjId /\ LooseIn(V, o) /\ Fine(V)
    <3>1. i \in (i - 1) + 1..n
      OBVIOUS
    <3> QED BY <1>1, <3>1
  <2>2. \A X \in SUBSET ObjId : IsFiniteSet(X) /\ Cardinality(X) \in Nat
    BY FS_Subset, FS_CardinalityType, ShopAssumption
  <2>3. Cardinality(Unused(V)) >= n - i + 1 /\ Cardinality(Unused(V)) > 0
    <3>1. Unused(V) \in SUBSET ObjId
      BY DEF Unused
    <3>2. Cardinality(Unused(V)) \in Nat /\ Cardinality(Unused(V)) >= n - (i - 1)
      BY <1>1, <2>2, <3>1
    <3> QED BY <3>2
  <2>4. Unused(V) # {}
    BY <2>3, FS_EmptySet
  <2>5. Unused(V) \in SUBSET ObjId /\ Unused(U) \in SUBSET ObjId
    BY DEF Unused
  <2> HIDE DEF o, U
  <2>6. /\ Fine(U) /\ Unused(V) \ {NewObj(V)} \subseteq Unused(U)
        /\ \A p \in ObjId \ {o} : LooseIn(V, p) => LooseIn(U, p)
    BY <2>1, <2>4, FineGrabbed DEF U
  <2>7. \A j \in i + 1..n : LooseIn(U, taken[j])
    <3>1. ASSUME NEW j \in i + 1..n PROVE LooseIn(U, taken[j])
      <4>1. j \in 1..n /\ j # i /\ j \in (i - 1) + 1..n
        OBVIOUS
      <4>2. taken[j] \in ObjId \ {o} /\ LooseIn(V, taken[j])
        BY <1>1, <4>1 DEF o
      <4> QED BY <2>6, <4>2
    <3> QED BY <3>1
  <2>8. Cardinality(Unused(U)) >= n - i
    <3> DEFINE X == Unused(V) \ {NewObj(V)}
    <3>1. Cardinality(X) >= Cardinality(Unused(V)) - 1
      <4>1. \/ Cardinality(X) = Cardinality(Unused(V)) - 1
            \/ Cardinality(X) = Cardinality(Unused(V))
        BY <2>2, <2>5, FS_RemoveElement
      <4>2. Cardinality(Unused(V)) \in Nat
        BY <2>2, <2>5
      <4> QED BY <4>1, <4>2
    <3>2. Cardinality(X) <= Cardinality(Unused(U))
      BY <2>2, <2>5, <2>6, FS_Subset
    <3>3. Cardinality(X) \in Nat /\ Cardinality(Unused(U)) \in Nat /\ Cardinality(Unused(V)) \in Nat
      BY <2>2, <2>5
    <3> HIDE DEF X
    <3> QED BY <2>3, <3>1, <3>2, <3>3
  <2> QED BY <2>6, <2>7, <2>8 DEF U, o
<1>2. Ok(W, 0)
  OBVIOUS
<1> HIDE DEF Ok
<1>3. \E g : Grabs(W, n, taken, g)
  <2> DEFINE T(i) == {V \in Worlds : Ok(V, i)}
             S == [i \in 0..n |-> T(i)]
             step == [i \in 1..n |-> [V \in Worlds |-> Grabbed(V, taken[i])]]
  <2>1. \A V, i : Ok(V, i) => V \in Worlds
    BY DEF Ok, Fine
  <2>2. \A i \in 0..n : S[i] = T(i)
    OBVIOUS
  <2>3. \A i \in 1..n : \A V \in Worlds : step[i][V] = Grabbed(V, taken[i])
    OBVIOUS
  <2> HIDE DEF S, step
  <2>4. W \in S[0]
    BY <1>2, <2>1, <2>2
  <2>5. \A i \in 1..n : \A V \in S[i - 1] : step[i][V] \in S[i]
    <3>1. ASSUME NEW i \in 1..n, NEW V \in S[i - 1] PROVE step[i][V] \in S[i]
      <4>1. i \in 0..n /\ i - 1 \in 0..n
        OBVIOUS
      <4>2. V \in Worlds /\ Ok(V, i - 1)
        BY <2>2, <3>1, <4>1
      <4>3. Ok(Grabbed(V, taken[i]), i)
        BY <1>1, <4>2
      <4> QED BY <2>1, <2>2, <2>3, <4>1, <4>2, <4>3
    <3> QED BY <3>1
  <2>6. PICK f : Runs(f, n, W, step) /\ \A i \in 0..n : f[i] \in S[i]
    BY <2>4, <2>5, LoopRuns
  <2>7. ASSUME NEW i \in 0..n
        PROVE  f[i] = IF i = 0 THEN W ELSE Grabbed(f[i - 1], taken[i])
    <3>1. f[i] = IF i = 0 THEN W ELSE step[i][f[i - 1]]
      BY <2>6 DEF Runs
    <3>2. i # 0 => i \in 1..n /\ i - 1 \in 0..n
      OBVIOUS
    <3> QED BY <2>2, <2>3, <2>6, <3>1, <3>2
  <2>8. f = [i \in 0..n |-> f[i]]
    BY <2>6 DEF Runs
  <2>9. f = [i \in 0..n |-> IF i = 0 THEN W ELSE Grabbed(f[i - 1], taken[i])]
    BY <2>7, <2>8
  <2> QED BY <2>9 DEF Grabs
<1>4. ASSUME NEW g, Grabs(W, n, taken, g) PROVE Fine(g[n])
  <2> DEFINE B == {i \in 0..n : Ok(g[i], i)}
  <2>1. \A i \in 0..n : g[i] = IF i = 0 THEN W ELSE Grabbed(g[i - 1], taken[i])
    BY <1>4 DEF Grabs
  <2>2. 0 \in B
    BY <1>2, <2>1
  <2>3. ASSUME NEW i \in 1..n, i - 1 \in B PROVE i \in B
    <3>1. Ok(g[i - 1], i - 1)
      BY <2>3
    <3>2. Ok(Grabbed(g[i - 1], taken[i]), i)
      BY <1>1, <3>1
    <3>3. g[i] = Grabbed(g[i - 1], taken[i]) /\ i \in 0..n
      BY <2>1
    <3> QED BY <3>2, <3>3
  <2> HIDE DEF B
  <2>4. \A i \in 0..n : i \in B
    BY <2>2, <2>3, CountingUp
  <2>5. n \in B
    BY <2>4
  <2> QED BY <2>5 DEF B, Ok
<1> QED BY <1>3, <1>4

\* SetToSeq lists the elements of a finite set, each once.
LEMMA SetToSeqIs ==
    ASSUME NEW T, IsFiniteSet(T)
    PROVE  LET s == SetToSeq(T)
           IN  /\ Len(s) \in Nat /\ \A i \in 1..Len(s) : s[i] \in T
               /\ \A i, j \in 1..Len(s) : s[i] = s[j] => i = j
<1> DEFINE n == Cardinality(T)
           s == SetToSeq(T)
<1>1. n \in Nat /\ ExistsBijection(1..n, T)
  BY FS_CardinalityType
<1>2. PICK f : f \in Bijection(1..n, T)
  BY <1>1 DEF ExistsBijection
<1>3. f \in [1..n -> T] /\ IsInjective(f)
  BY <1>2 DEF Bijection, Injection
<1>4. s = CHOOSE g \in [1..n -> T] : IsInjective(g)
  BY DEF SetToSeq
<1> HIDE DEF n, s
<1>5. s \in [1..n -> T] /\ IsInjective(s)
  BY <1>3, <1>4
<1>6. Len(s) = n
  <2>1. DOMAIN s = 1..n /\ s \in Seq(T)
    BY <1>1, <1>5
  <2> QED BY <1>1, <2>1, LenProperties
<1>7. /\ Len(s) \in Nat /\ \A i \in 1..Len(s) : s[i] \in T
      /\ \A i, j \in 1..Len(s) : s[i] = s[j] => i = j
  BY <1>1, <1>5, <1>6 DEF IsInjective
<1> QED BY <1>7 DEF s

LEMMA FallThroughHoleFine ==
    ASSUME IInv, NEW worn \in SUBSET Held, NEW grabs \in BOOLEAN,
           FallThroughHole(worn, grabs)
    PROVE  IInv'
<1> DEFINE taken == SetToSeq(Held \ worn)
           n == Len(taken)
           grab == CHOOSE f : f = [i \in 0..Len(taken) |->
                      IF i = 0 THEN Now
                      ELSE [SubFromBill(f[i - 1], taken[i]) EXCEPT !.obj[taken[i]].where = "shk"]]
           G == grab[n]
           V == Leaves(IF grabs THEN G ELSE Now)
<1>1. Cardinality(Unused(Now)) >= n /\ Becomes(V) /\ at' = "outside"
  BY DEF FallThroughHole
<1>2. Fine(Now) /\ Now.obj = obj
  BY NowIs
<1>3. /\ n \in Nat /\ \A i \in 1..n : taken[i] \in Held
      /\ \A i, j \in 1..n : taken[i] = taken[j] => i = j
  <2>1. IsFiniteSet(Held \ worn)
    <3>1. Held \ worn \in SUBSET ObjId
      BY DEF Held
    <3> QED BY <3>1, FS_Subset, ShopAssumption
  <2> HIDE DEF Held
  <2> QED BY <2>1, SetToSeqIs
<1> HIDE DEF taken
<1>4. \A i \in 1..n : taken[i] \in ObjId /\ LooseIn(Now, taken[i])
  BY <1>2, <1>3 DEF Held, LooseIn
<1> HIDE DEF Now, n
<1>5. grab = CHOOSE f : Grabs(Now, n, taken, f)
  BY DEF Grabbed, Grabs, n
<1> HIDE DEF grab
<1>6. /\ \E f : Grabs(Now, n, taken, f)
      /\ \A f : Grabs(Now, n, taken, f) => Fine(f[n])
  BY <1>1, <1>2, <1>3, <1>4, FineGrabs
<1>7. Grabs(Now, n, taken, grab)
  BY <1>5, <1>6
<1>8. Fine(grab[n])
  BY <1>6, <1>7
<1>9. Fine(V) /\ ~Owes(V)
  <2>1. Fine(IF grabs THEN G ELSE Now)
    BY <1>2, <1>8
  <2> QED BY <2>1, FineLeaves
<1> HIDE DEF V
<1> QED BY <1>1, <1>9, BecomesIs

(***************************************************************************)
(* Other monsters, and the keeper.                                         *)
(***************************************************************************)
LEMMA MonsterMovesFine ==
    ASSUME IInv, NEW o \in ObjId,
           MonsterTakes(o) \/ \E where \in {"inside", "outside"} : MDropObj(o, where)
    PROVE  IInv'
<1>1. PICK where \in Elsewhere :
         /\ obj[o].where \in Elsewhere /\ UNCHANGED at
         /\ \E U \in Stacked([Now EXCEPT !.obj[o].where = where], o) : Becomes(U)
  <2>1. {"minvent", "inside", "outside", "invent"} \subseteq Elsewhere
    BY DEF Elsewhere, Places
  <2>2. CASE MonsterTakes(o)
    BY <2>1, <2>2 DEF MonsterTakes
  <2>3. CASE \E where \in {"inside", "outside"} : MDropObj(o, where)
    BY <2>1, <2>3 DEF MDropObj
  <2> QED BY <2>2, <2>3
<1>2. Fine(Now) /\ Now.obj = obj /\ (at = "outside" => ~Owes(Now))
  BY NowIs
<1>3. LooseIn(Now, o)
  BY <1>1, <1>2 DEF LooseIn, Elsewhere
<1> DEFINE V == [Now EXCEPT !.obj[o].where = where]
<1>4. \A U \in Stacked(V, o) : Fine(U) /\ (Owes(U) => Owes(Now))
  BY <1>2, <1>3, FineMovedTo
<1>5. PICK U \in Stacked(V, o) : Becomes(U)
  BY <1>1
<1> HIDE DEF V
<1>6. Fine(U) /\ (Owes(U) => Owes(Now))
  BY <1>4, <1>5
<1> QED BY <1>1, <1>2, <1>5, <1>6, StaysAt

\* setmangry
LEMMA SetMangryFine ==
    ASSUME IInv, SetMangry
    PROVE  IInv'
<1> DEFINE V == [World EXCEPT !.shk.angry = TRUE]
           s == [World.shk EXCEPT !.angry = TRUE]
<1>1. Becomes(V) /\ UNCHANGED at /\ Fine(World) /\ (at = "outside" => ~Owes(World))
  BY DEF SetMangry, IInv
<1> HIDE DEF World
<1>2. World \in Worlds /\ World.shk \in Shk /\ World.shk.loan <= World.shk.debit
  BY <1>1 DEF Fine, Worlds, Sound, LoanInDebit
<1>3. V = [World EXCEPT !.shk = s]
  BY <1>2 DEF Worlds
<1> HIDE DEF V
<1>4. /\ s \in Shk /\ s.place = World.shk.place /\ s.surcharge = World.shk.surcharge
      /\ s.loan <= s.debit /\ s.mgold = World.shk.mgold /\ s.debit = World.shk.debit
  BY <1>2 DEF Shk
<1> HIDE DEF s
<1>5. /\ V \in Worlds /\ V.obj = World.obj /\ V.bill = World.bill
      /\ V.impossible = World.impossible
      /\ V.shk = s /\ V.ugold = World.ugold /\ V.floorgold = World.floorgold
  BY <1>2, <1>3, <1>4 DEF Worlds
<1>6. Balanced(World, V)
  BY <1>4, <1>5 DEF Balanced
<1>7. Fine(V) /\ (Owes(V) => Owes(World))
  BY <1>1, <1>4, <1>5, <1>6, FineAccounts DEF Owes
<1> QED BY <1>1, <1>7, StaysAt

\* A keeper who is sent away, comes back, or is killed.
LEMMA FineShkPlace ==
    ASSUME NEW W, Fine(W), NEW place \in {"home", "away", "dead"}, place = "home" \/ ~Owes(W)
    PROVE  LET V == [W EXCEPT !.shk.place = place]
           IN  Fine(V) /\ (Owes(V) <=> Owes(W)) /\ V.obj = W.obj
<1> DEFINE s == [W.shk EXCEPT !.place = place, !.following = W.shk.following,
                              !.you = W.shk.you, !.robbed = W.shk.robbed]
           U == [W EXCEPT !.shk = s]
           V == [W EXCEPT !.shk.place = place]
<1>1. W \in Worlds /\ W.shk \in Shk
  BY DEF Fine, Worlds
<1>2. /\ W.shk.following \in BOOLEAN /\ W.shk.you \in BOOLEAN /\ W.shk.robbed \in Nat
  BY <1>1 DEF Shk
<1>3. Fine(U)
  BY <1>2, FineKeeper
<1>4. V = U /\ V.bill = W.bill /\ V.shk.debit = W.shk.debit /\ V.obj = W.obj
  BY <1>1 DEF Worlds, Shk
<1> QED BY <1>3, <1>4 DEF Owes

LEMMA SootheFine ==
    ASSUME IInv, Soothe
    PROVE  IInv'
<1> DEFINE V == MakeHappyShk(Now)
<1>1. Becomes(V) /\ UNCHANGED at
  BY DEF Soothe
<1>2. Fine(Now) /\ (at = "outside" => ~Owes(Now))
  BY NowIs
<1>3. Fine(V) /\ (Owes(V) => Owes(Now))
  BY <1>2, FineMakeHappy DEF SameButTemper, Owes
<1> QED BY <1>1, <1>2, <1>3, StaysAt

LEMMA SendAwayFine ==
    ASSUME IInv, SendAway
    PROVE  IInv'
<1> DEFINE A == MakeAngryShk(Now)
           V == [A EXCEPT !.shk.place = "away"]
<1>1. Becomes(V) /\ UNCHANGED at
  BY DEF SendAway
<1>2. Fine(A) /\ ~Owes(A)
  BY NowIs, FineMakeAngry
<1> HIDE DEF A
<1>3. Fine(V) /\ ~Owes(V)
  BY <1>2, FineShkPlace
<1> HIDE DEF V
<1> QED BY <1>1, <1>3, StaysAt

\* A keeper leaves his shop to follow only a hero who owes him nothing.
LEMMA FollowOutFine ==
    ASSUME IInv, Oversights = {}, FollowOut
    PROVE  IInv'
<1> DEFINE V == [Now EXCEPT !.shk.place = "away"]
<1>1. Becomes(V) /\ UNCHANGED at /\ ~Owes(World)
  BY DEF FollowOut
<1>2. Fine(Now) /\ ~Owes(Now)
  BY <1>1, NowIs
<1> HIDE DEF Now
<1>3. Fine(V) /\ ~Owes(V)
  BY <1>2, FineShkPlace
<1> HIDE DEF V
<1> QED BY <1>1, <1>3, StaysAt

LEMMA ComeBackFine ==
    ASSUME IInv, ComeBack
    PROVE  IInv'
<1> DEFINE V == [Now EXCEPT !.shk.place = "home"]
           U == IF at = "outside" THEN V ELSE UEnteredShop(V)
<1>1. Becomes(U) /\ UNCHANGED at
  BY DEF ComeBack
<1>2. Fine(Now) /\ (at = "outside" => ~Owes(Now))
  BY NowIs
<1> HIDE DEF Now
<1>3. Fine(V) /\ (Owes(V) <=> Owes(Now))
  BY <1>2, FineShkPlace
<1> HIDE DEF V
<1>4. Fine(U) /\ (at = "outside" => ~Owes(U))
  BY <1>2, <1>3, FineEntered
<1> HIDE DEF U
<1> QED BY <1>1, <1>4, StaysAt

\* shkgone, with a customer in the shop or without
LEMMA ShkGoneFine ==
    ASSUME IInv, ShkGone
    PROVE  IInv'
<1> DEFINE A == IF at # "outside" THEN SetPaid(Now) ELSE Now
           goods == [o \in ObjId |-> IF A.obj[o].where = "inside"
                                     THEN [A.obj[o] EXCEPT !.no_charge = FALSE] ELSE A.obj[o]]
           D == [A EXCEPT !.shk.place = "dead"]
           V == [A EXCEPT !.shk.place = "dead", !.obj = goods]
<1>1. Becomes(V) /\ UNCHANGED at
  BY DEF ShkGone
<1>2. Fine(Now) /\ (at = "outside" => ~Owes(Now))
  BY NowIs
<1> HIDE DEF Now
<1>3. Fine(A) /\ ~Owes(A)
  <2>1. Now \in Worlds /\ Books(Now) /\ Gold(Now) = Purse + Till
    BY <1>2 DEF Fine, Sound
  <2>2. Fine(SetPaid(Now)) /\ ~Owes(SetPaid(Now))
    <3>1. Fine(SetPaid(Now)) /\ SetPaid(Now).bill = <<>> /\ SetPaid(Now).shk.debit = 0
      BY <2>1, FineSetPaid
    <3> QED BY <3>1 DEF Owes
  <2> QED BY <1>2, <2>2
<1> HIDE DEF A
<1>4. Fine(D) /\ ~Owes(D) /\ D.obj = A.obj
  BY <1>3, FineShkPlace
<1>5. A \in Worlds /\ A.shk \in Shk /\ A.obj \in [ObjId -> Obj]
  BY <1>3 DEF Fine, Worlds
<1>6. goods \in [ObjId -> Obj]
  BY <1>5 DEF Obj
<1>7. \A o \in ObjId : /\ goods[o].where = A.obj[o].where /\ goods[o].kind = A.obj[o].kind
                       /\ goods[o].quan = A.obj[o].quan /\ goods[o].unpaid = A.obj[o].unpaid
  BY <1>5 DEF Obj
<1> HIDE DEF goods
<1>8. V = [D EXCEPT !.obj = goods, !.bill = D.bill]
  BY <1>5 DEF Worlds
<1> HIDE DEF D, V
<1>9. D \in Worlds /\ D.bill \in Seq(BillX) /\ Books(D)
  BY <1>4 DEF Fine, Worlds
<1>10. Rebooked(D, V, goods, D.bill)
  BY <1>6, <1>8, <1>9, RebookedIs
<1>11. Books(V)
  <2>1. \A o \in ObjId : D.obj[o].quan > 0 /\ D.obj[o].quan \in Nat
    BY <1>9 DEF Books, Worlds, Obj
  <2> QED BY <1>4, <1>7, <1>9, <1>10, <2>1, BooksStay DEF Rebooked, LooseIn
<1>12. Fine(V) /\ ~Owes(V)
  <2>1. D.bill = <<>>
    BY <1>4 DEF Owes
  <2> QED BY <1>4, <1>10, <1>11, <2>1, FineRebooked DEF Rebooked, Owes
<1> QED BY <1>1, <1>12, StaysAt

(***************************************************************************)
(* Every step keeps the invariant, and the first state has it.             *)
(***************************************************************************)
LEMMA CommandFine ==
    ASSUME IInv, Command
    PROVE  IInv'
<1>1. ASSUME NEW o \in ObjId, NEW n \in 1..obj[o].quan,
             PickUp(o, n) \/ \E a \in {"yes", "no", "dont"} : Drop(o, n, a)
      PROVE  IInv'
  BY <1>1, PickUpFine, DropFine
<1>2. ASSUME NEW o \in ObjId,
             \/ \E lands \in {"inside", "outside", "broken"} : Throw(o, lands)
             \/ \E p \in ObjId : Merge(o, p)
             \/ UseUp(o)
             \/ UseUpF(o)
             \/ BillDummyObject(o)
             \/ \E fee \in Fees : CheckUnpaidUsage(o, fee)
      PROVE  IInv'
  BY <1>2, ThrowFine, MergeFine, UsedUpFine, UseUpFFine, BillDummyObjectFine,
     CheckUnpaidUsageFine
<1>3. ASSUME \/ \E n \in 1..floorgold : PickUpGold(n)
             \/ \E n \in 1..ugold : DropGold(n)
      PROVE  IInv'
  BY <1>3, GoldFine
<1>4. ASSUME \/ \E yes \in SUBSET Asked : DoPay(TRUE, yes)
             \/ DoPay(FALSE, {})
      PROVE  IInv'
  BY <1>4, DoPayFine
<1>5. ASSUME \E stashed, calms \in BOOLEAN : DoCompensate(stashed, calms) PROVE IInv'
  BY <1>5, DoCompensateFine
<1>6. ASSUME \E to \in {"inside", "door", "outside"}, awake \in BOOLEAN : Go(to, awake)
      PROVE  IInv'
  BY <1>6, GoFine
<1>7. ASSUME \E worn \in SUBSET Held, grabs \in BOOLEAN : FallThroughHole(worn, grabs)
      PROVE  IInv'
  BY <1>7, FallThroughHoleFine
<1> QED BY <1>1, <1>2, <1>3, <1>4, <1>5, <1>6, <1>7 DEF Command

LEMMA StepsFine ==
    ASSUME IInv, Oversights = {}, [Next]_vars
    PROVE  IInv'
<1>1. CASE Command BY <1>1, CommandFine
<1>2. ASSUME NEW o \in ObjId, MonsterTakes(o) PROVE IInv' BY <1>2, MonsterMovesFine
<1>3. ASSUME NEW o \in ObjId, MUseUp(o) PROVE IInv' BY <1>3, UsedUpFine
<1>4. ASSUME NEW o \in ObjId, \E where \in {"inside", "outside"} : MDropObj(o, where)
      PROVE  IInv'
  BY <1>4, MonsterMovesFine
<1>5. CASE SetMangry BY <1>5, SetMangryFine
<1>6. CASE Soothe BY <1>6, SootheFine
<1>7. CASE SendAway BY <1>7, SendAwayFine
<1>8. CASE FollowOut BY <1>8, FollowOutFine
<1>9. CASE ComeBack BY <1>9, ComeBackFine
<1>10. CASE ShkGone BY <1>10, ShkGoneFine
<1>11. CASE UNCHANGED vars
  <2>1. World' = World /\ at' = at
    BY <1>11 DEF World, vars
  <2> HIDE DEF World
  <2>2. Fine(World') /\ (Owes(World') <=> Owes(World))
    BY <2>1 DEF IInv
  <2> QED BY <2>1, <2>2 DEF IInv
<1> QED BY <1>1, <1>2, <1>3, <1>4, <1>5, <1>6, <1>7, <1>8, <1>9, <1>10, <1>11 DEF Next

LEMMA InitFine ==
    ASSUME Init
    PROVE  IInv
<1>1. PICK r \in PastRobbery, mad \in BOOLEAN :
         shk = [place |-> "home", angry |-> mad, surcharge |-> mad,
                following |-> FALSE, you |-> r = 0, robbed |-> r,
                credit |-> 0, debit |-> 0, loan |-> 0, mgold |-> Till]
  BY DEF Init
<1>2. r \in Nat /\ Purse \in Nat /\ Till \in Nat /\ BILLSZ \in Nat /\ Stock \in [ObjId -> Obj]
  BY ShopAssumption
<1>3. shk \in Shk
  BY <1>1, <1>2 DEF Shk
<1>4. /\ World.obj = Stock /\ World.bill = <<>> /\ World.shk = shk /\ World.ugold = Purse
      /\ World.floorgold = 0 /\ World.impossible = FALSE /\ at = "outside"
      /\ World.shk.place = "home" /\ World.shk.debit = 0 /\ World.shk.loan = 0
      /\ World.shk.mgold = Till
  BY <1>1 DEF Init, World
<1>5. World \in Worlds
  <2>1. <<>> \in Seq(BillX)
    BY EmptySeq
  <2> QED BY <1>2, <1>3, <2>1 DEF Init, World, Worlds
<1> HIDE DEF World
<1>6. Entries(World.bill) = {} /\ Len(World.bill) = 0 /\ Distinct(World.bill)
  BY <1>4, EmptySeq DEF Entries, Distinct
<1>7. Books(World)
  BY <1>2, <1>4, <1>6, ShopAssumption DEF Books, Due, UsedUp, LooseIn
<1>8. Sound(World) /\ Closed(World) /\ ~Owes(World)
  BY <1>2, <1>4 DEF Sound, Closed, Owes, Gold, LoanInDebit
<1> QED BY <1>4, <1>5, <1>7, <1>8 DEF Fine, IInv

(***************************************************************************)
(* What the runs check follows from the invariant.                         *)
(***************************************************************************)
LEMMA WorldIs ==
    ASSUME IInv
    PROVE  /\ Fine(World) /\ World \in Worlds /\ Books(World)
           /\ World.obj = obj /\ World.bill = bill /\ World.shk = shk /\ World.ugold = ugold
           /\ World.floorgold = floorgold /\ World.impossible = impossible
           /\ obj \in [ObjId -> Obj] /\ bill \in Seq(BillX) /\ shk \in Shk
           /\ DOMAIN bill = 1..Len(bill)
<1>1. Fine(World) /\ World \in Worlds /\ Books(World)
  BY DEF IInv, Fine
<1>2. /\ World.obj = obj /\ World.bill = bill /\ World.shk = shk /\ World.ugold = ugold
      /\ World.floorgold = floorgold /\ World.impossible = impossible
  BY DEF World
<1> HIDE DEF World
<1>3. obj \in [ObjId -> Obj] /\ bill \in Seq(BillX) /\ shk \in Shk
  BY <1>1, <1>2 DEF Worlds
<1> QED BY <1>1, <1>2, <1>3, BillIs

\* No object has two entries, so that there are as many names as entries.
LEMMA NamesCounted ==
    ASSUME NEW b \in Seq(BillX), Distinct(b)
    PROVE  LET named(used) == {b[i].bo_id : i \in {j \in DOMAIN b : b[j].useup = used}}
           IN  Cardinality(named(TRUE)) + Cardinality(named(FALSE)) = Len(b)
<1> DEFINE n == Len(b)
           f == [i \in 1..n |-> b[i].bo_id]
           All == {b[i].bo_id : i \in 1..n}
           T == {b[i].bo_id : i \in {j \in DOMAIN b : b[j].useup = TRUE}}
           F == {b[i].bo_id : i \in {j \in DOMAIN b : b[j].useup = FALSE}}
<1>1. n \in Nat /\ DOMAIN b = 1..n /\ \A i \in 1..n : b[i].useup \in BOOLEAN
  <2>1. \A i \in 1..n : b[i] \in BillX
    BY ElementOfSeq
  <2> QED BY <2>1, BillIs DEF BillX
<1>2. f \in Bijection(1..n, All)
  <2>1. f \in [1..n -> All] /\ \A x \in All : \E i \in 1..n : f[i] = x
    OBVIOUS
  <2>2. \A i, j \in 1..n : f[i] = f[j] => i = j
    BY DEF Distinct
  <2> QED BY <2>1, <2>2 DEF Bijection, Injection, Surjection, IsInjective
<1>3. IsFiniteSet(All) /\ Cardinality(All) = n
  <2>1. ExistsBijection(1..n, All)
    BY <1>2 DEF ExistsBijection
  <2> HIDE DEF n, All
  <2> QED BY <1>1, <2>1, FS_CountingElements, FS_NatBijection
<1>4. T \cup F = All /\ T \cap F = {}
  <2>1. T \cap F = {}
    BY <1>1 DEF Distinct
  <2>2. T \cup F = All
    BY <1>1
  <2> QED BY <2>1, <2>2
<1> HIDE DEF T, F, All, n
<1>5. IsFiniteSet(T) /\ IsFiniteSet(F)
  BY <1>3, <1>4, FS_Subset
<1>6. Cardinality(T \cup F) = Cardinality(T) + Cardinality(F)
  <2>1. Cardinality(T \cup F) = Cardinality(T) + Cardinality(F) - Cardinality(T \cap F)
    BY <1>5, FS_Union
  <2>2. Cardinality(T \cap F) = 0
    BY <1>4, FS_EmptySet
  <2>3. Cardinality(T) \in Nat /\ Cardinality(F) \in Nat
    BY <1>5, FS_CardinalityType
  <2> QED BY <2>1, <2>2, <2>3
<1> QED BY <1>3, <1>4, <1>6 DEF T, F, n

LEMMA TypeHolds == ASSUME IInv PROVE TypeOK
<1>1. World \in Worlds
  BY WorldIs
<1>2. ugold \in Nat /\ floorgold \in Nat /\ impossible \in BOOLEAN
  BY <1>1 DEF Worlds, World
<1> QED BY <1>2, WorldIs DEF TypeOK, IInv

LEMMA BillHolds == ASSUME IInv PROVE BillAgrees
<1> DEFINE named(used) == {bill[i].bo_id : i \in {j \in DOMAIN bill : bill[j].useup = used}}
<1>1. /\ Books(World) /\ World.obj = obj /\ World.bill = bill /\ World.impossible = impossible
      /\ bill \in Seq(BillX) /\ DOMAIN bill = 1..Len(bill)
  BY WorldIs
<1> HIDE DEF World
<1>2. /\ Distinct(bill) /\ Len(bill) <= BILLSZ /\ ~impossible
      /\ Entries(bill) = {bill[i] : i \in 1..Len(bill)} /\ Entries(bill) \in SUBSET BillX
  BY <1>1, BillIs DEF Books, Entries
<1>3. Cardinality(named(TRUE)) + Cardinality(named(FALSE)) = Len(bill)
  BY <1>1, <1>2, NamesCounted
<1>4. \A i \in 1..Len(bill) : /\ bill[i] \in Entries(bill) /\ bill[i].bo_id \in ObjId
                              /\ bill[i].useup \in BOOLEAN
  BY <1>2 DEF BillX
<1>5. \A o \in ObjId : /\ Due(World, o) <=> o \in named(FALSE)
                       /\ UsedUp(World, o) <=> o \in named(TRUE)
  <2> DEFINE hasEntry(o, used) == \E i \in 1..Len(bill) : bill[i].bo_id = o /\ bill[i].useup = used
  <2>1. \A o, used : o \in named(used) <=> hasEntry(o, used)
    BY <1>1
  <2> HIDE DEF named
  <2>2. \A o : Due(World, o) <=> \E i \in 1..Len(bill) : bill[i].bo_id = o /\ ~bill[i].useup
    BY <1>1, <1>2 DEF Due
  <2>3. \A o : UsedUp(World, o) <=> \E i \in 1..Len(bill) : bill[i].bo_id = o /\ bill[i].useup
    BY <1>1, <1>2 DEF UsedUp
  <2>4. \A o : Due(World, o) <=> hasEntry(o, FALSE)
    BY <1>4, <2>2
  <2>5. \A o : UsedUp(World, o) <=> hasEntry(o, TRUE)
    BY <1>4, <2>3
  <2> HIDE DEF hasEntry
  <2>6. \A o : o \in named(FALSE) <=> hasEntry(o, FALSE)
    BY <2>1
  <2>7. \A o : o \in named(TRUE) <=> hasEntry(o, TRUE)
    BY <2>1
  <2> QED BY <2>4, <2>5, <2>6, <2>7
<1>6. named(FALSE) \in SUBSET ObjId /\ named(TRUE) \in SUBSET ObjId
  BY <1>1, <1>4
<1> HIDE DEF named
<1>7. named(FALSE) = {o \in Loose : obj[o].unpaid}
  BY <1>1, <1>5, <1>6 DEF Books, LooseIn, Loose
<1>8. named(TRUE) = {o \in ObjId : obj[o].where = "bill"}
  BY <1>1, <1>5, <1>6 DEF Books
<1>9. \A i \in DOMAIN bill : ~bill[i].useup => bill[i].bquan >= obj[bill[i].bo_id].quan
  BY <1>1, <1>4 DEF Books
<1>10. PricesFollowTemper
  BY <1>1, <1>4 DEF Books, PricesFollowTemper
<1> QED BY <1>2, <1>3, <1>7, <1>8, <1>9, <1>10 DEF BillAgrees, named

LEMMA GoldHolds == ASSUME IInv PROVE GoldConserved
<1>1. Gold(World) = Purse + Till /\ World.shk.loan <= World.shk.debit /\ World \in Worlds
  BY DEF IInv, Fine, Sound, LoanInDebit
<1>2. /\ World.shk = shk /\ World.ugold = ugold /\ World.floorgold = floorgold /\ shk \in Shk
  BY WorldIs
<1> HIDE DEF World
<1>3. /\ ugold \in Nat /\ floorgold \in Nat /\ shk.mgold \in Nat /\ shk.loan \in Nat
      /\ shk.loan <= shk.debit
  BY <1>1, <1>2 DEF Worlds, Shk
<1>4. ugold + shk.mgold + floorgold = Purse + Till
  BY <1>1, <1>2 DEF Gold
<1> QED BY <1>3, <1>4 DEF GoldConserved

LEMMA SettledHolds == ASSUME IInv PROVE SettledOutside
<1> SUFFICES ASSUME at = "outside"
             PROVE  bill = <<>> /\ \A o \in Loose : ~obj[o].unpaid
  BY DEF SettledOutside
<1>1. Books(World) /\ World.obj = obj /\ World.bill = bill /\ bill \in Seq(BillX) /\ ~Owes(World)
  BY WorldIs DEF IInv
<1> HIDE DEF World
<1>2. bill = <<>> /\ Entries(World.bill) = {}
  BY <1>1, BillIs DEF Owes
<1>3. \A o \in ObjId : ~(LooseIn(World, o) /\ World.obj[o].unpaid)
  BY <1>1, <1>2 DEF Books, Due
<1> QED BY <1>1, <1>2, <1>3 DEF Loose, LooseIn

(***************************************************************************)
(* The theorems: for any goods, prices, purses and size of the bill.       *)
(***************************************************************************)
THEOREM Invariance ==
    ASSUME Oversights = {} PROVE Spec => []IInv
<1>1. Init => IInv
  BY InitFine
<1>2. IInv /\ [Next]_vars => IInv'
  BY StepsFine
<1> QED BY <1>1, <1>2, PTL DEF Spec

\* The bill, the goods and the accounts keep their types.
THEOREM TypeCorrect ==
    ASSUME Oversights = {} PROVE Spec => []TypeOK
<1>1. IInv => TypeOK
  BY TypeHolds
<1> QED BY <1>1, Invariance, PTL

(***************************************************************************)
(* The bill, the flags on the objects and billobjs agree after any         *)
(* sequence of commands: no entry is lost, doubled or left with a wrong    *)
(* price, and no impossible() of the billing code is reached.              *)
(***************************************************************************)
THEOREM BillsAgree ==
    ASSUME Oversights = {} PROVE Spec => []BillAgrees
<1>1. IInv => BillAgrees
  BY BillHolds
<1> QED BY <1>1, Invariance, PTL

\* Gold is neither made nor lost, and what was taken from the floor is owed.
THEOREM GoldIsConserved ==
    ASSUME Oversights = {} PROVE Spec => []GoldConserved
<1>1. IInv => GoldConserved
  BY GoldHolds
<1> QED BY <1>1, Invariance, PTL

\* Whoever is outside has no bill open and carries nothing unpaid.
THEOREM OutsideIsSettled ==
    ASSUME Oversights = {} PROVE Spec => []SettledOutside
<1>1. IInv => SettledOutside
  BY SettledHolds
<1> QED BY <1>1, Invariance, PTL

=============================================================================
