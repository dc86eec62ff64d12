-------------------------- MODULE OccupationProofs --------------------------
(***************************************************************************)
(* Proofs about module Occupation, for any memory, levels, squares, foods  *)
(* and delays: the pointers that eating, reading and wielding keep are     *)
(* good, whatever is freed, moved, merged, split or renamed meanwhile.     *)
(***************************************************************************)
EXTENDS Occupation, FiniteSetTheorems, TLAPS

(***************************************************************************)
(* What the functions of the code make of memory and of the statics.       *)
(***************************************************************************)
Objects == {r \in Obj : r.where # "FREE" /\ r.quan > 0}
Ptr     == Addr \cup {Null}
Meals   == [piece : Ptr, eating : BOOLEAN, doreset : BOOLEAN, usedtime : Nat,
            reqtime : Nat, nmod : Int]
Memory  == [obj : [Addr -> Objects \cup {Free}], victual : Meals,
            tin : [tin : Ptr, usedtime : Nat, reqtime : Nat], book : Ptr, delay : Int,
            uwep : Ptr, occupation : {"none", "eatfood", "opentin", "learn"}]

\* Each pointer points at what it should.
PieceGood(m) == m.victual.piece # Null =>
                    LET r == m.obj[m.victual.piece]
                    IN  r # Free /\ r.otyp \in Foods /\ r.oeaten > 0
BookGood(m)  == m.book # Null => m.obj[m.book] # Free /\ m.obj[m.book].otyp = "BOOK"
WeaponGood(m) == m.uwep # Null => m.obj[m.uwep].where = "INVENT"
Fine(m) == m \in Memory /\ PieceGood(m) /\ BookGood(m) /\ WeaponGood(m)

\* How much memory is in use.
Count(m) == Cardinality(Live(m.obj))

\* An address is left, and another one if the piece must be set apart again.
Apart(m, cap) == /\ m.victual.piece # Null
                 /\ m.obj[m.victual.piece].quan > 1
                 => Count(m) + 2 <= cap
Safe(m, cap) == Fine(m) /\ Count(m) + 1 <= cap /\ Apart(m, cap)

\* Free memory is no object.
LEMMA FreeIs ==
    /\ Nowhere \in Square
    /\ Free \in Obj /\ Free.where = "FREE" /\ Free \notin Objects
    /\ \A r \in Objects : r # Free /\ r.where # "FREE"
<1>1. Nowhere \in Square
  BY OccupationAssumption DEF Nowhere
<1> QED BY <1>1 DEF Free, Objects, Obj, Places, Foods

\* What is live is what is not free, and can be counted.
LEMMA LiveIs ==
    ASSUME NEW mem \in [Addr -> Objects \cup {Free}]
    PROVE  /\ Live(mem) = {o \in Addr : mem[o] # Free}
           /\ Live(mem) = {o \in Addr : mem[o] \in Objects}
           /\ Live(mem) \subseteq Addr /\ IsFiniteSet(Live(mem))
           /\ Cardinality(Live(mem)) \in Nat
<1>1. /\ Live(mem) = {o \in Addr : mem[o] # Free}
      /\ Live(mem) = {o \in Addr : mem[o] \in Objects}
  BY FreeIs DEF Live
<1>2. Live(mem) \subseteq Addr
  BY DEF Live
<1>3. IsFiniteSet(Live(mem))
  BY <1>2, FS_Subset, OccupationAssumption
<1> QED BY <1>1, <1>2, <1>3, FS_CardinalityType

\* malloc finds an address as long as one is left.
LEMMA MallocIs ==
    ASSUME NEW m \in Memory, Count(m) + 1 <= Cardinality(Addr)
    PROVE  Malloc(m) \in Addr /\ m.obj[Malloc(m)] = Free /\ Malloc(m) \notin Live(m.obj)
<1>1. m.obj \in [Addr -> Objects \cup {Free}]
  BY DEF Memory
<1>2. \E o \in Addr : m.obj[o] = Free
  <2> SUFFICES ASSUME \A o \in Addr : m.obj[o] # Free PROVE FALSE
    OBVIOUS
  <2>1. Live(m.obj) = Addr
    BY <1>1, LiveIs
  <2> QED BY <1>1, <2>1, LiveIs, FS_CardinalityType DEF Count
<1> QED BY <1>1, <1>2, LiveIs DEF Malloc

\* The fields of memory, and what an assignment to one of them leaves alone.
LEMMA MemoryIs ==
    ASSUME NEW m \in Memory
    PROVE  /\ m.obj \in [Addr -> Objects \cup {Free}]
           /\ m.victual \in Meals /\ m.victual.piece \in Ptr
           /\ m.tin \in [tin : Ptr, usedtime : Nat, reqtime : Nat] /\ m.tin.tin \in Ptr
           /\ m.book \in Ptr /\ m.delay \in Int /\ m.uwep \in Ptr
           /\ \A mem \in [Addr -> Objects \cup {Free}] : [m EXCEPT !.obj = mem] \in Memory
           /\ \A v \in Meals : [m EXCEPT !.victual = v] \in Memory
           /\ m = [obj |-> m.obj, victual |-> m.victual, tin |-> m.tin, book |-> m.book,
                   delay |-> m.delay, uwep |-> m.uwep, occupation |-> m.occupation]
BY DEF Memory, Meals

(***************************************************************************)
(* Freeing and using up.                                                   *)
(***************************************************************************)
Lost(p, o) == IF p = o THEN Null ELSE p

LEMMA ObFreeIs ==
    ASSUME NEW m \in Memory, NEW o \in Addr
    PROVE  LET n == ObFree(m, o)
           IN  /\ n \in Memory
               /\ n.obj = [m.obj EXCEPT ![o] = Free]
               /\ n.victual = [m.victual EXCEPT !.piece = Lost(@, o)]
               /\ n.victual.piece = Lost(m.victual.piece, o)
               /\ n.book = Lost(m.book, o) /\ n.uwep = Lost(m.uwep, o)
               /\ n.tin = m.tin /\ n.delay = m.delay /\ n.occupation = m.occupation
<1> DEFINE a == FoodDisappears(m, o)
           b == BookDisappears(a, o)
           c == [b EXCEPT !.uwep = IF @ = o THEN Null ELSE @]
           n == Dealloc(c, o)
<1>1. /\ a \in Memory /\ a.obj = m.obj /\ a.tin = m.tin /\ a.book = m.book
      /\ a.delay = m.delay /\ a.uwep = m.uwep /\ a.occupation = m.occupation
      /\ a.victual = [m.victual EXCEPT !.piece = Lost(@, o)]
      /\ a.victual.piece = Lost(m.victual.piece, o)
  BY DEF FoodDisappears, Memory, Meals, Lost, Ptr
<1> HIDE DEF a
<1>2. /\ b \in Memory /\ b.obj = a.obj /\ b.tin = a.tin /\ b.victual = a.victual
      /\ b.delay = a.delay /\ b.uwep = a.uwep /\ b.occupation = a.occupation
      /\ b.book = Lost(a.book, o)
  BY <1>1 DEF BookDisappears, Memory, Lost, Ptr
<1> HIDE DEF b
<1>3. /\ c \in Memory /\ c.obj = b.obj /\ c.tin = b.tin /\ c.victual = b.victual
      /\ c.delay = b.delay /\ c.book = b.book /\ c.occupation = b.occupation
      /\ c.uwep = Lost(b.uwep, o)
  BY <1>2 DEF Memory, Lost, Ptr
<1> HIDE DEF c
<1>4. /\ n \in Memory /\ n.tin = c.tin /\ n.victual = c.victual /\ n.uwep = c.uwep
      /\ n.delay = c.delay /\ n.book = c.book /\ n.occupation = c.occupation
      /\ n.obj = [c.obj EXCEPT ![o] = Free]
  BY <1>3 DEF Dealloc, Memory
<1>5. n = ObFree(m, o)
  BY DEF ObFree, a, b, c
<1> HIDE DEF n
<1> QED BY <1>1, <1>2, <1>3, <1>4, <1>5

LEMMA ObFreeFine ==
    ASSUME NEW m, Fine(m), NEW o \in Addr
    PROVE  /\ Fine(ObFree(m, o)) /\ Live(ObFree(m, o).obj) = Live(m.obj) \ {o}
           /\ o \in Live(m.obj) => Count(ObFree(m, o)) = Count(m) - 1
           /\ Count(ObFree(m, o)) <= Count(m)
<1> DEFINE n == ObFree(m, o)
<1>1. m \in Memory /\ n \in Memory
  BY ObFreeIs DEF Fine
<1>2. /\ n.obj = [m.obj EXCEPT ![o] = Free] /\ n.victual.piece = Lost(m.victual.piece, o)
      /\ n.book = Lost(m.book, o) /\ n.uwep = Lost(m.uwep, o)
  BY <1>1, ObFreeIs
<1> HIDE DEF n
<1>3. PieceGood(n)
  BY <1>1, <1>2, MemoryIs DEF Fine, PieceGood, Lost, Ptr
<1>4. BookGood(n)
  BY <1>1, <1>2, MemoryIs DEF Fine, BookGood, Lost, Ptr
<1>5. WeaponGood(n)
  BY <1>1, <1>2, MemoryIs DEF Fine, WeaponGood, Lost, Ptr
<1>6. Live(n.obj) = Live(m.obj) \ {o}
  BY <1>1, <1>2, LiveIs, MemoryIs
<1>7. /\ Count(n) \in Nat /\ Count(m) \in Nat /\ IsFiniteSet(Live(m.obj))
  BY <1>1, LiveIs, MemoryIs DEF Count
<1>8. o \in Live(m.obj) => Count(n) = Count(m) - 1
  BY <1>6, <1>7, FS_RemoveElement DEF Count
<1>9. o \notin Live(m.obj) => Count(n) = Count(m)
  BY <1>6 DEF Count
<1> QED BY <1>1, <1>3, <1>4, <1>5, <1>6, <1>7, <1>8, <1>9 DEF Fine, n

\* Freeing leaves the memory safe.
LEMMA ObFreeSafe ==
    ASSUME NEW cap \in Nat, NEW m, Safe(m, cap), NEW o \in Addr
    PROVE  Safe(ObFree(m, o), cap)
<1> DEFINE n == ObFree(m, o)
<1>1. Fine(n) /\ Count(n) <= Count(m) /\ Count(n) \in Nat /\ Count(m) \in Nat
  BY ObFreeFine, LiveIs, MemoryIs DEF Safe, Fine, Count
<1>2. n.obj = [m.obj EXCEPT ![o] = Free] /\ n.victual.piece = Lost(m.victual.piece, o)
  BY ObFreeIs DEF Safe, Fine
<1> HIDE DEF n
<1>3. Apart(n, cap)
  BY <1>1, <1>2, MemoryIs DEF Safe, Fine, Apart, Lost, Ptr
<1> QED BY <1>1, <1>3 DEF Safe, n

\* What becomes of memory if only the object at o changes, and stays what it is.
LEMMA Rewritten ==
    ASSUME NEW m, Fine(m), NEW n \in Memory, NEW o \in Live(m.obj), NEW r \in Objects,
           n.obj = [m.obj EXCEPT ![o] = r],
           n.victual.piece = m.victual.piece, n.book = m.book, n.uwep = m.uwep,
           r.otyp = m.obj[o].otyp,
           m.uwep = o => r.where = m.obj[o].where \/ r.where = "INVENT",
           m.obj[o].oeaten > 0 => r.oeaten > 0
    PROVE  Fine(n) /\ Live(n.obj) = Live(m.obj) /\ Count(n) = Count(m)
<1>1. /\ m.obj \in [Addr -> Objects \cup {Free}] /\ n.obj \in [Addr -> Objects \cup {Free}]
      /\ o \in Addr /\ m.obj[o] # Free /\ r # Free
  BY MemoryIs, LiveIs, FreeIs DEF Fine
<1>2. PieceGood(n)
  BY <1>1, MemoryIs DEF Fine, PieceGood, Ptr
<1>3. BookGood(n)
  BY <1>1, MemoryIs DEF Fine, BookGood, Ptr
<1>4. WeaponGood(n)
  BY <1>1, MemoryIs DEF Fine, WeaponGood, Ptr
<1>5. Live(n.obj) = Live(m.obj)
  BY <1>1, LiveIs
<1> QED BY <1>2, <1>3, <1>4, <1>5 DEF Fine, Count

\* An object with another quantity.
LEMMA Requantified ==
    ASSUME NEW r \in Objects, NEW q \in Nat \ {0}
    PROVE  LET s == [r EXCEPT !.quan = q]
           IN  /\ s \in Objects /\ s.otyp = r.otyp /\ s.where = r.where
               /\ s.oeaten = r.oeaten /\ s.quan = q /\ s.at = r.at
BY DEF Objects, Obj

\* useup leaves the memory safe.
LEMMA UseUpSafe ==
    ASSUME NEW cap \in Nat, NEW m, Safe(m, cap), NEW o \in Live(m.obj)
    PROVE  Safe(UseUp(m, o), cap) /\ Count(UseUp(m, o)) <= Count(m)
<1>1. o \in Addr /\ m \in Memory /\ m.obj[o] \in Objects
  BY LiveIs, MemoryIs DEF Safe, Fine
<1>2. CASE m.obj[o].quan > 1
  <2> DEFINE r == [m.obj[o] EXCEPT !.quan = m.obj[o].quan - 1]
             n == [m EXCEPT !.obj = [m.obj EXCEPT ![o] = r]]
  <2>1. m.obj[o].quan - 1 \in Nat \ {0}
    BY <1>1, <1>2 DEF Objects, Obj
  <2>2. /\ r \in Objects /\ r.otyp = m.obj[o].otyp /\ r.where = m.obj[o].where
        /\ r.oeaten = m.obj[o].oeaten /\ r.quan = m.obj[o].quan - 1
    BY <1>1, <2>1, Requantified
  <2>3. UseUp(m, o) = n
    BY <1>1, <1>2 DEF UseUp, Memory
  <2> HIDE DEF r
  <2>4. /\ n \in Memory /\ n.obj = [m.obj EXCEPT ![o] = r] /\ n.victual = m.victual
        /\ n.book = m.book /\ n.uwep = m.uwep
    BY <1>1, <2>2 DEF Memory
  <2> HIDE DEF n
  <2>5. Fine(n) /\ Count(n) = Count(m)
    BY <1>1, <2>2, <2>4, Rewritten DEF Safe
  <2>6. Apart(n, cap)
    BY <1>1, <1>2, <2>2, <2>4, <2>5, MemoryIs DEF Safe, Apart, Ptr
  <2> QED BY <2>3, <2>5, <2>6, LiveIs, MemoryIs DEF Safe, Fine, Count
<1>3. CASE ~(m.obj[o].quan > 1)
  BY <1>1, <1>3, ObFreeSafe, ObFreeFine DEF UseUp, Safe
<1> QED BY <1>2, <1>3

(***************************************************************************)
(* Memory with one more object in it.                                      *)
(***************************************************************************)
LEMMA MoreLive ==
    ASSUME NEW m \in Memory, NEW n \in Memory, NEW new \in Addr, m.obj[new] = Free,
           Live(n.obj) = Live(m.obj) \cup {new}
    PROVE  Count(n) = Count(m) + 1
<1>1. new \notin Live(m.obj) /\ IsFiniteSet(Live(m.obj))
  BY LiveIs, MemoryIs
<1> QED BY <1>1, FS_AddElement DEF Count

\* splitobj: both parts are objects like the whole, and all else is as it was.
LEMMA SplitFine ==
    ASSUME NEW m, Fine(m), NEW o \in Live(m.obj), NEW k \in Nat \ {0},
           k < m.obj[o].quan, Count(m) + 1 <= Cardinality(Addr)
    PROVE  LET n   == SplitObj(m, o, k)
               new == Malloc(m)
           IN  /\ Fine(n) /\ Count(n) = Count(m) + 1 /\ new \in Addr /\ new # o
               /\ n.obj[o] \in Objects /\ n.obj[o].quan = m.obj[o].quan - k
               /\ n.obj[new] \in Objects /\ n.obj[new].quan = k
               /\ n.obj[o].otyp = m.obj[o].otyp /\ n.obj[new].otyp = m.obj[o].otyp
               /\ n.victual = m.victual /\ n.occupation = m.occupation
<1> DEFINE n   == SplitObj(m, o, k)
           new == Malloc(m)
           r   == [m.obj[o] EXCEPT !.quan = m.obj[o].quan - k]
           s   == [m.obj[o] EXCEPT !.quan = k]
<1>1. /\ m \in Memory /\ m.obj[o] \in Objects /\ o \in Addr /\ m.obj[o] # Free
      /\ m.obj \in [Addr -> Objects \cup {Free}]
  BY LiveIs, MemoryIs DEF Fine
<1>2. new \in Addr /\ m.obj[new] = Free /\ new # o
  BY <1>1, MallocIs
<1>3. m.obj[o].quan - k \in Nat \ {0}
  BY <1>1 DEF Objects, Obj
<1>4. /\ r \in Objects /\ r.otyp = m.obj[o].otyp /\ r.where = m.obj[o].where
      /\ r.oeaten = m.obj[o].oeaten /\ r.quan = m.obj[o].quan - k
      /\ s \in Objects /\ s.otyp = m.obj[o].otyp /\ s.quan = k
  BY <1>1, <1>3, Requantified
<1>5. n = [m EXCEPT !.obj = [m.obj EXCEPT ![o] = r, ![new] = s]]
  BY <1>1, <1>2 DEF SplitObj, Memory
<1> HIDE DEF r, s, new, n
<1>6. /\ n \in Memory /\ n.obj = [m.obj EXCEPT ![o] = r, ![new] = s]
      /\ n.victual = m.victual /\ n.book = m.book /\ n.uwep = m.uwep
      /\ n.occupation = m.occupation
  BY <1>1, <1>4, <1>5 DEF Memory
<1>7. /\ n.obj[o] = r /\ n.obj[new] = s
      /\ \A x \in Addr \ {o, new} : n.obj[x] = m.obj[x]
  BY <1>1, <1>2, <1>6
<1>8. r # Free /\ s # Free
  BY <1>4, FreeIs
<1>9. PieceGood(n)
  BY <1>1, <1>2, <1>4, <1>6, <1>7, <1>8, MemoryIs DEF Fine, PieceGood, Ptr
<1>10. BookGood(n)
  BY <1>1, <1>2, <1>4, <1>6, <1>7, <1>8, MemoryIs DEF Fine, BookGood, Ptr
<1>11. WeaponGood(n)
  <2>1. Free.where # "INVENT"
    BY FreeIs
  <2> QED BY <1>1, <1>2, <1>4, <1>6, <1>7, <2>1, MemoryIs DEF Fine, WeaponGood, Ptr
<1>12. Live(n.obj) = Live(m.obj) \cup {new}
  BY <1>1, <1>2, <1>4, <1>6, <1>7, <1>8, LiveIs, MemoryIs
<1>13. Count(n) = Count(m) + 1
  BY <1>1, <1>2, <1>6, <1>12, MoreLive
<1> QED BY <1>2, <1>4, <1>6, <1>7, <1>9, <1>10, <1>11, <1>13 DEF Fine, r, s, new, n

(***************************************************************************)
(* realloc_obj: the new object takes the old one's place, and its pointers.*)
(***************************************************************************)
Followed(p, old, new) == IF p = old THEN new ELSE p

LEMMA ReallocIs ==
    ASSUME NEW m \in Memory, NEW o \in Addr, NEW new \in Addr, new = Malloc(m), new # o,
           m.obj[o] \in Objects
    PROVE  LET n == ReallocObj(m, o)
           IN  /\ n \in Memory
               /\ n.obj = [m.obj EXCEPT ![new] = [m.obj[o] EXCEPT !.named = TRUE], ![o] = Free]
               /\ n.victual.piece = Followed(m.victual.piece, o, new)
               /\ n.book = Followed(m.book, o, new) /\ n.uwep = Followed(m.uwep, o, new)
               /\ n.occupation = m.occupation
<1> DEFINE r == [m.obj[o] EXCEPT !.named = TRUE]
           a == [m EXCEPT !.obj[new] = [m.obj[o] EXCEPT !.named = TRUE],
                          !.uwep = IF @ = o THEN new ELSE @]
           b == Substitute(a, o, new)
           n == Dealloc(b, o)
<1>1. r \in Objects
  BY DEF Objects, Obj
<1>2. a = [m EXCEPT !.obj = [m.obj EXCEPT ![new] = r], !.uwep = Followed(m.uwep, o, new)]
  BY DEF Followed, Memory
<1>3. m.obj \in [Addr -> Objects \cup {Free}] /\ Followed(m.uwep, o, new) \in Ptr
  BY MemoryIs DEF Followed, Ptr
<1> HIDE DEF r, a
<1>4. /\ a \in Memory /\ a.obj = [m.obj EXCEPT ![new] = r] /\ a.tin = m.tin
      /\ a.victual = m.victual /\ a.book = m.book /\ a.delay = m.delay
      /\ a.uwep = Followed(m.uwep, o, new) /\ a.occupation = m.occupation
  BY <1>1, <1>2, <1>3 DEF Memory
<1>5. /\ b \in Memory /\ b.obj = a.obj /\ b.uwep = a.uwep /\ b.occupation = a.occupation
      /\ b.victual.piece = Followed(a.victual.piece, o, new)
      /\ b.book = Followed(a.book, o, new)
  BY <1>4 DEF Substitute, Followed, Memory, Meals, Ptr
<1> HIDE DEF b
<1>6. /\ n \in Memory /\ n.obj = [b.obj EXCEPT ![o] = Free] /\ n.victual = b.victual
      /\ n.book = b.book /\ n.uwep = b.uwep /\ n.occupation = b.occupation
  BY <1>5 DEF Dealloc, Memory
<1>7. n = ReallocObj(m, o)
  BY DEF ReallocObj, a, b
<1> HIDE DEF n
<1>8. [a.obj EXCEPT ![o] = Free] = [m.obj EXCEPT ![new] = r, ![o] = Free]
  BY <1>4
<1> QED BY <1>4, <1>5, <1>6, <1>7, <1>8 DEF r

LEMMA ReallocFine ==
    ASSUME NEW m, Fine(m), NEW o \in Live(m.obj), Count(m) + 1 <= Cardinality(Addr)
    PROVE  LET n   == ReallocObj(m, o)
               new == Malloc(m)
           IN  /\ Fine(n) /\ Count(n) = Count(m) /\ new \in Addr
               /\ n.obj = [m.obj EXCEPT ![new] = [m.obj[o] EXCEPT !.named = TRUE], ![o] = Free]
               /\ n.victual.piece = Followed(m.victual.piece, o, new)
               /\ n.occupation = m.occupation
               /\ m.obj[new] = Free /\ new # o /\ new \in Live(n.obj)
               /\ \A x \in Live(m.obj) \ {o} : x \in Live(n.obj)
<1> DEFINE n   == ReallocObj(m, o)
           new == Malloc(m)
           r   == [m.obj[o] EXCEPT !.named = TRUE]
<1>1. /\ m \in Memory /\ m.obj[o] \in Objects /\ o \in Addr /\ m.obj[o] # Free
      /\ m.obj \in [Addr -> Objects \cup {Free}] /\ Count(m) \in Nat
  BY LiveIs, MemoryIs DEF Fine, Count
<1>2. new \in Addr /\ m.obj[new] = Free /\ new # o
  BY <1>1, MallocIs
<1>3. /\ n \in Memory /\ n.obj = [m.obj EXCEPT ![new] = r, ![o] = Free]
      /\ n.victual.piece = Followed(m.victual.piece, o, new)
      /\ n.book = Followed(m.book, o, new) /\ n.uwep = Followed(m.uwep, o, new)
      /\ n.occupation = m.occupation
  BY <1>1, <1>2, ReallocIs
<1>4. /\ r \in Objects /\ r.otyp = m.obj[o].otyp /\ r.oeaten = m.obj[o].oeaten
      /\ r.where = m.obj[o].where /\ r # Free
  BY <1>1, FreeIs DEF Objects, Obj
<1> HIDE DEF n, new, r
<1>5. /\ n.obj[o] = Free /\ n.obj[new] = r
      /\ \A x \in Addr \ {o, new} : n.obj[x] = m.obj[x]
  BY <1>1, <1>2, <1>3
<1>6. PieceGood(n)
  <2>1. CASE m.victual.piece = o
    <3>1. n.victual.piece = new
      BY <1>3, <2>1 DEF Followed
    <3> QED BY <1>1, <1>4, <1>5, <2>1, <3>1, OccupationAssumption DEF Fine, PieceGood
  <2>2. CASE m.victual.piece # o
    <3>1. n.victual.piece = m.victual.piece /\ m.victual.piece \in Ptr
      BY <1>1, <1>3, <2>2, MemoryIs DEF Followed
    <3> QED BY <1>1, <1>2, <1>5, <2>2, <3>1 DEF Fine, PieceGood, Ptr
  <2> QED BY <2>1, <2>2
<1>7. BookGood(n)
  <2>1. CASE m.book = o
    <3>1. n.book = new
      BY <1>3, <2>1 DEF Followed
    <3> QED BY <1>1, <1>4, <1>5, <2>1, <3>1, OccupationAssumption DEF Fine, BookGood
  <2>2. CASE m.book # o
    <3>1. n.book = m.book /\ m.book \in Ptr
      BY <1>1, <1>3, <2>2, MemoryIs DEF Followed
    <3> QED BY <1>1, <1>2, <1>5, <2>2, <3>1 DEF Fine, BookGood, Ptr
  <2> QED BY <2>1, <2>2
<1>8. WeaponGood(n)
  <2>1. Free.where # "INVENT"
    BY FreeIs
  <2>2. CASE m.uwep = o
    <3>1. n.uwep = new
      BY <1>3, <2>2 DEF Followed
    <3> QED BY <1>1, <1>4, <1>5, <2>2, <3>1, OccupationAssumption DEF Fine, WeaponGood
  <2>3. CASE m.uwep # o
    <3>1. n.uwep = m.uwep /\ m.uwep \in Ptr
      BY <1>1, <1>3, <2>3, MemoryIs DEF Followed
    <3> QED BY <1>1, <1>2, <1>5, <2>1, <2>3, <3>1 DEF Fine, WeaponGood, Ptr
  <2> QED BY <2>2, <2>3
<1>9. Live(n.obj) = (Live(m.obj) \ {o}) \cup {new} /\ new \notin Live(m.obj)
  BY <1>1, <1>2, <1>3, <1>4, <1>5, LiveIs, MemoryIs
<1>10. Count(n) = Count(m)
  <2>1. Cardinality(Live(m.obj) \ {o}) = Count(m) - 1 /\ IsFiniteSet(Live(m.obj) \ {o})
    BY <1>1, LiveIs, FS_RemoveElement DEF Count
  <2>2. new \notin Live(m.obj) \ {o}
    BY <1>9
  <2>3. Cardinality((Live(m.obj) \ {o}) \cup {new}) = Cardinality(Live(m.obj) \ {o}) + 1
    BY <2>1, <2>2, FS_AddElement
  <2> QED BY <1>1, <1>9, <2>1, <2>3 DEF Count
<1> QED BY <1>2, <1>3, <1>6, <1>7, <1>8, <1>9, <1>10 DEF Fine, r, n, new

(***************************************************************************)
(* merged, and what is put where it may merge.                             *)
(***************************************************************************)
\* Two become one: with the memory that is won the piece could be set apart again.
LEMMA MergedSafe ==
    ASSUME NEW cap \in 0 .. Cardinality(Addr), NEW m, Safe(m, cap),
           NEW otmp \in Live(m.obj), NEW o \in Live(m.obj), otmp # o
    PROVE  Safe(Merged(m, otmp, o), cap)
<1> DEFINE q    == m.obj[otmp].quan + m.obj[o].quan
           r    == [m.obj[otmp] EXCEPT !.quan = q]
           more == [m EXCEPT !.obj[otmp].quan = @ + m.obj[o].quan]
           n1   == IF m.obj[o].named /\ ~m.obj[otmp].named THEN ReallocObj(more, otmp) ELSE more
<1>1. /\ m \in Memory /\ m.obj[otmp] \in Objects /\ m.obj[o] \in Objects
      /\ otmp \in Addr /\ o \in Addr /\ Fine(m)
      /\ Count(m) \in Nat /\ Count(m) + 1 <= cap /\ cap <= Cardinality(Addr)
      /\ Cardinality(Addr) \in Nat
  BY LiveIs, MemoryIs, OccupationAssumption, FS_CardinalityType DEF Safe, Fine, Count
<1>2. q \in Nat \ {0}
  BY <1>1 DEF Objects, Obj
<1>3. /\ r \in Objects /\ r.otyp = m.obj[otmp].otyp /\ r.where = m.obj[otmp].where
      /\ r.oeaten = m.obj[otmp].oeaten
  BY <1>1, <1>2, Requantified
<1>4. more = [m EXCEPT !.obj = [m.obj EXCEPT ![otmp] = r]]
  BY <1>1 DEF Memory
<1> HIDE DEF more, r
<1>5. /\ more \in Memory /\ more.obj = [m.obj EXCEPT ![otmp] = r]
      /\ more.victual = m.victual /\ more.book = m.book /\ more.uwep = m.uwep
  BY <1>1, <1>3, <1>4 DEF Memory
<1>6. Fine(more) /\ Live(more.obj) = Live(m.obj) /\ Count(more) = Count(m)
  BY <1>1, <1>3, <1>5, Rewritten
<1>7. Fine(n1) /\ Count(n1) = Count(m) /\ o \in Live(n1.obj)
  <2>1. CASE m.obj[o].named /\ ~m.obj[otmp].named
    <3>1. n1 = ReallocObj(more, otmp)
      BY <2>1
    <3>2. Count(more) + 1 <= Cardinality(Addr)
      BY <1>1, <1>6
    <3>3. otmp \in Live(more.obj) /\ o \in Live(more.obj) \ {otmp}
      BY <1>6
    <3> HIDE DEF n1
    <3> QED BY <1>6, <3>1, <3>2, <3>3, ReallocFine
  <2>2. CASE ~(m.obj[o].named /\ ~m.obj[otmp].named)
    BY <1>6, <2>2
  <2> QED BY <2>1, <2>2
<1> HIDE DEF n1
<1>8. Fine(ObFree(n1, o)) /\ Count(ObFree(n1, o)) = Count(m) - 1
  BY <1>1, <1>7, ObFreeFine
<1>9. Merged(m, otmp, o) = ObFree(n1, o)
  BY DEF Merged, n1, more
<1>10. (Count(m) - 1) + 1 <= cap /\ (Count(m) - 1) + 2 <= cap
  BY <1>1
<1> QED BY <1>8, <1>9, <1>10 DEF Safe, Apart

\* An object is somewhere else now.
LEMMA PlacedSafe ==
    ASSUME NEW cap \in Nat, NEW m, Safe(m, cap), NEW o \in Live(m.obj),
           NEW place \in Places \ {"FREE"}, NEW s \in Square,
           m.uwep = o => place = "INVENT"
    PROVE  LET n == [m EXCEPT !.obj[o].where = place, !.obj[o].at = s]
           IN  Safe(n, cap) /\ o \in Live(n.obj)
<1> DEFINE r == [m.obj[o] EXCEPT !.where = place, !.at = s]
           n == [m EXCEPT !.obj[o].where = place, !.obj[o].at = s]
<1>1. m \in Memory /\ m.obj[o] \in Objects /\ o \in Addr /\ Fine(m)
  BY LiveIs, MemoryIs DEF Safe, Fine
<1>2. /\ r \in Objects /\ r.otyp = m.obj[o].otyp /\ r.where = place
      /\ r.oeaten = m.obj[o].oeaten /\ r.quan = m.obj[o].quan
  BY <1>1 DEF Objects, Obj
<1>3. n = [m EXCEPT !.obj = [m.obj EXCEPT ![o] = r]]
  BY <1>1 DEF Memory
<1> HIDE DEF n, r
<1>4. /\ n \in Memory /\ n.obj = [m.obj EXCEPT ![o] = r] /\ n.victual = m.victual
      /\ n.book = m.book /\ n.uwep = m.uwep
  BY <1>1, <1>2, <1>3 DEF Memory
<1>5. Fine(n) /\ Live(n.obj) = Live(m.obj) /\ Count(n) = Count(m)
  BY <1>1, <1>2, <1>4, Rewritten
<1>6. Apart(n, cap)
  BY <1>1, <1>2, <1>4, <1>5, MemoryIs DEF Safe, Apart, Ptr
<1> QED BY <1>5, <1>6 DEF Safe, n

LEMMA PartnerIs ==
    ASSUME NEW m \in Memory, NEW o \in Live(m.obj)
    PROVE  Partner(m, o) \subseteq Live(m.obj) \ {o}
BY LiveIs, MemoryIs, FreeIs DEF Partner, Objects, Live

\* addinv and add_to_minv; what is wielded is not taken away before.
LEMMA JoinsSafe ==
    ASSUME NEW cap \in 0 .. Cardinality(Addr), NEW m, Safe(m, cap), NEW o \in Live(m.obj),
           NEW place \in {"INVENT", "MINVENT"}, m.uwep = o => place = "INVENT"
    PROVE  Safe(Joins(m, o, place), cap)
<1> DEFINE there == [m EXCEPT !.obj[o].where = place, !.obj[o].at = Nowhere]
<1>1. cap \in Nat /\ place \in Places \ {"FREE"} /\ Nowhere \in Square
  BY FreeIs, OccupationAssumption, FS_CardinalityType DEF Places
<1>2. Safe(there, cap) /\ o \in Live(there.obj)
  BY <1>1, PlacedSafe
<1> HIDE DEF there
<1>3. Partner(there, o) \subseteq Live(there.obj) \ {o}
  BY <1>2, PartnerIs DEF Safe, Fine
<1>4. CASE Partner(there, o) # {}
  <2> DEFINE p == CHOOSE p \in Partner(there, o) : TRUE
  <2>1. p \in Live(there.obj) /\ p # o
    BY <1>3, <1>4
  <2>2. Safe(Merged(there, p, o), cap)
    BY <1>2, <2>1, MergedSafe
  <2> QED BY <1>4, <2>2 DEF Joins, there
<1> QED BY <1>2, <1>4 DEF Joins, there

\* place_object and stackobj.
LEMMA LandsSafe ==
    ASSUME NEW cap \in 0 .. Cardinality(Addr), NEW m, Safe(m, cap), NEW o \in Live(m.obj),
           NEW s \in Square, m.uwep # o
    PROVE  Safe(Lands(m, o, s), cap)
<1> DEFINE there == [m EXCEPT !.obj[o].where = "FLOOR", !.obj[o].at = s]
<1>1. cap \in Nat /\ "FLOOR" \in Places \ {"FREE"}
  BY OccupationAssumption, FS_CardinalityType DEF Places
<1>2. Safe(there, cap) /\ o \in Live(there.obj)
  BY <1>1, PlacedSafe
<1> HIDE DEF there
<1>3. Partner(there, o) \subseteq Live(there.obj) \ {o}
  BY <1>2, PartnerIs DEF Safe, Fine
<1>4. CASE Partner(there, o) # {}
  <2> DEFINE p == CHOOSE p \in Partner(there, o) : TRUE
  <2>1. p \in Live(there.obj) /\ p # o
    BY <1>3, <1>4
  <2>2. Safe(Merged(there, o, p), cap)
    BY <1>2, <2>1, MergedSafe
  <2> QED BY <1>4, <2>2 DEF Lands, there
<1> QED BY <1>2, <1>4 DEF Lands, there

\* Pointers may be forgotten, and counters and flags may change, at any time.
LEMMA ForgetsSafe ==
    ASSUME NEW cap \in Nat, NEW m, Safe(m, cap), NEW n \in Memory, n.obj = m.obj,
           n.victual.piece \in {m.victual.piece, Null}, n.book \in {m.book, Null},
           n.uwep \in {m.uwep, Null}
    PROVE  Safe(n, cap)
<1>1. m \in Memory /\ Count(n) = Count(m)
  BY DEF Safe, Fine, Count
<1>2. Fine(n)
  BY DEF Safe, Fine, PieceGood, BookGood, WeaponGood
<1>3. Apart(n, cap)
  BY <1>1 DEF Safe, Apart
<1> QED BY <1>1, <1>2, <1>3 DEF Safe

(***************************************************************************)
(* Eating.                                                                 *)
(***************************************************************************)
\* m has a piece.
Eats(m) == m.victual.piece # Null

LEMMA PieceIs ==
    ASSUME NEW cap, NEW m, Safe(m, cap), Eats(m)
    PROVE  /\ m.victual.piece \in Live(m.obj) /\ m.victual.piece \in Addr
           /\ m.obj[m.victual.piece] \in Objects
           /\ m.obj[m.victual.piece].otyp \in Foods /\ m.obj[m.victual.piece].oeaten > 0
<1>1. m \in Memory /\ m.victual.piece \in Addr
  BY MemoryIs DEF Safe, Fine, Eats, Ptr
<1> QED BY <1>1, LiveIs, MemoryIs DEF Safe, Fine, PieceGood, Eats

LEMMA FullIs == \A f \in Foods : Full[f] \in Nat \ {0} /\ OcDelay[f] \in Nat \ {0}
BY OccupationAssumption

\* The food is set apart, if there is memory for it, and is the piece.
LEMMA TouchFoodSafe ==
    ASSUME NEW cap \in 0 .. Cardinality(Addr), NEW m, Safe(m, cap), NEW o \in Live(m.obj),
           m.obj[o].otyp \in Foods, m.obj[o].quan > 1 => Count(m) + 2 <= cap
    PROVE  LET n == TouchFood(m, o)
           IN  /\ Safe(n, cap) /\ Eats(n) /\ n.obj[n.victual.piece].quan = 1
               /\ n.occupation = m.occupation
<1> DEFINE stack == m.obj[o].quan > 1
           piece == IF stack /\ Carried(m, o) THEN Malloc(m) ELSE o
           apart == IF ~stack THEN m
                    ELSE SplitObj(m, o, IF Carried(m, o) THEN 1 ELSE m.obj[o].quan - 1)
           eaten == IF apart.obj[piece].oeaten = 0 THEN Full[apart.obj[piece].otyp]
                    ELSE apart.obj[piece].oeaten
           r     == [apart.obj[piece] EXCEPT !.oeaten = eaten]
           n     == TouchFood(m, o)
<1>1. /\ Fine(m) /\ m.obj[o] \in Objects /\ o \in Addr
      /\ Count(m) \in Nat /\ Count(m) + 1 <= cap /\ cap <= Cardinality(Addr)
      /\ Cardinality(Addr) \in Nat /\ m.obj[o].quan \in Nat \ {0}
  BY LiveIs, MemoryIs, OccupationAssumption, FS_CardinalityType
     DEF Safe, Fine, Count, Objects, Obj
<1>2. /\ Fine(apart) /\ Count(apart) + 1 <= cap /\ piece \in Addr
      /\ apart.obj[piece] \in Objects /\ apart.obj[piece].otyp \in Foods
      /\ apart.obj[piece].quan = 1 /\ apart.occupation = m.occupation
  <2>1. CASE ~stack
    BY <1>1, <2>1
  <2>2. CASE stack /\ Carried(m, o)
    <3> DEFINE s == SplitObj(m, o, 1)
    <3>1. 1 \in Nat \ {0} /\ 1 < m.obj[o].quan /\ Count(m) + 1 <= Cardinality(Addr)
      BY <1>1, <2>2
    <3>2. /\ Fine(s) /\ Count(s) = Count(m) + 1 /\ Malloc(m) \in Addr
          /\ s.obj[Malloc(m)] \in Objects /\ s.obj[Malloc(m)].quan = 1
          /\ s.obj[Malloc(m)].otyp = m.obj[o].otyp /\ s.occupation = m.occupation
      BY <1>1, <3>1, SplitFine
    <3>3. apart = s /\ piece = Malloc(m)
      BY <2>2
    <3>4. (Count(m) + 1) + 1 <= cap
      BY <1>1, <2>2
    <3> HIDE DEF s, apart, piece
    <3> QED BY <1>1, <3>2, <3>3, <3>4
  <2>3. CASE stack /\ ~Carried(m, o)
    <3> DEFINE k == m.obj[o].quan - 1
               s == SplitObj(m, o, k)
    <3>1. /\ k \in Nat \ {0} /\ k < m.obj[o].quan /\ Count(m) + 1 <= Cardinality(Addr)
          /\ m.obj[o].quan - k = 1
      BY <1>1, <2>3
    <3>2. /\ Fine(s) /\ Count(s) = Count(m) + 1
          /\ s.obj[o] \in Objects /\ s.obj[o].quan = m.obj[o].quan - k
          /\ s.obj[o].otyp = m.obj[o].otyp /\ s.occupation = m.occupation
      BY <1>1, <3>1, SplitFine
    <3>3. apart = s /\ piece = o
      BY <2>3
    <3>4. (Count(m) + 1) + 1 <= cap
      BY <1>1, <2>3
    <3> HIDE DEF s, apart, piece, k
    <3> QED BY <1>1, <3>1, <3>2, <3>3, <3>4
  <2> QED BY <2>1, <2>2, <2>3
<1>3. n = [apart EXCEPT !.obj[piece].oeaten = eaten, !.victual.piece = piece]
  BY DEF TouchFood
<1> HIDE DEF apart, piece, n
<1>4. eaten \in Nat \ {0}
  BY <1>2, FullIs DEF Objects, Obj
<1> HIDE DEF eaten
<1>5. /\ r \in Objects /\ r.otyp = apart.obj[piece].otyp /\ r.oeaten = eaten /\ r.quan = 1
      /\ r.where = apart.obj[piece].where
  BY <1>2, <1>4 DEF Objects, Obj
<1>6. apart \in Memory /\ apart.victual \in Meals
  BY <1>2, MemoryIs DEF Fine
<1>7. n = [apart EXCEPT !.obj = [apart.obj EXCEPT ![piece] = r],
                        !.victual = [apart.victual EXCEPT !.piece = piece]]
  BY <1>3, <1>6 DEF Memory
<1> HIDE DEF r
<1>8. [apart.victual EXCEPT !.piece = piece] \in Meals
  BY <1>2, <1>6 DEF Meals, Ptr
<1> DEFINE a == [apart EXCEPT !.obj = [apart.obj EXCEPT ![piece] = r]]
<1>9. /\ a \in Memory /\ a.obj = [apart.obj EXCEPT ![piece] = r]
      /\ a.victual = apart.victual /\ a.book = apart.book /\ a.uwep = apart.uwep
      /\ a.occupation = apart.occupation
  BY <1>2, <1>5, <1>6 DEF Memory
<1>10. /\ n \in Memory /\ n.obj = a.obj /\ n.victual.piece = piece
       /\ n.book = a.book /\ n.uwep = a.uwep /\ n.occupation = a.occupation
  BY <1>6, <1>7, <1>8, <1>9 DEF Memory, Meals
<1> HIDE DEF a
<1>11. piece \in Live(apart.obj)
  BY <1>2, <1>6, LiveIs, MemoryIs
<1>12. Fine(a) /\ Count(a) = Count(apart) /\ Live(a.obj) = Live(apart.obj)
  BY <1>2, <1>4, <1>5, <1>9, <1>11, Rewritten
<1>13. n.obj[piece] = r /\ r # Free /\ piece # Null /\ Count(n) = Count(a)
  BY <1>2, <1>5, <1>6, <1>9, <1>10, FreeIs, MemoryIs, OccupationAssumption DEF Count
<1>14. Fine(n)
  BY <1>2, <1>4, <1>5, <1>10, <1>12, <1>13 DEF Fine, PieceGood, BookGood, WeaponGood
<1> QED BY <1>2, <1>5, <1>9, <1>10, <1>12, <1>13, <1>14 DEF Safe, Apart, Eats, n

\* consume_oeaten never leaves nothing.
LEMMA ConsumeSafe ==
    ASSUME NEW cap \in Nat, NEW m, Safe(m, cap), Eats(m), NEW amt \in Int, amt <= 2
    PROVE  LET n == ConsumeOeaten(m, amt)
           IN  /\ Safe(n, cap) /\ Eats(n) /\ n.occupation = m.occupation
               /\ n.victual.piece = m.victual.piece
<1> DEFINE o    == m.victual.piece
           left == m.obj[o].oeaten
           rest == IF amt > 0 THEN left \div 2 ^ amt ELSE IF left > -amt THEN left + amt ELSE 0
           now  == IF rest > 0 THEN rest ELSE 1
           r    == [m.obj[o] EXCEPT !.oeaten = now]
           v    == IF rest > 0 THEN m.victual
                   ELSE [m.victual EXCEPT !.reqtime = m.victual.usedtime]
           n    == ConsumeOeaten(m, amt)
<1>1. /\ m \in Memory /\ o \in Addr /\ o \in Live(m.obj) /\ m.obj[o] \in Objects
      /\ left > 0 /\ left \in Nat /\ m.victual \in Meals
  BY PieceIs, MemoryIs DEF Safe, Fine, Objects, Obj
<1>2. rest \in Nat
  <2>1. CASE amt = 1
    BY <1>1, <2>1
  <2>2. CASE amt = 2
    BY <1>1, <2>2
  <2>3. CASE amt <= 0
    BY <1>1, <2>3
  <2> QED BY <2>1, <2>2, <2>3
<1>3. n = [m EXCEPT !.obj = [m.obj EXCEPT ![o] = r], !.victual = v]
  BY <1>1 DEF ConsumeOeaten, Memory, Meals
<1> HIDE DEF rest, n
<1>4. now \in Nat \ {0}
  BY <1>2
<1> HIDE DEF now
<1>5. /\ r \in Objects /\ r.otyp = m.obj[o].otyp /\ r.oeaten = now /\ r.where = m.obj[o].where
      /\ r.quan = m.obj[o].quan
  BY <1>1, <1>4 DEF Objects, Obj
<1>6. v \in Meals /\ v.piece = o
  BY <1>1 DEF Meals
<1> HIDE DEF r, v
<1>7. /\ n \in Memory /\ n.obj = [m.obj EXCEPT ![o] = r] /\ n.victual = v /\ n.book = m.book
      /\ n.uwep = m.uwep /\ n.occupation = m.occupation
  BY <1>1, <1>3, <1>5, <1>6 DEF Memory
<1>8. Fine(n) /\ Count(n) = Count(m)
  BY <1>1, <1>4, <1>5, <1>6, <1>7, Rewritten DEF Safe
<1>9. Apart(n, cap)
  BY <1>1, <1>5, <1>6, <1>7, <1>8, MemoryIs DEF Safe, Apart, Eats
<1> QED BY <1>6, <1>7, <1>8, <1>9 DEF Safe, Eats, n

\* Stopping is forgetting.
LEMMA IdleSafe ==
    ASSUME NEW cap \in Nat, NEW m, Safe(m, cap)
    PROVE  /\ Safe(Idle(m), cap) /\ Idle(m).obj = m.obj /\ Idle(m).victual = m.victual
           /\ Idle(m).occupation = "none"
<1>1. m \in Memory
  BY DEF Safe, Fine
<1> DEFINE n == Idle(m)
<1>2. /\ n \in Memory /\ n.obj = m.obj /\ n.victual = m.victual /\ n.book = m.book
      /\ n.uwep = m.uwep /\ n.occupation = "none"
  BY <1>1 DEF Idle, Memory
<1> HIDE DEF n
<1>3. Safe(n, cap)
  BY <1>2, ForgetsSafe
<1> QED BY <1>2, <1>3 DEF n

\* do_reset_eat finds memory for setting the piece apart once more.
LEMMA DoResetEatSafe ==
    ASSUME NEW cap \in 0 .. Cardinality(Addr), NEW m, Safe(m, cap)
    PROVE  Safe(DoResetEat(m), cap) /\ DoResetEat(m).occupation = "none"
<1> DEFINE kept == IF m.victual.piece = Null THEN m ELSE TouchFood(m, m.victual.piece)
           off  == [kept EXCEPT !.victual.eating = FALSE, !.victual.doreset = FALSE]
<1>1. cap \in Nat
  BY OccupationAssumption, FS_CardinalityType
<1>2. Safe(kept, cap)
  <2>1. CASE Eats(m)
    BY <2>1, PieceIs, TouchFoodSafe DEF Safe, Apart, Eats
  <2> QED BY <2>1 DEF Eats
<1> HIDE DEF kept
<1>3. /\ off \in Memory /\ off.obj = kept.obj /\ off.victual.piece = kept.victual.piece
      /\ off.book = kept.book /\ off.uwep = kept.uwep
  BY <1>2 DEF Safe, Fine, Memory, Meals
<1> HIDE DEF off
<1>4. Safe(off, cap)
  BY <1>1, <1>2, <1>3, ForgetsSafe
<1> QED BY <1>1, <1>4, IdleSafe DEF DoResetEat, off, kept

LEMMA BiteSafe ==
    ASSUME NEW cap \in 0 .. Cardinality(Addr), NEW m, Safe(m, cap), Eats(m), NEW fate
    PROVE  /\ Safe(Bite(m, fate), cap) /\ (~m.victual.doreset => Eats(Bite(m, fate)))
           /\ Bite(m, fate).occupation \in {m.occupation, "none"}
<1> DEFINE v   == m.victual
           amt == IF v.nmod < 0 THEN v.nmod
                  ELSE IF v.nmod > 0 /\ v.usedtime % v.nmod # 0 THEN -1 ELSE 0
           set == [m EXCEPT !.victual.doreset = fate = "sated" /\ v.eating]
<1>1. cap \in Nat /\ m \in Memory /\ v \in Meals
  BY OccupationAssumption, FS_CardinalityType, MemoryIs DEF Safe, Fine
<1>2. amt \in Int /\ amt <= 2
  BY <1>1 DEF Meals
<1> HIDE DEF amt
<1>3. /\ set \in Memory /\ set.obj = m.obj /\ set.victual.piece = m.victual.piece
      /\ set.book = m.book /\ set.uwep = m.uwep /\ set.occupation = m.occupation
  BY <1>1 DEF Memory, Meals
<1> HIDE DEF set
<1>4. Safe(set, cap) /\ Eats(set)
  BY <1>1, <1>3, ForgetsSafe DEF Eats
<1>5. /\ Safe(ConsumeOeaten(set, amt), cap) /\ Eats(ConsumeOeaten(set, amt))
      /\ ConsumeOeaten(set, amt).occupation = m.occupation
  BY <1>1, <1>2, <1>3, <1>4, ConsumeSafe
<1>6. Bite(m, fate) = IF v.doreset THEN DoResetEat(m)
                      ELSE IF amt = 0 THEN m ELSE ConsumeOeaten(set, amt)
  BY DEF Bite, amt, set
<1> QED BY <1>5, <1>6, DoResetEatSafe

LEMMA DoneEatingSafe ==
    ASSUME NEW cap \in Nat, NEW m, Safe(m, cap), Eats(m)
    PROVE  Safe(DoneEating(m), cap) /\ DoneEating(m).occupation = "none"
<1> DEFINE used == UseUp(m, m.victual.piece)
           done == [used EXCEPT !.victual.piece = Null, !.victual.eating = FALSE,
                                !.victual.doreset = FALSE]
<1>1. Safe(used, cap)
  BY PieceIs, UseUpSafe
<1> HIDE DEF used
<1>2. /\ done \in Memory /\ done.obj = used.obj /\ done.victual.piece = Null
      /\ done.book = used.book /\ done.uwep = used.uwep
  BY <1>1 DEF Safe, Fine, Memory, Meals, Ptr
<1> HIDE DEF done
<1>3. Safe(done, cap)
  BY <1>1, <1>2, ForgetsSafe
<1> QED BY <1>3, IdleSafe DEF DoneEating, done, used

LEMMA TickSafe ==
    ASSUME NEW cap \in Nat, NEW m, Safe(m, cap)
    PROVE  /\ Safe(Tick(m), cap) /\ Tick(m).victual.piece = m.victual.piece
           /\ Tick(m).occupation = m.occupation
<1> DEFINE n == Tick(m)
<1>1. /\ n \in Memory /\ n.obj = m.obj /\ n.victual.piece = m.victual.piece
      /\ n.book = m.book /\ n.uwep = m.uwep /\ n.occupation = m.occupation
  BY DEF Tick, Safe, Fine, Memory, Meals
<1> HIDE DEF n
<1>2. Safe(n, cap)
  BY <1>1, ForgetsSafe
<1> QED BY <1>1, <1>2 DEF n

LEMMA EatFoodSafe ==
    ASSUME NEW cap \in 0 .. Cardinality(Addr), NEW m, Safe(m, cap), NEW fate
    PROVE  /\ Safe(EatFood(m, fate), cap)
           /\ m.occupation = "none" => EatFood(m, fate).occupation = "none"
<1> DEFINE t == Tick(m)
<1>1. cap \in Nat
  BY OccupationAssumption, FS_CardinalityType
<1>2. Safe(t, cap) /\ (Eats(m) => Eats(t)) /\ t.occupation = m.occupation
  BY <1>1, TickSafe DEF Eats
<1> HIDE DEF t
<1>3. /\ Safe(DoResetEat(m), cap) /\ Safe(Idle(m), cap) /\ Safe(Idle(t), cap)
      /\ DoResetEat(m).occupation = "none" /\ Idle(m).occupation = "none"
      /\ Idle(t).occupation = "none"
  BY <1>1, <1>2, DoResetEatSafe, IdleSafe
<1>4. ASSUME Eats(m)
      PROVE  /\ Safe(DoneEating(t), cap) /\ Safe(Bite(t, fate), cap)
             /\ DoneEating(t).occupation = "none"
             /\ Bite(t, fate).occupation \in {m.occupation, "none"}
  BY <1>1, <1>2, <1>4, DoneEatingSafe, BiteSafe
<1> DEFINE n == EatFood(m, fate)
<1>5. \/ n \in {DoResetEat(m), Idle(m), Idle(t)}
      \/ Eats(m) /\ n \in {DoneEating(t), Bite(t, fate)}
  BY DEF EatFood, t, Eats
<1> HIDE DEF n
<1>6. CASE n \in {DoResetEat(m), Idle(m), Idle(t)}
  BY <1>3, <1>6 DEF n
<1>7. CASE Eats(m) /\ n \in {DoneEating(t), Bite(t, fate)}
  BY <1>4, <1>7 DEF n
<1> QED BY <1>5, <1>6, <1>7

\* The meal of an occupation that is stopped is finished at most once.
LEMMA MaybeFinishedSafe ==
    ASSUME NEW cap \in 0 .. Cardinality(Addr), NEW m, Safe(m, cap)
    PROVE  /\ Safe(MaybeFinishedMeal(m), cap) /\ Safe(StopOccupation(m), cap)
           /\ StopOccupation(MaybeFinishedMeal(m)) = Idle(MaybeFinishedMeal(m))
<1> DEFINE i == Idle(m)
           f == MaybeFinishedMeal(m)
<1>1. cap \in Nat
  BY OccupationAssumption, FS_CardinalityType
<1>2. Safe(EatFood(i, "eats"), cap) /\ EatFood(i, "eats").occupation = "none"
  BY <1>1, IdleSafe, EatFoodSafe
<1>3. Safe(f, cap)
  BY <1>2 DEF MaybeFinishedMeal
<1>4. ~(f.occupation = "eatfood" /\ f.victual.usedtime >= f.victual.reqtime)
  <2>1. CASE m.occupation = "eatfood" /\ m.victual.usedtime >= m.victual.reqtime
    BY <1>2, <2>1 DEF MaybeFinishedMeal
  <2>2. CASE ~(m.occupation = "eatfood" /\ m.victual.usedtime >= m.victual.reqtime)
    BY <2>2 DEF MaybeFinishedMeal
  <2> QED BY <2>1, <2>2
<1> HIDE DEF f
<1>5. MaybeFinishedMeal(f) = f
  BY <1>4 DEF MaybeFinishedMeal
<1> QED BY <1>1, <1>3, <1>5, IdleSafe DEF StopOccupation, f

LEMMA StartEatingSafe ==
    ASSUME NEW cap \in 0 .. Cardinality(Addr), NEW m, Safe(m, cap), Eats(m), NEW fate
    PROVE  Safe(StartEating(m, fate), cap)
<1> DEFINE begun  == [m EXCEPT !.victual.doreset = FALSE, !.victual.eating = TRUE]
           spared == [begun EXCEPT !.victual.eating = FALSE]
           bitten == Bite(begun, fate)
           t      == Tick(bitten)
           on     == [t EXCEPT !.occupation = "eatfood"]
<1>1. cap \in Nat /\ m \in Memory
  BY OccupationAssumption, FS_CardinalityType DEF Safe, Fine
<1>2. /\ begun \in Memory /\ begun.obj = m.obj /\ begun.victual.piece = m.victual.piece
      /\ begun.book = m.book /\ begun.uwep = m.uwep /\ ~begun.victual.doreset
  BY <1>1 DEF Memory, Meals
<1> HIDE DEF begun
<1>3. Safe(begun, cap) /\ Eats(begun)
  BY <1>1, <1>2, ForgetsSafe DEF Eats
<1>4. Safe(spared, cap)
  <2>1. /\ spared \in Memory /\ spared.obj = begun.obj /\ spared.book = begun.book
        /\ spared.victual.piece = begun.victual.piece /\ spared.uwep = begun.uwep
    BY <1>2 DEF Memory, Meals
  <2> HIDE DEF spared
  <2> QED BY <1>1, <1>3, <2>1, ForgetsSafe
<1>5. Safe(bitten, cap) /\ Eats(bitten)
  BY <1>2, <1>3, BiteSafe
<1> HIDE DEF bitten
<1>6. Safe(t, cap) /\ Eats(t)
  BY <1>1, <1>5, TickSafe DEF Eats
<1> HIDE DEF t
<1>7. Safe(on, cap)
  <2>1. /\ on \in Memory /\ on.obj = t.obj /\ on.book = t.book
        /\ on.victual = t.victual /\ on.uwep = t.uwep
    BY <1>6 DEF Safe, Fine, Memory
  <2> HIDE DEF on
  <2> QED BY <1>1, <1>6, <2>1, ForgetsSafe
<1>8. Safe(DoneEating(t), cap)
  BY <1>1, <1>6, DoneEatingSafe
<1>9. Safe(ObFree(begun, m.victual.piece), cap)
  BY <1>1, <1>3, PieceIs, ObFreeSafe
<1> HIDE DEF spared, on
<1>10. CASE fate = "revives"
  BY <1>9, <1>10 DEF StartEating, begun
<1>11. CASE fate = "spared"
  BY <1>4, <1>11 DEF StartEating, begun, spared
<1>12. CASE fate = "chokes"
  BY <1>3, <1>12 DEF StartEating, begun
<1>13. CASE fate \notin {"revives", "spared", "chokes"}
  BY <1>7, <1>8, <1>13 DEF StartEating, begun, bitten, t, on
<1> QED BY <1>10, <1>11, <1>12, <1>13

\* What is left to eat decides how long it takes.
LEMMA PortionSafe ==
    ASSUME NEW cap \in Nat, NEW m, Safe(m, cap), Eats(m)
    PROVE  Safe(Portion(m), cap) /\ Eats(Portion(m))
<1> DEFINE food == m.obj[m.victual.piece]
           left == food.oeaten
           req  == RoundDiv(m.victual.reqtime * left, Full[food.otyp])
           nmod == IF req = 0 THEN 0 ELSE IF left >= req THEN -(left \div req) ELSE req % left
           n    == Portion(m)
<1>1. m \in Memory /\ left \in Nat \ {0} /\ food.otyp \in Foods /\ m.victual.reqtime \in Nat
  BY PieceIs, MemoryIs DEF Safe, Fine, Objects, Obj, Meals
<1>2. m.victual.reqtime * left \in Nat /\ Full[food.otyp] \in Nat \ {0}
  BY <1>1, FullIs
<1> HIDE DEF left
<1>3. req \in Nat
  <2> DEFINE x == m.victual.reqtime * left
             y == Full[food.otyp]
  <2>1. x \in Nat /\ y \in Nat \ {0}
    BY <1>2
  <2>2. req = RoundDiv(x, y)
    OBVIOUS
  <2> HIDE DEF x, y, req
  <2>3. 2 * x + y \in Nat /\ 2 * y \in Nat \ {0}
    BY <2>1
  <2> DEFINE a == 2 * x + y
             b == 2 * y
  <2>4. req = a \div b
    BY <2>2 DEF RoundDiv
  <2> HIDE DEF a, b
  <2>5. a \in Nat /\ b \in Nat \ {0}
    BY <2>3 DEF a, b
  <2> QED BY <2>4, <2>5
<1> HIDE DEF req
<1>4. nmod \in Int
  BY <1>1, <1>3
<1>5. n = [m EXCEPT !.victual.reqtime = req, !.victual.nmod = nmod]
  BY DEF Portion, req, left
<1> HIDE DEF nmod, n
<1>6. /\ n \in Memory /\ n.obj = m.obj /\ n.victual.piece = m.victual.piece
      /\ n.book = m.book /\ n.uwep = m.uwep
  BY <1>1, <1>3, <1>4, <1>5 DEF Memory, Meals
<1>7. Safe(n, cap)
  BY <1>6, ForgetsSafe
<1> QED BY <1>6, <1>7 DEF Eats, n

LEMMA NewMealSafe ==
    ASSUME NEW cap \in 0 .. Cardinality(Addr), NEW m, Safe(m, cap), NEW o \in Live(m.obj),
           m.obj[o].otyp \in Foods, m.obj[o].quan > 1 => Count(m) + 2 <= cap,
           NEW luck, NEW fate
    PROVE  Safe(NewMeal(m, o, luck, fate), cap)
<1> DEFINE corpse == m.obj[o].otyp = "CORPSE"
           touched == TouchFood(m, o)
           taken == [touched EXCEPT !.victual.usedtime = 0,
                                    !.victual.reqtime = OcDelay[m.obj[o].otyp]]
           piece == taken.victual.piece
           faint == [taken EXCEPT !.obj[piece].orotten = TRUE]
           used  == UseUp(taken, piece)
           gone  == [used EXCEPT !.victual.piece = Null]
<1>1. cap \in Nat
  BY OccupationAssumption, FS_CardinalityType
<1>2. Safe(touched, cap) /\ Eats(touched)
  BY TouchFoodSafe
<1> HIDE DEF touched
<1>3. /\ taken \in Memory /\ taken.obj = touched.obj
      /\ taken.victual.piece = touched.victual.piece
      /\ taken.book = touched.book /\ taken.uwep = touched.uwep
  BY <1>2, FullIs DEF Safe, Fine, Memory, Meals
<1> HIDE DEF taken
<1>4. Safe(taken, cap) /\ Eats(taken)
  BY <1>1, <1>2, <1>3, ForgetsSafe DEF Eats
<1>5. Safe(used, cap)
  BY <1>1, <1>4, PieceIs, UseUpSafe
<1> HIDE DEF used
<1>6. Safe(gone, cap)
  <2>1. /\ gone \in Memory /\ gone.obj = used.obj /\ gone.victual.piece = Null
        /\ gone.book = used.book /\ gone.uwep = used.uwep
    BY <1>5 DEF Safe, Fine, Memory, Meals, Ptr
  <2> HIDE DEF gone
  <2> QED BY <1>1, <1>5, <2>1, ForgetsSafe
<1>7. Safe(faint, cap) /\ Eats(faint)
  <2> DEFINE r == [taken.obj[piece] EXCEPT !.orotten = TRUE]
  <2>1. /\ piece \in Live(taken.obj) /\ piece \in Addr /\ taken.obj[piece] \in Objects
        /\ piece # Null
    BY <1>4, PieceIs DEF Eats
  <2>2. /\ r \in Objects /\ r.otyp = taken.obj[piece].otyp /\ r.quan = taken.obj[piece].quan
        /\ r.where = taken.obj[piece].where /\ r.oeaten = taken.obj[piece].oeaten
    BY <2>1 DEF Objects, Obj
  <2> HIDE DEF r
  <2>3. /\ faint \in Memory /\ faint.obj = [taken.obj EXCEPT ![piece] = r]
        /\ faint.victual = taken.victual /\ faint.book = taken.book /\ faint.uwep = taken.uwep
    BY <1>3, <2>1, <2>2 DEF Memory, r
  <2> HIDE DEF faint
  <2>4. Fine(faint) /\ Count(faint) = Count(taken)
    BY <1>4, <2>1, <2>2, <2>3, Rewritten DEF Safe
  <2>5. Apart(faint, cap)
    BY <1>4, <2>1, <2>2, <2>3, <2>4, MemoryIs DEF Safe, Fine, Apart
  <2> QED BY <1>4, <2>3, <2>4, <2>5 DEF Safe, Eats
<1> HIDE DEF gone, faint, piece
<1>8. CASE luck = "tainted"
  BY <1>6, <1>8 DEF NewMeal, gone, used, piece, taken, touched
<1>9. CASE luck = "faints"
  <2>1. Safe(ConsumeOeaten(faint, 1), cap) /\ Eats(ConsumeOeaten(faint, 1))
    BY <1>1, <1>7, ConsumeSafe
  <2>2. Safe(Portion(faint), cap) /\ Safe(Portion(ConsumeOeaten(faint, 1)), cap)
    BY <1>1, <1>7, <2>1, PortionSafe
  <2> QED BY <1>9, <2>2 DEF NewMeal, faint, piece, taken, touched
<1>10. CASE luck = "rotten"
  <2> DEFINE amt == IF corpse THEN 2 ELSE 1
             bad == ConsumeOeaten(taken, amt)
  <2>1. Safe(bad, cap) /\ Eats(bad)
    BY <1>1, <1>4, ConsumeSafe
  <2> HIDE DEF bad
  <2>2. Safe(StartEating(Portion(bad), fate), cap)
    BY <1>1, <2>1, PortionSafe, StartEatingSafe
  <2> QED BY <1>10, <2>2 DEF NewMeal, bad, taken, touched
<1>11. CASE luck \notin {"tainted", "faints", "rotten"}
  <2>1. Safe(StartEating(Portion(taken), fate), cap)
    BY <1>1, <1>4, PortionSafe, StartEatingSafe
  <2> QED BY <1>11, <2>1 DEF NewMeal, taken, touched
<1> QED BY <1>8, <1>9, <1>10, <1>11

-----------------------------------------------------------------------------
(***************************************************************************)
(* The steps.                                                              *)
(***************************************************************************)
\* The memory that the objects of the other levels do not need.
Cap == Cardinality(Addr) - Cardinality(Filed(levelfile))

IInv ==
    /\ levelfile \in [Level -> Seq(Objects)] /\ lev \in Level /\ u \in Square
    /\ levelfile[lev] = <<>> /\ IsFiniteSet(Filed(levelfile))
    /\ Safe(Now, Cap)

LEMMA CapIs ==
    ASSUME IInv
    PROVE  Cap \in Nat /\ Cap \in 0 .. Cardinality(Addr)
<1>1. Cardinality(Filed(levelfile)) \in Nat /\ Cardinality(Addr) \in Nat
  BY OccupationAssumption, FS_CardinalityType DEF IInv
<1>2. Now \in Memory /\ Count(Now) + 1 <= Cap
  BY DEF IInv, Safe, Fine
<1>3. Count(Now) \in Nat
  BY <1>2, LiveIs, MemoryIs DEF Count
<1> QED BY <1>1, <1>2, <1>3 DEF Cap

\* What is forgotten is of no use any more.
LEMMA BecomesSafe ==
    ASSUME NEW cap \in Nat, NEW m, Safe(m, cap), Becomes(m)
    PROVE  Safe(Now', cap)
<1>1. m \in Memory
  BY DEF Safe, Fine
<1>2. /\ m.victual \in Meals /\ m.tin \in [tin : Ptr, usedtime : Nat, reqtime : Nat]
      /\ m.obj \in [Addr -> Objects \cup {Free}] /\ m.book \in Ptr /\ m.delay \in Int
      /\ m.uwep \in Ptr /\ m.occupation \in {"none", "eatfood", "opentin", "learn"}
  BY <1>1 DEF Memory
<1>3. NoMeal \in Meals /\ NoMeal.piece = Null /\ NoTin \in [tin : Ptr, usedtime : Nat, reqtime : Nat]
  BY DEF NoMeal, NoTin, Meals, Ptr
<1>4. /\ victual' \in {m.victual, NoMeal} /\ tin' \in {m.tin, NoTin} /\ delay' \in {m.delay, 0}
      /\ obj' = m.obj /\ book' = m.book /\ uwep' = m.uwep /\ occupation' = m.occupation
  BY DEF Becomes
<1> DEFINE n == [obj |-> obj', victual |-> victual', tin |-> tin', book |-> book',
                 delay |-> delay', uwep |-> uwep', occupation |-> occupation']
<1>5. /\ n \in Memory /\ n.obj = m.obj /\ n.victual.piece \in {m.victual.piece, Null}
      /\ n.book = m.book /\ n.uwep = m.uwep
  BY <1>2, <1>3, <1>4 DEF Memory
<1>6. Now' = n
  BY DEF Now
<1> HIDE DEF n
<1>7. Safe(n, cap)
  BY <1>5, ForgetsSafe
<1> QED BY <1>6, <1>7

\* A step that leaves the level files alone keeps the invariant.
LEMMA StepSafe ==
    ASSUME IInv, UNCHANGED <<levelfile, lev>>, u' \in Square,
           NEW m, Safe(m, Cap), Becomes(m)
    PROVE  IInv'
<1>1. Safe(Now', Cap)
  BY CapIs, BecomesSafe
<1>2. Cap' = Cap /\ Filed(levelfile)' = Filed(levelfile)
  BY DEF Cap, Filed
<1> QED BY <1>1, <1>2 DEF IInv

\* And so when a monster nearby interrupts the hero.
LEMMA OrNearbySafe ==
    ASSUME IInv, UNCHANGED <<levelfile, lev, u>>, NEW m, Safe(m, Cap), OrNearby(m)
    PROVE  IInv'
<1> DEFINE s == StopOccupation(m)
           n == [s EXCEPT !.victual.doreset = @ \/ s.victual.eating]
<1>1. u' \in Square /\ Cap \in Nat
  BY CapIs DEF IInv
<1>2. Safe(s, Cap)
  BY CapIs, MaybeFinishedSafe
<1>3. Becomes(m) \/ Becomes(n)
  BY DEF OrNearby
<1> HIDE DEF s
<1>4. /\ n \in Memory /\ n.obj = s.obj /\ n.victual.piece = s.victual.piece
      /\ n.book = s.book /\ n.uwep = s.uwep
  BY <1>2 DEF Safe, Fine, Memory, Meals
<1> HIDE DEF n
<1>5. Safe(n, Cap)
  BY <1>1, <1>2, <1>4, ForgetsSafe
<1> QED BY <1>1, <1>3, <1>5, StepSafe

\* What is in reach, carried or here is live.
LEMMA ReachIs ==
    ASSUME NEW m \in Memory, NEW o \in Addr
    PROVE  /\ Carried(m, o) => o \in Live(m.obj)
           /\ Here(m, o) => o \in Live(m.obj)
           /\ InReach(m, o) => o \in Live(m.obj)
BY DEF Carried, Here, InReach, Live

\* What is now, as a record.
LEMMA NowIs ==
    /\ Now.obj = obj /\ Now.victual = victual /\ Now.tin = tin /\ Now.book = book
    /\ Now.delay = delay /\ Now.uwep = uwep /\ Now.occupation = occupation
BY DEF Now

\* What the invariant says of now.
LEMMA NowSafe ==
    ASSUME IInv
    PROVE  /\ Safe(Now, Cap) /\ Now \in Memory /\ Cap \in 0 .. Cardinality(Addr) /\ Cap \in Nat
           /\ u \in Square /\ Safe(Idle(Now), Cap)
BY CapIs, IdleSafe DEF IInv, Safe, Fine

LEMMA CrashSafe ==
    ASSUME IInv, UNCHANGED <<levelfile, lev, u>>, Crash
    PROVE  IInv'
BY NowSafe, StepSafe DEF Crash

LEMMA EatingSafe == IInv /\ Eating => IInv'
<1> SUFFICES ASSUME IInv, Eating PROVE IInv'
  OBVIOUS
<1>1. UNCHANGED <<levelfile, lev, u>>
  BY DEF Eating, Busy
<1>2. PICK fate \in {"eats", "sated", "chokes"} : OrNearby(EatFood(Now, fate))
  BY DEF Eating
<1>3. Safe(EatFood(Now, fate), Cap)
  BY NowSafe, EatFoodSafe
<1> QED BY <1>1, <1>2, <1>3, OrNearbySafe

LEMMA OpenTinSafe == IInv /\ OpenTin => IInv'
<1> SUFFICES ASSUME IInv, OpenTin PROVE IInv'
  OBVIOUS
<1> DEFINE used == [Now EXCEPT !.tin.usedtime = @ + 1]
           opened == UseUp(used, tin.tin)
           open == Idle([opened EXCEPT !.tin.tin = Null])
           gone == [open EXCEPT !.victual.piece = Null, !.victual.eating = FALSE,
                                !.victual.doreset = FALSE]
<1>1. UNCHANGED <<levelfile, lev, u>>
  BY DEF OpenTin, Busy
<1>2. CASE tin.tin \notin Live(obj)
  BY <1>1, <1>2, CrashSafe DEF OpenTin
<1>3. CASE tin.tin \in Live(obj)
  <2>1. /\ used \in Memory /\ used.obj = obj /\ used.victual = Now.victual
        /\ used.book = Now.book /\ used.uwep = Now.uwep
    BY NowSafe, NowIs DEF Memory
  <2> HIDE DEF used
  <2>2. Safe(used, Cap) /\ Safe(Idle(used), Cap)
    BY <2>1, NowSafe, NowIs, ForgetsSafe, IdleSafe
  <2>3. Safe(opened, Cap)
    BY <1>3, <2>1, <2>2, NowSafe, UseUpSafe
  <2> HIDE DEF opened
  <2>4. Safe([opened EXCEPT !.tin.tin = Null], Cap)
    <3> DEFINE n == [opened EXCEPT !.tin.tin = Null]
    <3>1. /\ n \in Memory /\ n.obj = opened.obj /\ n.victual.piece = opened.victual.piece
          /\ n.book = opened.book /\ n.uwep = opened.uwep
      BY <2>3 DEF Safe, Fine, Memory, Ptr
    <3> HIDE DEF n
    <3>2. Safe(n, Cap)
      BY <2>3, <3>1, NowSafe, ForgetsSafe
    <3> QED BY <3>2 DEF n
  <2>5. Safe(open, Cap)
    BY <2>4, NowSafe, IdleSafe
  <2> HIDE DEF open
  <2>6. Safe(gone, Cap)
    <3>1. /\ gone \in Memory /\ gone.obj = open.obj /\ gone.victual.piece = Null
          /\ gone.book = open.book /\ gone.uwep = open.uwep
      BY <2>5 DEF Safe, Fine, Memory, Meals, Ptr
    <3> HIDE DEF gone
    <3> QED BY <2>5, <3>1, NowSafe, ForgetsSafe
  <2> HIDE DEF gone
  <2>7. \/ OrNearby(Idle(Now)) \/ OrNearby(Idle(used)) \/ OrNearby(used)
        \/ OrNearby(open) \/ OrNearby(gone)
    BY <1>3 DEF OpenTin, used, opened, open, gone
  <2> QED BY <1>1, <2>2, <2>5, <2>6, <2>7, NowSafe, OrNearbySafe
<1> QED BY <1>2, <1>3

LEMMA LearnSafe == IInv /\ Learn => IInv'
<1> SUFFICES ASSUME IInv, Learn PROVE IInv'
  OBVIOUS
<1>1. UNCHANGED <<levelfile, lev, u>>
  BY DEF Learn, Busy
<1>2. PICK confused \in BOOLEAN, lenses \in BOOLEAN, gone \in BOOLEAN :
        LET d    == IF delay # 0 /\ lenses THEN delay + 1 ELSE delay
            done == confused \/ d = 0
            left == IF gone THEN UseUp(Now, book) ELSE Now
        IN  IF ~done
            THEN OrNearby([Now EXCEPT !.delay = d + 1]) /\ phase' = "others"
            ELSE IF book = Null /\ (gone \/ ~confused)
            THEN Crash
            ELSE /\ OrNearby(Idle([left EXCEPT !.book = Null, !.delay = 0]))
                 /\ phase' = "others"
  BY DEF Learn
<1> DEFINE d     == IF delay # 0 /\ lenses THEN delay + 1 ELSE delay
           left  == IF gone THEN UseUp(Now, book) ELSE Now
           later == [Now EXCEPT !.delay = d + 1]
           done  == [left EXCEPT !.book = Null, !.delay = 0]
<1>3. \/ OrNearby(later) \/ Crash
      \/ ~(book = Null /\ gone) /\ OrNearby(Idle(done))
  BY <1>2
<1>4. Safe(later, Cap)
  <2>1. d + 1 \in Int
    BY NowSafe, NowIs, MemoryIs
  <2> HIDE DEF d
  <2>2. /\ later \in Memory /\ later.obj = Now.obj /\ later.victual = Now.victual
        /\ later.book = Now.book /\ later.uwep = Now.uwep
    BY <2>1, NowSafe DEF Memory
  <2> HIDE DEF later
  <2> QED BY <2>2, NowSafe, ForgetsSafe
<1>5. CASE ~(book = Null /\ gone) /\ OrNearby(Idle(done))
  <2>1. gone => book \in Live(Now.obj)
    BY <1>5, NowSafe, NowIs, MemoryIs, LiveIs DEF Safe, Fine, BookGood, Ptr
  <2>2. Safe(left, Cap)
    BY <2>1, NowSafe, UseUpSafe
  <2> HIDE DEF left
  <2>3. left \in Memory /\ Null \in Ptr /\ 0 \in Int
    BY <2>2 DEF Safe, Fine, Ptr
  <2>4. /\ done \in Memory /\ done.obj = left.obj /\ done.victual = left.victual
        /\ done.book = Null /\ done.uwep = left.uwep
    BY <2>3 DEF Memory
  <2> HIDE DEF done
  <2>5. Safe(Idle(done), Cap)
    BY <2>2, <2>4, NowSafe, ForgetsSafe, IdleSafe
  <2> QED BY <1>1, <1>5, <2>5, OrNearbySafe
<1> QED BY <1>1, <1>3, <1>4, <1>5, CrashSafe, OrNearbySafe

\* A command that only changes memory and the statics keeps the invariant.
LEMMA CommandSafe ==
    ASSUME IInv, Stays, NEW m, Safe(m, Cap), Becomes(m)
    PROVE  IInv'
BY StepSafe, NowSafe DEF Stays

LEMMA EatSafe == \A o \in Addr : IInv /\ Eat(o) => IInv'
<1> SUFFICES ASSUME NEW o \in Addr, IInv, Eat(o) PROVE IInv'
  OBVIOUS
<1>1. Stays /\ o \in Live(obj) /\ obj[o].otyp \in Foods
  BY NowSafe, NowIs, ReachIs DEF Eat
<1>2. obj[o].quan > 1 => Count(Now) + 2 <= Cap
  <2>1. obj[o].quan > 1 =>
          Cardinality(Live(obj)) + Cardinality(Filed(levelfile)) + 2 <= Cardinality(Addr)
    BY DEF Eat, RoomToSplit
  <2>2. /\ Cardinality(Live(obj)) \in Nat /\ Cardinality(Filed(levelfile)) \in Nat
        /\ Cardinality(Addr) \in Nat
    BY OccupationAssumption, FS_CardinalityType, NowSafe, NowIs, MemoryIs, LiveIs DEF IInv
  <2> QED BY <2>1, <2>2, NowIs DEF Count, Cap
<1>3. Safe(TouchFood(Now, o), Cap) /\ Eats(TouchFood(Now, o))
  BY <1>1, <1>2, NowSafe, NowIs, TouchFoodSafe
<1>4. \A fate : Safe(StartEating(TouchFood(Now, o), fate), Cap)
  BY <1>3, NowSafe, StartEatingSafe
<1>5. \A luck, fate : Safe(NewMeal(Now, o, luck, fate), Cap)
  BY <1>1, <1>2, NowSafe, NowIs, NewMealSafe
<1>6. \/ \E fate : Becomes(StartEating(TouchFood(Now, o), fate))
      \/ \E luck, fate : Becomes(NewMeal(Now, o, luck, fate))
  <2>1. CASE o = victual.piece
    BY <2>1 DEF Eat
  <2>2. CASE o # victual.piece
    BY <2>2 DEF Eat
  <2> QED BY <2>1, <2>2
<1>7. CASE \E fate : Becomes(StartEating(TouchFood(Now, o), fate))
  BY <1>1, <1>4, <1>7, CommandSafe
<1>8. CASE \E luck, fate : Becomes(NewMeal(Now, o, luck, fate))
  BY <1>1, <1>5, <1>8, CommandSafe
<1> QED BY <1>6, <1>7, <1>8

LEMMA StartTinSafe == \A o \in Addr : IInv /\ StartTin(o) => IInv'
<1> SUFFICES ASSUME NEW o \in Addr, IInv, StartTin(o) PROVE IInv'
  OBVIOUS
<1>1. PICK t \in TinTimes :
        Becomes([Now EXCEPT !.tin = [tin |-> o, usedtime |-> 0, reqtime |-> t],
                            !.occupation = "opentin"])
  BY DEF StartTin
<1> DEFINE n == [Now EXCEPT !.tin = [tin |-> o, usedtime |-> 0, reqtime |-> t],
                            !.occupation = "opentin"]
<1>2. Stays /\ [tin |-> o, usedtime |-> 0, reqtime |-> t]
               \in [tin : Ptr, usedtime : Nat, reqtime : Nat]
  BY OccupationAssumption DEF StartTin, Ptr
<1>3. /\ n \in Memory /\ n.obj = Now.obj /\ n.victual = Now.victual
      /\ n.book = Now.book /\ n.uwep = Now.uwep
  BY <1>2, NowSafe DEF Memory
<1>4. Becomes(n)
  BY <1>1
<1> HIDE DEF n
<1> QED BY <1>2, <1>3, <1>4, NowSafe, ForgetsSafe, CommandSafe

LEMMA StudyBookSafe == \A o \in Addr : IInv /\ StudyBook(o) => IInv'
<1> SUFFICES ASSUME NEW o \in Addr, IInv, StudyBook(o) PROVE IInv'
  OBVIOUS
<1> DEFINE study == [Now EXCEPT !.book = o, !.occupation = "learn"]
           anew  == [study EXCEPT !.delay = -BookDelay]
           used  == UseUp(Now, o)
           gone  == [used EXCEPT !.delay = 0]
           none  == [Now EXCEPT !.delay = 0]
<1>1. Stays /\ o \in Live(Now.obj) /\ Now.obj[o].otyp = "BOOK"
  BY NowSafe, NowIs, ReachIs DEF StudyBook
<1>2. Becomes(study) \/ Becomes(anew) \/ Becomes(none) \/ Becomes(gone)
  BY DEF StudyBook
<1>3. Safe(study, Cap)
  <2>1. /\ study \in Memory /\ study.obj = Now.obj /\ study.victual = Now.victual
        /\ study.book = o /\ study.uwep = Now.uwep
    BY NowSafe DEF Memory, Ptr
  <2> HIDE DEF study
  <2>2. Now.obj[o] # Free
    BY <1>1, NowSafe, MemoryIs, LiveIs
  <2>3. Fine(study) /\ Count(study) = Count(Now)
    BY <1>1, <2>1, <2>2, NowSafe DEF Safe, Fine, PieceGood, BookGood, WeaponGood, Count
  <2> QED BY <2>1, <2>3, NowSafe DEF Safe, Apart
<1> HIDE DEF study
<1>4. Safe(anew, Cap)
  <2>1. -BookDelay \in Int
    BY OccupationAssumption
  <2>2. /\ anew \in Memory /\ anew.obj = study.obj /\ anew.victual = study.victual
        /\ anew.book = study.book /\ anew.uwep = study.uwep
    BY <1>3, <2>1 DEF Safe, Fine, Memory
  <2> HIDE DEF anew
  <2> QED BY <1>3, <2>2, NowSafe, ForgetsSafe
<1>5. Safe(none, Cap)
  <2>1. /\ none \in Memory /\ none.obj = Now.obj /\ none.victual = Now.victual
        /\ none.book = Now.book /\ none.uwep = Now.uwep
    BY NowSafe DEF Memory
  <2> HIDE DEF none
  <2> QED BY <2>1, NowSafe, ForgetsSafe
<1>6. Safe(gone, Cap)
  <2>1. Safe(used, Cap)
    BY <1>1, NowSafe, UseUpSafe
  <2> HIDE DEF used
  <2>2. /\ gone \in Memory /\ gone.obj = used.obj /\ gone.victual = used.victual
        /\ gone.book = used.book /\ gone.uwep = used.uwep
    BY <2>1 DEF Safe, Fine, Memory
  <2> HIDE DEF gone
  <2> QED BY <2>1, <2>2, NowSafe, ForgetsSafe
<1> HIDE DEF anew, none, gone
<1> QED BY <1>1, <1>2, <1>3, <1>4, <1>5, <1>6, CommandSafe

\* What is not wielded any more.
LEMMA UnwieldSafe ==
    ASSUME NEW cap \in Nat, NEW m, Safe(m, cap), NEW o \in Addr
    PROVE  LET n == [m EXCEPT !.uwep = IF @ = o THEN Null ELSE @]
           IN  Safe(n, cap) /\ n.obj = m.obj /\ n.uwep # o
<1> DEFINE n == [m EXCEPT !.uwep = IF @ = o THEN Null ELSE @]
<1>1. m.uwep \in Ptr /\ Null # o
  BY MemoryIs, OccupationAssumption DEF Safe, Fine
<1>2. /\ n \in Memory /\ n.obj = m.obj /\ n.victual = m.victual
      /\ n.book = m.book /\ n.uwep \in {m.uwep, Null} /\ n.uwep # o
  BY <1>1 DEF Safe, Fine, Memory, Ptr
<1> HIDE DEF n
<1>3. Safe(n, cap)
  BY <1>2, ForgetsSafe
<1> QED BY <1>2, <1>3 DEF n

LEMMA DoWieldSafe == \A o \in Addr : IInv /\ DoWield(o) => IInv'
<1> SUFFICES ASSUME NEW o \in Addr, IInv, DoWield(o) PROVE IInv'
  OBVIOUS
<1> DEFINE n == [Now EXCEPT !.uwep = IF @ = o THEN Null ELSE o]
<1>1. Stays /\ Becomes(n) /\ Now.obj[o].where = "INVENT"
  BY NowIs DEF DoWield, Carried
<1>2. /\ n \in Memory /\ n.obj = Now.obj /\ n.victual = Now.victual
      /\ n.book = Now.book /\ n.uwep \in {o, Null}
  BY NowSafe DEF Memory, Ptr
<1> HIDE DEF n
<1>3. Fine(n) /\ Count(n) = Count(Now)
  BY <1>1, <1>2, NowSafe DEF Safe, Fine, PieceGood, BookGood, WeaponGood, Count
<1>4. Safe(n, Cap)
  BY <1>2, <1>3, NowSafe DEF Safe, Apart
<1> QED BY <1>1, <1>4, CommandSafe

\* Naming leaves the memory safe.
LEMMA ReallocSafe ==
    ASSUME NEW cap \in 0 .. Cardinality(Addr), NEW m, Safe(m, cap), NEW o \in Live(m.obj)
    PROVE  Safe(ReallocObj(m, o), cap)
<1> DEFINE n   == ReallocObj(m, o)
           new == Malloc(m)
           r   == [m.obj[o] EXCEPT !.named = TRUE]
<1>1. /\ m \in Memory /\ m.obj \in [Addr -> Objects \cup {Free}] /\ m.victual.piece \in Ptr
      /\ o \in Addr /\ m.obj[o] \in Objects /\ Count(m) \in Nat /\ Cardinality(Addr) \in Nat
  BY MemoryIs, LiveIs, OccupationAssumption, FS_CardinalityType DEF Safe, Fine, Count
<1>2. Count(m) + 1 <= Cardinality(Addr) /\ Fine(m)
  BY <1>1 DEF Safe
<1>3. /\ Fine(n) /\ Count(n) = Count(m) /\ new \in Addr
      /\ n.obj = [m.obj EXCEPT ![new] = r, ![o] = Free]
      /\ n.victual.piece = Followed(m.victual.piece, o, new)
      /\ m.obj[new] = Free /\ new # o
  BY <1>2, ReallocFine
<1>4. r.quan = m.obj[o].quan
  BY <1>1 DEF Objects, Obj
<1> HIDE DEF n, new, r
<1>5. Apart(n, cap)
  <2>1. CASE m.victual.piece = o
    <3>1. n.victual.piece = new /\ n.obj[new] = r /\ o # Null
      BY <1>1, <1>3, <2>1, OccupationAssumption DEF Followed
    <3> QED BY <1>3, <1>4, <2>1, <3>1 DEF Safe, Apart
  <2>2. CASE m.victual.piece # o
    <3>1. n.victual.piece = m.victual.piece
      BY <1>3, <2>2 DEF Followed
    <3>2. m.victual.piece # Null => m.victual.piece \in Addr /\ m.victual.piece # new
      BY <1>1, <1>2, <1>3 DEF Fine, PieceGood, Ptr
    <3>3. m.victual.piece # Null => n.obj[m.victual.piece] = m.obj[m.victual.piece]
      BY <1>1, <1>3, <2>2, <3>2
    <3> QED BY <1>3, <3>1, <3>3 DEF Safe, Apart
  <2> QED BY <2>1, <2>2
<1> QED BY <1>3, <1>5 DEF Safe, n

LEMMA DoOnameSafe == \A o \in Addr : IInv /\ DoOname(o) => IInv'
<1> SUFFICES ASSUME NEW o \in Addr, IInv, DoOname(o) PROVE IInv'
  OBVIOUS
<1>1. Stays /\ Becomes(ReallocObj(Now, o)) /\ o \in Live(Now.obj)
  BY NowSafe, ReachIs DEF DoOname
<1>2. Safe(ReallocObj(Now, o), Cap)
  BY <1>1, NowSafe, ReallocSafe
<1> QED BY <1>1, <1>2, CommandSafe

LEMMA PickupSafe == \A o \in Addr : IInv /\ Pickup(o) => IInv'
<1> SUFFICES ASSUME NEW o \in Addr, IInv, Pickup(o) PROVE IInv'
  OBVIOUS
<1>1. Stays /\ Becomes(Joins(Now, o, "INVENT")) /\ o \in Live(Now.obj)
  BY NowSafe, ReachIs DEF Pickup
<1>2. Safe(Joins(Now, o, "INVENT"), Cap)
  BY <1>1, NowSafe, JoinsSafe
<1> QED BY <1>1, <1>2, CommandSafe

LEMMA DropSafe == \A o \in Addr : IInv /\ Drop(o) => IInv'
<1> SUFFICES ASSUME NEW o \in Addr, IInv, Drop(o) PROVE IInv'
  OBVIOUS
<1> DEFINE n == [Now EXCEPT !.uwep = IF @ = o THEN Null ELSE @]
<1>1. Stays /\ Becomes(Lands(n, o, u)) /\ o \in Live(Now.obj)
  BY NowSafe, ReachIs DEF Drop
<1>2. Safe(n, Cap) /\ n.obj = Now.obj /\ n.uwep # o
  BY NowSafe, UnwieldSafe
<1> HIDE DEF n
<1>3. Safe(Lands(n, o, u), Cap)
  BY <1>1, <1>2, NowSafe, LandsSafe
<1> QED BY <1>1, <1>3, CommandSafe

(***************************************************************************)
(* Between two turns.                                                      *)
(***************************************************************************)
LEMMA WaitSafe == IInv /\ (Wait \/ EndTurn) => IInv'
BY CommandSafe, NowSafe DEF Wait, EndTurn

LEMMA MovesSafe == IInv /\ (DoMove \/ Tele) => IInv'
BY StepSafe, NowSafe DEF DoMove, Tele, Others

LEMMA InterruptSafe == IInv /\ Interrupt => IInv'
<1> SUFFICES ASSUME IInv, Interrupt PROVE IInv'
  OBVIOUS
<1>1. Stays /\ Becomes(StopOccupation(Now))
  BY DEF Interrupt, Others, Stays
<1>2. Safe(StopOccupation(Now), Cap)
  BY NowSafe, MaybeFinishedSafe
<1> QED BY <1>1, <1>2, CommandSafe

LEMMA StealSafe == IInv /\ Steal => IInv'
<1> SUFFICES ASSUME IInv, Steal PROVE IInv'
  OBVIOUS
<1> DEFINE m == MaybeFinishedMeal(Now)
           s == StopOccupation(m)
           n(o) == [s EXCEPT !.uwep = IF @ = o THEN Null ELSE @]
<1>1. Stays
  BY DEF Steal, Others, Stays
<1>2. PICK o \in Addr : Carried(m, o) /\ Becomes(Joins(n(o), o, "MINVENT"))
  BY DEF Steal
<1>3. Safe(m, Cap) /\ s = Idle(m)
  BY NowSafe, MaybeFinishedSafe
<1> HIDE DEF m
<1>4. Safe(s, Cap) /\ s.obj = m.obj
  BY <1>3, NowSafe, IdleSafe
<1> HIDE DEF s
<1>5. o \in Live(s.obj)
  BY <1>2, <1>3, <1>4, ReachIs DEF Safe, Fine
<1>6. Safe(n(o), Cap) /\ n(o).obj = s.obj /\ n(o).uwep # o
  BY <1>4, NowSafe, UnwieldSafe
<1> HIDE DEF n
<1>7. Safe(Joins(n(o), o, "MINVENT"), Cap)
  BY <1>5, <1>6, NowSafe, JoinsSafe
<1> QED BY <1>1, <1>2, <1>7, CommandSafe

LEMMA DestroyBookSafe == \A o \in Addr : IInv /\ DestroyBook(o) => IInv'
<1> SUFFICES ASSUME NEW o \in Addr, IInv, DestroyBook(o) PROVE IInv'
  OBVIOUS
<1>1. Stays /\ Becomes(UseUp(Now, o)) /\ o \in Live(Now.obj)
  BY NowSafe, ReachIs DEF DestroyBook, Others, Stays
<1>2. Safe(UseUp(Now, o), Cap)
  BY <1>1, NowSafe, UseUpSafe
<1> QED BY <1>1, <1>2, CommandSafe

\* What is wielded is carried, so it is neither picked up nor let fall by others.
LEMMA NotWielded ==
    ASSUME IInv, NEW o \in Addr, obj[o].where # "INVENT"
    PROVE  Now.uwep # o
BY NowSafe, NowIs, OccupationAssumption DEF Safe, Fine, WeaponGood

LEMMA MPickUpSafe == \A o \in Addr : IInv /\ MPickUp(o) => IInv'
<1> SUFFICES ASSUME NEW o \in Addr, IInv, MPickUp(o) PROVE IInv'
  OBVIOUS
<1>1. Stays /\ Becomes(Joins(Now, o, "MINVENT")) /\ o \in Live(Now.obj)
  BY NowIs DEF MPickUp, Others, Stays, Live
<1>2. Now.uwep # o
  BY NotWielded DEF MPickUp
<1>3. Safe(Joins(Now, o, "MINVENT"), Cap)
  BY <1>1, <1>2, NowSafe, JoinsSafe
<1> QED BY <1>1, <1>3, CommandSafe

LEMMA MEatSafe == \A o \in Addr : IInv /\ MEat(o) => IInv'
<1> SUFFICES ASSUME NEW o \in Addr, IInv, MEat(o) PROVE IInv'
  OBVIOUS
<1>1. Stays /\ Becomes(ObFree(Now, o))
  BY DEF MEat, Others, Stays
<1>2. Safe(ObFree(Now, o), Cap)
  BY NowSafe, ObFreeSafe
<1> QED BY <1>1, <1>2, CommandSafe

LEMMA RelObjSafe == \A o \in Addr : IInv /\ RelObj(o) => IInv'
<1> SUFFICES ASSUME NEW o \in Addr, IInv, RelObj(o) PROVE IInv'
  OBVIOUS
<1>1. Stays /\ o \in Live(Now.obj)
  BY NowIs DEF RelObj, Others, Stays, Live
<1>2. PICK s \in Square : Becomes(Lands(Now, o, s))
  BY DEF RelObj
<1>3. Now.uwep # o
  BY NotWielded DEF RelObj
<1>4. Safe(Lands(Now, o, s), Cap)
  BY <1>1, <1>3, NowSafe, LandsSafe
<1> QED BY <1>1, <1>2, <1>4, CommandSafe

LEMMA RotCorpseSafe == \A o \in Addr : IInv /\ RotCorpse(o) => IInv'
<1> SUFFICES ASSUME NEW o \in Addr, IInv, RotCorpse(o) PROVE IInv'
  OBVIOUS
<1> DEFINE bare == [Now EXCEPT !.uwep = Null]
           m    == IF uwep = o THEN StopOccupation(bare) ELSE Now
<1>1. Stays /\ (Becomes(ObFree(m, o)) \/ Crash)
  BY DEF RotCorpse
<1>2. Safe(bare, Cap)
  <2>1. /\ bare \in Memory /\ bare.obj = Now.obj /\ bare.victual = Now.victual
        /\ bare.book = Now.book /\ bare.uwep = Null
    BY NowSafe DEF Memory, Ptr
  <2> HIDE DEF bare
  <2> QED BY <2>1, NowSafe, ForgetsSafe
<1> HIDE DEF bare
<1>3. Safe(m, Cap)
  BY <1>2, NowSafe, MaybeFinishedSafe
<1> HIDE DEF m
<1>4. Safe(ObFree(m, o), Cap)
  BY <1>3, NowSafe, ObFreeSafe
<1> QED BY <1>1, <1>4, CommandSafe, CrashSafe DEF Stays

(***************************************************************************)
(* Another level: the objects left behind are counted in its file, and     *)
(* those in the file that is read are counted in memory.                   *)
(***************************************************************************)
\* SetToSeq lists the elements of a finite set, each once.
LEMMA SetToSeqIs ==
    ASSUME NEW T, IsFiniteSet(T)
    PROVE  LET s == SetToSeq(T)
           IN  /\ DOMAIN s = 1 .. Cardinality(T) /\ s \in [1 .. Cardinality(T) -> T]
               /\ \A i, j \in 1 .. Cardinality(T) : s[i] = s[j] => i = j
<1> DEFINE n == Cardinality(T)
           s == SetToSeq(T)
<1>1. n \in Nat /\ ExistsBijection(1..n, T)
  BY FS_CardinalityType
<1>2. PICK f : f \in Bijection(1..n, T)
  BY <1>1 DEF ExistsBijection
<1>3. f \in [1..n -> T] /\ IsInjective(f)
  BY <1>2 DEF Bijection, Injection
<1>4. s = CHOOSE g \in [1..n -> T] : IsInjective(g)
  BY DEF SetToSeq
<1> HIDE DEF n, s
<1>5. s \in [1..n -> T] /\ IsInjective(s)
  BY <1>3, <1>4
<1>6. DOMAIN s = 1..n /\ \A i, j \in 1..n : s[i] = s[j] => i = j
  BY <1>5 DEF IsInjective
<1> QED BY <1>5, <1>6 DEF s, n

\* The first places of a list without repetitions are as many as they are.
Distinct(s, n)   == DOMAIN s = 1..n /\ \A i, j \in 1..n : s[i] = s[j] => i = j
FirstOnes(s, k) == {s[i] : i \in 1..k}

LEMMA FirstOnesCount ==
    ASSUME NEW n \in Nat, NEW s, Distinct(s, n), NEW k \in 0..n
    PROVE  IsFiniteSet(FirstOnes(s, k)) /\ Cardinality(FirstOnes(s, k)) = k
<1> DEFINE P == FirstOnes(s, k)
           f == [i \in 1..k |-> s[i]]
<1>1. k \in Nat /\ 1..k \subseteq 1..n
  OBVIOUS
<1>2. f \in Bijection(1..k, P)
  <2>1. f \in Injection(1..k, P)
    BY <1>1 DEF Injection, IsInjective, Distinct, FirstOnes
  <2>2. f \in Surjection(1..k, P)
    BY DEF Surjection, FirstOnes
  <2> QED BY <2>1, <2>2 DEF Bijection
<1> HIDE DEF f, P
<1>3. ExistsBijection(1..k, P)
  BY <1>2 DEF ExistsBijection
<1>4. IsFiniteSet(1..k) /\ Cardinality(1..k) = k
  BY <1>1, FS_Interval
<1>5. IsFiniteSet(P) /\ Cardinality(P) = k
  BY <1>3, <1>4, FS_Bijection
<1> QED BY <1>5 DEF P

\* What a level file holds.
LEMMA FiledIs ==
    ASSUME NEW file
    PROVE  \A x : x \in Filed(file) <=> \E l \in Level : \E i \in DOMAIN file[l] : x = <<l, i>>
BY DEF Filed

\* A level file of n objects counts n.
LEMMA FileCounts ==
    ASSUME NEW l, NEW n \in Nat
    PROVE  IsFiniteSet({l} \X (1..n)) /\ Cardinality({l} \X (1..n)) = n
<1>1. IsFiniteSet({l}) /\ Cardinality({l}) = 1
  BY FS_Singleton
<1>2. IsFiniteSet(1..n) /\ Cardinality(1..n) = n
  BY FS_Interval
<1>3. /\ IsFiniteSet({l} \X (1..n))
      /\ Cardinality({l} \X (1..n)) = Cardinality({l}) * Cardinality(1..n)
  BY <1>1, <1>2, FS_Product
<1> QED BY <1>1, <1>2, <1>3

\* So what is in the level files counts as much as each of them.
LEMMA FileFits ==
    ASSUME NEW file \in [Level -> Seq(Objects)], IsFiniteSet(Filed(file)), NEW l \in Level
    PROVE  /\ {l} \X (1 .. Len(file[l])) \subseteq Filed(file)
           /\ Len(file[l]) <= Cardinality(Filed(file))
<1> DEFINE A == {l} \X (1 .. Len(file[l]))
<1>1. Len(file[l]) \in Nat /\ DOMAIN file[l] = 1 .. Len(file[l])
  OBVIOUS
<1>2. A \subseteq Filed(file)
  BY <1>1, FiledIs
<1>3. Cardinality(A) = Len(file[l])
  BY <1>1, FileCounts
<1> HIDE DEF A
<1>4. Cardinality(A) <= Cardinality(Filed(file))
  BY <1>2, FS_Subset
<1> QED BY <1>2, <1>3, <1>4 DEF A

\* One file is read, and the empty one of the level that is left written.
Reread(file, from, left, to, after) ==
    /\ file \in [Level -> Seq(Objects)] /\ from # to /\ file[from] = <<>>
    /\ left \in Seq(Objects)
    /\ after \in [Level -> Seq(Objects)] /\ after[from] = left /\ after[to] = <<>>
    /\ \A l \in Level \ {from, to} : after[l] = file[l]

LEMMA FilesAfter ==
    ASSUME NEW file, IsFiniteSet(Filed(file)), NEW from \in Level, NEW to \in Level,
           NEW left, NEW after, Reread(file, from, left, to, after)
    PROVE  /\ IsFiniteSet(Filed(after))
           /\ Cardinality(Filed(after))
                = Cardinality(Filed(file)) - Len(file[to]) + Len(left)
<1> DEFINE n == Len(file[to])
           k == Len(left)
           A == {to} \X (1..n)
           B == {from} \X (1..k)
           F == Filed(file)
<1>1. /\ file \in [Level -> Seq(Objects)] /\ n \in Nat /\ k \in Nat /\ DOMAIN file[to] = 1..n /\ DOMAIN left = 1..k
      /\ DOMAIN <<>> = {}
  BY DEF Reread
<1>2. /\ after[to] = <<>> /\ after[from] = left /\ from # to /\ file[from] = <<>>
      /\ \A l \in Level \ {from, to} : after[l] = file[l]
  BY DEF Reread
<1>3. A \subseteq F
  BY <1>1, FileFits
<1>4. \A j : <<from, j>> \notin F
  BY <1>1, <1>2, FiledIs
<1>5. Filed(after) = (F \ A) \cup B
  <2>1. ASSUME NEW x, x \in Filed(after) PROVE x \in (F \ A) \cup B
    <3>0. PICK l \in Level : \E i \in DOMAIN after[l] : x = <<l, i>>
      BY <2>1, FiledIs
    <3>1. PICK i \in DOMAIN after[l] : x = <<l, i>>
      BY <3>0
    <3>2. CASE l = from
      BY <1>1, <1>2, <3>1, <3>2
    <3>3. CASE l # from
      <4>1. l # to
        BY <1>1, <1>2, <3>1
      <4>2. i \in DOMAIN file[l]
        BY <1>2, <3>1, <3>3, <4>1
      <4>3. x \in F
        BY <3>1, <4>2, FiledIs
      <4> HIDE DEF F
      <4> QED BY <3>1, <4>1, <4>3
    <3> QED BY <3>2, <3>3
  <2>2. ASSUME NEW x, x \in (F \ A) \cup B PROVE x \in Filed(after)
    <3>1. CASE x \in B
      <4>1. PICK i \in 1..k : x = <<from, i>>
        BY <3>1
      <4>2. i \in DOMAIN after[from]
        BY <1>1, <1>2, <4>1
      <4> QED BY <4>1, <4>2, FiledIs
    <3>2. CASE x \in F /\ x \notin A
      <4>0. PICK l \in Level : \E i \in DOMAIN file[l] : x = <<l, i>>
        BY <3>2, FiledIs
      <4>1. PICK i \in DOMAIN file[l] : x = <<l, i>>
        BY <4>0
      <4>2. l # to
        BY <1>1, <3>2, <4>1
      <4>3. l # from
        BY <1>4, <3>2, <4>1
      <4>4. i \in DOMAIN after[l]
        BY <1>2, <4>1, <4>2, <4>3
      <4> QED BY <4>1, <4>4, FiledIs
    <3> QED BY <2>2, <3>1, <3>2
  <2> QED BY <2>1, <2>2
<1>6. B \cap F = {}
  BY <1>4
<1>7. /\ IsFiniteSet(A) /\ Cardinality(A) = n /\ IsFiniteSet(B) /\ Cardinality(B) = k
  BY <1>1, FileCounts
<1> HIDE DEF A, B, F
<1>8. IsFiniteSet(F \ A) /\ Cardinality(F \ A) = Cardinality(F) - n
  <2>1. F \cap A = A
    BY <1>3
  <2>2. IsFiniteSet(F)
    BY DEF F
  <2>3. IsFiniteSet(F \ A) /\ Cardinality(F \ A) = Cardinality(F) - Cardinality(F \cap A)
    BY <2>2, FS_Difference
  <2> QED BY <1>7, <2>1, <2>3
<1>9. /\ IsFiniteSet((F \ A) \cup B)
      /\ Cardinality((F \ A) \cup B) = Cardinality(F) - n + k
  <2>1. (F \ A) \cap B = {} /\ Cardinality({}) = 0
    BY <1>6, FS_EmptySet
  <2>2. Cardinality(F) \in Nat
    BY FS_CardinalityType DEF F
  <2>3. /\ IsFiniteSet((F \ A) \cup B)
        /\ Cardinality((F \ A) \cup B)
             = Cardinality(F \ A) + Cardinality(B) - Cardinality((F \ A) \cap B)
    BY <1>7, <1>8, FS_Union
  <2>4. Cardinality((F \ A) \cap B) = 0
    BY <2>1
  <2>5. n \in Nat /\ k \in Nat
    BY <1>1
  <2> HIDE DEF n, k
  <2> QED BY <1>7, <1>8, <2>2, <2>3, <2>4, <2>5
<1> HIDE DEF n, k
<1> QED BY <1>5, <1>9 DEF F, n, k

\* What stays behind makes room for what comes from the file.
Swapped(m, mem, stay, file, gone, slots, back) ==
    /\ mem = m.obj /\ stay \subseteq Live(mem) /\ file \in Seq(Objects)
    /\ gone = [o \in Addr |-> IF o \in stay THEN Free ELSE mem[o]]
    /\ slots = SetToSeq(Addr \ Live(gone))
    /\ back = [o \in Addr |-> back[o]]
    /\ \A o \in Addr : LET From == {i \in DOMAIN file : slots[i] = o}
                       IN  /\ From = {} => back[o] = gone[o]
                           /\ From # {} => \E i \in From : back[o] = file[i]

\* What else there is in memory is as it was, and the room is taken.
LEMMA MemoryAfter ==
    ASSUME NEW m, Fine(m), NEW mem, NEW stay, NEW file, NEW gone, NEW slots, NEW back,
           Count(m) + Len(file) <= Cardinality(Addr), Swapped(m, mem, stay, file, gone, slots, back)
    PROVE  /\ back \in [Addr -> Objects \cup {Free}]
           /\ IsFiniteSet(stay) /\ Cardinality(stay) \in Nat
           /\ Cardinality(Live(back)) = Count(m) - Cardinality(stay) + Len(file)
           /\ \A o \in Live(mem) \ stay : back[o] = mem[o]
<1> DEFINE n == Len(file)
           c == Count(m)
           s == Cardinality(stay)
           N == Cardinality(Addr \ Live(gone))
           P == FirstOnes(slots, n)
<1>1. /\ mem \in [Addr -> Objects \cup {Free}] /\ Live(mem) \subseteq Addr
      /\ IsFiniteSet(Live(mem)) /\ c \in Nat /\ Live(mem) = {o \in Addr : mem[o] # Free}
  BY MemoryIs, LiveIs DEF Fine, Count, Swapped
<1>2. n \in Nat /\ DOMAIN file = 1..n /\ \A i \in 1..n : file[i] \in Objects
  BY DEF Swapped
<1>3. IsFiniteSet(stay) /\ s \in Nat /\ Live(mem) \cap stay = stay
  <2>1. stay \in SUBSET Live(mem)
    BY DEF Swapped
  <2> QED BY <1>1, <2>1, FS_Subset, FS_CardinalityType
<1>4. gone \in [Addr -> Objects \cup {Free}] /\ Live(gone) = Live(mem) \ stay
  <2>0. gone = [o \in Addr |-> IF o \in stay THEN Free ELSE mem[o]]
    BY DEF Swapped
  <2>1. gone \in [Addr -> Objects \cup {Free}]
    BY <1>1, <2>0
  <2>2. Live(gone) = {o \in Addr : gone[o] # Free}
    BY <2>1, LiveIs
  <2> QED BY <1>1, <2>0, <2>2
<1>5. /\ Live(gone) \subseteq Addr /\ IsFiniteSet(Live(gone))
      /\ Cardinality(Live(gone)) = c - s
  <2>1. /\ IsFiniteSet(Live(mem) \ stay)
        /\ Cardinality(Live(mem) \ stay) = c - Cardinality(Live(mem) \cap stay)
    <3>1. c = Cardinality(Live(mem))
      BY DEF Count, Swapped
    <3> QED BY <1>1, <3>1, FS_Difference
  <2> QED BY <1>1, <1>3, <1>4, <2>1
<1>6. /\ IsFiniteSet(Addr \ Live(gone)) /\ N \in Nat
      /\ N = Cardinality(Addr) - (c - s)
  <2>1. Addr \cap Live(gone) = Live(gone) /\ IsFiniteSet(Addr)
    BY <1>5, OccupationAssumption
  <2>2. /\ IsFiniteSet(Addr \ Live(gone))
        /\ N = Cardinality(Addr) - Cardinality(Addr \cap Live(gone))
    BY <2>1, FS_Difference
  <2> QED BY <1>5, <2>1, <2>2, FS_CardinalityType
<1>7. n \in 0..N
  <2>1. Cardinality(Addr) \in Nat /\ c + n <= Cardinality(Addr)
    BY OccupationAssumption, FS_CardinalityType
  <2> HIDE DEF n, c, s, N
  <2> QED BY <1>1, <1>2, <1>3, <1>6, <2>1
<1>8. slots \in [1..N -> Addr \ Live(gone)] /\ \A i, j \in 1..N : slots[i] = slots[j] => i = j
  BY <1>6, SetToSeqIs DEF Swapped
<1> HIDE DEF N
<1>9. IsFiniteSet(P) /\ Cardinality(P) = n
  <2>1. N \in Nat /\ Distinct(slots, N)
    BY <1>6, <1>8 DEF Distinct
  <2> HIDE DEF n
  <2> QED BY <1>7, <2>1, FirstOnesCount
<1>10. P \subseteq Addr \ Live(gone)
  BY <1>2, <1>6, <1>7, <1>8 DEF FirstOnes
<1>11. ASSUME NEW o \in Addr
       PROVE  /\ o \in P => back[o] \in Objects
              /\ o \notin P => back[o] = gone[o]
  <2> DEFINE From == {i \in DOMAIN file : slots[i] = o}
  <2>1. From = {} <=> o \notin P
    BY <1>2 DEF FirstOnes
  <2>2. From # {} => \E i \in 1..n : back[o] = file[i]
    BY <1>2 DEF Swapped
  <2>3. From = {} => back[o] = gone[o]
    BY DEF Swapped
  <2> HIDE DEF From
  <2> QED BY <1>2, <2>1, <2>2, <2>3
<1> HIDE DEF P
<1>12. back \in [Addr -> Objects \cup {Free}]
  <2>1. \A o \in Addr : back[o] \in Objects \cup {Free}
    BY <1>4, <1>11
  <2>2. back = [o \in Addr |-> back[o]]
    BY DEF Swapped
  <2> QED BY <2>1, <2>2
<1>13. Live(back) = Live(gone) \cup P
  <2>1. /\ Live(back) = {o \in Addr : back[o] # Free}
        /\ Live(gone) = {o \in Addr : gone[o] # Free}
    BY <1>4, <1>12, LiveIs
  <2> QED BY <1>10, <1>11, <2>1, FreeIs
<1>14. Cardinality(Live(back)) = c - s + n
  <2>1. Live(gone) \cap P = {} /\ Cardinality({}) = 0
    BY <1>10, FS_EmptySet
  <2>2. Cardinality(Live(gone) \cup P)
          = Cardinality(Live(gone)) + Cardinality(P) - Cardinality(Live(gone) \cap P)
    BY <1>5, <1>9, FS_Union
  <2>3. Cardinality(Live(gone) \cap P) = 0 /\ Cardinality(Live(back)) = Cardinality(Live(gone) \cup P)
    BY <1>13, <2>1
  <2> HIDE DEF n, c, s
  <2> QED BY <1>1, <1>2, <1>3, <1>5, <1>9, <2>2, <2>3
<1>15. \A o \in Live(mem) \ stay : back[o] = mem[o]
  <2> SUFFICES ASSUME NEW o \in Live(mem) \ stay PROVE back[o] = mem[o]
    OBVIOUS
  <2>1. o \in Addr /\ o \notin P /\ gone[o] = mem[o]
    BY <1>1, <1>4, <1>10 DEF Swapped
  <2> QED BY <1>11, <2>1
<1> QED BY <1>3, <1>12, <1>14, <1>15 DEF n, c, s

LEMMA GotoLevelSafe == \A l \in Level : IInv /\ GotoLevel(l) => IInv'
<1> SUFFICES ASSUME NEW l \in Level, IInv, GotoLevel(l) PROVE IInv'
  OBVIOUS
<1> DEFINE stay  == {o \in Live(obj) : ~Carried(Now, o)}
           left  == SetToSeq(stay)
           gone  == [o \in Addr |-> IF o \in stay THEN Free ELSE obj[o]]
           slots == SetToSeq(Addr \ Live(gone))
           From(o) == {i \in DOMAIN levelfile[l] : slots[i] = o}
           back  == [o \in Addr |-> IF From(o) = {} THEN gone[o]
                                    ELSE levelfile[l][CHOOSE i \in From(o) : TRUE]]
           Kept(p) == IF p \in stay THEN Null ELSE p
           kept  == [i \in DOMAIN left |-> obj[left[i]]]
           m     == [Now EXCEPT !.obj = back, !.victual.piece = Kept(@), !.book = Kept(@)]
           after == [levelfile EXCEPT ![lev] = kept, ![l] = <<>>]
           n     == Len(levelfile[l])
           s     == Cardinality(stay)
           fs    == Cardinality(Filed(levelfile))
<1>1. /\ l # lev /\ Becomes(m) /\ levelfile' = after /\ lev' = l /\ u' \in Square
  BY DEF GotoLevel
<1>2. /\ levelfile \in [Level -> Seq(Objects)] /\ lev \in Level /\ levelfile[lev] = <<>>
      /\ IsFiniteSet(Filed(levelfile)) /\ levelfile[l] \in Seq(Objects)
      /\ fs \in Nat /\ Cardinality(Addr) \in Nat /\ n \in Nat
  BY OccupationAssumption, FS_CardinalityType DEF IInv
<1>3. /\ Fine(Now) /\ Now \in Memory /\ Count(Now) \in Nat /\ Count(Now) + 1 <= Cap
      /\ Cap = Cardinality(Addr) - fs
  BY NowSafe, MemoryIs, LiveIs DEF Safe, Count, Cap
<1>4. n <= fs
  BY <1>2, FileFits
<1>5. Count(Now) + n <= Cardinality(Addr)
  <2> HIDE DEF n, fs
  <2> QED BY <1>2, <1>3, <1>4
<1>6. /\ back \in [Addr -> Objects \cup {Free}] /\ IsFiniteSet(stay) /\ s \in Nat
      /\ Cardinality(Live(back)) = Count(Now) - s + n
      /\ \A o \in Live(Now.obj) \ stay : back[o] = obj[o]
  <2>1. stay \in SUBSET Live(obj) /\ Now.obj = obj
    BY NowIs
  <2> HIDE DEF stay
  <2>2. Fine(Now) /\ levelfile[l] \in Seq(Objects)
    BY <1>2, <1>3
  <2>4. Swapped(Now, obj, stay, levelfile[l], gone, slots, back)
    <3>1. /\ gone = [o \in Addr |-> IF o \in stay THEN Free ELSE obj[o]]
          /\ slots = SetToSeq(Addr \ Live(gone))
      OBVIOUS
    <3> HIDE DEF gone, slots
    <3>2. \A o \in Addr : /\ From(o) = {} => back[o] = gone[o]
                          /\ From(o) # {} => \E i \in From(o) : back[o] = levelfile[l][i]
      OBVIOUS
    <3>3. back = [o \in Addr |-> back[o]]
      OBVIOUS
    <3> HIDE DEF back
    <3> HIDE DEF stay
    <3> QED BY <2>1, <2>2, <3>1, <3>2, <3>3 DEF Swapped
  <2> HIDE DEF gone, slots, back
  <2>3. /\ back \in [Addr -> Objects \cup {Free}] /\ IsFiniteSet(stay) /\ s \in Nat
        /\ Cardinality(Live(back)) = Count(Now) - s + n
        /\ \A o \in Live(obj) \ stay : back[o] = obj[o]
    <3>1. Count(Now) + Len(levelfile[l]) <= Cardinality(Addr)
      BY <1>5
    <3> HIDE DEF back, n, s
    <3>2. /\ back \in [Addr -> Objects \cup {Free}]
          /\ IsFiniteSet(stay) /\ Cardinality(stay) \in Nat
          /\ Cardinality(Live(back)) = Count(Now) - Cardinality(stay) + Len(levelfile[l])
          /\ \A o \in Live(obj) \ stay : back[o] = obj[o]
      BY <2>1, <2>2, <2>4, <3>1, MemoryAfter
    <3> QED BY <3>2 DEF n, s
  <2> QED BY <2>1, <2>3
<1>7. kept \in Seq(Objects) /\ Len(kept) = s
  <2>1. DOMAIN left = 1..s /\ left \in [1..s -> stay]
    BY <1>6, SetToSeqIs
  <2>2. \A o \in stay : obj[o] \in Objects
    BY <1>3, NowIs, MemoryIs, LiveIs
  <2> HIDE DEF left, stay, s
  <2>3. kept \in [1..s -> Objects]
    BY <2>1, <2>2
  <2> HIDE DEF kept
  <2> QED BY <1>6, <2>3
<1> HIDE DEF kept, m
<1>21. /\ after \in [Level -> Seq(Objects)] /\ after[lev] = kept /\ after[l] = <<>>
      /\ \A j \in Level \ {lev, l} : after[j] = levelfile[j]
  <2>1. lev # l /\ kept \in Seq(Objects) /\ <<>> \in Seq(Objects)
    BY <1>1, <1>7
  <2> QED BY <1>2, <2>1
<1> HIDE DEF after
<1>8. /\ after \in [Level -> Seq(Objects)] /\ after[l] = <<>> /\ IsFiniteSet(Filed(after))
      /\ Cardinality(Filed(after)) = fs - n + s
  <2>1. lev # l /\ lev \in Level /\ kept \in Seq(Objects)
    BY <1>1, <1>2, <1>7
  <2>2. /\ levelfile \in [Level -> Seq(Objects)] /\ IsFiniteSet(Filed(levelfile))
        /\ lev \in Level /\ levelfile[lev] = <<>>
    BY <1>2
  <2>3. /\ IsFiniteSet(Filed(after))
        /\ Cardinality(Filed(after)) = Cardinality(Filed(levelfile)) - Len(levelfile[l]) + Len(kept)
    <3>1. Reread(levelfile, lev, kept, l, after)
      BY <1>21, <2>1, <2>2 DEF Reread
    <3> QED BY <2>1, <2>2, <3>1, FilesAfter
  <2> QED BY <1>21, <1>7, <2>3
<1> HIDE DEF back
<1>9. /\ m \in Memory /\ m.obj = back /\ m.victual.piece = Kept(victual.piece)
      /\ m.book = Kept(book) /\ m.uwep = uwep
  <2>1. Kept(victual.piece) \in Ptr /\ Kept(book) \in Ptr
    BY <1>3, NowIs, MemoryIs DEF Ptr
  <2> DEFINE p == Kept(victual.piece)
             b == Kept(book)
  <2>2. m = [Now EXCEPT !.obj = back, !.victual.piece = p, !.book = b]
    BY NowIs DEF m
  <2> HIDE DEF p, b, m
  <2>3. p \in Ptr /\ b \in Ptr
    BY <2>1 DEF p, b
  <2>4. /\ m \in Memory /\ m.obj = back /\ m.victual.piece = p /\ m.book = b /\ m.uwep = Now.uwep
    BY <1>3, <1>6, <2>2, <2>3 DEF Memory, Meals
  <2> QED BY <2>4, NowIs DEF p, b
<1> HIDE DEF m
<1>10. /\ victual.piece \in Ptr /\ book \in Ptr /\ uwep \in Ptr
       /\ \A o \in Addr : obj[o] # Free <=> o \in Live(Now.obj)
  BY <1>3, NowIs, MemoryIs, LiveIs
<1>11. PieceGood(m)
  <2>1. m.victual.piece # Null =>
          /\ m.victual.piece = victual.piece /\ victual.piece # Null
          /\ victual.piece \in Live(Now.obj) \ stay
    BY <1>3, <1>9, <1>10, NowIs DEF Fine, PieceGood, Ptr
  <2> QED BY <1>3, <1>6, <1>9, <2>1, NowIs DEF Fine, PieceGood
<1>12. BookGood(m)
  <2>1. m.book # Null => /\ m.book = book /\ book # Null
                         /\ book \in Live(Now.obj) \ stay
    BY <1>3, <1>9, <1>10, NowIs DEF Fine, BookGood, Ptr
  <2> QED BY <1>3, <1>6, <1>9, <2>1, NowIs DEF Fine, BookGood
<1>13. WeaponGood(m)
  <2>1. m.uwep # Null => uwep \in Live(Now.obj) \ stay
    BY <1>3, <1>9, <1>10, NowIs, FreeIs DEF Fine, WeaponGood, Ptr, Carried
  <2> QED BY <1>3, <1>6, <1>9, <2>1, NowIs DEF Fine, WeaponGood
<1>14. Cap' = Cardinality(Addr) - (fs - n + s)
  <2>1. Filed(levelfile)' = Filed(after)
    BY <1>1 DEF Filed
  <2> QED BY <1>8, <2>1 DEF Cap
<1>15. Count(m) = Count(Now) - s + n
  BY <1>6, <1>9 DEF Count
<1> DEFINE cap == Cardinality(Addr) - (fs - n + s)
<1>16. Apart(m, cap)
  <2>1. ASSUME m.victual.piece # Null, m.obj[m.victual.piece].quan > 1
        PROVE  Count(Now) + 2 <= Cap
    <3>1. /\ victual.piece # Null /\ m.victual.piece = victual.piece
          /\ victual.piece \in Live(Now.obj) \ stay
      BY <1>3, <1>9, <1>10, <2>1, NowIs DEF Fine, PieceGood, Ptr
    <3>2. obj[victual.piece].quan > 1
      BY <1>6, <1>9, <2>1, <3>1
    <3> QED BY <3>1, <3>2, NowSafe, NowIs DEF Safe, Apart
  <2> HIDE DEF n, s, fs
  <2>2. Count(Now) + 2 <= Cap => Count(m) + 2 <= cap
    BY <1>2, <1>3, <1>6, <1>15
  <2> HIDE DEF cap
  <2> QED BY <2>1, <2>2 DEF Apart
<1>17. Count(m) + 1 <= cap /\ cap \in Nat
  <2>1. fs \in Nat /\ Cardinality(Addr) \in Nat /\ n \in Nat /\ s \in Nat
    BY <1>2, <1>6
  <2>2. Count(Now) \in Nat /\ Count(Now) + 1 <= Cardinality(Addr) - fs
    BY <1>3
  <2>3. Count(m) \in Nat
    BY <1>9, MemoryIs, LiveIs DEF Count
  <2> HIDE DEF n, s, fs
  <2> QED BY <1>15, <2>1, <2>2, <2>3
<1>18. Safe(m, cap)
  <2> HIDE DEF cap
  <2> QED BY <1>9, <1>11, <1>12, <1>13, <1>16, <1>17 DEF Safe, Fine
<1>19. Safe(Now', cap)
  <2> HIDE DEF cap
  <2> QED BY <1>1, <1>17, <1>18, BecomesSafe
<1>20. IsFiniteSet(Filed(levelfile))' /\ Safe(Now, Cap)'
  <2>1. Filed(levelfile)' = Filed(after)
    BY <1>1 DEF Filed
  <2> QED BY <1>8, <1>14, <1>19, <2>1
<1> QED BY <1>1, <1>8, <1>20 DEF IInv

LEMMA InitSafe == Init => IInv
<1> SUFFICES ASSUME Init PROVE IInv
  OBVIOUS
<1>1. /\ obj \in [Addr -> Obj] /\ \A o \in Addr : obj[o] = Free \/ IsObject(obj[o])
      /\ \E o \in Addr : obj[o] = Free
  BY StockAssumption DEF Init
<1>2. obj \in [Addr -> Objects \cup {Free}]
  BY <1>1 DEF IsObject, Objects
<1>3. levelfile \in [Level -> Seq(Objects)] /\ lev \in Level /\ u \in Square /\ levelfile[lev] = <<>>
  BY OccupationAssumption DEF Init
<1>4. Filed(levelfile) = {}
  BY FiledIs DEF Init
<1>5. IsFiniteSet(Filed(levelfile)) /\ Cardinality(Filed(levelfile)) = 0
  BY <1>4, FS_EmptySet
<1>6. /\ Now \in Memory /\ Now.obj = obj /\ Now.victual.piece = Null
      /\ Now.book = Null /\ Now.uwep = Null
  BY <1>2 DEF Init, Now, NoMeal, NoTin, Memory, Meals, Ptr
<1>7. Fine(Now)
  BY <1>6 DEF Fine, PieceGood, BookGood, WeaponGood
<1>8. Count(Now) + 1 <= Cardinality(Addr)
  <2>1. PICK o \in Addr : obj[o] = Free
    BY <1>1
  <2>2. Live(obj) \subseteq Addr \ {o} /\ Cardinality(Live(obj)) \in Nat
    BY <1>2, <2>1, LiveIs
  <2>3. /\ IsFiniteSet(Addr \ {o}) /\ Cardinality(Addr \ {o}) = Cardinality(Addr) - 1
        /\ Cardinality(Addr) \in Nat
    BY OccupationAssumption, FS_RemoveElement, FS_CardinalityType
  <2>4. Cardinality(Live(obj)) <= Cardinality(Addr \ {o})
    BY <2>2, <2>3, FS_Subset
  <2> QED BY <1>6, <2>2, <2>3, <2>4 DEF Count
<1>9. Cap = Cardinality(Addr)
  BY <1>5, OccupationAssumption, FS_CardinalityType DEF Cap
<1>10. Safe(Now, Cap)
  BY <1>6, <1>7, <1>8, <1>9 DEF Safe, Apart
<1> QED BY <1>3, <1>5, <1>10 DEF IInv

LEMMA NextSafe == IInv /\ [Next]_vars => IInv'
<1> SUFFICES ASSUME IInv, [Next]_vars PROVE IInv'
  OBVIOUS
<1>1. CASE \/ Eating \/ OpenTin \/ Learn \/ Wait \/ DoMove \/ Interrupt \/ Tele \/ Steal \/ EndTurn
  BY <1>1, EatingSafe, OpenTinSafe, LearnSafe, WaitSafe, MovesSafe, InterruptSafe, StealSafe
<1>2. ASSUME NEW l \in Level, GotoLevel(l) PROVE IInv'
  BY <1>2, GotoLevelSafe
<1>3. ASSUME NEW o \in Addr,
             \/ Eat(o) \/ StartTin(o) \/ StudyBook(o) \/ DoWield(o)
             \/ DoOname(o) \/ Pickup(o) \/ Drop(o)
      PROVE  IInv'
  BY <1>3, EatSafe, StartTinSafe, StudyBookSafe, DoWieldSafe, DoOnameSafe, PickupSafe, DropSafe
<1>4. ASSUME NEW o \in Addr,
             DestroyBook(o) \/ MPickUp(o) \/ MEat(o) \/ RelObj(o) \/ RotCorpse(o)
      PROVE  IInv'
  BY <1>4, DestroyBookSafe, MPickUpSafe, MEatSafe, RelObjSafe, RotCorpseSafe
<1>5. CASE UNCHANGED vars
  BY <1>5 DEF vars, IInv, Now, Cap, Filed
<1> QED BY <1>1, <1>2, <1>3, <1>4, <1>5 DEF Next

\* What was begun can be found again: the pointers that eating, reading and wielding keep
\* from one turn to the next point at food that has been begun, at the book and at what
\* is carried, whatever is merged, split, renamed, stolen, eaten, destroyed or left behind
\* meanwhile (eat.c:358, eat.c:371, spell.c:520).
THEOREM OccupationPointersLive == Spec => []PointersLive
<1>1. IInv => PointersLive
  <2> SUFFICES ASSUME IInv PROVE PointersLive
    OBVIOUS
  <2>1. /\ victual.piece \in Ptr /\ book \in Ptr /\ obj \in [Addr -> Objects \cup {Free}]
        /\ Fine(Now)
    BY NowSafe, NowIs, MemoryIs DEF Safe
  <2> QED BY <2>1, NowIs, FreeIs DEF Fine, PieceGood, BookGood, WeaponGood, PointersLive, Ptr
<1> QED BY <1>1, InitSafe, NextSafe, PTL DEF Spec
=============================================================================
