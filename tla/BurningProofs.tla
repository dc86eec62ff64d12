--------------------------- MODULE BurningProofs ---------------------------
(***************************************************************************)
(* Proofs about burning objects, for any objects, levels and times: the    *)
(* four books that module Burning describes always agree.                  *)
(*                                                                         *)
(* The invariant speaks of one object at a time: of its struct r, of the   *)
(* timers T that point at it and of the number n of its light sources,     *)
(* wherever these are kept.  An operation on objects is shown to leave     *)
(* every object alone but one or two, and to keep the account of those.    *)
(* The second half does the same for fuel, and ends with the refinement of *)
(* module FuelClock.                                                       *)
(***************************************************************************)
EXTENDS Burning, ListTheorems

\* Is anything for sale, and may that be a magic lamp?  A lit magic lamp on
\* the bill keeps its light source, and the game panics (run unpaid_genie).
ForSale == MayShop \/ \E o \in ObjId : \E r \in Stock[o] : r.unpaid
NoGenieForSale ==
    ForSale => \A o \in ObjId : \A r \in Stock[o] : r.otyp # "MAGIC_LAMP"

Worlds == [obj : [ObjId -> Obj], timer_base : SUBSET Timer,
           light_base : [ObjId -> Nat], impossible : BOOLEAN]

Of(T, o)   == {t \in T : t.arg = o}
HasBurn(T) == \E t \in T : t.func = "BURN_OBJECT"
HasRot(T)  == \E t \in T : t.func = "ROT_ORGANIC"
Flames(T)  == {t \in T : t.func = "BURN_OBJECT"}
Num(b)     == IF b THEN 1 ELSE 0

Whole(r) ==
    /\ r \in Obj /\ r.quan >= 1
    /\ r.unpaid => ForSale
    /\ r.otyp = "MAGIC_LAMP" => ~ForSale
    /\ PrayerTurns = 0 /\ r.where # "ONBILL" => r.age >= 0

\* The account of an object that has a burn timer or not, as burn says.
Balanced(r, T, n, burn) ==
    /\ Whole(r)
    /\ n = Num(r.lamplit)
    /\ T \subseteq Timer
    /\ \A t, u \in T : t.func = u.func => t = u
    /\ HasBurn(T) <=> burn
    /\ HasRot(T) => r.where = "BURIED" /\ r.otyp \in {"POT_OIL", "CANDLE"}
    /\ r.timed = Num(HasBurn(T)) + Num(HasRot(T))
    /\ r.where \in {"FREE", "ONBILL"} => ~r.lamplit

Agrees(r, T, n) == Balanced(r, T, n, r.lamplit /\ r.otyp # "MAGIC_LAMP")

Timely(T) == phase = "play" /\ PrayerTurns = 0 => \A t \in T : t.timeout > monstermoves

Away(r) == r.where \in {"FLOOR", "BURIED", "MINVENT"} /\ r.lev # here

\* The account of o in world W, if o is in memory.
InMem(W, o) ==
    /\ ~Away(W.obj[o])
    /\ Agrees(W.obj[o], Of(W.timer_base, o), W.light_base[o])
    /\ Timely(Of(W.timer_base, o))

\* The account of o, if it is in the file of its level.
InFile(W, o) ==
    LET r == W.obj[o]
    IN  /\ Away(r)
        /\ Of(W.timer_base, o) = {} /\ W.light_base[o] = 0
        /\ Agrees(r, Of(levelfile[r.lev].timers, o), levelfile[r.lev].lights[o])

\* Nothing of o is in the file of a level where it is not.
NotFiled(r, o) ==
    \A l \in Level : ~(Away(r) /\ r.lev = l) =>
        Of(levelfile[l].timers, o) = {} /\ levelfile[l].lights[o] = 0

Sound(W, o) == (InMem(W, o) \/ InFile(W, o)) /\ NotFiled(W.obj[o], o)

Good(W) == W \in Worlds /\ W.impossible = FALSE /\ \A o \in ObjId : Sound(W, o)

Base ==
    /\ monstermoves \in Int /\ here \in Level /\ praying \in Nat
    /\ PrayerTurns = 0 => praying = 0
    /\ levelfile \in [Level -> [timers : SUBSET Timer, lights : [ObjId -> Nat]]]
    /\ levelfile[here] = EmptyFile
    /\ phase \in {"play", "timers"}

IInv == Base /\ Good(World)

Still(r, s) ==
    /\ s.otyp = r.otyp /\ s.where = r.where /\ s.lev = r.lev /\ s.spe = r.spe
    /\ s.quan = r.quan /\ s.unpaid = r.unpaid

\* V is W but for the objects of S.
Rest(W, V, S) ==
    /\ V \in Worlds /\ V.impossible = FALSE
    /\ \A p \in ObjId \ S : /\ V.obj[p] = W.obj[p]
                            /\ V.light_base[p] = W.light_base[p]
                            /\ Of(V.timer_base, p) = Of(W.timer_base, p)

(***************************************************************************)
(* Worlds and the sets of timers of an object.                             *)
(***************************************************************************)
\* What a world is made of.
LEMMA WorldFields ==
    ASSUME NEW W \in Worlds, NEW o \in ObjId
    PROVE  /\ W.obj \in [ObjId -> Obj] /\ W.obj[o] \in Obj
           /\ W.timer_base \in SUBSET Timer
           /\ W.light_base \in [ObjId -> Nat] /\ W.light_base[o] \in Nat
           /\ W.impossible \in BOOLEAN
           /\ W = [obj |-> W.obj, timer_base |-> W.timer_base,
                   light_base |-> W.light_base, impossible |-> W.impossible]
BY DEF Worlds

\* A struct is made of its fields.
LEMMA ObjFields ==
    ASSUME NEW r \in Obj
    PROVE  /\ r.otyp \in Otyp /\ r.where \in Where /\ r.lev \in Level /\ r.age \in Int
           /\ r.spe \in Int /\ r.quan \in Int /\ r.lamplit \in BOOLEAN
           /\ r.timed \in Int /\ r.unpaid \in BOOLEAN
BY DEF Obj

\* A timer is made of its fields.
LEMMA TimerFields ==
    ASSUME NEW t \in Timer
    PROVE  t.timeout \in Int /\ t.func \in Func /\ t.arg \in ObjId
BY DEF Timer

\* Adding and removing timers.
LEMMA OfFacts ==
    ASSUME NEW T, NEW t, NEW o
    PROVE  /\ t.arg = o => Of(T \cup {t}, o) = Of(T, o) \cup {t}
           /\ t.arg # o => Of(T \cup {t}, o) = Of(T, o)
           /\ Of(T \ {t}, o) = Of(T, o) \ {t}
           /\ t.arg # o => Of(T \ {t}, o) = Of(T, o)
           /\ Of({u \in T : u.arg # o}, o) = {}
           /\ \A p : p # o => Of({u \in T : u.arg # o}, p) = Of(T, p)
           /\ Of(T, o) \subseteq T
BY DEF Of

\* The books are kept if only objects in memory change, and theirs are kept.
LEMMA Change ==
    ASSUME NEW W, Good(W), NEW V, NEW S, Rest(W, V, S),
           \A p \in ObjId \cap S : ~Away(W.obj[p]) /\ InMem(V, p)
    PROVE  Good(V)
<1> SUFFICES ASSUME NEW o \in ObjId PROVE Sound(V, o)
  BY DEF Good, Rest
<1>1. Sound(W, o)
  BY DEF Good
<1>2. CASE o \in S
  BY <1>1, <1>2 DEF Sound, NotFiled
<1>3. CASE o \notin S
  <2>1. /\ V.obj[o] = W.obj[o]
        /\ V.light_base[o] = W.light_base[o]
        /\ Of(V.timer_base, o) = Of(W.timer_base, o)
    BY <1>3 DEF Rest
  <2> QED BY <1>1, <2>1 DEF Sound, InMem, InFile
<1> QED BY <1>2, <1>3

\* What world V is.
Is(V, ob, T, lb) ==
    /\ V \in Worlds /\ V.impossible = FALSE
    /\ V.obj = ob /\ V.timer_base = T /\ V.light_base = lb

\* A change of one object, with the timers that point at others kept.
LEMMA OneObject ==
    ASSUME NEW W \in Worlds, NEW o \in ObjId, NEW r, NEW n, NEW T,
           \A p \in ObjId : p # o => Of(T, p) = Of(W.timer_base, p),
           NEW V, Is(V, [W.obj EXCEPT ![o] = r], T, [W.light_base EXCEPT ![o] = n])
    PROVE  Rest(W, V, {o})
BY DEF Rest, Worlds, Is

\* One step after another.
LEMMA Compose ==
    ASSUME NEW W, NEW V, NEW U, NEW S, NEW R, Rest(W, V, S), Rest(V, U, R)
    PROVE  Rest(W, U, S \cup R)
BY DEF Rest

\* A lit object that is no magic lamp has one burn timer.
LEMMA BurnTimer ==
    ASSUME NEW W \in Worlds, NEW o \in ObjId,
           NEW n, Balanced(W.obj[o], Of(W.timer_base, o), n, TRUE)
    PROVE  \E t \in Of(W.timer_base, o) :
               /\ t \in Timer /\ t \in W.timer_base /\ t.arg = o
               /\ t.func = "BURN_OBJECT"
               /\ TimersOf(W, "BURN_OBJECT", o) = {t}
<1>1. PICK t \in Of(W.timer_base, o) : t.func = "BURN_OBJECT"
  BY DEF Balanced, HasBurn
<1>2. \A u \in TimersOf(W, "BURN_OBJECT", o) : u = t
  BY <1>1 DEF Balanced, TimersOf, Of
<1>3. t \in TimersOf(W, "BURN_OBJECT", o)
  BY <1>1 DEF TimersOf, Of
<1> QED BY <1>1, <1>2, <1>3 DEF Of, Worlds

\* An object without a burn timer.
LEMMA NoBurnTimer ==
    ASSUME NEW W \in Worlds, NEW o \in ObjId,
           NEW n, Balanced(W.obj[o], Of(W.timer_base, o), n, FALSE)
    PROVE  TimersOf(W, "BURN_OBJECT", o) = {}
BY DEF Balanced, TimersOf, Of, HasBurn

\* del_light_source on a lit object.
LEMMA DelLightSourceIs ==
    ASSUME NEW W \in Worlds, NEW o \in ObjId, W.light_base[o] = 1, W.impossible = FALSE
    PROVE  Is(DelLightSource(W, o), W.obj, W.timer_base, [W.light_base EXCEPT ![o] = 0])
<1>1. DelLightSource(W, o) = [W EXCEPT !.light_base[o] = @ - 1]
  BY DEF DelLightSource
<1>2. [W EXCEPT !.light_base[o] = @ - 1].light_base = [W.light_base EXCEPT ![o] = 0]
  BY DEF Worlds
<1>3. [W EXCEPT !.light_base[o] = @ - 1] \in Worlds
  BY DEF Worlds
<1> QED BY <1>1, <1>2, <1>3 DEF Is, Worlds

\* Structs are changed, nothing else.
LEMMA ObjectsAre ==
    ASSUME NEW ob, NEW T, NEW lb, NEW W, Is(W, ob, T, lb), NEW new \in [ObjId -> Obj]
    PROVE  Is([W EXCEPT !.obj = new], new, T, lb)
BY DEF Is, Worlds

\* An object's struct is changed.
LEMMA ObjectIs ==
    ASSUME NEW ob, NEW T, NEW lb, NEW W, Is(W, ob, T, lb), NEW o \in ObjId, NEW r \in Obj
    PROVE  /\ [ob EXCEPT ![o] = r] \in [ObjId -> Obj]
           /\ Is([W EXCEPT !.obj[o] = r], [ob EXCEPT ![o] = r], T, lb)
           /\ Is([W EXCEPT !.obj = [ob EXCEPT ![o] = r]], [ob EXCEPT ![o] = r], T, lb)
BY ObjectsAre DEF Is, Worlds

\* Changes of a struct that leave it a struct.
LEMMA Structs ==
    ASSUME NEW r \in Obj
    PROVE  /\ [r EXCEPT !.lamplit = FALSE] \in Obj
           /\ [r EXCEPT !.lamplit = TRUE] \in Obj
           /\ \A a \in Int : [r EXCEPT !.age = a] \in Obj
           /\ \A a \in Int : [r EXCEPT !.age = a, !.lamplit = FALSE] \in Obj
           /\ \A n \in Int : [r EXCEPT !.timed = n] \in Obj
           /\ \A n \in Int : [r EXCEPT !.spe = n] \in Obj
           /\ \A n \in Int : [r EXCEPT !.quan = n] \in Obj
           /\ \A b \in BOOLEAN : [r EXCEPT !.unpaid = b] \in Obj
           /\ \A w \in Where, l \in Level : [r EXCEPT !.where = w, !.lev = l] \in Obj
<1> USE DEF Obj
<1>1. [r EXCEPT !.lamplit = FALSE] \in Obj
  OBVIOUS
<1>2. [r EXCEPT !.lamplit = TRUE] \in Obj
  OBVIOUS
<1>3. ASSUME NEW a \in Int PROVE [r EXCEPT !.age = a] \in Obj
  OBVIOUS
<1>4. ASSUME NEW a \in Int PROVE [r EXCEPT !.age = a, !.lamplit = FALSE] \in Obj
  OBVIOUS
<1>5. ASSUME NEW n \in Int PROVE [r EXCEPT !.timed = n] \in Obj
  OBVIOUS
<1>6. ASSUME NEW n \in Int PROVE [r EXCEPT !.spe = n] \in Obj
  OBVIOUS
<1>7. ASSUME NEW n \in Int PROVE [r EXCEPT !.quan = n] \in Obj
  OBVIOUS
<1>8. ASSUME NEW b \in BOOLEAN PROVE [r EXCEPT !.unpaid = b] \in Obj
  OBVIOUS
<1>9. ASSUME NEW w \in Where, NEW l \in Level
      PROVE  [r EXCEPT !.where = w, !.lev = l] \in Obj
  OBVIOUS
<1> HIDE DEF Obj
<1> QED BY <1>1, <1>2, <1>3, <1>4, <1>5, <1>6, <1>7, <1>8, <1>9

\* An object goes dark.
LEMMA DarkIs ==
    ASSUME NEW ob, NEW T, NEW lb, NEW W, Is(W, ob, T, lb), NEW o \in ObjId
    PROVE  LET r == [ob[o] EXCEPT !.lamplit = FALSE]
           IN  /\ r \in Obj
               /\ Is([W EXCEPT !.obj[o].lamplit = FALSE], [ob EXCEPT ![o] = r], T, lb)
<1> DEFINE r == [ob[o] EXCEPT !.lamplit = FALSE]
<1>1. r \in Obj
  <2>1. ob[o] \in Obj
    BY DEF Is, Worlds
  <2> QED BY <2>1, Structs
<1>2. [W EXCEPT !.obj[o].lamplit = FALSE] = [W EXCEPT !.obj = [ob EXCEPT ![o] = r]]
  BY DEF Is, Worlds
<1> HIDE DEF r
<1>3. Is([W EXCEPT !.obj = [ob EXCEPT ![o] = r]], [ob EXCEPT ![o] = r], T, lb)
  BY <1>1, ObjectIs
<1> QED BY <1>1, <1>2, <1>3 DEF r

\* cleanup_burn: the rest of the fuel is given back.
LEMMA CleanupBurnIs ==
    ASSUME NEW W \in Worlds, NEW o \in ObjId, W.light_base[o] = 1, W.impossible = FALSE,
           W.obj[o].lamplit, NEW expire \in Int, monstermoves \in Int
    PROVE  LET r == [W.obj[o] EXCEPT !.age = @ + expire - monstermoves,
                                     !.lamplit = FALSE]
           IN  /\ r \in Obj
               /\ Is(CleanupBurn(W, o, expire), [W.obj EXCEPT ![o] = r], W.timer_base,
                     [W.light_base EXCEPT ![o] = 0])
<1> DEFINE D == DelLightSource(W, o)
           r == [W.obj[o] EXCEPT !.age = @ + expire - monstermoves, !.lamplit = FALSE]
<1>1. Is(D, W.obj, W.timer_base, [W.light_base EXCEPT ![o] = 0])
  BY DelLightSourceIs
<1>2. CleanupBurn(W, o, expire) = [D EXCEPT !.obj[o].age = @ + expire - monstermoves,
                                            !.obj[o].lamplit = FALSE]
  BY DEF CleanupBurn
<1>3. r \in Obj
  <2>1. W.obj[o].age + expire - monstermoves \in Int
    BY WorldFields, ObjFields
  <2> QED BY <2>1, WorldFields, Structs
<1> HIDE DEF D
<1>4. [D EXCEPT !.obj[o].age = @ + expire - monstermoves, !.obj[o].lamplit = FALSE]
          = [D EXCEPT !.obj = [W.obj EXCEPT ![o] = r]]
  BY <1>1 DEF Is, Worlds
<1> HIDE DEF r
<1>5. Is([D EXCEPT !.obj = [W.obj EXCEPT ![o] = r]], [W.obj EXCEPT ![o] = r],
         W.timer_base, [W.light_base EXCEPT ![o] = 0])
  BY <1>1, <1>3, ObjectIs
<1> QED BY <1>2, <1>3, <1>4, <1>5 DEF r

\* stop_timer on a burning object, with cleanup_burn.
LEMMA StopTimerIs ==
    ASSUME NEW W \in Worlds, NEW o \in ObjId, W.light_base[o] = 1, W.impossible = FALSE,
           W.obj[o].lamplit, monstermoves \in Int,
           NEW t \in Timer, TimersOf(W, "BURN_OBJECT", o) = {t}
    PROVE  LET r == [W.obj[o] EXCEPT !.timed = @ - 1, !.age = @ + t.timeout - monstermoves,
                                     !.lamplit = FALSE]
           IN  /\ r \in Obj
               /\ Is(StopTimer(W, "BURN_OBJECT", o), [W.obj EXCEPT ![o] = r],
                     W.timer_base \ {t}, [W.light_base EXCEPT ![o] = 0])
<1> DEFINE q  == [W.obj[o] EXCEPT !.timed = @ - 1]
           W1 == [W EXCEPT !.timer_base = @ \ {t}, !.obj[o].timed = @ - 1]
           r  == [W.obj[o] EXCEPT !.timed = @ - 1, !.age = @ + t.timeout - monstermoves,
                                  !.lamplit = FALSE]
           s  == [q EXCEPT !.age = @ + t.timeout - monstermoves, !.lamplit = FALSE]
<1>1. StopTimer(W, "BURN_OBJECT", o) = CleanupBurn(W1, o, t.timeout)
  <2>1. (CHOOSE u \in TimersOf(W, "BURN_OBJECT", o) : TRUE) = t
    OBVIOUS
  <2> QED BY <2>1 DEF StopTimer
<1>2. q \in Obj
  <2>1. W.obj[o] \in Obj /\ W.obj[o].timed - 1 \in Int
    BY WorldFields, ObjFields
  <2> QED BY <2>1, Structs
<1>3. W1.obj = [W.obj EXCEPT ![o] = q]
  BY DEF Worlds
<1>4. /\ W1.timer_base = W.timer_base \ {t} /\ W1.light_base = W.light_base
      /\ W1.impossible = FALSE
  BY DEF Worlds
<1>5. W1 = [W EXCEPT !.timer_base = @ \ {t}, !.obj = [W.obj EXCEPT ![o] = q]]
  BY DEF Worlds
<1>6. W1 \in Worlds
  <2> HIDE DEF q, W1
  <2>1. [W.obj EXCEPT ![o] = q] \in [ObjId -> Obj]
    BY <1>2 DEF Worlds
  <2> QED BY <1>5, <2>1 DEF Worlds
<1>7. W1.obj[o] = q /\ q.lamplit /\ q.age = W.obj[o].age
  <2>1. W.obj[o] \in Obj
    BY DEF Worlds
  <2>2. q.lamplit /\ q.age = W.obj[o].age
    BY <2>1 DEF Obj
  <2> HIDE DEF q, W1
  <2> QED BY <1>3, <2>2 DEF Worlds
<1>8. r = s /\ t.timeout \in Int
  BY WorldFields, TimerFields DEF Obj
<1>9. [[W.obj EXCEPT ![o] = q] EXCEPT ![o] = s] = [W.obj EXCEPT ![o] = s]
  <2> HIDE DEF q, s
  <2> QED BY DEF Worlds
<1>10. /\ s \in Obj
       /\ Is(CleanupBurn(W1, o, t.timeout), [W1.obj EXCEPT ![o] = s],
             W1.timer_base, [W1.light_base EXCEPT ![o] = 0])
  <2> HIDE DEF q, W1
  <2>1. W1.light_base[o] = 1 /\ W1.obj[o].lamplit
    BY <1>4, <1>7
  <2>2. LET x == [W1.obj[o] EXCEPT !.age = @ + t.timeout - monstermoves, !.lamplit = FALSE]
        IN  /\ x \in Obj
            /\ Is(CleanupBurn(W1, o, t.timeout), [W1.obj EXCEPT ![o] = x],
                  W1.timer_base, [W1.light_base EXCEPT ![o] = 0])
    BY <1>4, <1>6, <1>8, <2>1, CleanupBurnIs
  <2> QED BY <1>7, <2>2
<1> HIDE DEF q, W1, r, s
<1> QED BY <1>1, <1>3, <1>4, <1>8, <1>9, <1>10 DEF r

\* The account of an object gone dark: the fuel that is left is its age.
LEMMA GoneDark ==
    ASSUME NEW r \in Obj, NEW s \in Obj, NEW T, NEW n, NEW t,
           Balanced(r, T, n, TRUE), t \in T, t.func = "BURN_OBJECT",
           Still(r, s), s.lamplit = FALSE, s.timed = r.timed - 1,
           PrayerTurns = 0 /\ r.where # "ONBILL" => s.age >= 0
    PROVE  Agrees(s, T \ {t}, 0)
<1>1. ~HasBurn(T \ {t}) /\ (HasRot(T \ {t}) <=> HasRot(T))
  BY DEF Balanced, HasBurn, HasRot
<1>2. s.timed = Num(HasBurn(T \ {t})) + Num(HasRot(T \ {t}))
  BY <1>1 DEF Balanced, Num
<1>3. Whole(s)
  BY DEF Balanced, Whole, Still
<1> QED BY <1>1, <1>2, <1>3 DEF Agrees, Balanced, Still, Num

\* A lit object whose timer has just run out.
Spent(W, o) ==
    LET r == W.obj[o]
    IN  /\ ~Away(r) /\ r.lamplit /\ r.otyp # "MAGIC_LAMP"
        /\ Balanced(r, Of(W.timer_base, o), W.light_base[o], FALSE)
        /\ Timely(Of(W.timer_base, o))

\* end_burn on an object in memory that is lit and has no timer.
LEMMA PutOut ==
    ASSUME NEW W \in Worlds, W.impossible = FALSE, NEW o \in ObjId, ~Away(W.obj[o]),
           W.obj[o].lamplit, Timely(Of(W.timer_base, o)),
           Balanced(W.obj[o], Of(W.timer_base, o), W.light_base[o], FALSE),
           NEW attached, ~attached \/ W.obj[o].otyp = "MAGIC_LAMP"
    PROVE  LET V == EndBurn(W, o, attached)
           IN  /\ Rest(W, V, {o}) /\ InMem(V, o)
               /\ Still(W.obj[o], V.obj[o]) /\ V.obj[o].lamplit = FALSE
               /\ V.obj[o].age = W.obj[o].age
<1> DEFINE V  == EndBurn(W, o, attached)
           R  == W.obj[o]
           T  == Of(W.timer_base, o)
           D  == DelLightSource(W, o)
           lb == [W.light_base EXCEPT ![o] = 0]
           r  == [R EXCEPT !.lamplit = FALSE]
<1>1. R \in Obj /\ W.light_base[o] = 1
  BY WorldFields DEF Balanced, Num
<1>2. V = [D EXCEPT !.obj[o].lamplit = FALSE]
  BY DEF EndBurn
<1>3. r \in Obj /\ Is(V, [W.obj EXCEPT ![o] = r], W.timer_base, lb)
  <2>1. Is(D, W.obj, W.timer_base, lb)
    BY <1>1, DelLightSourceIs
  <2> HIDE DEF D, lb
  <2>2. LET x == [W.obj[o] EXCEPT !.lamplit = FALSE]
        IN  x \in Obj /\ Is([D EXCEPT !.obj[o].lamplit = FALSE], [W.obj EXCEPT ![o] = x],
                           W.timer_base, lb)
    BY <2>1, DarkIs
  <2> QED BY <1>2, <2>2
<1>4. Still(R, r) /\ r.lamplit = FALSE /\ r.timed = R.timed /\ r.age = R.age
  BY <1>1 DEF Still, Obj
<1>5. Agrees(r, T, 0)
  <2>1. Balanced(R, T, 1, FALSE)
    BY <1>1
  <2> HIDE DEF R, r, T
  <2> QED BY <1>3, <1>4, <2>1 DEF Agrees, Balanced, Whole, Still, Num
<1> HIDE DEF V, r
<1>6. /\ Rest(W, V, {o}) /\ V.obj[o] = r /\ V.light_base[o] = 0
      /\ Of(V.timer_base, o) = T
  <2>1. \A p \in ObjId : p # o => Of(W.timer_base, p) = Of(W.timer_base, p)
    OBVIOUS
  <2>2. Rest(W, V, {o})
    BY <1>3, <2>1, OneObject
  <2> QED BY <1>3, <2>2 DEF Is, Worlds
<1>7. /\ InMem(V, o) /\ Still(R, V.obj[o]) /\ V.obj[o].lamplit = FALSE
      /\ V.obj[o].age = R.age
  BY <1>4, <1>5, <1>6 DEF InMem, Away, Still
<1> QED BY <1>6, <1>7 DEF V

\* end_burn on an object in memory that is lit.
LEMMA EndBurnKeeps ==
    ASSUME NEW W \in Worlds, W.impossible = FALSE, NEW o \in ObjId, InMem(W, o),
           W.obj[o].lamplit, NEW attached, attached \/ W.obj[o].otyp = "MAGIC_LAMP",
           phase = "play", monstermoves \in Int
    PROVE  LET V == EndBurn(W, o, attached)
           IN  /\ Rest(W, V, {o}) /\ InMem(V, o)
               /\ Still(W.obj[o], V.obj[o]) /\ V.obj[o].lamplit = FALSE
<1> DEFINE V == EndBurn(W, o, attached)
           R == W.obj[o]
           T == Of(W.timer_base, o)
<1>1. R \in Obj /\ W.light_base[o] = 1 /\ Balanced(R, T, 1, R.otyp # "MAGIC_LAMP")
  BY WorldFields DEF InMem, Agrees, Balanced, Num
<1>2. CASE R.otyp = "MAGIC_LAMP"
  <2>1. Balanced(R, T, W.light_base[o], FALSE)
    BY <1>1, <1>2
  <2> QED BY <1>2, <2>1, PutOut DEF InMem
<1>3. CASE R.otyp # "MAGIC_LAMP"
  <2>1. PICK t \in T : /\ t \in Timer /\ t \in W.timer_base /\ t.arg = o
                       /\ t.func = "BURN_OBJECT"
                       /\ TimersOf(W, "BURN_OBJECT", o) = {t}
    BY <1>1, <1>3, BurnTimer
  <2> DEFINE r == [R EXCEPT !.timed = @ - 1, !.age = @ + t.timeout - monstermoves,
                            !.lamplit = FALSE]
  <2>2. V = StopTimer(W, "BURN_OBJECT", o)
    BY <1>3, <2>1 DEF EndBurn
  <2>3. r \in Obj /\ Is(V, [W.obj EXCEPT ![o] = r], W.timer_base \ {t},
                        [W.light_base EXCEPT ![o] = 0])
    BY <1>1, <2>1, <2>2, StopTimerIs
  <2>4. /\ Still(R, r) /\ r.lamplit = FALSE /\ r.timed = R.timed - 1
        /\ r.age = R.age + t.timeout - monstermoves
    BY <1>1 DEF Still, Obj
  <2>5. PrayerTurns = 0 /\ R.where # "ONBILL" => r.age >= 0
    <3>1. PrayerTurns = 0 => t.timeout > monstermoves
      BY <2>1 DEF InMem, Timely
    <3>2. PrayerTurns = 0 /\ R.where # "ONBILL" => R.age >= 0
      BY <1>1 DEF Balanced, Whole
    <3> QED BY <1>1, <2>1, <2>4, <3>1, <3>2, ObjFields, TimerFields
  <2> HIDE DEF V, r
  <2>6. Agrees(r, T \ {t}, 0)
    <3>1. Balanced(R, T, 1, TRUE)
      BY <1>1, <1>3
    <3> HIDE DEF R, T
    <3> QED BY <1>1, <2>1, <2>3, <2>4, <2>5, <3>1, GoneDark
  <2>7. /\ Rest(W, V, {o}) /\ V.obj[o] = r /\ V.light_base[o] = 0
        /\ Of(V.timer_base, o) = T \ {t}
    <3>1. \A p \in ObjId : p # o => Of(W.timer_base \ {t}, p) = Of(W.timer_base, p)
      BY <2>1, OfFacts
    <3>2. 0 \in Nat /\ Of(W.timer_base \ {t}, o) = T \ {t}
      BY OfFacts
    <3> HIDE DEF T
    <3>3. Rest(W, V, {o})
      BY <2>3, <3>1, OneObject
    <3> QED BY <2>3, <3>2, <3>3 DEF Is, Worlds
  <2>8. Timely(T \ {t})
    BY DEF InMem, Timely
  <2>9. InMem(V, o) /\ Still(R, V.obj[o]) /\ V.obj[o].lamplit = FALSE
    BY <2>4, <2>6, <2>7, <2>8 DEF InMem, Away, Still
  <2> QED BY <2>7, <2>9 DEF V
<1> QED BY <1>2, <1>3

\* A set of numbers below a has a greatest one.
LEMMA MaxBelow ==
    ASSUME NEW S \in SUBSET Nat, S # {}, NEW a \in Int, \A x \in S : x < a
    PROVE  Max(S) \in S
<1> DEFINE D == {a - x : x \in S}
<1>1. D \in SUBSET Nat /\ D # {}
  <2>1. \A x \in S : a - x \in Nat
    OBVIOUS
  <2> QED BY <2>1
<1>2. PICK d \in D : \A y \in D : d <= y
  BY <1>1, LeastNumber
<1>3. PICK x \in S : d = a - x
  OBVIOUS
<1>4. \A y \in S : x >= y
  <2> SUFFICES ASSUME NEW y \in S PROVE x >= y
    OBVIOUS
  <2>1. a - y \in D /\ x \in Nat /\ y \in Nat
    OBVIOUS
  <2>2. a - x <= a - y
    BY <1>2, <1>3, <2>1
  <2> QED BY <2>1, <2>2
<1> QED BY <1>4 DEF Max

\* A burn lasts at least a turn, and no longer than there is fuel.
LEMMA TurnsFacts ==
    ASSUME NEW otyp, NEW age \in Int
    PROVE  /\ Turns(otyp, age) \in Int
           /\ age > 0 => Turns(otyp, age) > 0 /\ Turns(otyp, age) <= age
<1> DEFINE below == {m \in MagicTimes(otyp) : m < age}
<1>1. MagicTimes(otyp) \subseteq Nat \ {0}
  BY NumberAssumption DEF MagicTimes
<1>2. CASE below = {}
  BY <1>2 DEF Turns
<1>3. CASE below # {}
  <2>1. Max(below) \in below
    BY <1>1, <1>3, MaxBelow
  <2>2. Turns(otyp, age) = age - Max(below)
    BY <1>3 DEF Turns
  <2> HIDE DEF below
  <2>3. Max(below) \in Nat \ {0} /\ Max(below) < age
    BY <1>1, <2>1 DEF below
  <2> QED BY <2>2, <2>3
<1> QED BY <1>2, <1>3

\* V is W but for the struct and the lights of o.
Only(W, V, o) ==
    /\ V \in Worlds /\ V.impossible = FALSE
    /\ \A p \in ObjId : p # o => V.obj[p] = W.obj[p] /\ V.light_base[p] = W.light_base[p]

\* start_timer.
LEMMA StartTimerIs ==
    ASSUME NEW W \in Worlds, W.impossible = FALSE, NEW o \in ObjId, NEW when \in Int,
           NEW func \in Func, monstermoves \in Int
    PROVE  LET V == StartTimer(W, when, func, o)
               t == [timeout |-> monstermoves + when, func |-> func, arg |-> o]
           IN  /\ t \in Timer /\ Only(W, V, o)
               /\ V.timer_base = W.timer_base \cup {t}
               /\ V.obj[o] = [W.obj[o] EXCEPT !.timed = @ + 1]
               /\ V.light_base = W.light_base
<1> DEFINE t == [timeout |-> monstermoves + when, func |-> func, arg |-> o]
           r == [W.obj[o] EXCEPT !.timed = @ + 1]
           U == [W EXCEPT !.timer_base = W.timer_base \cup {t}]
           V == StartTimer(W, when, func, o)
<1>1. t \in Timer
  BY DEF Timer
<1>2. r \in Obj
  <2>1. W.obj[o].timed + 1 \in Int
    BY WorldFields, ObjFields
  <2> QED BY <2>1, WorldFields, Structs
<1>3. V = [U EXCEPT !.obj = [W.obj EXCEPT ![o] = r]]
  BY DEF StartTimer, Worlds
<1> HIDE DEF t, r, V
<1>4. Is(U, W.obj, W.timer_base \cup {t}, W.light_base)
  BY <1>1 DEF Is, Worlds
<1> HIDE DEF U
<1>5. Is(V, [W.obj EXCEPT ![o] = r], W.timer_base \cup {t}, W.light_base)
  BY <1>2, <1>3, <1>4, ObjectIs
<1>6. /\ Only(W, V, o) /\ V.timer_base = W.timer_base \cup {t}
      /\ V.obj[o] = r /\ V.light_base = W.light_base
  BY <1>5 DEF Is, Only, Worlds
<1> QED BY <1>1, <1>6 DEF t, r, V

\* The struct of o is replaced.
LEMMA StructIs ==
    ASSUME NEW W \in Worlds, W.impossible = FALSE, NEW o \in ObjId, NEW r \in Obj
    PROVE  LET V == [W EXCEPT !.obj = [W.obj EXCEPT ![o] = r]]
           IN  /\ Only(W, V, o) /\ V.obj[o] = r
               /\ V.timer_base = W.timer_base /\ V.light_base = W.light_base
BY DEF Only, Worlds

\* An object lights up.
LEMMA LitIs ==
    ASSUME NEW W \in Worlds, W.impossible = FALSE, NEW o \in ObjId
    PROVE  LET V == [W EXCEPT !.obj[o].lamplit = TRUE]
           IN  /\ Only(W, V, o) /\ V.obj[o] = [W.obj[o] EXCEPT !.lamplit = TRUE]
               /\ V.timer_base = W.timer_base /\ V.light_base = W.light_base
<1> DEFINE r == [W.obj[o] EXCEPT !.lamplit = TRUE]
           V == [W EXCEPT !.obj[o].lamplit = TRUE]
<1>1. r \in Obj
  BY WorldFields, Structs
<1>2. V = [W EXCEPT !.obj = [W.obj EXCEPT ![o] = r]]
  BY DEF Worlds
<1> HIDE DEF r, V
<1>3. /\ Only(W, V, o) /\ V.obj[o] = r
      /\ V.timer_base = W.timer_base /\ V.light_base = W.light_base
  BY <1>1, <1>2, StructIs
<1> QED BY <1>3 DEF r, V

\* The age of an object changes.
LEMMA AgeIs ==
    ASSUME NEW W \in Worlds, W.impossible = FALSE, NEW o \in ObjId, NEW a \in Int
    PROVE  LET V == [W EXCEPT !.obj[o].age = a]
           IN  /\ Only(W, V, o) /\ V.obj[o] = [W.obj[o] EXCEPT !.age = a]
               /\ V.timer_base = W.timer_base /\ V.light_base = W.light_base
<1> DEFINE r == [W.obj[o] EXCEPT !.age = a]
           V == [W EXCEPT !.obj[o].age = a]
<1>1. r \in Obj
  BY WorldFields, Structs
<1>2. V = [W EXCEPT !.obj = [W.obj EXCEPT ![o] = r]]
  BY DEF Worlds
<1> HIDE DEF r, V
<1>3. /\ Only(W, V, o) /\ V.obj[o] = r
      /\ V.timer_base = W.timer_base /\ V.light_base = W.light_base
  BY <1>1, <1>2, StructIs
<1> QED BY <1>3 DEF r, V

\* new_light_source.
LEMMA NewLightSourceIs ==
    ASSUME NEW W \in Worlds, W.impossible = FALSE, NEW o \in ObjId
    PROVE  LET V == NewLightSource(W, o)
           IN  /\ Only(W, V, o) /\ V.obj = W.obj /\ V.timer_base = W.timer_base
               /\ V.light_base[o] = W.light_base[o] + 1
BY DEF NewLightSource, Only, Worlds

\* One step after another, at one object.
LEMMA OnlyAgain ==
    ASSUME NEW W, NEW V, NEW U, NEW o, Only(W, V, o), Only(V, U, o)
    PROVE  Only(W, U, o)
BY DEF Only

\* A change of one object that keeps the timers of others.
LEMMA OnlyRest ==
    ASSUME NEW W, NEW V, NEW o, Only(W, V, o),
           \A p \in ObjId : p # o => Of(V.timer_base, p) = Of(W.timer_base, p)
    PROVE  Rest(W, V, {o})
BY DEF Only, Rest

\* begin_burn on what is no magic lamp, without the light source.
LEMMA FlameIs ==
    ASSUME NEW W \in Worlds, W.impossible = FALSE, NEW o \in ObjId, NEW turns \in Int,
           monstermoves \in Int
    PROVE  LET A == StartTimer(W, turns, "BURN_OBJECT", o)
               B == [A EXCEPT !.obj[o].age = @ - turns]
               V == [B EXCEPT !.obj[o].lamplit = TRUE]
               t == [timeout |-> monstermoves + turns, func |-> "BURN_OBJECT", arg |-> o]
           IN  /\ t \in Timer /\ Only(W, V, o)
               /\ V.timer_base = W.timer_base \cup {t}
               /\ V.light_base = W.light_base
               /\ Still(W.obj[o], V.obj[o]) /\ V.obj[o].lamplit = TRUE
               /\ V.obj[o].timed = W.obj[o].timed + 1
               /\ V.obj[o].age = W.obj[o].age - turns
<1> DEFINE A == StartTimer(W, turns, "BURN_OBJECT", o)
           B == [A EXCEPT !.obj[o].age = @ - turns]
           V == [B EXCEPT !.obj[o].lamplit = TRUE]
           t == [timeout |-> monstermoves + turns, func |-> "BURN_OBJECT", arg |-> o]
<1>1. /\ t \in Timer /\ Only(W, A, o) /\ A.timer_base = W.timer_base \cup {t}
      /\ A.obj[o] = [W.obj[o] EXCEPT !.timed = @ + 1]
      /\ A.light_base = W.light_base
  BY StartTimerIs DEF Func
<1> HIDE DEF A, t
<1>2. A \in Worlds /\ A.impossible = FALSE /\ A.obj[o].age - turns \in Int
  BY <1>1, WorldFields, ObjFields DEF Only
<1>3. B = [A EXCEPT !.obj[o].age = A.obj[o].age - turns]
  BY <1>2 DEF Worlds
<1> HIDE DEF B
<1>4. /\ Only(A, B, o) /\ B.obj[o] = [A.obj[o] EXCEPT !.age = A.obj[o].age - turns]
      /\ B.timer_base = A.timer_base /\ B.light_base = A.light_base
  BY <1>2, <1>3, AgeIs
<1>5. /\ Only(B, V, o) /\ V.obj[o] = [B.obj[o] EXCEPT !.lamplit = TRUE]
      /\ V.timer_base = B.timer_base /\ V.light_base = B.light_base
  BY <1>4, LitIs DEF Only
<1> HIDE DEF V
<1>6. W.obj[o] \in Obj /\ A.obj[o] \in Obj /\ B.obj[o] \in Obj
  BY <1>2, <1>4, WorldFields DEF Only
<1>7. /\ Still(W.obj[o], A.obj[o]) /\ A.obj[o].timed = W.obj[o].timed + 1
      /\ A.obj[o].age = W.obj[o].age
  BY <1>1, <1>6 DEF Obj, Still
<1>8. /\ Still(A.obj[o], B.obj[o]) /\ B.obj[o].timed = A.obj[o].timed
      /\ B.obj[o].age = A.obj[o].age - turns
  BY <1>4, <1>6 DEF Obj, Still
<1>9. /\ Still(B.obj[o], V.obj[o]) /\ V.obj[o].timed = B.obj[o].timed
      /\ V.obj[o].age = B.obj[o].age /\ V.obj[o].lamplit = TRUE
  BY <1>5, <1>6 DEF Obj, Still
<1>10. Still(W.obj[o], V.obj[o])
  BY <1>7, <1>8, <1>9 DEF Still
<1>11. Only(W, V, o)
  BY <1>1, <1>4, <1>5, OnlyAgain
<1> QED BY <1>1, <1>4, <1>5, <1>7, <1>8, <1>9, <1>10, <1>11 DEF A, B, V, t

\* The account of an object that has got a burn timer.
LEMMA GoneLit ==
    ASSUME NEW r \in Obj, NEW s \in Obj, NEW T, NEW n, NEW t \in Timer,
           Balanced(r, T, n, FALSE), t.func = "BURN_OBJECT",
           r.where \notin {"FREE", "ONBILL"}, r.otyp # "MAGIC_LAMP",
           Still(r, s), s.lamplit = TRUE, s.timed = r.timed + 1,
           PrayerTurns = 0 /\ r.where # "ONBILL" => s.age >= 0
    PROVE  Agrees(s, T \cup {t}, 1)
<1>1. ~HasBurn(T) /\ HasBurn(T \cup {t}) /\ (HasRot(T \cup {t}) <=> HasRot(T))
  BY DEF Balanced, HasBurn, HasRot
<1>2. s.timed = Num(HasBurn(T \cup {t})) + Num(HasRot(T \cup {t}))
  BY <1>1 DEF Balanced, Num
<1>3. Whole(s)
  BY DEF Balanced, Whole, Still
<1>4. \A u, v \in T \cup {t} : u.func = v.func => u = v
  BY <1>1 DEF Balanced, HasBurn
<1> QED BY <1>1, <1>2, <1>3, <1>4 DEF Agrees, Balanced, Still, Num

\* What begin_burn expects: a dark object whose position is known, or a lit
\* one whose timer has just run out and which is not empty.
Ready(W, o, already_lit) ==
    LET r == W.obj[o]
    IN  IF already_lit THEN Spent(W, o) /\ r.age # 0
        ELSE /\ InMem(W, o) /\ ~r.lamplit
             /\ r.where \notin {"FREE", "MIGRATING", "ONBILL"}

\* begin_burn.
LEMMA BeginBurnKeeps ==
    ASSUME NEW W \in Worlds, W.impossible = FALSE, NEW o \in ObjId, NEW already_lit,
           already_lit \in BOOLEAN, Ready(W, o, already_lit), monstermoves \in Int
    PROVE  LET V == BeginBurn(W, o, already_lit)
           IN  Rest(W, V, {o}) /\ InMem(V, o) /\ Still(W.obj[o], V.obj[o])
<1> DEFINE V  == BeginBurn(W, o, already_lit)
           R  == W.obj[o]
           T  == Of(W.timer_base, o)
           n  == W.light_base[o]
           k  == Turns(R.otyp, R.age)
           t  == [timeout |-> monstermoves + k, func |-> "BURN_OBJECT", arg |-> o]
           W1 == IF R.otyp = "MAGIC_LAMP" THEN W
                 ELSE [StartTimer(W, k, "BURN_OBJECT", o) EXCEPT !.obj[o].age = @ - k]
           W2 == [W1 EXCEPT !.obj[o].lamplit = TRUE]
           U  == IF already_lit THEN W2 ELSE NewLightSource(W2, o)
<1>1. /\ R \in Obj /\ ~Away(R) /\ Balanced(R, T, n, FALSE) /\ Timely(T)
      /\ n = Num(already_lit) /\ (already_lit => R.otyp # "MAGIC_LAMP")
      /\ R.where \notin {"FREE", "ONBILL"}
  BY WorldFields DEF Ready, Spent, InMem, Agrees, Balanced, Num
<1>2. CASE R.age = 0 /\ R.otyp # "MAGIC_LAMP"
  <2>1. V = W /\ ~already_lit
    BY <1>2 DEF BeginBurn, Ready
  <2>2. Rest(W, W, {o}) /\ InMem(W, o) /\ Still(W.obj[o], W.obj[o])
    BY <2>1 DEF Rest, Still, Ready
  <2> QED BY <2>1, <2>2
<1>3. CASE ~(R.age = 0 /\ R.otyp # "MAGIC_LAMP")
  <2>1. V = U
    <3>1. ~already_lit => R.where \notin {"FREE", "MIGRATING", "ONBILL"}
      BY DEF Ready
    <3>2. V = IF R.age = 0 /\ R.otyp # "MAGIC_LAMP" THEN W
              ELSE IF already_lit THEN W2
              ELSE IF R.where \in {"FREE", "MIGRATING", "ONBILL"} THEN Impossible(W2)
              ELSE NewLightSource(W2, o)
      BY DEF BeginBurn
    <3> HIDE DEF V, W2
    <3> QED BY <1>3, <3>1, <3>2
  <2>2. /\ W2 \in Worlds /\ Only(W, W2, o) /\ W2.light_base = W.light_base
        /\ \A p \in ObjId : p # o => Of(W2.timer_base, p) = Of(W.timer_base, p)
        /\ ~Away(W2.obj[o]) /\ Timely(Of(W2.timer_base, o))
        /\ Agrees(W2.obj[o], Of(W2.timer_base, o), 1)
        /\ Still(R, W2.obj[o])
    <3>1. CASE R.otyp = "MAGIC_LAMP"
      <4> DEFINE r == [R EXCEPT !.lamplit = TRUE]
                 X == [W EXCEPT !.obj[o].lamplit = TRUE]
      <4>1. W2 = X
        BY <3>1
      <4>2. /\ Only(W, X, o) /\ X.obj[o] = r
            /\ X.timer_base = W.timer_base /\ X.light_base = W.light_base
        BY LitIs
      <4>3. r \in Obj /\ Still(R, r) /\ r.lamplit = TRUE /\ r.timed = R.timed /\ r.age = R.age
        BY <1>1, Structs DEF Still, Obj
      <4> HIDE DEF r, X, W2
      <4>4. Agrees(r, T, 1)
        <5> HIDE DEF R, T, n
        <5> QED BY <1>1, <3>1, <4>3 DEF Agrees, Balanced, Whole, Still, Num
      <4>5. ~Away(r)
        <5> HIDE DEF R
        <5> QED BY <1>1, <4>3 DEF Away, Still
      <4> QED BY <1>1, <4>1, <4>2, <4>3, <4>4, <4>5 DEF Only
    <3>2. CASE R.otyp # "MAGIC_LAMP"
      <4> DEFINE X == [[StartTimer(W, k, "BURN_OBJECT", o) EXCEPT !.obj[o].age = @ - k]
                          EXCEPT !.obj[o].lamplit = TRUE]
                 r == X.obj[o]
      <4>1. W2 = X
        BY <3>2
      <4>2. k \in Int /\ (R.age > 0 => k > 0 /\ k <= R.age)
        BY <1>1, TurnsFacts, ObjFields
      <4> HIDE DEF k
      <4>3. /\ t \in Timer /\ Only(W, X, o)
            /\ X.timer_base = W.timer_base \cup {t} /\ X.light_base = W.light_base
            /\ Still(R, r) /\ r.lamplit = TRUE
            /\ r.timed = R.timed + 1 /\ r.age = R.age - k
        <5>1. LET A == StartTimer(W, k, "BURN_OBJECT", o)
                  B == [A EXCEPT !.obj[o].age = @ - k]
                  Y == [B EXCEPT !.obj[o].lamplit = TRUE]
                  u == [timeout |-> monstermoves + k, func |-> "BURN_OBJECT", arg |-> o]
              IN  /\ u \in Timer /\ Only(W, Y, o)
                  /\ Y.timer_base = W.timer_base \cup {u}
                  /\ Y.light_base = W.light_base
                  /\ Still(W.obj[o], Y.obj[o]) /\ Y.obj[o].lamplit = TRUE
                  /\ Y.obj[o].timed = W.obj[o].timed + 1
                  /\ Y.obj[o].age = W.obj[o].age - k
          BY <4>2, FlameIs
        <5> QED BY <5>1, Zenon
      <4> HIDE DEF X, W2
      <4>4. r \in Obj /\ t.func = "BURN_OBJECT" /\ t.arg = o /\ t.timeout = monstermoves + k
        BY <4>3, WorldFields DEF Only
      <4> HIDE DEF t
      <4>5. /\ Of(X.timer_base, o) = T \cup {t}
            /\ \A p \in ObjId : p # o => Of(X.timer_base, p) = Of(W.timer_base, p)
        <5>1. /\ Of(W.timer_base \cup {t}, o) = Of(W.timer_base, o) \cup {t}
              /\ \A p : p # o => Of(W.timer_base \cup {t}, p) = Of(W.timer_base, p)
          BY <4>4 DEF Of
        <5> QED BY <4>3, <5>1
      <4> HIDE DEF R, T, n, r
      <4>6. PrayerTurns = 0 /\ R.where # "ONBILL" => R.age > 0
        BY <1>1, <1>3, <3>2, ObjFields DEF Balanced, Whole
      <4>7. PrayerTurns = 0 /\ R.where # "ONBILL" => r.age >= 0
        BY <1>1, <4>2, <4>3, <4>6, ObjFields
      <4>8. Agrees(r, T \cup {t}, 1)
        BY <1>1, <3>2, <4>3, <4>4, <4>7, GoneLit
      <4>9. ~Away(r)
        BY <1>1, <4>3 DEF Away, Still
      <4>10. Timely(T \cup {t})
        <5>1. PrayerTurns = 0 => t.timeout > monstermoves
          BY <1>1, <4>2, <4>4, <4>6
        <5> QED BY <1>1, <5>1 DEF Timely
      <4> QED BY <4>1, <4>3, <4>5, <4>8, <4>9, <4>10 DEF r, Only
    <3> QED BY <3>1, <3>2
  <2>3. CASE already_lit
    <3>1. U = W2 /\ n = 1
      BY <1>1, <2>3 DEF Num
    <3> HIDE DEF W2, U, V
    <3>2. Rest(W, W2, {o})
      BY <2>2, OnlyRest
    <3>3. InMem(W2, o)
      BY <2>2, <3>1 DEF InMem
    <3> QED BY <2>1, <2>2, <3>1, <3>2, <3>3 DEF V
  <2>4. CASE ~already_lit
    <3>1. U = NewLightSource(W2, o) /\ n = 0
      BY <1>1, <2>4 DEF Num
    <3> HIDE DEF W2, U, V
    <3>2. /\ Only(W2, U, o) /\ U.obj = W2.obj /\ U.timer_base = W2.timer_base
          /\ U.light_base[o] = W2.light_base[o] + 1
      <4>1. W2 \in Worlds /\ W2.impossible = FALSE
        BY <2>2 DEF Only
      <4> QED BY <3>1, <4>1, NewLightSourceIs
    <3>3. Only(W, U, o)
      BY <2>2, <3>2, OnlyAgain
    <3>4. Rest(W, U, {o})
      BY <2>2, <3>2, <3>3, OnlyRest
    <3>5. U.light_base[o] = 1
      BY <2>2, <3>1, <3>2
    <3>6. InMem(U, o)
      BY <2>2, <3>2, <3>5 DEF InMem
    <3> QED BY <2>1, <2>2, <3>2, <3>4, <3>6 DEF V
  <2> QED BY <2>3, <2>4
<1> QED BY <1>2, <1>3

\* An object without a timer counts none, and the other way round.
LEMMA NoTimers ==
    ASSUME NEW r, NEW T, NEW n, NEW burn, Balanced(r, T, n, burn)
    PROVE  r.timed = 0 <=> T = {}
<1>1. \A t \in T : t.func = "BURN_OBJECT" \/ t.func = "ROT_ORGANIC"
  BY TimerFields DEF Balanced, Func
<1> QED BY <1>1 DEF Balanced, HasBurn, HasRot, Num

\* The level the game starts on, and the struct of what does not exist.
LEMMA FreedFacts ==
    /\ NoLev \in Level /\ Freed \in Obj
    /\ Freed.where = "FREE" /\ Freed.quan = 1 /\ Freed.lamplit = FALSE
    /\ Freed.unpaid = FALSE /\ Freed.timed = 0 /\ Freed.age = 0
    /\ Freed.otyp = "POT_OIL"
<1>1. NoLev \in Level
  BY LevelAssumption DEF NoLev
<1> HIDE DEF NoLev
<1> QED BY <1>1 DEF Freed, Obj, Otyp, Where, Lamps

\* obj_stop_timers, called if the object counts any.
LEMMA StopAll ==
    ASSUME NEW W \in Worlds, W.impossible = FALSE, NEW o \in ObjId, InMem(W, o),
           monstermoves \in Int
    PROVE  LET V == IF W.obj[o].timed # 0 THEN ObjStopTimers(W, o) ELSE W
           IN  /\ Rest(W, V, {o}) /\ Still(W.obj[o], V.obj[o])
               /\ Of(V.timer_base, o) = {} /\ V.obj[o].timed = 0
               /\ V.obj[o].lamplit = (W.obj[o].lamplit /\ W.obj[o].otyp = "MAGIC_LAMP")
               /\ V.light_base[o] = Num(V.obj[o].lamplit)
<1> DEFINE R == W.obj[o]
           T == Of(W.timer_base, o)
           n == W.light_base[o]
           S == {t \in W.timer_base : t.arg # o}
           q == [R EXCEPT !.timed = 0]
           W1 == [W EXCEPT !.timer_base = {t \in @ : t.arg # o}, !.obj[o].timed = 0]
           lit == R.lamplit /\ R.otyp # "MAGIC_LAMP"
<1>1. R \in Obj /\ R.lamplit \in BOOLEAN /\ Balanced(R, T, n, lit) /\ n = Num(R.lamplit)
  BY WorldFields, ObjFields DEF InMem, Agrees, Balanced
<1>2. CASE R.timed = 0
  <2>1. T = {} /\ ~lit
    <3>1. T = {}
      BY <1>1, <1>2, NoTimers
    <3> QED BY <1>1, <3>1 DEF Balanced, HasBurn
  <2> QED BY <1>1, <1>2, <2>1 DEF Rest, Still
<1>3. CASE R.timed # 0
  <2>1. q \in Obj /\ Still(R, q) /\ q.timed = 0 /\ q.lamplit = R.lamplit /\ q.age = R.age
    <3>1. q \in Obj
      BY <1>1 DEF Obj
    <3> QED BY <1>1, <3>1 DEF Still, Obj
  <2>2. Is(W1, [W.obj EXCEPT ![o] = q], S, W.light_base)
    <3> DEFINE U == [W EXCEPT !.timer_base = S]
    <3>1. W1 = [U EXCEPT !.obj = [W.obj EXCEPT ![o] = q]]
      BY DEF Worlds
    <3>2. Is(U, W.obj, S, W.light_base)
      BY DEF Is, Worlds
    <3> HIDE DEF U, S, q, W1
    <3> QED BY <2>1, <3>1, <3>2, ObjectIs
  <2>3. \A p \in ObjId : p # o => Of(S, p) = Of(W.timer_base, p)
    BY DEF Of
  <2>4. Of(S, o) = {}
    BY OfFacts
  <2>5. W1.obj[o] = q /\ W1.light_base = W.light_base
    <3> HIDE DEF q, W1
    <3> QED BY <2>2 DEF Is, Worlds
  <2>6. CASE ~lit
    <3>1. TimersOf(W, "BURN_OBJECT", o) = {}
      BY <1>1, <2>6, NoBurnTimer
    <3>2. ObjStopTimers(W, o) = W1
      BY <3>1 DEF ObjStopTimers
    <3> HIDE DEF W1, q, S
    <3>3. Rest(W, W1, {o})
      <4>1. W.light_base = [W.light_base EXCEPT ![o] = n]
        BY DEF Worlds
      <4>2. Is(W1, [W.obj EXCEPT ![o] = q], S, [W.light_base EXCEPT ![o] = n])
        BY <2>2, <4>1
      <4> QED BY <2>3, <4>2, OneObject
    <3>4. /\ Still(R, W1.obj[o]) /\ Of(W1.timer_base, o) = {} /\ W1.obj[o].timed = 0
          /\ W1.obj[o].lamplit = (R.lamplit /\ R.otyp = "MAGIC_LAMP")
          /\ W1.light_base[o] = Num(W1.obj[o].lamplit)
      BY <1>1, <2>1, <2>2, <2>4, <2>5, <2>6 DEF Is
    <3> QED BY <1>3, <3>2, <3>3, <3>4
  <2>7. CASE lit
    <3>1. PICK t \in T : t \in Timer /\ TimersOf(W, "BURN_OBJECT", o) = {t}
      <4>1. Balanced(R, T, n, TRUE)
        BY <1>1, <2>7
      <4> QED BY <4>1, BurnTimer
    <3> DEFINE V == CleanupBurn(W1, o, t.timeout)
               x == [W1.obj[o] EXCEPT !.age = @ + t.timeout - monstermoves,
                                      !.lamplit = FALSE]
    <3>2. ObjStopTimers(W, o) = V
      <4>1. (CHOOSE u \in TimersOf(W, "BURN_OBJECT", o) : TRUE) = t
        BY <3>1
      <4> QED BY <3>1, <4>1 DEF ObjStopTimers
    <3> HIDE DEF W1, q, S
    <3>3. x \in Obj /\ Is(V, [W1.obj EXCEPT ![o] = x], S, [W.light_base EXCEPT ![o] = 0])
      <4>1. /\ W1 \in Worlds /\ W1.light_base[o] = 1 /\ W1.impossible = FALSE
            /\ W1.obj[o].lamplit /\ t.timeout \in Int /\ W1.timer_base = S
        BY <1>1, <2>1, <2>2, <2>5, <2>7, <3>1, TimerFields DEF Is, Num
      <4>2. LET y == [W1.obj[o] EXCEPT !.age = @ + t.timeout - monstermoves,
                                       !.lamplit = FALSE]
            IN  /\ y \in Obj
                /\ Is(CleanupBurn(W1, o, t.timeout), [W1.obj EXCEPT ![o] = y],
                      W1.timer_base, [W1.light_base EXCEPT ![o] = 0])
        BY <4>1, CleanupBurnIs
      <4> QED BY <2>5, <4>1, <4>2
    <3>4. Still(q, x) /\ x.timed = q.timed /\ x.lamplit = FALSE
      BY <2>1, <2>5 DEF Still, Obj
    <3> HIDE DEF x, V
    <3>5. [W1.obj EXCEPT ![o] = x] = [W.obj EXCEPT ![o] = x]
      BY <2>2 DEF Is, Worlds
    <3>6. Rest(W, V, {o})
      BY <2>3, <3>3, <3>5, OneObject
    <3>7. V.obj[o] = x /\ V.light_base[o] = 0 /\ V.timer_base = S
      BY <3>3, <3>5 DEF Is, Worlds
    <3>8. Still(R, x)
      BY <2>1, <3>4 DEF Still
    <3> QED BY <1>3, <2>1, <2>4, <2>7, <3>2, <3>4, <3>6, <3>7, <3>8 DEF Num
  <2> QED BY <2>6, <2>7
<1> QED BY <1>2, <1>3

\* What is freed, or dark and without timers, is accounted for.
LEMMA BareIsInMem ==
    ASSUME NEW W \in Worlds, NEW o \in ObjId, ~Away(W.obj[o]), Whole(W.obj[o]),
           W.obj[o].lamplit = FALSE, W.obj[o].timed = 0, W.light_base[o] = 0,
           Of(W.timer_base, o) = {}
    PROVE  InMem(W, o)
BY DEF InMem, Agrees, Balanced, HasBurn, HasRot, Num, Timely

\* dealloc_obj.
LEMMA DeallocObjKeeps ==
    ASSUME NEW W \in Worlds, W.impossible = FALSE, NEW o \in ObjId, InMem(W, o),
           monstermoves \in Int
    PROVE  LET V == DeallocObj(W, o)
           IN  Rest(W, V, {o}) /\ InMem(V, o) /\ V.obj[o] = Freed
<1> DEFINE W1 == IF W.obj[o].timed # 0 THEN ObjStopTimers(W, o) ELSE W
           W2 == IF W1.obj[o].lamplit THEN DelLightSource(W1, o) ELSE W1
           V  == [W2 EXCEPT !.obj[o] = Freed]
<1>1. /\ Rest(W, W1, {o}) /\ Of(W1.timer_base, o) = {}
      /\ W1.light_base[o] = Num(W1.obj[o].lamplit)
  BY StopAll
<1>2. DeallocObj(W, o) = V
  BY DEF DeallocObj
<1> HIDE DEF W1
<1>3. W1 \in Worlds /\ W1.impossible = FALSE
  BY <1>1 DEF Rest
<1>4. Is(W2, W1.obj, W1.timer_base, [W1.light_base EXCEPT ![o] = 0])
  <2>1. CASE W1.obj[o].lamplit
    <3>1. W1.light_base[o] = 1
      BY <1>1, <2>1 DEF Num
    <3> QED BY <1>3, <2>1, <3>1, DelLightSourceIs
  <2>2. CASE ~W1.obj[o].lamplit
    <3>1. W1.light_base[o] = 0
      BY <1>1, <2>2 DEF Num
    <3>2. W1.light_base = [W1.light_base EXCEPT ![o] = 0]
      BY <1>3, <3>1 DEF Worlds
    <3> QED BY <1>3, <2>2, <3>2 DEF Is
  <2> QED BY <2>1, <2>2
<1> HIDE DEF W2
<1>5. Is(V, [W1.obj EXCEPT ![o] = Freed], W1.timer_base, [W1.light_base EXCEPT ![o] = 0])
  BY <1>4, FreedFacts, ObjectIs
<1> HIDE DEF V
<1>6. Rest(W1, V, {o})
  <2>1. \A p \in ObjId : p # o => Of(W1.timer_base, p) = Of(W1.timer_base, p)
    OBVIOUS
  <2> QED BY <1>3, <1>5, <2>1, OneObject
<1>7. Rest(W, V, {o})
  BY <1>1, <1>6, Compose
<1>8. /\ V \in Worlds /\ V.obj[o] = Freed /\ V.light_base[o] = 0
      /\ Of(V.timer_base, o) = {}
  BY <1>1, <1>3, <1>5 DEF Is, Worlds
<1>9. Whole(Freed) /\ ~Away(Freed)
  BY FreedFacts DEF Whole, Away
<1>10. InMem(V, o)
  BY <1>8, <1>9, FreedFacts, BareIsInMem
<1> QED BY <1>2, <1>7, <1>8, <1>10 DEF V

\* obj_extract_self and place_object, add_to_minv and their like.
LEMMA PutIs ==
    ASSUME NEW W \in Worlds, W.impossible = FALSE, NEW o \in ObjId,
           NEW where \in Where, NEW l \in Level
    PROVE  LET V == Put(W, o, where, l)
           IN  /\ Only(W, V, o) /\ V.timer_base = W.timer_base
               /\ V.light_base = W.light_base
               /\ V.obj[o] = [W.obj[o] EXCEPT !.where = where, !.lev = l]
<1> DEFINE r == [W.obj[o] EXCEPT !.where = where, !.lev = l]
           V == Put(W, o, where, l)
<1>1. r \in Obj
  BY WorldFields, Structs
<1>2. V = [W EXCEPT !.obj = [W.obj EXCEPT ![o] = r]]
  BY DEF Put, Worlds
<1> HIDE DEF r, V
<1>3. /\ Only(W, V, o) /\ V.obj[o] = r
      /\ V.timer_base = W.timer_base /\ V.light_base = W.light_base
  BY <1>1, <1>2, StructIs
<1> QED BY <1>3 DEF r, V

\* A debt is cleared or made.
LEMMA PaidIs ==
    ASSUME NEW W \in Worlds, W.impossible = FALSE, NEW o \in ObjId, NEW b \in BOOLEAN
    PROVE  LET V == [W EXCEPT !.obj[o].unpaid = b]
           IN  /\ Only(W, V, o) /\ V.timer_base = W.timer_base
               /\ V.light_base = W.light_base
               /\ V.obj[o] = [W.obj[o] EXCEPT !.unpaid = b]
<1> DEFINE r == [W.obj[o] EXCEPT !.unpaid = b]
           V == [W EXCEPT !.obj[o].unpaid = b]
<1>1. r \in Obj
  BY WorldFields, Structs
<1>2. V = [W EXCEPT !.obj = [W.obj EXCEPT ![o] = r]]
  BY DEF Worlds
<1> HIDE DEF r, V
<1>3. /\ Only(W, V, o) /\ V.obj[o] = r
      /\ V.timer_base = W.timer_base /\ V.light_base = W.light_base
  BY <1>1, <1>2, StructIs
<1> QED BY <1>3 DEF r, V

\* add_to_billobjs: what is on the bill is dark.
LEMMA AddToBillobjsKeeps ==
    ASSUME NEW W \in Worlds, W.impossible = FALSE, NEW o \in ObjId, InMem(W, o),
           W.obj[o].unpaid, monstermoves \in Int
    PROVE  LET V == AddToBillobjs(W, o)
           IN  Rest(W, V, {o}) /\ InMem(V, o) /\ V.obj[o].where = "ONBILL"
<1> DEFINE R  == W.obj[o]
           W1 == IF W.obj[o].timed # 0 THEN ObjStopTimers(W, o) ELSE W
           P  == Put(W1, o, "ONBILL", NoLev)
           V  == [P EXCEPT !.obj[o].unpaid = FALSE]
<1>1. /\ Rest(W, W1, {o}) /\ Still(R, W1.obj[o]) /\ Of(W1.timer_base, o) = {}
      /\ W1.obj[o].timed = 0
      /\ W1.obj[o].lamplit = (R.lamplit /\ R.otyp = "MAGIC_LAMP")
      /\ W1.light_base[o] = Num(W1.obj[o].lamplit)
  BY StopAll
<1>2. AddToBillobjs(W, o) = V
  BY DEF AddToBillobjs
<1>3. Whole(R) /\ R.otyp # "MAGIC_LAMP"
  BY DEF InMem, Agrees, Balanced, Whole
<1> HIDE DEF W1
<1>4. W1 \in Worlds /\ W1.impossible = FALSE /\ W1.obj[o] \in Obj
  BY <1>1, WorldFields DEF Rest
<1>5. /\ Only(W1, P, o) /\ P.timer_base = W1.timer_base /\ P.light_base = W1.light_base
      /\ P.obj[o] = [W1.obj[o] EXCEPT !.where = "ONBILL", !.lev = NoLev]
  <2>1. "ONBILL" \in Where /\ NoLev \in Level
    BY FreedFacts DEF Where
  <2>2. \A w \in Where, l \in Level :
           LET X == Put(W1, o, w, l)
           IN  /\ Only(W1, X, o) /\ X.timer_base = W1.timer_base
               /\ X.light_base = W1.light_base
               /\ X.obj[o] = [W1.obj[o] EXCEPT !.where = w, !.lev = l]
    BY <1>4, PutIs
  <2> QED BY <2>1, <2>2
<1> HIDE DEF P
<1>6. /\ Only(P, V, o) /\ V.timer_base = P.timer_base /\ V.light_base = P.light_base
      /\ V.obj[o] = [P.obj[o] EXCEPT !.unpaid = FALSE]
  <2>1. P \in Worlds /\ P.impossible = FALSE /\ FALSE \in BOOLEAN
    BY <1>5 DEF Only
  <2> QED BY <2>1, PaidIs, Zenon
<1> HIDE DEF V
<1>7. Rest(W, V, {o})
  <2>1. Only(W1, V, o)
    BY <1>5, <1>6, OnlyAgain
  <2>2. Rest(W1, V, {o})
    BY <1>5, <1>6, <2>1, OnlyRest
  <2> QED BY <1>1, <2>2, Compose
<1>8. P.obj[o] \in Obj /\ V.obj[o] \in Obj /\ V \in Worlds
  BY <1>5, <1>6, WorldFields DEF Only
<1>9. /\ V.obj[o].where = "ONBILL" /\ V.obj[o].unpaid = FALSE
      /\ V.obj[o].otyp = R.otyp /\ V.obj[o].quan = R.quan
      /\ V.obj[o].lamplit = FALSE /\ V.obj[o].timed = 0
  <2>1. /\ P.obj[o].where = "ONBILL" /\ P.obj[o].otyp = R.otyp
        /\ P.obj[o].quan = R.quan /\ P.obj[o].lamplit = FALSE /\ P.obj[o].timed = 0
    BY <1>1, <1>3, <1>4, <1>5 DEF Obj, Still
  <2> QED BY <1>6, <1>8, <2>1 DEF Obj
<1>10. Whole(V.obj[o]) /\ ~Away(V.obj[o])
  BY <1>3, <1>8, <1>9 DEF Whole, Away
<1>11. V.light_base[o] = 0 /\ Of(V.timer_base, o) = {}
  BY <1>1, <1>3, <1>5, <1>6 DEF Num
<1>12. InMem(V, o)
  BY <1>8, <1>9, <1>10, <1>11, BareIsInMem
<1> QED BY <1>2, <1>7, <1>9, <1>12 DEF V

\* obfree.
LEMMA ObfreeKeeps ==
    ASSUME NEW W \in Worlds, W.impossible = FALSE, NEW o \in ObjId, InMem(W, o),
           monstermoves \in Int
    PROVE  /\ Rest(W, Obfree(W, o), {o}) /\ InMem(Obfree(W, o), o)
           /\ Obfree(W, o).obj[o].where \in {"FREE", "ONBILL"}
BY AddToBillobjsKeeps, DeallocObjKeeps, FreedFacts DEF Obfree

\* A change of a struct that its account does not mind.
LEMMA SameAccount ==
    ASSUME NEW W, NEW V, NEW o \in ObjId, InMem(W, o), Only(W, V, o),
           V.timer_base = W.timer_base, V.light_base = W.light_base,
           Whole(V.obj[o]), ~Away(V.obj[o]),
           V.obj[o].lamplit = W.obj[o].lamplit, V.obj[o].timed = W.obj[o].timed,
           V.obj[o].otyp = "MAGIC_LAMP" <=> W.obj[o].otyp = "MAGIC_LAMP",
           V.obj[o].where \in {"FREE", "ONBILL"} => ~W.obj[o].lamplit,
           \/ V.obj[o].where = "BURIED" /\ V.obj[o].otyp = W.obj[o].otyp
           \/ ~HasRot(Of(W.timer_base, o))
    PROVE  Rest(W, V, {o}) /\ InMem(V, o)
<1>1. Rest(W, V, {o})
  BY OnlyRest
<1>2. InMem(V, o)
  BY DEF InMem, Agrees, Balanced
<1> QED BY <1>1, <1>2

\* useup.
LEMMA UseupKeeps ==
    ASSUME NEW W \in Worlds, W.impossible = FALSE, NEW o \in ObjId, InMem(W, o),
           monstermoves \in Int
    PROVE  Rest(W, Useup(W, o), {o}) /\ InMem(Useup(W, o), o)
<1> DEFINE R == W.obj[o]
           r == [R EXCEPT !.quan = R.quan - 1]
           V == [W EXCEPT !.obj[o].quan = @ - 1]
<1>1. CASE R.quan > 1
  <2>1. Useup(W, o) = V
    BY <1>1 DEF Useup
  <2>2. R \in Obj /\ R.quan \in Int /\ R.quan - 1 \in Int
    BY WorldFields, ObjFields
  <2>3. r \in Obj
    BY <2>2, Structs
  <2>4. V = [W EXCEPT !.obj = [W.obj EXCEPT ![o] = r]]
    BY DEF Worlds
  <2>5. /\ r.quan = R.quan - 1 /\ r.otyp = R.otyp /\ r.where = R.where /\ r.lev = R.lev
        /\ r.lamplit = R.lamplit /\ r.timed = R.timed /\ r.unpaid = R.unpaid
        /\ r.age = R.age
    BY <2>2 DEF Obj
  <2> HIDE DEF r, V
  <2>6. /\ Only(W, V, o) /\ V.obj[o] = r
        /\ V.timer_base = W.timer_base /\ V.light_base = W.light_base
    BY <2>3, <2>4, StructIs
  <2>7. Whole(r) /\ ~Away(r)
    <3>1. Whole(R) /\ ~Away(R)
      BY DEF InMem, Agrees, Balanced
    <3> QED BY <1>1, <2>2, <2>3, <2>5, <3>1 DEF Whole, Away
  <2>8. /\ R.where = "BURIED" \/ ~HasRot(Of(W.timer_base, o))
        /\ R.where \in {"FREE", "ONBILL"} => ~R.lamplit
    BY DEF InMem, Agrees, Balanced
  <2> QED BY <2>1, <2>5, <2>6, <2>7, <2>8, SameAccount
<1>2. CASE ~(R.quan > 1)
  BY <1>2, ObfreeKeeps DEF Useup
<1> QED BY <1>1, <1>2

\* Timers that differ in their functions are at most two.
LEMMA CountTimers ==
    ASSUME NEW T \in SUBSET Timer, \A t, u \in T : t.func = u.func => t = u
    PROVE  IsFiniteSet(T) /\ Cardinality(T) = Num(HasBurn(T)) + Num(HasRot(T))
<1>1. \A t \in T : t.func = "BURN_OBJECT" \/ t.func = "ROT_ORGANIC"
  BY TimerFields DEF Func
<1>2. CASE ~HasBurn(T) /\ ~HasRot(T)
  <2>1. T = {}
    BY <1>1, <1>2 DEF HasBurn, HasRot
  <2> QED BY <1>2, <2>1, FS_EmptySet DEF Num
<1>3. CASE HasBurn(T) /\ ~HasRot(T)
  <2>1. PICK t \in T : T = {t}
    BY <1>1, <1>3 DEF HasBurn, HasRot
  <2> QED BY <1>3, <2>1, FS_Singleton DEF Num
<1>4. CASE ~HasBurn(T) /\ HasRot(T)
  <2>1. PICK t \in T : T = {t}
    BY <1>1, <1>4 DEF HasBurn, HasRot
  <2> QED BY <1>4, <2>1, FS_Singleton DEF Num
<1>5. CASE HasBurn(T) /\ HasRot(T)
  <2>1. PICK t \in T, u \in T : t.func = "BURN_OBJECT" /\ u.func = "ROT_ORGANIC"
    BY <1>5 DEF HasBurn, HasRot
  <2>2. T = {t} \cup {u} /\ t # u
    BY <1>1, <2>1
  <2>3. IsFiniteSet({t}) /\ Cardinality({t}) = 1
    BY FS_Singleton
  <2>4. IsFiniteSet({t} \cup {u}) /\ Cardinality({t} \cup {u}) = 1 + 1
    BY <2>2, <2>3, FS_AddElement
  <2> QED BY <1>5, <2>2, <2>4 DEF Num
<1> QED BY <1>2, <1>3, <1>4, <1>5

\* What does not exist has no timers and no light.
LEMMA FreeIsBare ==
    ASSUME NEW W, NEW o, InMem(W, o), W.obj[o].where \in {"FREE", "ONBILL"}
    PROVE  /\ Of(W.timer_base, o) = {} /\ W.light_base[o] = 0
           /\ W.obj[o].timed = 0 /\ ~W.obj[o].lamplit
<1> DEFINE T == Of(W.timer_base, o)
           r == W.obj[o]
<1>1. Balanced(r, T, W.light_base[o], FALSE) /\ ~r.lamplit
  BY DEF InMem, Agrees, Balanced
<1>2. ~HasBurn(T) /\ ~HasRot(T)
  BY <1>1 DEF Balanced
<1>3. r.timed = 0
  <2> HIDE DEF T
  <2> QED BY <1>1, <1>2 DEF Balanced, Num
<1>4. T = {}
  BY <1>1, <1>3, NoTimers
<1> QED BY <1>1, <1>3, <1>4 DEF Balanced, Num

\* s is r, split or moved.
Alike(r, s) ==
    /\ s.otyp = r.otyp /\ s.where = r.where /\ s.lev = r.lev /\ s.spe = r.spe
    /\ s.unpaid = r.unpaid /\ s.lamplit = r.lamplit /\ s.age = r.age

\* The copies that obj_split_timers makes of the timers of o.
Copies(T, o, new) == {[t EXCEPT !.arg = new] : t \in {u \in T : u.arg = o}}

\* The timers of the copy are those of the original.
LEMMA CopiesFacts ==
    ASSUME NEW T \in SUBSET Timer, NEW o \in ObjId, NEW new \in ObjId,
           \A t, u \in Of(T, o) : t.func = u.func => t = u
    PROVE  LET C == Copies(T, o, new)
           IN  /\ C \in SUBSET Timer /\ \A c \in C : c.arg = new
               /\ \A c, d \in C : c.func = d.func => c = d
               /\ HasBurn(C) <=> HasBurn(Of(T, o))
               /\ HasRot(C) <=> HasRot(Of(T, o))
               /\ \A m : (\A t \in Of(T, o) : t.timeout > m)
                            => \A c \in C : c.timeout > m
<1> DEFINE C == Copies(T, o, new)
           copy(t) == [t EXCEPT !.arg = new]
<1>1. \A t \in Timer : /\ copy(t) \in Timer /\ copy(t).arg = new
                       /\ copy(t).func = t.func /\ copy(t).timeout = t.timeout
  BY DEF Timer
<1>2. \A c \in C : \E t \in Of(T, o) : t \in Timer /\ c = copy(t)
  BY DEF Of, Copies
<1>3. \A t \in Of(T, o) : t \in Timer /\ copy(t) \in C
  BY DEF Of, Copies
<1> HIDE DEF C, copy
<1>4. C \in SUBSET Timer /\ \A c \in C : c.arg = new
  BY <1>1, <1>2
<1>5. ASSUME NEW c \in C, NEW d \in C, c.func = d.func PROVE c = d
  BY <1>1, <1>2, <1>5
<1>6. (HasBurn(C) <=> HasBurn(Of(T, o))) /\ (HasRot(C) <=> HasRot(Of(T, o)))
  BY <1>1, <1>2, <1>3 DEF HasBurn, HasRot
<1>7. \A m : (\A t \in Of(T, o) : t.timeout > m) => \A c \in C : c.timeout > m
  BY <1>1, <1>2
<1> QED BY <1>4, <1>5, <1>6, <1>7 DEF C

\* splitobj, without the timers and the light sources.
Part(r, num) == [r EXCEPT !.quan = num, !.timed = 0, !.lamplit = FALSE]
Detached(W, o, num, new) ==
    [W EXCEPT !.obj[o].quan = @ - num, !.obj[new] = Part(W.obj[o], num)]

\* What it does to the structs.
LEMMA SplitStructs ==
    ASSUME NEW W \in Worlds, W.impossible = FALSE, NEW o \in ObjId, NEW new \in ObjId,
           o # new, NEW num \in Int
    PROVE  LET r == W.obj[o]
               V == Detached(W, o, num, new)
           IN  /\ V \in Worlds /\ V.impossible = FALSE
               /\ V.timer_base = W.timer_base /\ V.light_base = W.light_base
               /\ \A p \in ObjId : p \notin {o, new} => V.obj[p] = W.obj[p]
               /\ V.obj[o].quan = r.quan - num /\ V.obj[o].timed = r.timed
               /\ Alike(r, V.obj[o])
               /\ V.obj[new] = Part(r, num)
<1> DEFINE r == W.obj[o]
           q == [r EXCEPT !.quan = r.quan - num]
           s == Part(r, num)
           A == [W EXCEPT !.obj = [W.obj EXCEPT ![o] = q]]
           B == [A EXCEPT !.obj = [A.obj EXCEPT ![new] = s]]
           V == Detached(W, o, num, new)
<1>1. r \in Obj /\ r.quan - num \in Int
  BY WorldFields, ObjFields
<1>2. q \in Obj /\ s \in Obj
  <2>1. q \in Obj
    BY <1>1, Structs
  <2>2. s \in Obj
    <3> DEFINE x == [r EXCEPT !.quan = num]
    <3>1. x \in Obj
      BY <1>1, Structs
    <3> DEFINE y == [x EXCEPT !.timed = 0]
    <3>2. s = [y EXCEPT !.lamplit = FALSE]
      BY <1>1 DEF Obj, Part
    <3> HIDE DEF x
    <3>3. y \in Obj
      BY <3>1 DEF Obj
    <3> HIDE DEF y
    <3> QED BY <3>2, <3>3, Structs
  <2> QED BY <2>1, <2>2
<1>3. q.quan = r.quan - num /\ q.timed = r.timed /\ Alike(r, q)
  BY <1>1 DEF Obj, Alike
<1>4. V = B
  BY DEF Worlds, Detached
<1> HIDE DEF q, s
<1>5. /\ Only(W, A, o) /\ A.obj[o] = q
      /\ A.timer_base = W.timer_base /\ A.light_base = W.light_base
  BY <1>2, StructIs
<1> HIDE DEF A
<1>6. /\ Only(A, B, new) /\ B.obj[new] = s
      /\ B.timer_base = A.timer_base /\ B.light_base = A.light_base
  <2>1. A \in Worlds /\ A.impossible = FALSE
    BY <1>5 DEF Only
  <2> QED BY <1>2, <2>1, StructIs
<1> HIDE DEF B
<1>7. /\ B \in Worlds /\ B.impossible = FALSE
      /\ B.timer_base = W.timer_base /\ B.light_base = W.light_base
      /\ \A p \in ObjId : p \notin {o, new} => B.obj[p] = W.obj[p]
      /\ B.obj[o] = q /\ B.obj[new] = s
  BY <1>5, <1>6 DEF Only
<1> QED BY <1>3, <1>4, <1>7 DEF s

\* A struct's count or light changes, nothing else.
LEMMA CountFacts ==
    ASSUME NEW r \in Obj, NEW n \in Int, NEW b \in BOOLEAN
    PROVE  /\ [r EXCEPT !.timed = n] \in Obj /\ [r EXCEPT !.lamplit = b] \in Obj
           /\ Alike(r, [r EXCEPT !.timed = n]) /\ [r EXCEPT !.timed = n].quan = r.quan
           /\ [r EXCEPT !.timed = n].timed = n
           /\ Still(r, [r EXCEPT !.lamplit = b]) /\ [r EXCEPT !.lamplit = b].age = r.age
           /\ [r EXCEPT !.lamplit = b].lamplit = b
           /\ [r EXCEPT !.lamplit = b].timed = r.timed
<1>1. [r EXCEPT !.timed = n] \in Obj
  BY Structs
<1>2. [r EXCEPT !.lamplit = b] \in Obj
  BY DEF Obj
<1>3. /\ Alike(r, [r EXCEPT !.timed = n]) /\ [r EXCEPT !.timed = n].quan = r.quan
      /\ [r EXCEPT !.timed = n].timed = n
  BY DEF Obj, Alike
<1>4. /\ Still(r, [r EXCEPT !.lamplit = b]) /\ [r EXCEPT !.lamplit = b].age = r.age
      /\ [r EXCEPT !.lamplit = b].lamplit = b /\ [r EXCEPT !.lamplit = b].timed = r.timed
  BY DEF Obj, Still
<1> QED BY <1>1, <1>2, <1>3, <1>4

\* obj_split_timers: every timer of src is copied and the copies are counted.
LEMMA SplitTimersIs ==
    ASSUME NEW W \in Worlds, W.impossible = FALSE, NEW src \in ObjId, NEW dest \in ObjId,
           src # dest, Of(W.timer_base, dest) = {},
           \A t, u \in Of(W.timer_base, src) : t.func = u.func => t = u
    PROVE  LET T == Of(W.timer_base, src)
               C == Copies(W.timer_base, src, dest)
               V == ObjSplitTimers(W, src, dest)
           IN  /\ Only(W, V, dest) /\ V.light_base = W.light_base
               /\ Of(V.timer_base, dest) = C
               /\ \A p \in ObjId : p # dest => Of(V.timer_base, p) = Of(W.timer_base, p)
               /\ V.obj[dest] = [W.obj[dest] EXCEPT
                                    !.timed = Num(HasBurn(T)) + Num(HasRot(T))]
<1> DEFINE T == Of(W.timer_base, src)
           C == Copies(W.timer_base, src, dest)
           r == [W.obj[dest] EXCEPT !.timed = Num(HasBurn(T)) + Num(HasRot(T))]
           U == [W EXCEPT !.timer_base = W.timer_base \cup C]
           V == ObjSplitTimers(W, src, dest)
<1>1. W.timer_base \in SUBSET Timer
  BY WorldFields
<1>2. /\ C \in SUBSET Timer /\ \A c \in C : c.arg = dest
      /\ \A c, d \in C : c.func = d.func => c = d
      /\ HasBurn(C) <=> HasBurn(T)
      /\ HasRot(C) <=> HasRot(T)
  BY <1>1, CopiesFacts
<1>3. Cardinality(C) = Num(HasBurn(T)) + Num(HasRot(T)) /\ Cardinality(C) \in Int
  <2> HIDE DEF C, T
  <2>1. Cardinality(C) = Num(HasBurn(C)) + Num(HasRot(C))
    BY <1>2, CountTimers
  <2> QED BY <1>2, <2>1 DEF Num
<1>4. r \in Obj
  <2>1. Num(HasBurn(T)) + Num(HasRot(T)) \in Int
    BY DEF Num
  <2> QED BY <2>1, WorldFields, Structs
<1>5. V = [U EXCEPT !.obj = [W.obj EXCEPT ![dest] = r]]
  <2>1. V = [W EXCEPT !.timer_base = @ \cup C, !.obj[dest].timed = Cardinality(C)]
    BY DEF ObjSplitTimers, Copies
  <2> HIDE DEF C, V, T
  <2> QED BY <1>3, <2>1 DEF Worlds
<1> HIDE DEF C, T, r, V
<1>6. Is(U, W.obj, W.timer_base \cup C, W.light_base)
  BY <1>2 DEF Is, Worlds
<1> HIDE DEF U
<1>7. Is(V, [W.obj EXCEPT ![dest] = r], W.timer_base \cup C, W.light_base)
  BY <1>4, <1>5, <1>6, ObjectIs
<1>8. Of(W.timer_base \cup C, dest) = C
  BY <1>2 DEF Of
<1>9. \A p \in ObjId : p # dest => Of(W.timer_base \cup C, p) = Of(W.timer_base, p)
  BY <1>2 DEF Of
<1>10. /\ Only(W, V, dest) /\ V.light_base = W.light_base /\ V.obj[dest] = r
       /\ V.timer_base = W.timer_base \cup C
  BY <1>7 DEF Is, Only, Worlds
<1> QED BY <1>8, <1>9, <1>10 DEF C, T, r, V

\* A part of what is accounted for is accounted for like the whole.
LEMMA LikeBalanced ==
    ASSUME NEW W, NEW o, InMem(W, o), NEW V, NEW p, NEW r, r = W.obj[o],
           NEW T, T = Of(W.timer_base, o), NEW D, D = Of(V.timer_base, p),
           V.obj[p] \in Obj, Alike(r, V.obj[p]), V.obj[p].quan >= 1,
           V.obj[p].timed = r.timed, V.light_base[p] = Num(r.lamplit),
           D \subseteq Timer, \A t, u \in D : t.func = u.func => t = u,
           HasBurn(D) <=> HasBurn(T), HasRot(D) <=> HasRot(T),
           Timely(D)
    PROVE  InMem(V, p)
<1>1. Whole(V.obj[p]) /\ ~Away(V.obj[p])
  BY DEF InMem, Agrees, Balanced, Whole, Alike, Away
<1> DEFINE s == V.obj[p]
           n == V.light_base[p]
<1>2. Balanced(r, T, W.light_base[o], r.lamplit /\ r.otyp # "MAGIC_LAMP")
  BY DEF InMem, Agrees
<1>3. Balanced(s, D, n, r.lamplit /\ r.otyp # "MAGIC_LAMP")
  <2> HIDE DEF s, n
  <2> QED BY <1>1, <1>2 DEF Balanced, Alike, Num, s, n
<1> QED BY <1>1, <1>3 DEF InMem, Agrees, Alike

\* splitobj.
LEMMA SplitObjKeeps ==
    ASSUME NEW W \in Worlds, W.impossible = FALSE, NEW o \in ObjId, NEW new \in ObjId,
           InMem(W, o), InMem(W, new), W.obj[new].where = "FREE", o # new,
           NEW num \in Int, num >= 1, num < W.obj[o].quan
    PROVE  LET V == SplitObj(W, o, num, new)
           IN  /\ Rest(W, V, {o, new}) /\ InMem(V, o) /\ InMem(V, new)
               /\ Alike(W.obj[o], V.obj[o]) /\ Alike(W.obj[o], V.obj[new])
               /\ V.obj[o].quan = W.obj[o].quan - num /\ V.obj[new].quan = num
               /\ Of(V.timer_base, o) = Of(W.timer_base, o)
               /\ Of(V.timer_base, new) = Copies(W.timer_base, o, new)
<1> DEFINE r  == W.obj[o]
           T  == Of(W.timer_base, o)
           s  == Part(r, num)
           W1 == Detached(W, o, num, new)
           W2 == IF r.timed # 0 THEN ObjSplitTimers(W1, o, new) ELSE W1
           V  == IF r.lamplit THEN ObjSplitLightSource(W2, o, new) ELSE W2
           C  == Copies(W.timer_base, o, new)
<1>1. SplitObj(W, o, num, new) = V
  BY DEF SplitObj, Detached, Part
<1>2. /\ r \in Obj /\ r.quan \in Int /\ r.lamplit \in BOOLEAN
      /\ T \in SUBSET Timer /\ \A t, u \in T : t.func = u.func => t = u
      /\ r.timed = Num(HasBurn(T)) + Num(HasRot(T)) /\ W.light_base[o] = Num(r.lamplit)
      /\ Of(W.timer_base, new) = {} /\ W.light_base[new] = 0
      /\ Timely(T)
  BY WorldFields, ObjFields, FreeIsBare DEF InMem, Agrees, Balanced
<1>3. /\ W1 \in Worlds /\ W1.impossible = FALSE
      /\ W1.timer_base = W.timer_base /\ W1.light_base = W.light_base
      /\ \A p \in ObjId : p \notin {o, new} => W1.obj[p] = W.obj[p]
      /\ W1.obj[o].quan = r.quan - num /\ W1.obj[o].timed = r.timed
      /\ Alike(r, W1.obj[o]) /\ W1.obj[new] = s
  BY SplitStructs
<1>4. /\ s \in Obj /\ s.quan = num /\ s.timed = 0 /\ s.lamplit = FALSE
      /\ s.otyp = r.otyp /\ s.where = r.where /\ s.lev = r.lev /\ s.spe = r.spe
      /\ s.unpaid = r.unpaid /\ s.age = r.age
  <2>1. s \in Obj
    BY <1>3, WorldFields
  <2> QED BY <1>2, <2>1 DEF Obj, Part
<1>5. /\ C \in SUBSET Timer /\ \A c \in C : c.arg = new
      /\ \A c, d \in C : c.func = d.func => c = d
      /\ HasBurn(C) <=> HasBurn(T)
      /\ HasRot(C) <=> HasRot(T)
      /\ Timely(T) => Timely(C)
  <2>1. W.timer_base \in SUBSET Timer
    BY WorldFields
  <2>2. /\ C \in SUBSET Timer /\ \A c \in C : c.arg = new
        /\ \A c, d \in C : c.func = d.func => c = d
        /\ HasBurn(C) <=> HasBurn(T)
        /\ HasRot(C) <=> HasRot(T)
        /\ \A m : (\A t \in T : t.timeout > m) => \A c \in C : c.timeout > m
    BY <1>2, <2>1, CopiesFacts
  <2> HIDE DEF C, T
  <2> QED BY <2>2 DEF Timely
<1> HIDE DEF s, W1
<1>6. /\ Only(W1, W2, new) /\ W2.light_base = W.light_base
      /\ Of(W2.timer_base, new) = C
      /\ \A p \in ObjId : p # new => Of(W2.timer_base, p) = Of(W.timer_base, p)
      /\ Alike(s, W2.obj[new]) /\ W2.obj[new].quan = num /\ W2.obj[new].timed = r.timed
  <2>1. CASE r.timed # 0
    <3>1. W2 = ObjSplitTimers(W1, o, new)
      BY <2>1
    <3> DEFINE k == Num(HasBurn(T)) + Num(HasRot(T))
    <3>2. /\ Only(W1, W2, new) /\ W2.light_base = W1.light_base
          /\ Of(W2.timer_base, new) = C
          /\ \A p \in ObjId : p # new => Of(W2.timer_base, p) = Of(W1.timer_base, p)
          /\ W2.obj[new] = [W1.obj[new] EXCEPT !.timed = k]
      <4> DEFINE X == ObjSplitTimers(W1, o, new)
                 S == Of(W1.timer_base, o)
      <4>1. S = T /\ Copies(W1.timer_base, o, new) = C
        BY <1>3
      <4>2. Of(W1.timer_base, new) = {} /\ \A t, u \in S : t.func = u.func => t = u
        BY <1>2, <1>3
      <4>3. LET D == Copies(W1.timer_base, o, new)
            IN  /\ Only(W1, X, new) /\ X.light_base = W1.light_base
                /\ Of(X.timer_base, new) = D
                /\ \A p \in ObjId : p # new => Of(X.timer_base, p) = Of(W1.timer_base, p)
                /\ X.obj[new] = [W1.obj[new] EXCEPT
                                    !.timed = Num(HasBurn(S)) + Num(HasRot(S))]
        BY <1>3, <4>2, SplitTimersIs
      <4> HIDE DEF X, S, T, C, W2
      <4> QED BY <3>1, <4>1, <4>3 DEF X
    <3>3. k \in Int /\ k = r.timed
      BY <1>2 DEF Num
    <3> HIDE DEF W2, C, k
    <3>4. /\ Alike(s, [s EXCEPT !.timed = k]) /\ [s EXCEPT !.timed = k].quan = s.quan
          /\ [s EXCEPT !.timed = k].timed = k
      BY <1>4, <3>3, CountFacts
    <3> QED BY <1>3, <1>4, <3>2, <3>3, <3>4
  <2>2. CASE r.timed = 0
    <3>1. T = {}
      BY <2>2, NoTimers DEF InMem, Agrees
    <3>2. C = {}
      BY <3>1 DEF Of, Copies
    <3>3. W2 = W1 /\ Alike(s, s)
      BY <2>2 DEF Alike
    <3> HIDE DEF C, W2
    <3> QED BY <1>2, <1>3, <1>4, <2>2, <3>2, <3>3 DEF Only
  <2> QED BY <2>1, <2>2
<1> HIDE DEF W2
<1>7. W2 \in Worlds /\ W2.impossible = FALSE /\ W2.obj[new] \in Obj
  BY <1>6, WorldFields DEF Only
<1>8. /\ Only(W2, V, new) /\ V.light_base[new] = Num(r.lamplit)
      /\ V.timer_base = W2.timer_base
      /\ Alike(r, V.obj[new]) /\ V.obj[new].quan = num /\ V.obj[new].timed = r.timed
  <2>1. /\ W2.obj[new].otyp = r.otyp /\ W2.obj[new].where = r.where
        /\ W2.obj[new].lev = r.lev /\ W2.obj[new].spe = r.spe
        /\ W2.obj[new].unpaid = r.unpaid /\ W2.obj[new].age = r.age
        /\ W2.obj[new].lamplit = FALSE
    BY <1>4, <1>6 DEF Alike
  <2>2. CASE ~r.lamplit
    <3>1. V = W2
      BY <2>2
    <3> HIDE DEF V
    <3> QED BY <1>2, <1>6, <1>7, <2>1, <2>2, <3>1 DEF Only, Alike, Num
  <2>3. CASE r.lamplit
    <3> DEFINE x == [W2.obj[new] EXCEPT !.lamplit = TRUE]
               U == [W2 EXCEPT !.light_base = [W2.light_base EXCEPT ![new] = 1]]
    <3>1. W2.light_base[o] = 1 /\ W2.light_base[new] = 0 /\ W2.light_base \in [ObjId -> Nat]
      BY <1>2, <1>6, <1>7, <2>3, WorldFields DEF Num
    <3>2. V = [W2 EXCEPT !.light_base[new] = @ + W2.light_base[o],
                         !.obj[new].lamplit = W2.light_base[o] > 0]
      BY <2>3 DEF ObjSplitLightSource
    <3>3. V = [U EXCEPT !.obj = [W2.obj EXCEPT ![new] = x]]
      <4>1. (W2.light_base[o] > 0) = TRUE /\ W2.light_base[new] + W2.light_base[o] = 1
        BY <3>1
      <4> HIDE DEF V
      <4> QED BY <1>7, <3>2, <4>1 DEF Worlds
    <3>4. Is(U, W2.obj, W2.timer_base, [W2.light_base EXCEPT ![new] = 1])
      BY <1>7 DEF Is, Worlds
    <3> HIDE DEF U, V
    <3>5. /\ x \in Obj /\ Still(W2.obj[new], x) /\ x.age = W2.obj[new].age
          /\ x.lamplit = TRUE /\ x.timed = W2.obj[new].timed
      BY <1>7, CountFacts
    <3> HIDE DEF x
    <3>6. Is(V, [W2.obj EXCEPT ![new] = x], W2.timer_base,
             [W2.light_base EXCEPT ![new] = 1])
      BY <3>3, <3>4, <3>5, ObjectIs
    <3>7. /\ Only(W2, V, new) /\ V.obj[new] = x /\ V.light_base[new] = 1
          /\ V.timer_base = W2.timer_base
      BY <1>7, <3>6 DEF Is, Only, Worlds
    <3> QED BY <1>6, <2>1, <2>3, <3>5, <3>7 DEF Still, Alike, Num
  <2> QED BY <1>2, <2>2, <2>3
<1> HIDE DEF V, C, r, T
<1>9. /\ V \in Worlds /\ V.impossible = FALSE
      /\ V.obj[o] = W1.obj[o] /\ V.light_base[o] = W.light_base[o]
      /\ \A p \in ObjId : p \notin {o, new} => /\ V.obj[p] = W.obj[p]
                                               /\ V.light_base[p] = W.light_base[p]
      /\ \A p \in ObjId : p # new => Of(V.timer_base, p) = Of(W.timer_base, p)
      /\ Of(V.timer_base, new) = C
  BY <1>3, <1>6, <1>8 DEF Only
<1>10. Rest(W, V, {o, new})
  BY <1>9 DEF Rest
<1>11. V.obj[o] \in Obj /\ V.obj[new] \in Obj
  BY <1>9, WorldFields
<1>12. InMem(V, o)
  <2>1. Of(V.timer_base, o) = T
    BY <1>9 DEF T
  <2>2. V.obj[o].quan >= 1 /\ V.light_base[o] = Num(r.lamplit)
    BY <1>2, <1>3, <1>9 DEF r
  <2> QED BY <1>2, <1>3, <1>9, <1>11, <2>1, <2>2, LikeBalanced DEF r, T
<1>13. InMem(V, new)
  BY <1>2, <1>5, <1>8, <1>9, <1>11, LikeBalanced DEF r, T
<1> QED BY <1>1, <1>3, <1>8, <1>9, <1>10, <1>12, <1>13 DEF V, r, C

\* The timers after obj_move_timers.
Moved(T, src, dest) == {IF t.arg = src THEN [t EXCEPT !.arg = dest] ELSE t : t \in T}

\* They are those of others, and copies of src's for dest.
LEMMA MovedFacts ==
    ASSUME NEW T \in SUBSET Timer, NEW src \in ObjId, NEW dest \in ObjId, src # dest,
           Of(T, dest) = {}
    PROVE  /\ Moved(T, src, dest) \in SUBSET Timer
           /\ Of(Moved(T, src, dest), dest) = Copies(T, src, dest)
           /\ Of(Moved(T, src, dest), src) = {}
           /\ \A p : p \notin {src, dest} => Of(Moved(T, src, dest), p) = Of(T, p)
<1> DEFINE M == Moved(T, src, dest)
           copy(t) == [t EXCEPT !.arg = dest]
<1>1. \A t \in Timer : copy(t) \in Timer /\ copy(t).arg = dest
  BY DEF Timer
<1>2. \A m \in M : \/ m \in T /\ m.arg # src
                   \/ \E t \in T : t.arg = src /\ m = copy(t)
  BY DEF Moved
<1>3. \A t \in T : /\ t.arg # src => t \in M
                   /\ t.arg = src => copy(t) \in M
  BY DEF Moved
<1>4. \A c : c \in Copies(T, src, dest) <=> \E t \in T : t.arg = src /\ c = copy(t)
  BY DEF Copies
<1> HIDE DEF M, copy
<1>5. M \in SUBSET Timer
  BY <1>1, <1>2
<1>6. \A t \in T : t.arg # dest
  BY DEF Of
<1>7. Of(M, dest) = Copies(T, src, dest)
  <2>1. ASSUME NEW m \in Of(M, dest) PROVE m \in Copies(T, src, dest)
    BY <1>2, <1>4, <1>6 DEF Of
  <2>2. ASSUME NEW c \in Copies(T, src, dest) PROVE c \in Of(M, dest)
    BY <1>1, <1>3, <1>4 DEF Of
  <2> QED BY <2>1, <2>2
<1>8. Of(M, src) = {}
  BY <1>1, <1>2 DEF Of
<1>9. ASSUME NEW p, p \notin {src, dest} PROVE Of(M, p) = Of(T, p)
  <2>1. ASSUME NEW m \in Of(M, p) PROVE m \in Of(T, p)
    BY <1>1, <1>2, <1>9 DEF Of
  <2>2. ASSUME NEW t \in Of(T, p) PROVE t \in Of(M, p)
    BY <1>3, <1>9 DEF Of
  <2> QED BY <2>1, <2>2
<1> QED BY <1>5, <1>7, <1>8, <1>9 DEF M

\* V is W but for the structs and the lights of src and dest.
Both(W, V, src, dest) ==
    /\ V \in Worlds /\ V.impossible = FALSE
    /\ \A p \in ObjId \ {src, dest} : /\ V.obj[p] = W.obj[p]
                                      /\ V.light_base[p] = W.light_base[p]

\* V is W with the timers of src given to dest.
TimersMoved(W, V, src, dest) ==
    /\ Both(W, V, src, dest) /\ V.light_base = W.light_base
    /\ Of(V.timer_base, dest) = Copies(W.timer_base, src, dest)
    /\ Of(V.timer_base, src) = {}
    /\ \A p \in ObjId \ {src, dest} : Of(V.timer_base, p) = Of(W.timer_base, p)
    /\ V.obj[dest] = [W.obj[dest] EXCEPT !.timed = W.obj[src].timed]
    /\ V.obj[src] = [W.obj[src] EXCEPT !.timed = 0]

\* obj_move_timers: dest has src's, and src has none.
LEMMA MoveTimersIs ==
    ASSUME NEW W \in Worlds, W.impossible = FALSE, NEW src \in ObjId, NEW dest \in ObjId,
           src # dest, Of(W.timer_base, dest) = {},
           \A t, u \in Of(W.timer_base, src) : t.func = u.func => t = u,
           W.obj[src].timed = Num(HasBurn(Of(W.timer_base, src)))
                                  + Num(HasRot(Of(W.timer_base, src)))
    PROVE  TimersMoved(W, ObjMoveTimers(W, src, dest), src, dest)
<1> DEFINE T == Of(W.timer_base, src)
           M == Moved(W.timer_base, src, dest)
           d == [W.obj[dest] EXCEPT !.timed = W.obj[src].timed]
           s == [W.obj[src] EXCEPT !.timed = 0]
           U == [W EXCEPT !.timer_base = M]
           A == [U EXCEPT !.obj = [U.obj EXCEPT ![dest] = d]]
           B == [A EXCEPT !.obj = [A.obj EXCEPT ![src] = s]]
           V == ObjMoveTimers(W, src, dest)
<1>1. W.timer_base \in SUBSET Timer /\ T \in SUBSET Timer
  BY WorldFields DEF Of
<1>2. /\ M \in SUBSET Timer /\ Of(M, dest) = Copies(W.timer_base, src, dest)
      /\ Of(M, src) = {}
      /\ \A p : p \notin {src, dest} => Of(M, p) = Of(W.timer_base, p)
  <2> DEFINE TB == W.timer_base
  <2>1. TB \in SUBSET Timer /\ Of(TB, dest) = {}
    BY <1>1
  <2> HIDE DEF TB
  <2>2. Moved(TB, src, dest) \in SUBSET Timer
    BY <2>1, MovedFacts
  <2>3. Of(Moved(TB, src, dest), dest) = Copies(TB, src, dest)
    BY <2>1, MovedFacts
  <2>4. Of(Moved(TB, src, dest), src) = {}
    BY <2>1, MovedFacts
  <2>5. \A p : p \notin {src, dest} => Of(Moved(TB, src, dest), p) = Of(TB, p)
    BY <2>1, MovedFacts
  <2> QED BY <2>2, <2>3, <2>4, <2>5 DEF TB
<1>3. W.obj[src].timed = Cardinality({t \in W.timer_base : t.arg = src})
  <2>1. Cardinality(T) = W.obj[src].timed
    BY <1>1, CountTimers
  <2> QED BY <2>1 DEF Of
<1>4. d \in Obj /\ s \in Obj
  <2>1. W.obj[src].timed \in Int /\ W.obj[src] \in Obj /\ W.obj[dest] \in Obj
    BY WorldFields, ObjFields
  <2>2. s \in Obj
    BY <2>1 DEF Obj
  <2> QED BY <2>1, <2>2, Structs
<1>5. V = B
  <2>1. V = [W EXCEPT !.impossible = @ \/ W.obj[src].timed
                                          # Cardinality({t \in W.timer_base : t.arg = src}),
                      !.timer_base = M, !.obj[dest].timed = W.obj[src].timed,
                      !.obj[src].timed = 0]
    BY DEF ObjMoveTimers, Moved
  <2>2. V = [W EXCEPT !.impossible = FALSE,
                      !.timer_base = M, !.obj[dest].timed = W.obj[src].timed,
                      !.obj[src].timed = 0]
    <3>1. (W.obj[src].timed # Cardinality({t \in W.timer_base : t.arg = src})) = FALSE
      BY <1>3
    <3> HIDE DEF V, M
    <3> QED BY <2>1, <3>1
  <2>3. V = [W EXCEPT !.timer_base = M, !.obj[dest].timed = W.obj[src].timed,
                      !.obj[src].timed = 0]
    <3>1. W = [W EXCEPT !.impossible = FALSE]
      BY DEF Worlds
    <3> HIDE DEF V, M
    <3> QED BY <2>2, <3>1
  <2> HIDE DEF V, M
  <2> QED BY <2>3 DEF Worlds
<1> HIDE DEF d, s, V
<1>6. Is(U, W.obj, M, W.light_base)
  BY <1>2 DEF Is, Worlds
<1> HIDE DEF U, M
<1>7. Is(A, [W.obj EXCEPT ![dest] = d], M, W.light_base)
  <2>1. U.obj = W.obj
    BY <1>6 DEF Is
  <2> QED BY <1>4, <1>6, <2>1, ObjectIs
<1> HIDE DEF A
<1>8. Is(B, [[W.obj EXCEPT ![dest] = d] EXCEPT ![src] = s], M, W.light_base)
  <2>1. A.obj = [W.obj EXCEPT ![dest] = d]
    BY <1>7 DEF Is
  <2> QED BY <1>4, <1>7, <2>1, ObjectIs
<1> HIDE DEF B
<1>9. /\ Both(W, B, src, dest) /\ B.light_base = W.light_base
      /\ B.obj[dest] = d /\ B.obj[src] = s /\ B.timer_base = M
  BY <1>8 DEF Is, Both, Worlds
<1> QED BY <1>2, <1>5, <1>9 DEF d, s, V, TimersMoved

\* V is W with the light sources of src given to dest.
LightMoved(W, V, src, dest) ==
    /\ Both(W, V, src, dest) /\ V.timer_base = W.timer_base
    /\ V.light_base[dest] = W.light_base[src] /\ V.light_base[src] = 0
    /\ V.obj[dest] = [W.obj[dest] EXCEPT !.lamplit = TRUE]
    /\ V.obj[src] = [W.obj[src] EXCEPT !.lamplit = FALSE]

\* obj_move_light_source from a lit object.
LEMMA MoveLightIs ==
    ASSUME NEW W \in Worlds, W.impossible = FALSE, NEW src \in ObjId, NEW dest \in ObjId,
           src # dest
    PROVE  LightMoved(W, ObjMoveLightSource(W, src, dest), src, dest)
<1> DEFINE d  == [W.obj[dest] EXCEPT !.lamplit = TRUE]
           s  == [W.obj[src] EXCEPT !.lamplit = FALSE]
           lb == [[W.light_base EXCEPT ![dest] = W.light_base[src]] EXCEPT ![src] = 0]
           U  == [W EXCEPT !.light_base = lb]
           A  == [U EXCEPT !.obj = [U.obj EXCEPT ![dest] = d]]
           B  == [A EXCEPT !.obj = [A.obj EXCEPT ![src] = s]]
           V  == ObjMoveLightSource(W, src, dest)
<1>1. d \in Obj /\ s \in Obj
  BY WorldFields, Structs
<1>2. V = B
  <2>1. V = [W EXCEPT !.light_base[dest] = W.light_base[src], !.light_base[src] = 0,
                      !.obj[dest].lamplit = TRUE, !.obj[src].lamplit = FALSE]
    BY DEF ObjMoveLightSource
  <2> HIDE DEF V
  <2> QED BY <2>1 DEF Worlds
<1> HIDE DEF d, s, V
<1>3. lb \in [ObjId -> Nat] /\ lb[dest] = W.light_base[src] /\ lb[src] = 0
      /\ \A p \in ObjId \ {src, dest} : lb[p] = W.light_base[p]
  BY DEF Worlds
<1> HIDE DEF lb
<1>4. Is(U, W.obj, W.timer_base, lb)
  BY <1>3 DEF Is, Worlds
<1> HIDE DEF U
<1>5. Is(A, [W.obj EXCEPT ![dest] = d], W.timer_base, lb)
  <2>1. U.obj = W.obj
    BY <1>4 DEF Is
  <2> QED BY <1>1, <1>4, <2>1, ObjectIs
<1> HIDE DEF A
<1>6. Is(B, [[W.obj EXCEPT ![dest] = d] EXCEPT ![src] = s], W.timer_base, lb)
  <2>1. A.obj = [W.obj EXCEPT ![dest] = d]
    BY <1>5 DEF Is
  <2> QED BY <1>1, <1>5, <2>1, ObjectIs
<1> HIDE DEF B
<1>7. /\ Both(W, B, src, dest) /\ B.light_base = lb
      /\ B.obj[dest] = d /\ B.obj[src] = s /\ B.timer_base = W.timer_base
  BY <1>3, <1>6 DEF Is, Both, Worlds
<1> QED BY <1>2, <1>3, <1>7 DEF d, s, V, LightMoved

\* A step at two objects after another at the same two.
LEMMA BothAgain ==
    ASSUME NEW W, NEW V, NEW U, NEW src, NEW dest, Both(W, V, src, dest),
           Both(V, U, src, dest)
    PROVE  Both(W, U, src, dest)
BY DEF Both

\* realloc_obj: the new object is what the old one was.
LEMMA ReallocObjKeeps ==
    ASSUME NEW W \in Worlds, W.impossible = FALSE, NEW o \in ObjId, NEW new \in ObjId,
           InMem(W, o), InMem(W, new), W.obj[new].where = "FREE", o # new,
           monstermoves \in Int
    PROVE  LET V == ReallocObj(W, o, new)
           IN  /\ Rest(W, V, {o, new}) /\ InMem(V, o) /\ InMem(V, new)
               /\ V.obj[o] = Freed /\ Alike(W.obj[o], V.obj[new])
               /\ Of(V.timer_base, new) = Copies(W.timer_base, o, new)
<1> DEFINE r  == W.obj[o]
           T  == Of(W.timer_base, o)
           C  == Copies(W.timer_base, o, new)
           s  == [r EXCEPT !.timed = 0, !.lamplit = FALSE]
           W1 == [W EXCEPT !.obj[new] = s]
           W2 == IF r.timed # 0 THEN ObjMoveTimers(W1, o, new) ELSE W1
           W3 == IF r.lamplit THEN ObjMoveLightSource(W2, o, new) ELSE W2
           V  == DeallocObj(W3, o)
<1>1. ReallocObj(W, o, new) = V
  BY DEF ReallocObj
<1>2. /\ r \in Obj /\ r.quan \in Int /\ r.lamplit \in BOOLEAN
      /\ T \in SUBSET Timer /\ \A t, u \in T : t.func = u.func => t = u
      /\ r.timed = Num(HasBurn(T)) + Num(HasRot(T)) /\ W.light_base[o] = Num(r.lamplit)
      /\ Of(W.timer_base, new) = {} /\ W.light_base[new] = 0
      /\ Timely(T) /\ Whole(r) /\ ~Away(r)
  BY WorldFields, ObjFields, FreeIsBare DEF InMem, Agrees, Balanced
<1>3. /\ s \in Obj /\ s.quan = r.quan /\ s.timed = 0 /\ s.lamplit = FALSE
      /\ s.otyp = r.otyp /\ s.where = r.where /\ s.lev = r.lev /\ s.spe = r.spe
      /\ s.unpaid = r.unpaid /\ s.age = r.age
  <2> DEFINE y == [r EXCEPT !.timed = 0]
  <2>1. s = [y EXCEPT !.lamplit = FALSE]
    BY <1>2 DEF Obj
  <2>2. y \in Obj
    BY <1>2 DEF Obj
  <2>3. [y EXCEPT !.lamplit = FALSE] \in Obj
    <3> HIDE DEF y
    <3> QED BY <2>2, Structs
  <2>4. s \in Obj
    BY <2>1, <2>3
  <2> QED BY <1>2, <2>4 DEF Obj
<1>4. /\ C \in SUBSET Timer /\ \A c, d \in C : c.func = d.func => c = d
      /\ HasBurn(C) <=> HasBurn(T)
      /\ HasRot(C) <=> HasRot(T)
      /\ Timely(C)
  <2>1. W.timer_base \in SUBSET Timer
    BY WorldFields
  <2>2. /\ C \in SUBSET Timer
        /\ \A c, d \in C : c.func = d.func => c = d
        /\ HasBurn(C) <=> HasBurn(T)
        /\ HasRot(C) <=> HasRot(T)
        /\ \A m : (\A t \in T : t.timeout > m) => \A c \in C : c.timeout > m
    BY <1>2, <2>1, CopiesFacts
  <2> HIDE DEF C, T
  <2> QED BY <1>2, <2>2 DEF Timely
<1>5. /\ Only(W, W1, new) /\ W1.obj[new] = s
      /\ W1.timer_base = W.timer_base /\ W1.light_base = W.light_base
  <2>1. W1 = [W EXCEPT !.obj = [W.obj EXCEPT ![new] = s]]
    BY DEF Worlds
  <2> HIDE DEF s, W1
  <2> QED BY <1>3, <2>1, StructIs
<1>6. Both(W, W1, o, new) /\ W1.obj[o] = r
  <2> HIDE DEF W1
  <2> QED BY <1>5 DEF Both, Only
<1> HIDE DEF s, W1
<1>7. /\ Both(W, W2, o, new) /\ W2.light_base = W.light_base
      /\ Of(W2.timer_base, new) = C /\ Of(W2.timer_base, o) = {}
      /\ \A p \in ObjId \ {o, new} : Of(W2.timer_base, p) = Of(W.timer_base, p)
      /\ Alike(s, W2.obj[new]) /\ W2.obj[new].quan = r.quan
      /\ W2.obj[new].timed = r.timed
      /\ Alike(r, W2.obj[o]) /\ W2.obj[o].quan = r.quan /\ W2.obj[o].timed = 0
  <2>1. CASE r.timed # 0
    <3> DEFINE X == ObjMoveTimers(W1, o, new)
    <3>1. W2 = X
      BY <2>1
    <3>2. /\ W1 \in Worlds /\ W1.impossible = FALSE /\ Of(W1.timer_base, new) = {}
          /\ \A t, u \in Of(W1.timer_base, o) : t.func = u.func => t = u
          /\ W1.obj[o].timed = Num(HasBurn(Of(W1.timer_base, o)))
                                   + Num(HasRot(Of(W1.timer_base, o)))
      BY <1>2, <1>5, <1>6 DEF Only
    <3>3. /\ Both(W1, X, o, new) /\ X.light_base = W1.light_base
          /\ Of(X.timer_base, new) = Copies(W1.timer_base, o, new)
          /\ Of(X.timer_base, o) = {}
          /\ \A p \in ObjId \ {o, new} : Of(X.timer_base, p) = Of(W1.timer_base, p)
          /\ X.obj[new] = [W1.obj[new] EXCEPT !.timed = W1.obj[o].timed]
          /\ X.obj[o] = [W1.obj[o] EXCEPT !.timed = 0]
      <4>1. TimersMoved(W1, X, o, new)
        BY <3>2, MoveTimersIs
      <4> HIDE DEF X
      <4> QED BY <4>1 DEF TimersMoved
    <3>4. Copies(W1.timer_base, o, new) = C
      BY <1>5
    <3> HIDE DEF X, W2, C, T
    <3>5. Both(W, X, o, new)
      BY <1>6, <3>3, BothAgain
    <3>6. X.obj[new] = [s EXCEPT !.timed = r.timed] /\ X.obj[o] = [r EXCEPT !.timed = 0]
      BY <1>5, <1>6, <3>3
    <3> HIDE DEF r
    <3>7. /\ Alike(s, [s EXCEPT !.timed = r.timed])
          /\ [s EXCEPT !.timed = r.timed].quan = s.quan
          /\ [s EXCEPT !.timed = r.timed].timed = r.timed
      BY <1>3 DEF Obj, Alike
    <3>8. /\ Alike(r, [r EXCEPT !.timed = 0]) /\ [r EXCEPT !.timed = 0].quan = r.quan
          /\ [r EXCEPT !.timed = 0].timed = 0
      BY <1>2 DEF Obj, Alike
    <3> QED BY <1>3, <1>5, <3>1, <3>3, <3>4, <3>5, <3>6, <3>7, <3>8
  <2>2. CASE r.timed = 0
    <3>1. T = {}
      BY <2>2, NoTimers DEF InMem, Agrees
    <3>2. C = {}
      BY <3>1 DEF Of, Copies
    <3>3. W2 = W1
      BY <2>2
    <3>4. Of(W.timer_base, o) = {}
      BY <3>1
    <3> HIDE DEF C, W2, T
    <3> QED BY <1>2, <1>3, <1>5, <1>6, <2>2, <3>2, <3>3, <3>4 DEF Only, Alike
  <2> QED BY <2>1, <2>2
<1> HIDE DEF W2
<1>8. /\ W2 \in Worlds /\ W2.impossible = FALSE
      /\ W2.obj[new] \in Obj /\ W2.obj[o] \in Obj
  BY <1>7, WorldFields DEF Both
<1>9. /\ Both(W, W3, o, new) /\ W3.timer_base = W2.timer_base
      /\ W3.light_base[new] = Num(r.lamplit) /\ W3.light_base[o] = 0
      /\ Alike(r, W3.obj[new]) /\ W3.obj[new].quan = r.quan
      /\ W3.obj[new].timed = r.timed
      /\ Still(r, W3.obj[o]) /\ W3.obj[o].timed = 0 /\ W3.obj[o].lamplit = FALSE
      /\ W3.obj[o].age = r.age
  <2>1. CASE ~r.lamplit
    <3>1. W3 = W2
      BY <2>1
    <3> HIDE DEF W3, r
    <3>2. Num(r.lamplit) = 0 /\ W2.light_base[new] = 0 /\ W2.light_base[o] = 0
      BY <1>2, <1>7, <2>1 DEF Num, r
    <3>3. Alike(r, W2.obj[new])
      BY <1>2, <1>3, <1>7, <2>1 DEF Alike
    <3>4. Still(r, W2.obj[o]) /\ W2.obj[o].lamplit = FALSE /\ W2.obj[o].age = r.age
      BY <1>2, <1>7, <2>1 DEF Still, Alike
    <3> QED BY <1>7, <3>1, <3>2, <3>3, <3>4
  <2>2. CASE r.lamplit
    <3>1. W3 = ObjMoveLightSource(W2, o, new)
      BY <2>2
    <3> HIDE DEF W3
    <3>2. /\ Both(W2, W3, o, new) /\ W3.timer_base = W2.timer_base
          /\ W3.light_base[new] = W2.light_base[o] /\ W3.light_base[o] = 0
          /\ W3.obj[new] = [W2.obj[new] EXCEPT !.lamplit = TRUE]
          /\ W3.obj[o] = [W2.obj[o] EXCEPT !.lamplit = FALSE]
      <4>1. LightMoved(W2, W3, o, new)
        BY <1>8, <3>1, MoveLightIs
      <4> QED BY <4>1 DEF LightMoved
    <3>3. /\ Still(W2.obj[new], W3.obj[new]) /\ W3.obj[new].age = W2.obj[new].age
          /\ W3.obj[new].lamplit = TRUE /\ W3.obj[new].timed = W2.obj[new].timed
      BY <1>8, <3>2 DEF Obj, Still
    <3>4. /\ Still(W2.obj[o], W3.obj[o]) /\ W3.obj[o].age = W2.obj[o].age
          /\ W3.obj[o].lamplit = FALSE /\ W3.obj[o].timed = W2.obj[o].timed
      BY <1>8, <3>2 DEF Obj, Still
    <3>5. Both(W, W3, o, new)
      BY <1>7, <3>2, BothAgain
    <3> HIDE DEF r
    <3>6. W3.light_base[new] = Num(r.lamplit)
      BY <1>2, <1>7, <3>2 DEF r
    <3>7. Alike(r, W3.obj[new]) /\ W3.obj[new].quan = r.quan /\ W3.obj[new].timed = r.timed
      BY <1>2, <1>3, <1>7, <2>2, <3>3 DEF Alike, Still
    <3>8. /\ Still(r, W3.obj[o]) /\ W3.obj[o].timed = 0 /\ W3.obj[o].lamplit = FALSE
          /\ W3.obj[o].age = r.age
      BY <1>7, <3>4 DEF Alike, Still
    <3> QED BY <3>2, <3>5, <3>6, <3>7, <3>8
  <2> QED BY <1>2, <2>1, <2>2
<1> HIDE DEF W3, V, C, r, T
<1>10. /\ W3 \in Worlds /\ W3.impossible = FALSE
       /\ W3.obj[o] \in Obj /\ W3.obj[new] \in Obj
  BY <1>9, WorldFields DEF Both
<1>11. InMem(W3, o)
  <2>1. Whole(W3.obj[o]) /\ ~Away(W3.obj[o])
    BY <1>2, <1>9, <1>10 DEF Whole, Away, Still
  <2>2. Of(W3.timer_base, o) = {}
    BY <1>7, <1>9
  <2> QED BY <1>9, <1>10, <2>1, <2>2, BareIsInMem
<1>12. InMem(W3, new)
  <2>1. Of(W3.timer_base, new) = C
    BY <1>7, <1>9
  <2>2. W3.obj[new].quan >= 1
    BY <1>2, <1>9 DEF Whole
  <2> QED BY <1>4, <1>9, <1>10, <2>1, <2>2, LikeBalanced DEF r, T
<1>13. Rest(W, W3, {o, new})
  BY <1>7, <1>9 DEF Both, Rest
<1>14. Rest(W3, V, {o}) /\ InMem(V, o) /\ V.obj[o] = Freed
  BY <1>10, <1>11, DeallocObjKeeps DEF V
<1>15. Rest(W, V, {o, new})
  <2>1. {o, new} \cup {o} = {o, new}
    OBVIOUS
  <2> QED BY <1>13, <1>14, <2>1, Compose
<1>16. InMem(V, new)
  BY <1>12, <1>14 DEF Rest, InMem
<1>17. Alike(r, V.obj[new]) /\ Of(V.timer_base, new) = C
  BY <1>7, <1>9, <1>14 DEF Rest
<1> QED BY <1>1, <1>14, <1>15, <1>16, <1>17 DEF V, r, C

(***************************************************************************)
(* The same, for worlds whose books are all in order.                      *)
(***************************************************************************)

\* V is W but for o, which is in memory, and the books are in order.
Kept(W, V, o) == Good(V) /\ InMem(V, o) /\ Rest(W, V, {o})

\* A step at one object keeps the books.
LEMMA Keeping ==
    ASSUME NEW W, Good(W), NEW V, NEW o \in ObjId, InMem(W, o), Rest(W, V, {o}), InMem(V, o)
    PROVE  Kept(W, V, o)
<1>1. \A p \in ObjId \cap {o} : ~Away(W.obj[p]) /\ InMem(V, p)
  BY DEF InMem
<1>2. Good(V)
  BY <1>1, Change
<1> QED BY <1>2 DEF Kept

\* What a good world is made of.
LEMMA GoodFacts ==
    ASSUME NEW W, Good(W), NEW o \in ObjId
    PROVE  /\ W \in Worlds /\ W.impossible = FALSE /\ W.obj[o] \in Obj
           /\ ~Away(W.obj[o]) => InMem(W, o)
           /\ Of(W.timer_base, o) # {} => InMem(W, o)
           /\ Whole(W.obj[o])
           /\ W.obj[o].where \in {"FREE", "ONBILL"} => ~W.obj[o].lamplit
BY WorldFields DEF Good, Sound, InMem, InFile, Agrees, Balanced

\* One step after another at one object.
LEMMA KeptAgain ==
    ASSUME NEW W, NEW V, NEW U, NEW o, Kept(W, V, o), Kept(V, U, o)
    PROVE  Kept(W, U, o)
<1>1. {o} \cup {o} = {o}
  OBVIOUS
<1> QED BY <1>1, Compose DEF Kept

\* A struct is changed in a way that its account does not mind.
LEMMA StructKept ==
    ASSUME NEW W, Good(W), NEW o \in ObjId, InMem(W, o), NEW V, NEW r, r = V.obj[o],
           Only(W, V, o), V.timer_base = W.timer_base, V.light_base = W.light_base,
           Whole(r), ~Away(r),
           r.lamplit = W.obj[o].lamplit, r.timed = W.obj[o].timed,
           r.otyp = "MAGIC_LAMP" <=> W.obj[o].otyp = "MAGIC_LAMP",
           r.where \in {"FREE", "ONBILL"} => ~W.obj[o].lamplit,
           \/ r.where = "BURIED" /\ r.otyp = W.obj[o].otyp
           \/ ~HasRot(Of(W.timer_base, o))
    PROVE  Kept(W, V, o)
<1>1. Rest(W, V, {o}) /\ InMem(V, o)
  BY SameAccount
<1> QED BY <1>1, Keeping

\* V is W with the struct r for o.
Renewed(W, o, r) == [W EXCEPT !.obj = [W.obj EXCEPT ![o] = r]]

\* An object gets another struct.
LEMMA RenewKept ==
    ASSUME NEW W, Good(W), NEW o \in ObjId, InMem(W, o), NEW r \in Obj, Whole(r),
           r.where = W.obj[o].where, r.lev = W.obj[o].lev,
           r.lamplit = W.obj[o].lamplit, r.timed = W.obj[o].timed,
           r.lamplit => (r.otyp = "MAGIC_LAMP" <=> W.obj[o].otyp = "MAGIC_LAMP"),
           r.otyp = W.obj[o].otyp \/ r.where # "BURIED"
    PROVE  Kept(W, Renewed(W, o, r), o) /\ Renewed(W, o, r).obj[o] = r
<1> DEFINE V == Renewed(W, o, r)
           R == W.obj[o]
<1>1. W \in Worlds /\ W.impossible = FALSE /\ R \in Obj /\ Whole(R) /\ ~Away(R)
  BY GoodFacts DEF InMem
<1>2. /\ Only(W, V, o) /\ V.timer_base = W.timer_base
      /\ V.light_base = W.light_base /\ V.obj[o] = r
  BY <1>1, StructIs DEF Renewed
<1> HIDE DEF V
<1>3. ~Away(r)
  BY <1>1 DEF Away
<1>4. Agrees(r, Of(W.timer_base, o), W.light_base[o])
  BY DEF InMem, Agrees, Balanced
<1>5. InMem(V, o)
  BY <1>2, <1>3, <1>4 DEF InMem
<1>6. Rest(W, V, {o})
  BY <1>2, OnlyRest
<1>7. Kept(W, V, o)
  BY <1>5, <1>6, Keeping
<1> QED BY <1>2, <1>7 DEF V

\* The struct s is r, but for its debt and its timers.
Same(r, s) ==
    /\ s.otyp = r.otyp /\ s.where = r.where /\ s.lev = r.lev /\ s.spe = r.spe
    /\ s.quan = r.quan /\ s.lamplit = r.lamplit /\ s.age = r.age

\* The bill is paid for o, or o is put on it.
LEMMA OwedKept ==
    ASSUME NEW W, Good(W), NEW o \in ObjId, InMem(W, o), NEW b \in BOOLEAN, b => ForSale
    PROVE  LET V == [W EXCEPT !.obj[o].unpaid = b]
           IN  Kept(W, V, o) /\ Same(W.obj[o], V.obj[o])
<1> DEFINE V == [W EXCEPT !.obj[o].unpaid = b]
           R == W.obj[o]
           r == [R EXCEPT !.unpaid = b]
<1>1. W \in Worlds /\ R \in Obj /\ Whole(R)
  BY GoodFacts
<1>2. /\ r \in Obj /\ Same(R, r) /\ r.timed = R.timed /\ r.unpaid = b
  BY <1>1, Structs DEF Obj, Same
<1>3. V = Renewed(W, o, r)
  BY <1>1 DEF Renewed, Worlds
<1> HIDE DEF V, r
<1>4. Whole(r)
  BY <1>1, <1>2 DEF Whole, Same
<1>5. Kept(W, V, o) /\ V.obj[o] = r
  BY <1>2, <1>3, <1>4, RenewKept DEF Same
<1> QED BY <1>2, <1>5 DEF V

\* The bill is paid.
LEMMA PaidKept ==
    ASSUME NEW W, Good(W), NEW o \in ObjId, InMem(W, o)
    PROVE  Kept(W, Paid(W, o), o) /\ Same(W.obj[o], Paid(W, o).obj[o])
<1>1. \A b \in BOOLEAN : (b => ForSale) =>
          LET V == [W EXCEPT !.obj[o].unpaid = b]
          IN  Kept(W, V, o) /\ Same(W.obj[o], V.obj[o])
  BY OwedKept
<1> QED BY <1>1 DEF Paid

\* begin_burn on what is dark.
LEMMA BurnKept ==
    ASSUME NEW W, Good(W), NEW o \in ObjId, InMem(W, o), ~W.obj[o].lamplit,
           W.obj[o].where \notin {"FREE", "MIGRATING", "ONBILL"}, monstermoves \in Int
    PROVE  Kept(W, BeginBurn(W, o, FALSE), o) /\ Still(W.obj[o], BeginBurn(W, o, FALSE).obj[o])
<1>1. W \in Worlds /\ W.impossible = FALSE
  BY GoodFacts
<1>2. \A lit \in BOOLEAN : Ready(W, o, lit) =>
          /\ Rest(W, BeginBurn(W, o, lit), {o}) /\ InMem(BeginBurn(W, o, lit), o)
          /\ Still(W.obj[o], BeginBurn(W, o, lit).obj[o])
  BY <1>1, BeginBurnKeeps
<1>3. Ready(W, o, FALSE)
  BY DEF Ready
<1> QED BY <1>2, <1>3, Keeping

\* end_burn on what is lit.
LEMMA EndKept ==
    ASSUME NEW W, Good(W), NEW o \in ObjId, InMem(W, o), W.obj[o].lamplit,
           NEW attached, attached \/ W.obj[o].otyp = "MAGIC_LAMP",
           phase = "play", monstermoves \in Int
    PROVE  LET V == EndBurn(W, o, attached)
           IN  Kept(W, V, o) /\ Still(W.obj[o], V.obj[o]) /\ V.obj[o].lamplit = FALSE
<1>1. W \in Worlds /\ W.impossible = FALSE
  BY GoodFacts
<1> DEFINE V == EndBurn(W, o, attached)
<1>2. /\ Rest(W, V, {o}) /\ InMem(V, o)
      /\ Still(W.obj[o], V.obj[o]) /\ V.obj[o].lamplit = FALSE
  BY <1>1, EndBurnKeeps
<1> HIDE DEF V
<1>3. Kept(W, V, o)
  BY <1>2, Keeping
<1> QED BY <1>2, <1>3 DEF V

\* dealloc_obj, obfree and useup.
LEMMA FreeKept ==
    ASSUME NEW W, Good(W), NEW o \in ObjId, InMem(W, o), monstermoves \in Int
    PROVE  Good(DeallocObj(W, o)) /\ Good(Obfree(W, o)) /\ Good(Useup(W, o))
<1>1. W \in Worlds /\ W.impossible = FALSE
  BY GoodFacts
<1>2. Good(DeallocObj(W, o))
  <2>1. Rest(W, DeallocObj(W, o), {o}) /\ InMem(DeallocObj(W, o), o)
    BY <1>1, DeallocObjKeeps
  <2> QED BY <2>1, Keeping DEF Kept
<1>3. Good(Obfree(W, o))
  <2>1. Rest(W, Obfree(W, o), {o}) /\ InMem(Obfree(W, o), o)
    BY <1>1, ObfreeKeeps
  <2> QED BY <2>1, Keeping DEF Kept
<1>4. Good(Useup(W, o))
  <2>1. Rest(W, Useup(W, o), {o}) /\ InMem(Useup(W, o), o)
    BY <1>1, UseupKeeps
  <2> QED BY <2>1, Keeping DEF Kept
<1> QED BY <1>2, <1>3, <1>4

\* A place of its own for o, where it is in memory.
Place(where, l) == /\ where \in Where \ {"FREE", "ONBILL"} /\ l \in Level
                   /\ where \in {"FLOOR", "BURIED", "MINVENT"} => l = here

\* V is W but for the place of o.
Placed(W, V, o, where, l) ==
    /\ Kept(W, V, o) /\ V.timer_base = W.timer_base
    /\ V.obj[o].where = where /\ V.obj[o].lev = l
    /\ V.obj[o].otyp = W.obj[o].otyp /\ V.obj[o].quan = W.obj[o].quan
    /\ V.obj[o].lamplit = W.obj[o].lamplit /\ V.obj[o].age = W.obj[o].age
    /\ V.obj[o].spe = W.obj[o].spe

\* o is put somewhere else; what rots is buried.
LEMMA PutKept ==
    ASSUME NEW W, Good(W), NEW o \in ObjId, InMem(W, o), NEW where, NEW l, Place(where, l),
           where = "BURIED" \/ ~HasRot(Of(W.timer_base, o)), W.obj[o].where # "ONBILL"
    PROVE  Placed(W, Put(W, o, where, l), o, where, l)
<1> DEFINE V == Put(W, o, where, l)
           R == W.obj[o]
           r == [R EXCEPT !.where = where, !.lev = l]
<1>1. W \in Worlds /\ W.impossible = FALSE /\ R \in Obj /\ Whole(R)
  BY GoodFacts
<1>2. where \in Where /\ l \in Level
  BY DEF Place
<1>3. /\ Only(W, V, o) /\ V.timer_base = W.timer_base
      /\ V.light_base = W.light_base /\ V.obj[o] = r
  <2>1. \A w \in Where, k \in Level :
           LET X == Put(W, o, w, k)
           IN  /\ Only(W, X, o) /\ X.timer_base = W.timer_base
               /\ X.light_base = W.light_base
               /\ X.obj[o] = [W.obj[o] EXCEPT !.where = w, !.lev = k]
    BY <1>1, PutIs
  <2> QED BY <1>2, <2>1
<1>4. r \in Obj
  BY <1>1, <1>2, Structs
<1>5. /\ r.where = where /\ r.lev = l /\ r.otyp = R.otyp /\ r.quan = R.quan
      /\ r.lamplit = R.lamplit /\ r.age = R.age /\ r.timed = R.timed
      /\ r.unpaid = R.unpaid /\ r.spe = R.spe
  BY <1>1 DEF Obj
<1> HIDE DEF V, r
<1>6. Whole(r) /\ ~Away(r)
  BY <1>1, <1>4, <1>5 DEF Whole, Away, Place
<1>7. r.where \notin {"FREE", "ONBILL"}
  BY <1>5 DEF Place
<1>8. Kept(W, V, o)
  BY <1>3, <1>5, <1>6, <1>7, StructKept
<1> QED BY <1>3, <1>5, <1>8 DEF V, r, Placed

\* Division keeps the sign.
LEMMA QuotFacts ==
    ASSUME NEW a \in Int, NEW b \in Int, b > 0
    PROVE  Quot(a, b) \in Int /\ (a >= 0 => Quot(a, b) >= 0)
<1>1. \A x \in Int : x \div b \in Int
  OBVIOUS
<1>2. \A x \in Int : x >= 0 => x \div b >= 0
  OBVIOUS
<1> QED BY <1>1, <1>2 DEF Quot

\* The age of a stack is an average of ages.
LEMMA AverageFacts ==
    ASSUME NEW a \in Int, NEW b \in Int, NEW m \in Int, NEW n \in Int, m >= 1, n >= 1
    PROVE  /\ Quot(a * m + b * n, m + n) \in Int
           /\ a >= 0 /\ b >= 0 => Quot(a * m + b * n, m + n) >= 0
<1>1. a * m + b * n \in Int /\ m + n \in Int /\ m + n > 0
  OBVIOUS
<1>2. a >= 0 /\ b >= 0 => a * m + b * n >= 0
  <2>1. a >= 0 => a * m >= 0
    OBVIOUS
  <2>2. b >= 0 => b * n >= 0
    OBVIOUS
  <2> QED BY <2>1, <2>2
<1> QED BY <1>1, <1>2, QuotFacts

\* merged: one stack less.
LEMMA MergedGood ==
    ASSUME NEW W, Good(W), NEW otmp \in ObjId, NEW o \in ObjId, InMem(W, otmp), InMem(W, o),
           Mergable(W, otmp, o), W.obj[otmp].where # "ONBILL", W.obj[o].where # "ONBILL",
           phase = "play", monstermoves \in Int
    PROVE  Good(Merged(W, otmp, o))
<1> DEFINE d   == W.obj[otmp]
           r   == W.obj[o]
           avg == Quot(d.age * d.quan + r.age * r.quan, d.quan + r.quan)
           age == IF r.lamplit THEN d.age ELSE avg
           q   == [d EXCEPT !.quan = d.quan + r.quan]
           s   == [q EXCEPT !.age = age]
           W1  == [W EXCEPT !.obj[otmp].quan = @ + r.quan,
                            !.obj[otmp].age =
                               IF r.lamplit THEN @
                               ELSE Quot(@ * d.quan + r.age * r.quan, d.quan + r.quan)]
           W2  == IF r.lamplit THEN EndBurn(W1, o, TRUE) ELSE W1
<1>1. /\ W \in Worlds /\ W.impossible = FALSE /\ otmp # o
      /\ d \in Obj /\ r \in Obj /\ Whole(d) /\ Whole(r)
      /\ d.quan \in Int /\ r.quan \in Int /\ d.age \in Int /\ r.age \in Int
  BY GoodFacts, ObjFields DEF Mergable
<1>2. age \in Int /\ (PrayerTurns = 0 => age >= 0)
  <2>1. avg \in Int /\ (d.age >= 0 /\ r.age >= 0 => avg >= 0)
    <3>1. d.quan >= 1 /\ r.quan >= 1
      BY <1>1 DEF Whole
    <3> HIDE DEF d, r
    <3> QED BY <1>1, <3>1, AverageFacts
  <2> HIDE DEF avg
  <2> QED BY <1>1, <2>1 DEF Whole
<1> HIDE DEF avg
<1>3. q \in Obj /\ s \in Obj
  <2>1. d.quan + r.quan \in Int
    BY <1>1
  <2>2. q \in Obj
    BY <1>1, <2>1, Structs
  <2> HIDE DEF q, age
  <2> QED BY <1>2, <2>2, Structs
<1>4. /\ s.otyp = d.otyp /\ s.where = d.where /\ s.lev = d.lev /\ s.spe = d.spe
      /\ s.quan = d.quan + r.quan /\ s.age = age /\ s.lamplit = d.lamplit
      /\ s.timed = d.timed /\ s.unpaid = d.unpaid
  <2> HIDE DEF age, r
  <2> QED BY <1>1 DEF Obj
<1>5. W1 = Renewed(W, otmp, s)
  <2>1. W1 = [W EXCEPT !.obj[otmp].quan = d.quan + r.quan, !.obj[otmp].age = age]
    BY <1>1 DEF Worlds, Obj, avg
  <2> HIDE DEF W1, r, age
  <2> QED BY <1>1, <2>1 DEF Renewed, Worlds
<1>6. Merged(W, otmp, o) = DeallocObj(W2, o)
  BY DEF Merged
<1> HIDE DEF W1, s, q, age
<1>7. Whole(s)
  BY <1>1, <1>2, <1>3, <1>4 DEF Whole
<1>8. Kept(W, W1, otmp)
  BY <1>3, <1>4, <1>5, <1>7, RenewKept
<1>9. Good(W1) /\ InMem(W1, o) /\ W1.obj[o] = r
  <2>1. Good(W1) /\ Rest(W, W1, {otmp})
    BY <1>8 DEF Kept
  <2>2. o # otmp
    BY <1>1
  <2>3. InMem(W1, o) /\ W1.obj[o] = W.obj[o]
    <3> HIDE DEF d, r
    <3> QED BY <2>1, <2>2 DEF Rest, InMem
  <2> QED BY <2>1, <2>3
<1>10. Good(W2) /\ InMem(W2, o)
  <2>1. CASE r.lamplit
    <3>1. Kept(W1, EndBurn(W1, o, TRUE), o)
      <4>1. \A a : a = TRUE => Kept(W1, EndBurn(W1, o, a), o)
        BY <1>9, <2>1, EndKept
      <4> QED BY <4>1
    <3> QED BY <2>1, <3>1 DEF Kept
  <2>2. CASE ~r.lamplit
    BY <1>9, <2>2
  <2> QED BY <2>1, <2>2
<1> HIDE DEF W2
<1> QED BY <1>6, <1>10, FreeKept

\* What is not buried does not rot.
LEMMA NoRot ==
    ASSUME NEW W, NEW o, InMem(W, o), W.obj[o].where # "BURIED"
    PROVE  ~HasRot(Of(W.timer_base, o))
BY DEF InMem, Agrees, Balanced

\* o put on its own or stacked with what is already there.
LEMMA AddToGood ==
    ASSUME NEW W, Good(W), NEW o \in ObjId, InMem(W, o), NEW where, NEW l, Place(where, l),
           where # "BURIED", ~HasRot(Of(W.timer_base, o)), W.obj[o].where # "ONBILL",
           phase = "play", monstermoves \in Int
    PROVE  \A V \in AddTo(W, o, where, l) : Good(V)
<1> DEFINE P     == Put(W, o, where, l)
           peers == {d \in ObjId : P.obj[d].where = where /\ P.obj[d].lev = l}
<1>1. /\ Good(P) /\ InMem(P, o) /\ P.obj[o].where = where
  <2>1. Kept(W, P, o) /\ P.obj[o].where = where
    <3>1. where = "BURIED" \/ ~HasRot(Of(W.timer_base, o))
      OBVIOUS
    <3>2. Placed(W, P, o, where, l)
      BY <3>1, PutKept
    <3> HIDE DEF P
    <3> QED BY <3>2 DEF Placed
  <2> HIDE DEF P
  <2> QED BY <2>1 DEF Kept
<1>2. \A V \in AddTo(W, o, where, l) :
          \/ V = P
          \/ \E d \in peers : Mergable(P, o, d) /\ V = Merged(P, o, d)
          \/ \E d \in peers : Mergable(P, d, o) /\ V = Merged(P, d, o)
  BY DEF AddTo
<1> HIDE DEF P
<1>3. ASSUME NEW d \in peers PROVE InMem(P, d) /\ P.obj[d].where # "ONBILL"
  <2>1. ~Away(P.obj[d])
    BY DEF Away, Place
  <2>2. P.obj[d].where # "ONBILL"
    BY DEF Place
  <2> QED BY <1>1, <2>1, <2>2, GoodFacts
<1>4. P.obj[o].where # "ONBILL"
  BY <1>1 DEF Place
<1>5. ASSUME NEW d \in peers, Mergable(P, o, d) PROVE Good(Merged(P, o, d))
  BY <1>1, <1>3, <1>4, <1>5, MergedGood
<1>6. ASSUME NEW d \in peers, Mergable(P, d, o) PROVE Good(Merged(P, d, o))
  BY <1>1, <1>3, <1>4, <1>6, MergedGood
<1> QED BY <1>1, <1>2, <1>5, <1>6

\* The world of the state.
LEMMA WorldIs ==
    /\ World.obj = obj /\ World.timer_base = timer_base
    /\ World.light_base = light_base /\ World.impossible = impossible
BY DEF World

\* All of o, or a part of it split off.
LEMMA PortionKept ==
    ASSUME Good(World), NEW o \in ObjId, InMem(World, o), obj[o].where # "FREE",
           NEW p \in Portions(o)
    PROVE  /\ p.o \in ObjId /\ Good(p.w) /\ InMem(p.w, p.o) /\ InMem(p.w, o)
           /\ Alike(obj[o], p.w.obj[p.o]) /\ Alike(obj[o], p.w.obj[o])
           /\ \A q \in ObjId : q # o /\ obj[q].where # "FREE"
                  => /\ q # p.o /\ p.w.obj[q] = obj[q]
                     /\ InMem(World, q) => InMem(p.w, q)
           /\ Rest(World, p.w, {o, p.o}) /\ Of(p.w.timer_base, o) = Of(timer_base, o)
           /\ p.o # o => /\ obj[p.o].where = "FREE"
                         /\ Of(p.w.timer_base, p.o) = Copies(timer_base, o, p.o)
<1> DEFINE W == World
<1>1. W \in Worlds /\ W.impossible = FALSE /\ W.obj = obj /\ obj[o].quan \in Int
  <2>1. W \in Worlds /\ W.impossible = FALSE /\ W.obj[o] \in Obj
    BY GoodFacts
  <2> QED BY <2>1, WorldIs, ObjFields
<1>2. CASE p = [w |-> World, o |-> o]
  BY <1>1, <1>2, WorldIs DEF Alike, Rest
<1>3. ASSUME NEW num \in 1 .. obj[o].quan - 1, NEW new \in ObjId, obj[new].where = "FREE",
             p = [w |-> SplitObj(World, o, num, new), o |-> new]
      PROVE  /\ p.o \in ObjId /\ Good(p.w) /\ InMem(p.w, p.o) /\ InMem(p.w, o)
             /\ Alike(obj[o], p.w.obj[p.o]) /\ Alike(obj[o], p.w.obj[o])
             /\ \A q \in ObjId : q # o /\ obj[q].where # "FREE"
                    => /\ q # p.o /\ p.w.obj[q] = obj[q]
                       /\ InMem(World, q) => InMem(p.w, q)
             /\ Rest(World, p.w, {o, p.o}) /\ Of(p.w.timer_base, o) = Of(timer_base, o)
             /\ p.o # o => /\ obj[p.o].where = "FREE"
                           /\ Of(p.w.timer_base, p.o) = Copies(timer_base, o, p.o)
  <2> DEFINE V == SplitObj(World, o, num, new)
  <2>1. p.w = V /\ p.o = new
    BY <1>3
  <2>2. num \in Int /\ num >= 1 /\ num < obj[o].quan /\ o # new
    BY <1>1, <1>3
  <2> HIDE DEF V
  <2>3. InMem(W, new)
    <3>1. ~Away(obj[new])
      BY <1>3 DEF Away
    <3> QED BY <1>1, <3>1, GoodFacts
  <2>4. /\ Rest(W, V, {o, new}) /\ InMem(V, o) /\ InMem(V, new)
        /\ Alike(obj[o], V.obj[o]) /\ Alike(obj[o], V.obj[new])
        /\ Of(V.timer_base, o) = Of(timer_base, o)
        /\ Of(V.timer_base, new) = Copies(timer_base, o, new)
    <3> HIDE DEF W
    <3>1. W = World
      BY DEF W
    <3>2. /\ Rest(World, V, {o, new}) /\ InMem(V, o) /\ InMem(V, new)
          /\ Alike(World.obj[o], V.obj[o]) /\ Alike(World.obj[o], V.obj[new])
          /\ Of(V.timer_base, o) = Of(World.timer_base, o)
          /\ Of(V.timer_base, new) = Copies(World.timer_base, o, new)
      <4>1. /\ World \in Worlds /\ World.impossible = FALSE /\ InMem(World, o) /\ InMem(World, new)
            /\ World.obj[new].where = "FREE" /\ num < World.obj[o].quan
        BY <1>1, <1>3, <2>2, <2>3, <3>1
      <4>2. LET X == SplitObj(World, o, num, new)
            IN  /\ Rest(World, X, {o, new}) /\ InMem(X, o) /\ InMem(X, new)
                /\ Alike(World.obj[o], X.obj[o]) /\ Alike(World.obj[o], X.obj[new])
                /\ X.obj[o].quan = World.obj[o].quan - num /\ X.obj[new].quan = num
                /\ Of(X.timer_base, o) = Of(World.timer_base, o)
                /\ Of(X.timer_base, new) = Copies(World.timer_base, o, new)
        BY <2>2, <4>1, SplitObjKeeps
      <4> QED BY <4>2 DEF V
    <3> QED BY <3>1, <3>2, WorldIs
  <2>5. Good(V)
    <3>1. \A q \in ObjId \cap {o, new} : ~Away(W.obj[q]) /\ InMem(V, q)
      BY <2>3, <2>4 DEF InMem
    <3> QED BY <2>4, <3>1, Change
  <2>6. \A q \in ObjId : q # o /\ obj[q].where # "FREE"
            => q # new /\ V.obj[q] = obj[q] /\ (InMem(W, q) => InMem(V, q))
    BY <1>1, <1>3, <2>4 DEF Rest, InMem
  <2> QED BY <1>3, <2>1, <2>2, <2>4, <2>5, <2>6
<1> QED BY <1>2, <1>3 DEF Portions

\* The timer t of o has run out or is stopped.
Without(W, t, o) == [W EXCEPT !.timer_base = @ \ {t}, !.obj[o].timed = @ - 1]

\* Its object counts one less.
LEMMA WithoutIs ==
    ASSUME NEW W, Good(W), NEW o \in ObjId, InMem(W, o), NEW t \in Of(W.timer_base, o)
    PROVE  /\ Rest(W, Without(W, t, o), {o})
           /\ Without(W, t, o).light_base = W.light_base
           /\ Of(Without(W, t, o).timer_base, o) = Of(W.timer_base, o) \ {t}
           /\ Same(W.obj[o], Without(W, t, o).obj[o])
           /\ Without(W, t, o).obj[o].unpaid = W.obj[o].unpaid
           /\ Without(W, t, o).obj[o].timed = W.obj[o].timed - 1
           /\ Without(W, t, o).obj[o] \in Obj
<1> DEFINE R == W.obj[o]
           r == [R EXCEPT !.timed = R.timed - 1]
           U == [W EXCEPT !.timer_base = W.timer_base \ {t}]
           V == Without(W, t, o)
<1>1. W \in Worlds /\ W.impossible = FALSE /\ R \in Obj /\ R.timed - 1 \in Int
  <2>1. W \in Worlds /\ W.impossible = FALSE /\ R \in Obj
    BY GoodFacts
  <2> QED BY <2>1, ObjFields
<1>2. r \in Obj
  BY <1>1, Structs
<1>3. Same(R, r) /\ r.unpaid = R.unpaid /\ r.timed = R.timed - 1
  BY <1>1 DEF Same, Obj
<1>4. V = [U EXCEPT !.obj = [W.obj EXCEPT ![o] = r]]
  BY <1>1 DEF Without, Worlds
<1>5. Is(U, W.obj, W.timer_base \ {t}, W.light_base)
  BY <1>1 DEF Is, Worlds
<1> HIDE DEF V, U, r
<1>6. Is(V, [W.obj EXCEPT ![o] = r], W.timer_base \ {t}, W.light_base)
  BY <1>2, <1>4, <1>5, ObjectIs
<1>7. /\ Only(W, V, o) /\ V.timer_base = W.timer_base \ {t}
      /\ V.light_base = W.light_base /\ V.obj[o] = r
  BY <1>1, <1>6 DEF Is, Only, Worlds
<1>8. /\ Of(W.timer_base \ {t}, o) = Of(W.timer_base, o) \ {t}
      /\ \A p \in ObjId : p # o => Of(W.timer_base \ {t}, p) = Of(W.timer_base, p)
  BY DEF Of
<1>9. Rest(W, V, {o})
  BY <1>7, <1>8, OnlyRest
<1> QED BY <1>2, <1>3, <1>7, <1>8, <1>9 DEF V

\* The account of what no longer rots.
LEMMA RotGone ==
    ASSUME NEW W, Good(W), NEW o \in ObjId, InMem(W, o), NEW t \in Of(W.timer_base, o),
           t.func = "ROT_ORGANIC"
    PROVE  /\ Kept(W, Without(W, t, o), o)
           /\ ~HasRot(Of(Without(W, t, o).timer_base, o))
           /\ Flames(Of(Without(W, t, o).timer_base, o)) = Flames(Of(W.timer_base, o))
           /\ Same(W.obj[o], Without(W, t, o).obj[o])
<1> DEFINE R == W.obj[o]
           T == Of(W.timer_base, o)
           V == Without(W, t, o)
           r == V.obj[o]
           n == W.light_base[o]
<1>1. /\ Rest(W, V, {o}) /\ V.light_base = W.light_base
      /\ Of(V.timer_base, o) = T \ {t} /\ Same(R, r) /\ r.unpaid = R.unpaid
      /\ r.timed = R.timed - 1 /\ r \in Obj
  BY WithoutIs
<1>2. Agrees(R, T, n) /\ Timely(T) /\ ~Away(R)
  BY DEF InMem
<1> HIDE DEF V, r, T, R, n
<1>3. /\ HasBurn(T \ {t}) <=> HasBurn(T)
      /\ ~HasRot(T \ {t}) /\ HasRot(T) /\ Flames(T \ {t}) = Flames(T)
  BY <1>2 DEF Agrees, Balanced, HasBurn, HasRot, Flames, T
<1>4. r.timed = Num(HasBurn(T \ {t})) + Num(HasRot(T \ {t}))
  BY <1>1, <1>2, <1>3 DEF Agrees, Balanced, Num
<1>5. Whole(r) /\ ~Away(r)
  BY <1>1, <1>2 DEF Agrees, Balanced, Whole, Same, Away
<1>6. Agrees(r, T \ {t}, n) /\ Timely(T \ {t})
  BY <1>1, <1>2, <1>3, <1>4, <1>5 DEF Agrees, Balanced, Same, Timely
<1>7. InMem(V, o)
  BY <1>1, <1>5, <1>6 DEF InMem, n, r
<1>8. Kept(W, V, o)
  BY <1>1, <1>7, Keeping
<1> QED BY <1>1, <1>3, <1>8 DEF V, R, r, T

\* A burning object whose timer has run out.
LEMMA BurnGone ==
    ASSUME NEW W, Good(W), NEW o \in ObjId, InMem(W, o), NEW t \in Of(W.timer_base, o),
           t.func = "BURN_OBJECT"
    PROVE  /\ Spent(Without(W, t, o), o) /\ Rest(W, Without(W, t, o), {o})
<1> DEFINE R == W.obj[o]
           T == Of(W.timer_base, o)
           V == Without(W, t, o)
           r == V.obj[o]
           n == W.light_base[o]
<1>1. /\ Rest(W, V, {o}) /\ V.light_base = W.light_base
      /\ Of(V.timer_base, o) = T \ {t} /\ Same(R, r) /\ r.unpaid = R.unpaid
      /\ r.timed = R.timed - 1 /\ r \in Obj
  BY WithoutIs
<1>2. Agrees(R, T, n) /\ Timely(T) /\ ~Away(R)
  BY DEF InMem
<1> HIDE DEF V, r, T, R, n
<1>3. /\ HasRot(T \ {t}) <=> HasRot(T)
      /\ ~HasBurn(T \ {t}) /\ HasBurn(T) /\ R.lamplit /\ R.otyp # "MAGIC_LAMP"
  BY <1>2 DEF Agrees, Balanced, HasBurn, HasRot, T
<1>4. r.timed = Num(HasBurn(T \ {t})) + Num(HasRot(T \ {t}))
  BY <1>1, <1>2, <1>3 DEF Agrees, Balanced, Num
<1>5. Whole(r) /\ ~Away(r) /\ r.lamplit /\ r.otyp # "MAGIC_LAMP"
  BY <1>1, <1>2, <1>3 DEF Agrees, Balanced, Whole, Same, Away
<1>6. Balanced(r, T \ {t}, n, FALSE) /\ Timely(T \ {t})
  BY <1>1, <1>2, <1>3, <1>4, <1>5 DEF Agrees, Balanced, Same, Timely
<1>7. Spent(V, o)
  BY <1>1, <1>5, <1>6 DEF Spent, n, r
<1> QED BY <1>1, <1>7 DEF V

\* stop_timer on the rot timer of what is dug up.
LEMMA StopRotKept ==
    ASSUME NEW W, Good(W), NEW o \in ObjId, InMem(W, o)
    PROVE  LET V == IF W.obj[o].timed # 0 THEN StopTimer(W, "ROT_ORGANIC", o) ELSE W
           IN  /\ Kept(W, V, o) /\ Same(W.obj[o], V.obj[o])
               /\ ~HasRot(Of(V.timer_base, o))
               /\ Flames(Of(V.timer_base, o)) = Flames(Of(W.timer_base, o))
<1> DEFINE T == Of(W.timer_base, o)
<1>1. CASE ~HasRot(T)
  <2>1. TimersOf(W, "ROT_ORGANIC", o) = {}
    BY <1>1 DEF TimersOf, HasRot, Of
  <2>2. StopTimer(W, "ROT_ORGANIC", o) = W
    BY <2>1 DEF StopTimer
  <2>3. Kept(W, W, o) /\ Same(W.obj[o], W.obj[o])
    BY DEF Kept, Rest, Same, Good
  <2> QED BY <1>1, <2>2, <2>3
<1>2. CASE HasRot(T)
  <2>1. W.obj[o].timed # 0
    BY <1>2, NoTimers DEF InMem, Agrees, HasRot
  <2>2. PICK t \in TimersOf(W, "ROT_ORGANIC", o) :
            t = CHOOSE u \in TimersOf(W, "ROT_ORGANIC", o) : TRUE
    BY <1>2 DEF TimersOf, HasRot, Of
  <2>3. t \in T /\ t.func = "ROT_ORGANIC" /\ TimersOf(W, "ROT_ORGANIC", o) # {}
    BY <2>2 DEF TimersOf, Of
  <2>4. StopTimer(W, "ROT_ORGANIC", o) = Without(W, t, o)
    BY <2>2, <2>3 DEF StopTimer, Without
  <2> HIDE DEF T
  <2>5. /\ Kept(W, Without(W, t, o), o)
        /\ ~HasRot(Of(Without(W, t, o).timer_base, o))
        /\ Flames(Of(Without(W, t, o).timer_base, o)) = Flames(Of(W.timer_base, o))
        /\ Same(W.obj[o], Without(W, t, o).obj[o])
    BY <2>3, RotGone DEF T
  <2> QED BY <2>1, <2>4, <2>5
<1> QED BY <1>1, <1>2

\* start_timer for the rotting of what is buried.
LEMMA StartRotKept ==
    ASSUME NEW W, Good(W), NEW o \in ObjId, InMem(W, o), W.obj[o].where = "BURIED",
           W.obj[o].otyp \in {"POT_OIL", "CANDLE"},
           ~HasRot(Of(W.timer_base, o)), NEW when \in Int, when > 0, monstermoves \in Int
    PROVE  LET V == StartTimer(W, when, "ROT_ORGANIC", o)
           IN  /\ Kept(W, V, o) /\ Same(W.obj[o], V.obj[o])
               /\ Flames(Of(V.timer_base, o)) = Flames(Of(W.timer_base, o))
<1> DEFINE R == W.obj[o]
           T == Of(W.timer_base, o)
           V == StartTimer(W, when, "ROT_ORGANIC", o)
           t == [timeout |-> monstermoves + when, func |-> "ROT_ORGANIC", arg |-> o]
           n == W.light_base[o]
<1>1. W \in Worlds /\ W.impossible = FALSE /\ R \in Obj
  BY GoodFacts
<1>2. /\ t \in Timer /\ Only(W, V, o) /\ V.timer_base = W.timer_base \cup {t}
      /\ V.obj[o] = [W.obj[o] EXCEPT !.timed = @ + 1] /\ V.light_base = W.light_base
  BY <1>1, StartTimerIs DEF Func
<1>3. t.func = "ROT_ORGANIC" /\ t.arg = o /\ t.timeout > monstermoves
  OBVIOUS
<1> DEFINE r == V.obj[o]
<1>4. r \in Obj /\ Same(R, r) /\ r.unpaid = R.unpaid /\ r.timed = R.timed + 1
  <2>1. V \in Worlds
    BY <1>2 DEF Only
  <2>2. r \in Obj
    BY <2>1, WorldFields
  <2> HIDE DEF V
  <2> QED BY <1>1, <1>2, <2>2 DEF Same, Obj
<1> HIDE DEF V, t, r
<1>5. /\ Of(V.timer_base, o) = T \cup {t}
      /\ \A p \in ObjId : p # o => Of(V.timer_base, p) = Of(W.timer_base, p)
  BY <1>2, <1>3 DEF Of
<1>6. Agrees(R, T, n) /\ Timely(T) /\ ~Away(R) /\ ~HasRot(T) /\ R.where = "BURIED"
      /\ R.otyp \in {"POT_OIL", "CANDLE"}
  BY DEF InMem
<1> HIDE DEF T, R, n
<1>7. (HasBurn(T \cup {t}) <=> HasBurn(T)) /\ HasRot(T \cup {t})
  BY <1>3 DEF HasBurn, HasRot
<1>8. r.timed = Num(HasBurn(T \cup {t})) + Num(HasRot(T \cup {t}))
  BY <1>4, <1>6, <1>7 DEF Agrees, Balanced, Num
<1>9. \A u, v \in T \cup {t} : u.func = v.func => u = v
  BY <1>3, <1>6 DEF Agrees, Balanced, HasRot
<1>10. Whole(r) /\ ~Away(r)
  BY <1>4, <1>6 DEF Agrees, Balanced, Whole, Same, Away
<1>11. Agrees(r, T \cup {t}, n) /\ Timely(T \cup {t})
  BY <1>2, <1>3, <1>4, <1>6, <1>7, <1>8, <1>9, <1>10 DEF Agrees, Balanced, Same, Timely
<1>12. InMem(V, o)
  BY <1>2, <1>5, <1>10, <1>11 DEF InMem, n, r
<1>13. Rest(W, V, {o})
  BY <1>2, <1>5, OnlyRest
<1>14. Kept(W, V, o)
  BY <1>12, <1>13, Keeping
<1>15. Flames(T \cup {t}) = Flames(T)
  BY <1>3 DEF Flames
<1> QED BY <1>4, <1>5, <1>14, <1>15 DEF V, T, R, r

\* V is W, whose books are in order, but for o, which has just lost its timer.
Expired(W, V, o) ==
    Good(W) /\ ~Away(W.obj[o]) /\ V \in Worlds /\ Rest(W, V, {o}) /\ Spent(V, o)

\* Its age may change.
LEMMA ExpiredAge ==
    ASSUME NEW W, NEW V, NEW o \in ObjId, Expired(W, V, o), NEW a \in Int,
           PrayerTurns = 0 => a >= 0
    PROVE  /\ Expired(W, [V EXCEPT !.obj[o].age = a], o)
           /\ [V EXCEPT !.obj[o].age = a].obj[o].age = a
           /\ [V EXCEPT !.obj[o].age = a].obj[o].otyp = V.obj[o].otyp
           /\ [V EXCEPT !.obj[o].age = a].obj[o].where = V.obj[o].where
<1> DEFINE U == [V EXCEPT !.obj[o].age = a]
           R == V.obj[o]
           r == U.obj[o]
<1>1. /\ V \in Worlds /\ V.impossible = FALSE /\ R \in Obj
      /\ Good(W) /\ ~Away(W.obj[o]) /\ Rest(W, V, {o}) /\ Spent(V, o)
  BY WorldFields DEF Expired, Rest
<1>2. /\ Only(V, U, o) /\ U.obj[o] = [V.obj[o] EXCEPT !.age = a]
      /\ U.timer_base = V.timer_base /\ U.light_base = V.light_base
  BY <1>1, AgeIs
<1>3. U \in Worlds
  BY <1>2 DEF Only
<1> HIDE DEF U
<1>4. /\ r \in Obj /\ Still(R, r) /\ r.lamplit = R.lamplit /\ r.timed = R.timed /\ r.age = a
  <2>1. r \in Obj
    BY <1>3, WorldFields
  <2> QED BY <1>1, <1>2, <2>1 DEF Still, Obj
<1> HIDE DEF r
<1>5. Rest(W, U, {o})
  <2>1. Rest(V, U, {o})
    BY <1>2, OnlyRest
  <2>2. {o} \cup {o} = {o}
    OBVIOUS
  <2> QED BY <1>1, <2>1, <2>2, Compose
<1>6. Spent(U, o)
  <2>1. /\ ~Away(R) /\ R.lamplit /\ R.otyp # "MAGIC_LAMP"
        /\ Balanced(R, Of(V.timer_base, o), V.light_base[o], FALSE)
        /\ Timely(Of(V.timer_base, o))
    BY <1>1 DEF Spent
  <2> HIDE DEF R
  <2>2. ~Away(r) /\ Whole(r)
    BY <1>4, <2>1 DEF Away, Still, Balanced, Whole
  <2>3. Balanced(r, Of(U.timer_base, o), U.light_base[o], FALSE)
    BY <1>2, <1>4, <2>1, <2>2 DEF Balanced, Still
  <2>4. r.lamplit /\ r.otyp # "MAGIC_LAMP" /\ Timely(Of(U.timer_base, o))
    BY <1>2, <1>4, <2>1 DEF Still
  <2> QED BY <2>2, <2>3, <2>4 DEF Spent, r
<1> QED BY <1>1, <1>3, <1>4, <1>5, <1>6 DEF Expired, Still, U, r

\* It is lit again.
LEMMA RelitKept ==
    ASSUME NEW W, NEW V, NEW o \in ObjId, Expired(W, V, o), V.obj[o].age # 0,
           monstermoves \in Int
    PROVE  Kept(W, BeginBurn(V, o, TRUE), o)
<1> DEFINE U == BeginBurn(V, o, TRUE)
<1>1. /\ V \in Worlds /\ V.impossible = FALSE
      /\ Good(W) /\ ~Away(W.obj[o]) /\ Rest(W, V, {o}) /\ Spent(V, o)
  BY DEF Expired, Rest
<1>2. \A lit \in BOOLEAN : Ready(V, o, lit) =>
          Rest(V, BeginBurn(V, o, lit), {o}) /\ InMem(BeginBurn(V, o, lit), o)
  BY <1>1, BeginBurnKeeps
<1>3. Ready(V, o, TRUE)
  BY <1>1 DEF Ready
<1>4. Rest(V, U, {o}) /\ InMem(U, o)
  BY <1>2, <1>3
<1> HIDE DEF U
<1>5. Rest(W, U, {o})
  <2>1. {o} \cup {o} = {o}
    OBVIOUS
  <2> QED BY <1>1, <1>4, <2>1, Compose
<1>6. \A p \in ObjId \cap {o} : ~Away(W.obj[p]) /\ InMem(U, p)
  BY <1>1, <1>4
<1>7. Good(U)
  BY <1>1, <1>5, <1>6, Change
<1> QED BY <1>4, <1>5, <1>7 DEF U, Kept

\* It has burnt out.
LEMMA BurntOutKept ==
    ASSUME NEW W, NEW V, NEW o \in ObjId, Expired(W, V, o), monstermoves \in Int
    PROVE  LET U == BurntOut(V, o)
               s == U.obj[o]
           IN  /\ Kept(W, U, o)
               /\ V.obj[o].otyp \in {"CANDLE", "POT_OIL"} => s.where \in {"FREE", "ONBILL"}
               /\ V.obj[o].otyp \notin {"CANDLE", "POT_OIL"} =>
                      /\ s.otyp = V.obj[o].otyp /\ s.where = V.obj[o].where
                      /\ s.lamplit = FALSE /\ s.age = 0
                      /\ s.otyp = "CANDELABRUM" => s.spe = 0
<1> DEFINE A  == [V EXCEPT !.obj[o].age = 0]
           W1 == EndBurn(A, o, FALSE)
           R  == V.obj[o]
<1>1. /\ Expired(W, A, o) /\ A.obj[o].age = 0 /\ A.obj[o].otyp = R.otyp
      /\ A.obj[o].where = R.where
  <2>1. \A a \in Int : (PrayerTurns = 0 => a >= 0) =>
            /\ Expired(W, [V EXCEPT !.obj[o].age = a], o)
            /\ [V EXCEPT !.obj[o].age = a].obj[o].age = a
            /\ [V EXCEPT !.obj[o].age = a].obj[o].otyp = V.obj[o].otyp
            /\ [V EXCEPT !.obj[o].age = a].obj[o].where = V.obj[o].where
    BY ExpiredAge
  <2> QED BY <2>1
<1>2. BurntOut(V, o) = CASE R.otyp = "CANDELABRUM" -> [W1 EXCEPT !.obj[o].spe = 0]
                         [] R.otyp \in {"CANDLE", "POT_OIL"} -> Obfree(W1, o)
                         [] OTHER -> W1
  BY DEF BurntOut
<1> HIDE DEF A, R
<1>3. /\ A \in Worlds /\ A.impossible = FALSE
      /\ Good(W) /\ ~Away(W.obj[o]) /\ Rest(W, A, {o}) /\ Spent(A, o)
  BY <1>1 DEF Expired, Rest
<1>4. /\ Rest(A, W1, {o}) /\ InMem(W1, o) /\ Still(A.obj[o], W1.obj[o])
      /\ W1.obj[o].lamplit = FALSE /\ W1.obj[o].age = A.obj[o].age
  <2>1. \A b : ~b => LET X == EndBurn(A, o, b)
                     IN  /\ Rest(A, X, {o}) /\ InMem(X, o) /\ Still(A.obj[o], X.obj[o])
                         /\ X.obj[o].lamplit = FALSE /\ X.obj[o].age = A.obj[o].age
    BY <1>3, PutOut DEF Spent
  <2> QED BY <2>1
<1> HIDE DEF W1
<1>5. Kept(W, W1, o)
  <2>1. {o} \cup {o} = {o}
    OBVIOUS
  <2>2. Rest(W, W1, {o})
    BY <1>3, <1>4, <2>1, Compose
  <2>3. \A p \in ObjId \cap {o} : ~Away(W.obj[p]) /\ InMem(W1, p)
    BY <1>3, <1>4
  <2>4. Good(W1)
    BY <1>3, <2>2, <2>3, Change
  <2> QED BY <1>4, <2>2, <2>4 DEF Kept
<1>6. Good(W1)
  BY <1>5 DEF Kept
<1>7. LET U == [W1 EXCEPT !.obj[o].spe = 0]
      IN  /\ Kept(W1, U, o) /\ U.obj[o].spe = 0
          /\ U.obj[o].otyp = W1.obj[o].otyp /\ U.obj[o].where = W1.obj[o].where
          /\ U.obj[o].lamplit = W1.obj[o].lamplit /\ U.obj[o].age = W1.obj[o].age
  <2> DEFINE S == W1.obj[o]
             r == [S EXCEPT !.spe = 0]
  <2>1. W1 \in Worlds /\ S \in Obj /\ Whole(S)
    BY <1>6, GoodFacts
  <2>2. r \in Obj
    BY <2>1 DEF Obj
  <2>3. /\ r.timed = S.timed /\ r.unpaid = S.unpaid
        /\ r.otyp = S.otyp /\ r.where = S.where /\ r.lev = S.lev /\ r.quan = S.quan
        /\ r.lamplit = S.lamplit /\ r.age = S.age /\ r.spe = 0
    BY <2>1 DEF Obj
  <2>4. [W1 EXCEPT !.obj[o].spe = 0] = Renewed(W1, o, r)
    BY <2>1 DEF Renewed, Worlds
  <2> HIDE DEF r
  <2>5. Whole(r)
    BY <2>1, <2>2, <2>3 DEF Whole
  <2>6. Kept(W1, Renewed(W1, o, r), o) /\ Renewed(W1, o, r).obj[o] = r
    BY <1>4, <1>6, <2>2, <2>3, <2>5, RenewKept
  <2> QED BY <2>3, <2>4, <2>6
<1>8. Kept(W1, Obfree(W1, o), o) /\ Obfree(W1, o).obj[o].where \in {"FREE", "ONBILL"}
  <2>1. W1 \in Worlds /\ W1.impossible = FALSE
    BY <1>6, GoodFacts
  <2>2. /\ Rest(W1, Obfree(W1, o), {o}) /\ InMem(Obfree(W1, o), o)
        /\ Obfree(W1, o).obj[o].where \in {"FREE", "ONBILL"}
    BY <1>4, <2>1, ObfreeKeeps
  <2> QED BY <1>4, <1>6, <2>2, Keeping
<1>9. CASE R.otyp = "CANDELABRUM"
  <2> DEFINE U == [W1 EXCEPT !.obj[o].spe = 0]
  <2>1. Kept(W, U, o)
    <3>1. Kept(W1, U, o)
      BY <1>7
    <3> HIDE DEF U
    <3> QED BY <1>5, <3>1, KeptAgain
  <2> QED BY <1>1, <1>2, <1>4, <1>7, <1>9, <2>1 DEF R, Still
<1>10. CASE R.otyp \in {"CANDLE", "POT_OIL"}
  <2>1. Kept(W, Obfree(W1, o), o)
    BY <1>5, <1>8, KeptAgain
  <2> QED BY <1>2, <1>8, <1>10, <2>1 DEF R
<1>11. CASE R.otyp \notin {"CANDELABRUM", "CANDLE", "POT_OIL"}
  BY <1>1, <1>2, <1>4, <1>5, <1>11 DEF R, Still
<1> QED BY <1>9, <1>10, <1>11

\* burn_object.
LEMMA BurnObjectKept ==
    ASSUME NEW W, NEW V, NEW o \in ObjId, Expired(W, V, o), NEW timeout \in Int,
           timeout <= monstermoves, monstermoves \in Int
    PROVE  Kept(W, BurnObject(V, o, timeout), o)
<1> DEFINE how_long == monstermoves - timeout
           age      == V.obj[o].age
           U        == [V EXCEPT !.obj[o].age = age - how_long]
<1>1. age \in Int /\ how_long \in Int /\ how_long >= 0
  BY WorldFields, ObjFields DEF Expired
<1>2. Kept(W, BurntOut(V, o), o)
  BY BurntOutKept
<1>3. age # 0 => Kept(W, BeginBurn(V, o, TRUE), o)
  BY RelitKept
<1>4. ASSUME ~(how_long >= age) PROVE Kept(W, BeginBurn(U, o, TRUE), o)
  <2>1. age - how_long \in Int /\ age - how_long > 0
    BY <1>1, <1>4
  <2> DEFINE a == age - how_long
  <2>2. Expired(W, U, o) /\ U.obj[o].age = a
    BY <2>1, ExpiredAge
  <2> HIDE DEF U, a
  <2>3. U.obj[o].age # 0
    BY <2>1, <2>2 DEF a
  <2> QED BY <2>2, <2>3, RelitKept
<1> QED BY <1>2, <1>3, <1>4 DEF BurnObject

(***************************************************************************)
(* Every action keeps the books.                                           *)
(***************************************************************************)

\* The books after an operation are those of the world it computes.
LEMMA DoGood ==
    ASSUME Base, NEW V, Good(V), Do(V)
    PROVE  IInv'
<1>1. V \in Worlds
  BY DEF Good
<1>2. V = World' /\ World' \in Worlds /\ World'.impossible = FALSE
  <2>1. /\ V.obj = obj' /\ V.timer_base = timer_base'
        /\ V.light_base = light_base' /\ V.impossible = impossible'
    BY DEF Do, Becomes
  <2>2. V = [obj |-> V.obj, timer_base |-> V.timer_base,
             light_base |-> V.light_base, impossible |-> V.impossible]
    BY <1>1, WorldFields DEF Worlds
  <2> QED BY <1>1, <2>1, <2>2 DEF World, Good
<1>3. Base'
  BY DEF Do, Base
<1>4. /\ monstermoves' = monstermoves /\ here' = here /\ levelfile' = levelfile
      /\ phase' = phase
  BY DEF Do
<1>5. \A o \in ObjId : Sound(World, o)'
  <2> SUFFICES ASSUME NEW o \in ObjId PROVE Sound(World, o)'
    OBVIOUS
  <2>1. Sound(V, o)
    BY DEF Good
  <2> QED BY <1>2, <1>4, <2>1
        DEF Sound, InMem, InFile, NotFiled, Away, Timely
<1> QED BY <1>2, <1>3, <1>5 DEF IInv, Good, Worlds

\* What the hero or a monster on the level can reach is in memory.
LEMMA Reach ==
    ASSUME IInv, NEW o \in ObjId,
           obj[o].where \in {"FLOOR", "BURIED", "MINVENT"} => obj[o].lev = here
    PROVE  /\ Base /\ Good(World) /\ InMem(World, o) /\ monstermoves \in Int
           /\ World.obj = obj
           /\ World \in Worlds /\ World.impossible = FALSE
           /\ obj[o] \in Obj /\ Whole(obj[o])
<1>1. Base /\ Good(World)
  BY DEF IInv
<1>2. ~Away(World.obj[o])
  BY WorldIs DEF Away
<1> QED BY <1>1, <1>2, GoodFacts, WorldIs DEF Base

\* end_burn or begin_burn on what is in reach.
LEMMA LightFacts ==
    ASSUME NEW W, Good(W), NEW o \in ObjId, InMem(W, o), phase = "play", monstermoves \in Int
    PROVE  /\ W.obj[o].lamplit => Kept(W, EndBurn(W, o, TRUE), o)
           /\ ~W.obj[o].lamplit /\ W.obj[o].where \notin {"FREE", "MIGRATING", "ONBILL"}
                 => /\ Kept(W, BeginBurn(W, o, FALSE), o)
                    /\ Kept(W, BeginBurn(Paid(W, o), o, FALSE), o)
<1>1. ASSUME W.obj[o].lamplit PROVE Kept(W, EndBurn(W, o, TRUE), o)
  <2>1. \A a : a => Kept(W, EndBurn(W, o, a), o)
    BY <1>1, EndKept
  <2> QED BY <2>1
<1>2. ASSUME ~W.obj[o].lamplit, W.obj[o].where \notin {"FREE", "MIGRATING", "ONBILL"}
      PROVE  /\ Kept(W, BeginBurn(W, o, FALSE), o)
             /\ Kept(W, BeginBurn(Paid(W, o), o, FALSE), o)
  <2>1. Kept(W, BeginBurn(W, o, FALSE), o)
    BY <1>2, BurnKept
  <2>2. Kept(W, Paid(W, o), o) /\ Same(W.obj[o], Paid(W, o).obj[o])
    BY PaidKept
  <2>3. Kept(Paid(W, o), BeginBurn(Paid(W, o), o, FALSE), o)
    BY <1>2, <2>2, BurnKept DEF Kept, Same
  <2> QED BY <2>1, <2>2, <2>3, KeptAgain
<1> QED BY <1>1, <1>2

\* use_lamp.
LEMMA UseLampKeeps ==
    ASSUME IInv, NEW o \in ObjId, UseLamp(o)
    PROVE  IInv'
<1>1. /\ Base /\ Good(World) /\ InMem(World, o) /\ monstermoves \in Int /\ World.obj = obj
      /\ obj[o].where = "INVENT" /\ phase = "play"
  BY Reach DEF UseLamp, Carried, HeroActs, Play
<1>2. /\ obj[o].lamplit => Good(EndBurn(World, o, TRUE))
      /\ ~obj[o].lamplit => /\ Good(BeginBurn(World, o, FALSE))
                            /\ Good(BeginBurn(Paid(World, o), o, FALSE))
  BY <1>1, LightFacts DEF Kept
<1> QED BY <1>1, <1>2, DoGood DEF UseLamp

\* The age of a dark or lit object is set.
LEMMA AgeKept ==
    ASSUME NEW W, Good(W), NEW o \in ObjId, InMem(W, o), NEW age \in Int,
           PrayerTurns = 0 => age >= 0
    PROVE  LET V == [W EXCEPT !.obj[o].age = age]
           IN  /\ Kept(W, V, o) /\ V.obj[o].lamplit = W.obj[o].lamplit
               /\ V.obj[o].where = W.obj[o].where
<1> DEFINE R == W.obj[o]
           r == [R EXCEPT !.age = age]
           V == [W EXCEPT !.obj[o].age = age]
<1>1. W \in Worlds /\ R \in Obj /\ Whole(R)
  BY GoodFacts
<1>2. r \in Obj
  BY <1>1, Structs
<1>3. /\ r.otyp = R.otyp /\ r.where = R.where /\ r.lev = R.lev
      /\ r.quan = R.quan /\ r.lamplit = R.lamplit /\ r.timed = R.timed
      /\ r.unpaid = R.unpaid /\ r.age = age
  BY <1>1 DEF Obj
<1>4. V = Renewed(W, o, r)
  BY <1>1 DEF Renewed, Worlds
<1> HIDE DEF r, V
<1>5. Whole(r)
  BY <1>1, <1>2, <1>3 DEF Whole
<1>6. Kept(W, V, o) /\ V.obj[o] = r
  BY <1>2, <1>3, <1>4, <1>5, RenewKept
<1> QED BY <1>3, <1>6 DEF V

\* use_candelabrum.
LEMMA UseCandelabrumKeeps ==
    ASSUME IInv, NEW o \in ObjId, UseCandelabrum(o)
    PROVE  IInv'
<1>1. /\ Base /\ Good(World) /\ InMem(World, o) /\ monstermoves \in Int /\ World.obj = obj
      /\ obj[o].where = "INVENT" /\ phase = "play" /\ obj[o] \in Obj /\ Whole(obj[o])
      /\ World \in Worlds
  BY Reach DEF UseCandelabrum, Carried, HeroActs, Play
<1>2. obj[o].lamplit => Good(EndBurn(World, o, TRUE))
  BY <1>1, LightFacts DEF Kept
<1>3. ASSUME ~obj[o].lamplit, NEW age \in {obj[o].age, Quot(obj[o].age, 2)}
      PROVE  Good(BeginBurn([World EXCEPT !.obj[o].age = age], o, FALSE))
  <2> DEFINE W == [World EXCEPT !.obj[o].age = age]
  <2>1. age \in Int /\ (PrayerTurns = 0 => age >= 0)
    <3>1. obj[o].age \in Int /\ (PrayerTurns = 0 => obj[o].age >= 0)
      BY <1>1, ObjFields DEF Whole
    <3> QED BY <3>1, QuotFacts
  <2>2. /\ Kept(World, W, o) /\ W.obj[o].lamplit = obj[o].lamplit
        /\ W.obj[o].where = obj[o].where
    BY <1>1, <2>1, AgeKept
  <2> HIDE DEF W
  <2>3. Good(W) /\ InMem(W, o) /\ ~W.obj[o].lamplit /\ W.obj[o].where = "INVENT"
    BY <1>1, <1>3, <2>2 DEF Kept
  <2>4. Kept(W, BeginBurn(W, o, FALSE), o)
    BY <1>1, <2>3, BurnKept
  <2> QED BY <2>4 DEF Kept, W
<1> QED BY <1>1, <1>2, <1>3, DoGood DEF UseCandelabrum

\* catch_lit.
LEMMA CatchLitKeeps ==
    ASSUME IInv, NEW o \in ObjId, CatchLit(o)
    PROVE  IInv'
<1>1. /\ Base /\ Good(World) /\ InMem(World, o) /\ monstermoves \in Int /\ World.obj = obj
      /\ obj[o].where \in {"INVENT", "FLOOR", "MINVENT"} /\ phase = "play"
  BY Reach DEF CatchLit, InReach, Carried, At, HeroActs, Play
<1>2. ~obj[o].lamplit
  BY DEF CatchLit, Catchable
<1>3. Good(BeginBurn(Paid(World, o), o, FALSE))
  BY <1>1, <1>2, LightFacts DEF Kept
<1> QED BY <1>1, <1>3, DoGood DEF CatchLit

\* snuff_lit.
LEMMA SnuffLitKeeps ==
    ASSUME IInv, NEW o \in ObjId, SnuffLit(o)
    PROVE  IInv'
<1>1. /\ Base /\ Good(World) /\ InMem(World, o) /\ monstermoves \in Int /\ World.obj = obj
      /\ obj[o].lamplit /\ phase = "play"
  BY Reach DEF SnuffLit, InReach, Carried, At, HeroActs, Play
<1>2. \A a : a \/ World.obj[o].otyp = "MAGIC_LAMP" => Good(EndBurn(World, o, a))
  BY <1>1, EndKept DEF Kept
<1>3. Good(EndBurn(World, o, obj[o].otyp # "MAGIC_LAMP"))
  BY <1>1, <1>2
<1> QED BY <1>1, <1>3, DoGood DEF SnuffLit

\* Objects that do not exist are in memory.
LEMMA FreeInMem ==
    ASSUME IInv, NEW o \in ObjId, obj[o].where = "FREE"
    PROVE  InMem(World, o)
BY Reach

\* oname.
LEMMA ONameKeeps ==
    ASSUME IInv, NEW o \in ObjId, OName(o)
    PROVE  IInv'
<1>1. /\ Base /\ Good(World) /\ InMem(World, o) /\ monstermoves \in Int /\ World.obj = obj
      /\ obj[o].where = "INVENT" /\ World \in Worlds /\ World.impossible = FALSE
  BY Reach DEF OName, Carried, HeroActs, Play
<1>2. ASSUME NEW new \in ObjId, obj[new].where = "FREE" PROVE Good(ReallocObj(World, o, new))
  <2> DEFINE V == ReallocObj(World, o, new)
  <2>1. InMem(World, new) /\ o # new
    BY <1>1, <1>2, FreeInMem
  <2>2. Rest(World, V, {o, new}) /\ InMem(V, o) /\ InMem(V, new)
    BY <1>1, <1>2, <2>1, ReallocObjKeeps
  <2> HIDE DEF V
  <2>3. \A q \in ObjId \cap {o, new} : ~Away(World.obj[q]) /\ InMem(V, q)
    BY <1>1, <2>1, <2>2 DEF InMem
  <2>4. Good(V)
    BY <1>1, <2>2, <2>3, Change
  <2> QED BY <2>4 DEF V
<1> QED BY <1>1, <1>2, DoGood DEF OName

\* Objects are used up, eaten, broken or burnt.
LEMMA DestroyKeeps ==
    ASSUME IInv, NEW o \in ObjId, Destroy(o)
    PROVE  IInv'
<1>1. Base /\ Good(World) /\ InMem(World, o) /\ monstermoves \in Int
  BY Reach DEF Destroy, Carried, At
<1>2. Good(Obfree(World, o)) /\ Good(Useup(World, o))
  BY <1>1, FreeKept
<1> QED BY <1>1, <1>2, DoGood DEF Destroy

\* The hero pays for something, wherever it is.
LEMMA PaidGood ==
    ASSUME Good(World), NEW o \in ObjId
    PROVE  LET V == Paid(World, o)
           IN  /\ Good(V) /\ Only(World, V, o) /\ V.timer_base = timer_base
               /\ Same(obj[o], V.obj[o])
<1> DEFINE V == Paid(World, o)
           r == V.obj[o]
<1>1. /\ World \in Worlds /\ World.impossible = FALSE /\ World.obj = obj
      /\ obj[o] \in Obj /\ Whole(obj[o]) /\ Sound(World, o)
      /\ World.timer_base = timer_base
  BY GoodFacts, WorldIs DEF Good
<1>2. /\ Only(World, V, o) /\ V.timer_base = World.timer_base
      /\ V.light_base = World.light_base
      /\ V.obj[o] = [obj[o] EXCEPT !.unpaid = FALSE]
  <2>1. \A b \in BOOLEAN :
           LET X == [World EXCEPT !.obj[o].unpaid = b]
           IN  /\ Only(World, X, o) /\ X.timer_base = World.timer_base
               /\ X.light_base = World.light_base
               /\ X.obj[o] = [World.obj[o] EXCEPT !.unpaid = b]
    BY <1>1, PaidIs
  <2> QED BY <1>1, <2>1 DEF Paid
<1> HIDE DEF V
<1>3. /\ r \in Obj /\ Same(obj[o], r) /\ r.timed = obj[o].timed /\ r.unpaid = FALSE
  <2>1. r \in Obj
    BY <1>2, WorldFields DEF Only
  <2> QED BY <1>1, <1>2, <2>1 DEF Same, Obj
<1>4. Whole(r)
  BY <1>1, <1>3 DEF Whole, Same
<1>5. \A T, n : Agrees(obj[o], T, n) => Agrees(r, T, n)
  BY <1>3, <1>4 DEF Agrees, Balanced, Same
<1>6. Away(r) <=> Away(obj[o])
  BY <1>3 DEF Away, Same
<1>7. Sound(V, o)
  <2>1. InMem(World, o) => InMem(V, o)
    BY <1>1, <1>2, <1>5, <1>6 DEF InMem
  <2>2. InFile(World, o) => InFile(V, o)
    BY <1>1, <1>2, <1>3, <1>5, <1>6 DEF InFile, Same
  <2>3. NotFiled(r, o)
    BY <1>1, <1>3, <1>6 DEF Sound, NotFiled, Same
  <2> QED BY <1>1, <2>1, <2>2, <2>3 DEF Sound
<1>8. ASSUME NEW p \in ObjId, p # o PROVE Sound(V, p)
  <2>1. Sound(World, p)
    BY DEF Good
  <2>2. V.obj[p] = World.obj[p]
    BY <1>2, <1>8 DEF Only
  <2> QED BY <1>2, <2>1, <2>2 DEF Sound, InMem, InFile, Only
<1>9. Good(V)
  BY <1>2, <1>7, <1>8 DEF Good, Only
<1> QED BY <1>1, <1>2, <1>3, <1>9 DEF V

\* dopayobj, for what the hero owes and what is used up.
LEMMA PayForKeeps ==
    ASSUME IInv, NEW o \in ObjId, PayFor(o)
    PROVE  IInv'
<1>1. Base /\ Good(World)
  BY DEF IInv
<1>2. CASE obj[o].where = "ONBILL" /\ Do(DeallocObj(World, o))
  <2>1. InMem(World, o) /\ monstermoves \in Int
    BY <1>2, Reach
  <2>2. Good(DeallocObj(World, o))
    BY <1>1, <2>1, FreeKept
  <2> QED BY <1>1, <1>2, <2>2, DoGood
<1>3. CASE obj[o].unpaid /\ Do(Paid(World, o))
  <2>1. Good(Paid(World, o))
    BY <1>1, PaidGood
  <2> QED BY <1>1, <1>3, <2>1, DoGood
<1> QED BY <1>2, <1>3 DEF PayFor

\* The lamp that the djinni has left.
Rub(o, age) == [World EXCEPT !.obj[o] = [@ EXCEPT !.otyp = "OIL_LAMP", !.spe = 0, !.age = age]]

\* What burnt by magic burns oil now.
LEMMA RubKept ==
    ASSUME IInv, NEW o \in ObjId, DoRub(o), NEW age \in DjinniAge
    PROVE  LET W == Rub(o, age)
               V == IF obj[o].lamplit THEN BeginBurn(W, o, TRUE) ELSE W
               r == W.obj[o]
           IN  /\ Kept(World, V, o) /\ W \in Worlds /\ W.impossible = FALSE
               /\ r \in Obj /\ r.otyp = "OIL_LAMP" /\ r.where = "INVENT" /\ r.age = age
               /\ r.lamplit = obj[o].lamplit
               /\ obj[o].lamplit => Ready(W, o, TRUE)
<1> DEFINE R == obj[o]
           T == Of(World.timer_base, o)
           n == World.light_base[o]
           r == [R EXCEPT !.otyp = "OIL_LAMP", !.spe = 0, !.age = age]
           W == Rub(o, age)
<1>1. /\ Base /\ Good(World) /\ InMem(World, o) /\ monstermoves \in Int /\ World.obj = obj
      /\ obj[o].where = "INVENT" /\ obj[o] \in Obj /\ Whole(obj[o])
      /\ World \in Worlds /\ World.impossible = FALSE /\ obj[o].otyp = "MAGIC_LAMP"
  BY Reach DEF DoRub, Carried
<1>2. age \in Int /\ age > 0
  BY NumberAssumption
<1>3. r \in Obj
  <2> DEFINE x == [R EXCEPT !.otyp = "OIL_LAMP"]
             y == [x EXCEPT !.spe = 0]
  <2>1. x \in Obj
    BY <1>1 DEF Obj, Otyp, Lamps
  <2>2. r = [y EXCEPT !.age = age]
    BY <1>1 DEF Obj
  <2> HIDE DEF x
  <2>3. y \in Obj
    BY <2>1 DEF Obj
  <2> HIDE DEF y
  <2> QED BY <1>2, <2>2, <2>3, Structs
<1>4. /\ r.otyp = "OIL_LAMP" /\ r.where = R.where /\ r.lev = R.lev /\ r.age = age
      /\ r.quan = R.quan /\ r.lamplit = R.lamplit /\ r.timed = R.timed
      /\ r.unpaid = R.unpaid
  BY <1>1 DEF Obj
<1>5. W = Renewed(World, o, r)
  BY <1>1 DEF Renewed, Worlds, Rub
<1> HIDE DEF r, W
<1>6. Whole(r) /\ ~Away(r)
  BY <1>1, <1>2, <1>3, <1>4 DEF Whole, Away
<1>7. /\ Only(World, W, o) /\ W.obj[o] = r
      /\ W.timer_base = World.timer_base /\ W.light_base = World.light_base
  BY <1>1, <1>3, <1>5, StructIs DEF Renewed
<1>8. CASE ~obj[o].lamplit
  <2>1. Kept(World, W, o)
    BY <1>1, <1>3, <1>4, <1>5, <1>6, <1>8, RenewKept
  <2> QED BY <1>1, <1>3, <1>4, <1>7, <1>8, <2>1 DEF Only, W
<1>9. CASE obj[o].lamplit
  <2>1. Balanced(R, T, n, FALSE) /\ Timely(T) /\ ~Away(World.obj[o])
    BY <1>1 DEF InMem, Agrees
  <2>2. Balanced(r, T, n, FALSE)
    <3>1. R.where = "INVENT"
      BY <1>1
    <3> HIDE DEF R, T, n
    <3> QED BY <1>4, <1>6, <2>1, <3>1 DEF Balanced
  <2>3. Spent(W, o)
    BY <1>4, <1>6, <1>9, <1>7, <2>1, <2>2 DEF Spent
  <2>4. Rest(World, W, {o})
    BY <1>7, OnlyRest
  <2>5. Expired(World, W, o)
    BY <1>1, <1>7, <2>1, <2>3, <2>4 DEF Expired, Only
  <2>6. W.obj[o].age # 0
    BY <1>2, <1>4, <1>7
  <2>7. Kept(World, BeginBurn(W, o, TRUE), o) /\ Ready(W, o, TRUE)
    BY <1>1, <2>3, <2>5, <2>6, RelitKept DEF Ready
  <2> QED BY <1>1, <1>3, <1>4, <1>7, <1>9, <2>7 DEF Only, W
<1> QED BY <1>8, <1>9

\* dorub.
LEMMA DoRubKeeps ==
    ASSUME IInv, NEW o \in ObjId, DoRub(o)
    PROVE  IInv'
<1>1. PICK age \in DjinniAge :
          Do(IF obj[o].lamplit THEN BeginBurn(Rub(o, age), o, TRUE) ELSE Rub(o, age))
  BY DEF DoRub, Rub
<1>2. Good(IF obj[o].lamplit THEN BeginBurn(Rub(o, age), o, TRUE) ELSE Rub(o, age))
  BY RubKept DEF Kept
<1> QED BY <1>1, <1>2, DoGood DEF IInv

\* dropx, throwit.
LEMMA DropKeeps ==
    ASSUME IInv, NEW o \in ObjId, Drop(o)
    PROVE  IInv'
<1>1. /\ Base /\ Good(World) /\ InMem(World, o) /\ monstermoves \in Int
      /\ obj[o].where = "INVENT" /\ phase = "play" /\ here \in Level
  BY Reach DEF Drop, Carried, HeroActs, Play, Base
<1>2. PICK p \in Portions(o), thrown \in BOOLEAN :
          LET c  == p.w.obj[p.o]
              W1 == IF thrown /\ c.lamplit /\ c.otyp \in {"CANDLE", "CANDELABRUM"}
                    THEN EndBurn(p.w, p.o, TRUE) ELSE p.w
          IN  \E W \in AddTo(Paid(W1, p.o), p.o, "FLOOR", here) : Do(W)
  BY DEF Drop
<1> DEFINE q  == p.o
           c  == p.w.obj[q]
           W1 == IF thrown /\ c.lamplit /\ c.otyp \in {"CANDLE", "CANDELABRUM"}
                 THEN EndBurn(p.w, q, TRUE) ELSE p.w
           W2 == Paid(W1, q)
<1>3. q \in ObjId /\ Good(p.w) /\ InMem(p.w, q) /\ c.where = "INVENT"
  BY <1>1, PortionKept DEF Alike
<1>4. Good(W1) /\ InMem(W1, q) /\ W1.obj[q].where = "INVENT"
  <2>1. c.lamplit => /\ Kept(p.w, EndBurn(p.w, q, TRUE), q)
                     /\ EndBurn(p.w, q, TRUE).obj[q].where = "INVENT"
    <3>1. \A a : a /\ c.lamplit => /\ Kept(p.w, EndBurn(p.w, q, a), q)
                                   /\ Still(c, EndBurn(p.w, q, a).obj[q])
      BY <1>1, <1>3, EndKept
    <3> QED BY <1>3, <3>1 DEF Still
  <2> HIDE DEF q
  <2> QED BY <1>3, <2>1 DEF Kept
<1> HIDE DEF W1, q
<1>5. Good(W2) /\ InMem(W2, q) /\ W2.obj[q].where = "INVENT"
  BY <1>3, <1>4, PaidKept DEF Kept, Same
<1> HIDE DEF W2
<1>6. ~HasRot(Of(W2.timer_base, q))
  BY <1>5, NoRot
<1>7. \A V \in AddTo(W2, q, "FLOOR", here) : Good(V)
  <2>1. \A w, l : Place(w, l) /\ w # "BURIED" => \A V \in AddTo(W2, q, w, l) : Good(V)
    BY <1>1, <1>3, <1>5, <1>6, AddToGood
  <2>2. Place("FLOOR", here)
    BY <1>1 DEF Place, Where
  <2> QED BY <2>1, <2>2
<1> QED BY <1>1, <1>2, <1>7, DoGood DEF W1, W2, q

\* What was not buried is put somewhere else.
LEMMA MoveGood ==
    ASSUME NEW W, Good(W), NEW o \in ObjId, InMem(W, o),
           W.obj[o].where \notin {"BURIED", "ONBILL"}, phase = "play", monstermoves \in Int
    PROVE  \A w, l : Place(w, l) /\ w # "BURIED" => \A V \in AddTo(W, o, w, l) : Good(V)
<1>1. ~HasRot(Of(W.timer_base, o))
  BY NoRot
<1> QED BY <1>1, AddToGood

\* Where objects may go.
LEMMA Places ==
    /\ here \in Level => Place("FLOOR", here) /\ Place("MINVENT", here) /\ Place("BURIED", here)
    /\ Place("INVENT", NoLev) /\ Place("CONTAINED", NoLev)
    /\ \A l \in Level : Place("MIGRATING", l)
BY FreedFacts DEF Place, Where

\* pick_obj, addinv.
LEMMA PickupKeeps ==
    ASSUME IInv, NEW o \in ObjId, Pickup(o)
    PROVE  IInv'
<1>1. /\ Base /\ Good(World) /\ InMem(World, o) /\ monstermoves \in Int
      /\ obj[o].where = "FLOOR" /\ phase = "play"
  BY Reach DEF Pickup, At, HeroActs, Play
<1>2. PICK p \in Portions(o), owed \in IF MayShop THEN BOOLEAN ELSE {FALSE} :
          \E W \in AddTo([p.w EXCEPT !.obj[p.o].unpaid = owed], p.o, "INVENT", NoLev) : Do(W)
  BY DEF Pickup
<1> DEFINE q == p.o
           U == p.w
           W1 == [U EXCEPT !.obj[q].unpaid = owed]
<1>3. q \in ObjId /\ Good(U) /\ InMem(U, q) /\ U.obj[q].where = "FLOOR"
  BY <1>1, PortionKept DEF Alike
<1>4. owed \in BOOLEAN /\ (owed => ForSale)
  BY NumberAssumption DEF ForSale
<1> HIDE DEF q, U
<1>5. Good(W1) /\ InMem(W1, q) /\ W1.obj[q].where = "FLOOR"
  <2>1. Kept(U, W1, q) /\ Same(U.obj[q], W1.obj[q])
    BY <1>3, <1>4, OwedKept
  <2> HIDE DEF W1
  <2> QED BY <1>3, <2>1 DEF Kept, Same
<1> HIDE DEF W1
<1>6. \A V \in AddTo(W1, q, "INVENT", NoLev) : Good(V)
  <2>1. \A w, l : Place(w, l) /\ w # "BURIED" => \A V \in AddTo(W1, q, w, l) : Good(V)
    BY <1>1, <1>3, <1>5, MoveGood
  <2> QED BY <2>1, Places
<1> QED BY <1>1, <1>2, <1>6, DoGood DEF W1, U, q

\* in_container, for what is not a candelabrum.
LEMMA InContainerKeeps ==
    ASSUME IInv, NEW o \in ObjId, InContainer(o)
    PROVE  IInv'
<1>1. /\ Base /\ Good(World) /\ InMem(World, o) /\ monstermoves \in Int
      /\ obj[o].where = "INVENT" /\ phase = "play"
  BY Reach DEF InContainer, Carried, HeroActs, Play
<1>2. PICK p \in Portions(o) :
          LET W1 == IF p.w.obj[p.o].lamplit THEN EndBurn(p.w, p.o, TRUE) ELSE p.w
          IN  \E W \in AddTo(W1, p.o, "CONTAINED", NoLev) : Do(W)
  BY DEF InContainer
<1> DEFINE q  == p.o
           U  == p.w
           W1 == IF U.obj[q].lamplit THEN EndBurn(U, q, TRUE) ELSE U
<1>3. q \in ObjId /\ Good(U) /\ InMem(U, q) /\ U.obj[q].where = "INVENT"
  BY <1>1, PortionKept DEF Alike
<1> HIDE DEF q, U
<1>4. Good(W1) /\ InMem(W1, q) /\ W1.obj[q].where = "INVENT"
  <2>1. \A a : a /\ U.obj[q].lamplit => /\ Kept(U, EndBurn(U, q, a), q)
                                        /\ Still(U.obj[q], EndBurn(U, q, a).obj[q])
    BY <1>1, <1>3, EndKept
  <2>2. U.obj[q].lamplit => /\ Kept(U, EndBurn(U, q, TRUE), q)
                            /\ EndBurn(U, q, TRUE).obj[q].where = "INVENT"
    BY <1>3, <2>1 DEF Still
  <2> QED BY <1>3, <2>2 DEF Kept
<1> HIDE DEF W1
<1>5. \A V \in AddTo(W1, q, "CONTAINED", NoLev) : Good(V)
  <2>1. \A w, l : Place(w, l) /\ w # "BURIED" => \A V \in AddTo(W1, q, w, l) : Good(V)
    BY <1>1, <1>3, <1>4, MoveGood
  <2> QED BY <2>1, Places
<1> QED BY <1>1, <1>2, <1>5, DoGood DEF W1, U, q

\* out_container.
LEMMA OutContainerKeeps ==
    ASSUME IInv, NEW o \in ObjId, OutContainer(o)
    PROVE  IInv'
<1>1. /\ Base /\ Good(World) /\ InMem(World, o) /\ monstermoves \in Int
      /\ obj[o].where = "CONTAINED" /\ phase = "play"
  BY Reach DEF OutContainer, HeroActs, Play
<1>2. PICK p \in Portions(o) : \E W \in AddTo(p.w, p.o, "INVENT", NoLev) : Do(W)
  BY DEF OutContainer
<1> DEFINE q  == p.o
           U  == p.w
<1>3. q \in ObjId /\ Good(U) /\ InMem(U, q) /\ U.obj[q].where = "CONTAINED"
  BY <1>1, PortionKept DEF Alike
<1> HIDE DEF q, U
<1>4. \A V \in AddTo(U, q, "INVENT", NoLev) : Good(V)
  <2>1. \A w, l : Place(w, l) /\ w # "BURIED" => \A V \in AddTo(U, q, w, l) : Good(V)
    BY <1>1, <1>3, MoveGood
  <2> QED BY <2>1, Places
<1> QED BY <1>1, <1>2, <1>4, DoGood DEF U, q

\* mpickobj: an engulfer's goes out.
LEMMA MPickObjKeeps ==
    ASSUME IInv, NEW o \in ObjId, MPickObj(o)
    PROVE  IInv'
<1>1. /\ Base /\ Good(World) /\ InMem(World, o) /\ monstermoves \in Int /\ World.obj = obj
      /\ obj[o].where \in {"INVENT", "FLOOR"} /\ phase = "play" /\ here \in Level
  BY Reach DEF MPickObj, Carried, At, HeroActs, Play, Base
<1>2. \A V \in AddTo(World, o, "MINVENT", here) : Good(V)
  <2>1. \A w, l : Place(w, l) /\ w # "BURIED" => \A V \in AddTo(World, o, w, l) : Good(V)
    BY <1>1, MoveGood
  <2> QED BY <1>1, <2>1, Places
<1>3. ASSUME obj[o].lamplit
      PROVE  Good(EndBurn(Put(World, o, "MINVENT", here), o, obj[o].otyp # "MAGIC_LAMP"))
  <2> DEFINE W == Put(World, o, "MINVENT", here)
  <2>1. Placed(World, W, o, "MINVENT", here)
    <3>1. ~HasRot(Of(World.timer_base, o)) /\ World.obj[o].where # "ONBILL"
      BY <1>1, NoRot
    <3>2. \A w, l : Place(w, l) => Placed(World, Put(World, o, w, l), o, w, l)
      BY <1>1, <3>1, PutKept
    <3> QED BY <1>1, <3>2, Places
  <2> HIDE DEF W
  <2>2. Good(W) /\ InMem(W, o) /\ W.obj[o].lamplit /\ W.obj[o].otyp = obj[o].otyp
    BY <1>1, <1>3, <2>1 DEF Placed, Kept
  <2>3. \A a : a \/ W.obj[o].otyp = "MAGIC_LAMP" => Good(EndBurn(W, o, a))
    BY <1>1, <2>2, EndKept DEF Kept
  <2> QED BY <2>2, <2>3 DEF W
<1> QED BY <1>1, <1>2, <1>3, DoGood DEF MPickObj

\* mdrop_obj.
LEMMA MDropObjKeeps ==
    ASSUME IInv, NEW o \in ObjId, MDropObj(o)
    PROVE  IInv'
<1>1. /\ Base /\ Good(World) /\ InMem(World, o) /\ monstermoves \in Int /\ World.obj = obj
      /\ obj[o].where = "MINVENT" /\ phase = "play" /\ here \in Level
  BY Reach DEF MDropObj, At, HeroActs, Play, Base
<1>2. \A V \in AddTo(World, o, "FLOOR", here) : Good(V)
  <2>1. \A w, l : Place(w, l) /\ w # "BURIED" => \A V \in AddTo(World, o, w, l) : Good(V)
    BY <1>1, MoveGood
  <2> QED BY <1>1, <2>1, Places
<1> QED BY <1>1, <1>2, DoGood DEF MDropObj

\* obj_delivery's and migrate_to_level's objects.
LEMMA MigrateKeeps ==
    ASSUME IInv, NEW o \in ObjId, Migrate(o)
    PROVE  IInv'
<1>1. /\ Base /\ Good(World) /\ InMem(World, o) /\ monstermoves \in Int /\ World.obj = obj
      /\ obj[o].where \in {"FLOOR", "MINVENT"} /\ phase = "play"
  BY Reach DEF Migrate, At, Play
<1>2. ASSUME NEW l \in Level PROVE Good(Put(World, o, "MIGRATING", l))
  <2>1. ~HasRot(Of(World.timer_base, o)) /\ World.obj[o].where # "ONBILL"
    BY <1>1, NoRot
  <2>2. \A w, k : Place(w, k) => Placed(World, Put(World, o, w, k), o, w, k)
    BY <1>1, <2>1, PutKept
  <2>3. Placed(World, Put(World, o, "MIGRATING", l), o, "MIGRATING", l)
    BY <2>2, Places
  <2> QED BY <2>3 DEF Placed, Kept
<1> QED BY <1>1, <1>2, DoGood DEF Migrate

\* bury_an_obj.
LEMMA BuryAnObjKeeps ==
    ASSUME IInv, NEW o \in ObjId, BuryAnObj(o)
    PROVE  IInv'
<1>1. /\ Base /\ Good(World) /\ InMem(World, o) /\ monstermoves \in Int /\ World.obj = obj
      /\ obj[o].where = "FLOOR" /\ phase = "play" /\ here \in Level
  BY Reach DEF BuryAnObj, At, Play, Base
<1> DEFINE W1 == IF obj[o].lamplit /\ obj[o].otyp # "POT_OIL"
                 THEN EndBurn(World, o, TRUE) ELSE World
           W2 == Put(W1, o, "BURIED", here)
<1>2. Good(W1) /\ InMem(W1, o) /\ W1.obj[o].where = "FLOOR" /\ W1.obj[o].otyp = obj[o].otyp
  <2>1. \A a : a /\ obj[o].lamplit => /\ Kept(World, EndBurn(World, o, a), o)
                                      /\ Still(obj[o], EndBurn(World, o, a).obj[o])
    BY <1>1, EndKept
  <2>2. obj[o].lamplit => /\ Kept(World, EndBurn(World, o, TRUE), o)
                          /\ EndBurn(World, o, TRUE).obj[o].where = "FLOOR"
                          /\ EndBurn(World, o, TRUE).obj[o].otyp = obj[o].otyp
    BY <1>1, <2>1 DEF Still
  <2> QED BY <1>1, <2>2 DEF Kept
<1> HIDE DEF W1
<1>3. ~HasRot(Of(W1.timer_base, o))
  BY <1>2, NoRot
<1>4. Placed(W1, W2, o, "BURIED", here)
  <2>1. \A w, l : Place(w, l) => Placed(W1, Put(W1, o, w, l), o, w, l)
    BY <1>2, <1>3, PutKept
  <2> QED BY <1>1, <2>1, Places
<1> HIDE DEF W2
<1>5. /\ Good(W2) /\ InMem(W2, o) /\ W2.obj[o].where = "BURIED"
      /\ W2.obj[o].otyp = obj[o].otyp /\ W2.timer_base = W1.timer_base
  BY <1>2, <1>4 DEF Placed, Kept
<1>6. ASSUME obj[o].otyp \in {"POT_OIL", "CANDLE"}, NEW when \in RotTimes
      PROVE Good(StartTimer(W2, when, "ROT_ORGANIC", o))
  <2>1. when \in Int /\ when > 0
    BY NumberAssumption
  <2> QED BY <1>1, <1>3, <1>5, <1>6, <2>1, StartRotKept DEF Kept
<1> QED BY <1>1, <1>5, <1>6, DoGood DEF BuryAnObj, W1, W2

\* unearth_objs.
LEMMA UnearthObjsKeeps ==
    ASSUME IInv, NEW o \in ObjId, UnearthObjs(o)
    PROVE  IInv'
<1>1. /\ Base /\ Good(World) /\ InMem(World, o) /\ monstermoves \in Int /\ World.obj = obj
      /\ obj[o].where = "BURIED" /\ phase = "play" /\ here \in Level
  BY Reach DEF UnearthObjs, At, Play, Base
<1> DEFINE W1 == IF obj[o].timed # 0 THEN StopTimer(World, "ROT_ORGANIC", o) ELSE World
<1>2. /\ Good(W1) /\ InMem(W1, o) /\ ~HasRot(Of(W1.timer_base, o))
      /\ W1.obj[o].where # "ONBILL"
  <2>1. LET V == IF World.obj[o].timed # 0 THEN StopTimer(World, "ROT_ORGANIC", o) ELSE World
        IN  /\ Kept(World, V, o) /\ Same(World.obj[o], V.obj[o])
            /\ ~HasRot(Of(V.timer_base, o))
            /\ Flames(Of(V.timer_base, o)) = Flames(Of(World.timer_base, o))
    BY <1>1, StopRotKept
  <2> QED BY <1>1, <2>1 DEF Kept, Same
<1> HIDE DEF W1
<1>3. \A V \in AddTo(W1, o, "FLOOR", here) : Good(V)
  <2>1. \A w, l : Place(w, l) /\ w # "BURIED" => \A V \in AddTo(W1, o, w, l) : Good(V)
    BY <1>1, <1>2, AddToGood
  <2> QED BY <1>1, <2>1, Places
<1> QED BY <1>1, <1>3, DoGood DEF UnearthObjs, W1

\* Candles with the struct c are attached to the candelabrum m.
Candled(U, m, c) ==
    [U EXCEPT !.obj[m].age = IF U.obj[m].spe = 0 \/ @ > c.age THEN c.age ELSE @,
              !.obj[m].spe = @ + c.quan]

LEMMA CandledKept ==
    ASSUME NEW U, Good(U), NEW m \in ObjId, InMem(U, m), NEW c, Whole(c), c.where = "INVENT"
    PROVE  LET V == Candled(U, m, c)
               R == U.obj[m]
           IN  /\ Kept(U, V, m) /\ V.timer_base = U.timer_base
               /\ V.obj[m].otyp = R.otyp /\ V.obj[m].where = R.where
               /\ V.obj[m].lamplit = R.lamplit /\ V.obj[m].spe = R.spe + c.quan
               /\ V.obj[m].age = IF R.spe = 0 \/ R.age > c.age THEN c.age ELSE R.age
<1> DEFINE R   == U.obj[m]
           V   == Candled(U, m, c)
           age == IF R.spe = 0 \/ R.age > c.age THEN c.age ELSE R.age
           x   == [R EXCEPT !.age = age]
           r   == [x EXCEPT !.spe = R.spe + c.quan]
<1>1. /\ U \in Worlds /\ R \in Obj /\ Whole(R) /\ c \in Obj
      /\ c.age \in Int /\ c.quan \in Int /\ R.age \in Int
  <2>1. U \in Worlds /\ R \in Obj /\ Whole(R) /\ c \in Obj
    BY GoodFacts DEF Whole
  <2> HIDE DEF R
  <2> QED BY <2>1, ObjFields
<1>2. age \in Int /\ (PrayerTurns = 0 /\ R.where # "ONBILL" => age >= 0)
  BY <1>1 DEF Whole
<1>3. R.spe + c.quan \in Int
  BY <1>1, ObjFields
<1>4. V = Renewed(U, m, r)
  <2>1. V = [U EXCEPT !.obj[m].age = age, !.obj[m].spe = R.spe + c.quan]
    BY <1>1 DEF Worlds, Obj, Candled
  <2> HIDE DEF V, age
  <2> QED BY <1>1, <2>1 DEF Renewed, Worlds
<1> HIDE DEF age, V
<1>5. x \in Obj
  BY <1>1, <1>2, Structs
<1>6. /\ r \in Obj /\ r.otyp = R.otyp /\ r.where = R.where /\ r.lev = R.lev
      /\ r.quan = R.quan /\ r.lamplit = R.lamplit /\ r.timed = R.timed
      /\ r.unpaid = R.unpaid /\ r.age = age /\ r.spe = R.spe + c.quan
  <2>1. /\ x.otyp = R.otyp /\ x.where = R.where /\ x.lev = R.lev
        /\ x.quan = R.quan /\ x.lamplit = R.lamplit /\ x.timed = R.timed
        /\ x.unpaid = R.unpaid /\ x.age = age
    BY <1>1 DEF Obj
  <2> HIDE DEF x
  <2>2. r \in Obj
    BY <1>3, <1>5, Structs
  <2> QED BY <1>5, <2>1, <2>2 DEF Obj
<1> HIDE DEF r, x
<1>7. Whole(r)
  BY <1>1, <1>2, <1>6 DEF Whole
<1>8. Kept(U, V, m) /\ V.obj[m] = r
  BY <1>1, <1>4, <1>6, <1>7, RenewKept
<1>9. V.timer_base = U.timer_base
  BY <1>1, <1>4 DEF Renewed, Worlds
<1> QED BY <1>6, <1>8, <1>9 DEF V, R, age

\* use_candle: the candles become the candelabrum's.
LEMMA UseCandleKeeps ==
    ASSUME IInv, NEW o \in ObjId, NEW m \in ObjId, UseCandle(o, m)
    PROVE  IInv'
<1>1. /\ Base /\ Good(World) /\ InMem(World, o) /\ monstermoves \in Int /\ World.obj = obj
      /\ obj[o].where = "INVENT" /\ phase = "play" /\ InMem(World, m)
      /\ obj[m].where = "INVENT" /\ m # o
  BY Reach DEF UseCandle, Carried, HeroActs, Play
<1>2. PICK p \in Portions(o) :
          LET c  == p.w.obj[p.o]
              W1 == [p.w EXCEPT
                       !.obj[m].age = IF obj[m].spe = 0 \/ @ > c.age THEN c.age ELSE @,
                       !.obj[m].spe = @ + c.quan]
              W2 == IF c.lamplit THEN EndBurn(W1, p.o, TRUE) ELSE W1
          IN  Do(Obfree(W2, p.o))
  BY DEF UseCandle
<1> DEFINE q  == p.o
           U  == p.w
           c  == U.obj[q]
           W1 == Candled(U, m, c)
           W2 == IF c.lamplit THEN EndBurn(W1, q, TRUE) ELSE W1
<1>3. /\ q \in ObjId /\ Good(U) /\ InMem(U, q) /\ c.where = "INVENT"
      /\ m # q /\ InMem(U, m) /\ U.obj[m] = obj[m]
  BY <1>1, PortionKept DEF Alike
<1>4. Do(Obfree(W2, q))
  BY <1>2, <1>3 DEF Candled
<1> HIDE DEF q, U
<1>5. Whole(c)
  BY <1>3, GoodFacts
<1>6. Kept(U, W1, m)
  BY <1>3, <1>5, CandledKept
<1> HIDE DEF W1
<1>7. Good(W1) /\ InMem(W1, q) /\ W1.obj[q] = c
  BY <1>3, <1>6 DEF Kept, Rest, InMem
<1>8. Good(W2) /\ InMem(W2, q)
  <2>1. c.lamplit => Kept(W1, EndBurn(W1, q, TRUE), q)
    BY <1>1, <1>3, <1>7, LightFacts
  <2> QED BY <1>7, <2>1 DEF Kept
<1> HIDE DEF W2
<1>9. Good(Obfree(W2, q))
  BY <1>1, <1>3, <1>8, FreeKept
<1> QED BY <1>1, <1>4, <1>9, DoGood

\* light_cocktail.
LEMMA LightCocktailKeeps ==
    ASSUME IInv, NEW o \in ObjId, LightCocktail(o)
    PROVE  IInv'
<1>1. /\ Base /\ Good(World) /\ InMem(World, o) /\ monstermoves \in Int /\ World.obj = obj
      /\ obj[o].where = "INVENT" /\ phase = "play" /\ here \in Level
  BY Reach DEF LightCocktail, Carried, HeroActs, Play, Base
<1>2. CASE /\ obj[o].lamplit
           /\ \E W \in AddTo(EndBurn(World, o, TRUE), o, "INVENT", NoLev) : Do(W)
  <2> DEFINE V == EndBurn(World, o, TRUE)
  <2>1. Kept(World, V, o) /\ Still(obj[o], V.obj[o])
    <3>1. \A a : a => /\ Kept(World, EndBurn(World, o, a), o)
                      /\ Still(obj[o], EndBurn(World, o, a).obj[o])
      BY <1>1, <1>2, EndKept
    <3> QED BY <3>1
  <2> HIDE DEF V
  <2>2. Good(V) /\ InMem(V, o) /\ V.obj[o].where = "INVENT"
    BY <1>1, <2>1 DEF Kept, Still
  <2>3. \A w, l : Place(w, l) /\ w # "BURIED" => \A X \in AddTo(V, o, w, l) : Good(X)
    BY <1>1, <2>2, MoveGood
  <2>4. \A X \in AddTo(V, o, "INVENT", NoLev) : Good(X)
    BY <2>3, Places
  <2> QED BY <1>1, <1>2, <2>4, DoGood DEF V
<1>3. CASE ~obj[o].lamplit /\ Do(BeginBurn(Paid(World, o), o, FALSE))
  <2>1. Good(BeginBurn(Paid(World, o), o, FALSE))
    BY <1>1, <1>3, LightFacts DEF Kept
  <2> QED BY <1>1, <1>3, <2>1, DoGood
<1>4. ASSUME ~obj[o].lamplit, NEW p \in Portions(o), p.o # o,
             LET W1 == BeginBurn(Paid(Paid(p.w, o), p.o), p.o, FALSE)
             IN  \E W \in AddTo(W1, p.o, "INVENT", NoLev)
                        \cup AddTo(W1, p.o, "FLOOR", here) : Do(W)
      PROVE  IInv'
  <2> DEFINE q  == p.o
             U  == p.w
             A  == Paid(U, o)
             B  == Paid(A, q)
             W1 == BeginBurn(B, q, FALSE)
  <2>1. /\ q \in ObjId /\ Good(U) /\ InMem(U, q) /\ InMem(U, o)
        /\ U.obj[q].where = "INVENT" /\ U.obj[q].lamplit = obj[o].lamplit
    BY <1>1, PortionKept DEF Alike
  <2>2. q # o
    BY <1>4
  <2> HIDE DEF q, U
  <2>3. Good(A) /\ InMem(A, q) /\ A.obj[q] = U.obj[q]
    <3>1. Kept(U, A, o)
      BY <2>1, PaidKept
    <3> QED BY <2>1, <2>2, <3>1 DEF Kept, Rest, InMem
  <2> HIDE DEF A
  <2>4. Kept(A, B, q) /\ Same(A.obj[q], B.obj[q])
    BY <2>1, <2>3, PaidKept
  <2> HIDE DEF B
  <2>5. /\ Good(B) /\ InMem(B, q) /\ ~B.obj[q].lamplit /\ B.obj[q].where = "INVENT"
    BY <1>4, <2>1, <2>3, <2>4 DEF Kept, Same
  <2>6. Kept(B, W1, q) /\ Still(B.obj[q], W1.obj[q])
    BY <1>1, <2>1, <2>5, BurnKept
  <2> HIDE DEF W1
  <2>7. Good(W1) /\ InMem(W1, q) /\ W1.obj[q].where = "INVENT"
    BY <2>5, <2>6 DEF Kept, Still
  <2>8. \A w, l : Place(w, l) /\ w # "BURIED" => \A X \in AddTo(W1, q, w, l) : Good(X)
    BY <1>1, <2>1, <2>7, MoveGood
  <2>9. /\ \A X \in AddTo(W1, q, "INVENT", NoLev) : Good(X)
        /\ \A X \in AddTo(W1, q, "FLOOR", here) : Good(X)
    BY <1>1, <2>8, Places
  <2> QED BY <1>1, <1>4, <2>9, DoGood DEF W1, B, A, U, q
<1> QED BY <1>2, <1>3, <1>4 DEF LightCocktail

\* A dark lamp's otyp, age and spe are set.
Filled(W, o, otyp, age, spe) ==
    [W EXCEPT !.obj[o].otyp = otyp, !.obj[o].age = age, !.obj[o].spe = spe]

\* It may burn oil from now on, and stays dark.
LEMMA FillKept ==
    ASSUME NEW W, Good(W), NEW o \in ObjId, InMem(W, o), ~W.obj[o].lamplit,
           W.obj[o].where # "BURIED", NEW otyp \in {W.obj[o].otyp, "OIL_LAMP"}, NEW age \in Int, NEW spe \in Int,
           PrayerTurns = 0 => age >= 0
    PROVE  LET V == Filled(W, o, otyp, age, spe)
           IN  /\ Kept(W, V, o) /\ V.obj[o].otyp = otyp /\ V.obj[o].age = age
               /\ V.obj[o].where = W.obj[o].where /\ V.obj[o].lamplit = W.obj[o].lamplit
<1> DEFINE V == Filled(W, o, otyp, age, spe)
           R == W.obj[o]
           x == [R EXCEPT !.otyp = otyp]
           y == [x EXCEPT !.age = age]
           r == [y EXCEPT !.spe = spe]
<1>1. W \in Worlds /\ R \in Obj /\ Whole(R)
  BY GoodFacts
<1>2. V = Renewed(W, o, r)
  BY <1>1 DEF Renewed, Worlds, Filled
<1>3. /\ r.otyp = otyp /\ r.where = R.where /\ r.lev = R.lev
      /\ r.quan = R.quan /\ r.lamplit = R.lamplit /\ r.timed = R.timed
      /\ r.unpaid = R.unpaid /\ r.age = age
  BY <1>1 DEF Obj
<1>4. x \in Obj
  BY <1>1 DEF Obj, Otyp, Lamps
<1> HIDE DEF x
<1>5. y \in Obj
  BY <1>4, Structs
<1> HIDE DEF y
<1>6. r \in Obj
  BY <1>5, Structs
<1> HIDE DEF r, V
<1>7. Whole(r)
  BY <1>1, <1>3, <1>6 DEF Whole
<1>8. Kept(W, V, o) /\ V.obj[o] = r
  BY <1>2, <1>3, <1>6, <1>7, RenewKept
<1> QED BY <1>3, <1>8 DEF V

\* The smaller of two numbers.
LEMMA MinFacts ==
    ASSUME NEW a \in Int, NEW b \in Int
    PROVE  Min({a, b}) \in {a, b} /\ Min({a, b}) <= a /\ Min({a, b}) <= b
<1>1. \E x \in {a, b} : \A y \in {a, b} : x <= y
  OBVIOUS
<1> QED BY <1>1 DEF Min

\* The lamp o that oil is poured into; without a djinni it becomes an oil lamp.
Emptied(o) == obj[o].otyp = "MAGIC_LAMP" /\ obj[o].spe = 0
OilType(o) == IF Emptied(o) THEN "OIL_LAMP" ELSE obj[o].otyp
OilAge(o)  == IF Emptied(o) THEN 0 ELSE obj[o].age
Oil(o, p)  == Min({OilAge(o) + 2 * obj[p].age, LampCap})

LEMMA DipIs ==
    ASSUME NEW o \in ObjId, NEW p \in ObjId, DipIntoOil(o, p), World \in Worlds
    PROVE  \/ Do(Useup(World, p))
           \/ Catchable(o) /\ Do(Useup(BeginBurn(Paid(World, o), o, FALSE), p))
           \/ /\ ~obj[p].lamplit /\ obj[o].otyp \in Lamps /\ ~obj[o].lamplit
              /\ IF OilAge(o) > LampFull
                 THEN Do(Filled(World, o, OilType(o), OilAge(o), 1))
                 ELSE Do(Useup(Filled(World, o, OilType(o), Oil(o, p), 1), p))
<1> DEFINE W1   == IF Emptied(o) THEN [World EXCEPT !.obj[o].otyp = "OIL_LAMP", !.obj[o].age = 0]
                                ELSE World
           W2   == [W1 EXCEPT !.obj[o].spe = 1]
           fuel == W1.obj[o].age + 2 * obj[p].age
           W3   == [W2 EXCEPT !.obj[o].age = Min({fuel, LampCap})]
<1>1. \/ Do(Useup(World, p))
      \/ Catchable(o) /\ Do(Useup(BeginBurn(Paid(World, o), o, FALSE), p))
      \/ /\ ~obj[p].lamplit /\ obj[o].otyp \in Lamps /\ ~obj[o].lamplit
         /\ IF W1.obj[o].age > LampFull THEN Do(W2) ELSE Do(Useup(W3, p))
  BY DEF DipIntoOil, Emptied
<1>2. World.obj = obj /\ obj \in [ObjId -> Obj] /\ obj[o] \in Obj
  BY WorldIs, WorldFields
<1>3. W1.obj[o].age = OilAge(o)
  BY <1>2 DEF Worlds, Obj, OilAge
<1>4. W2 = Filled(World, o, OilType(o), OilAge(o), 1)
  BY <1>2 DEF Worlds, Obj, Filled, OilAge, OilType
<1>5. fuel = OilAge(o) + 2 * obj[p].age
  BY <1>3
<1> HIDE DEF fuel
<1>6. W3 = Filled(World, o, OilType(o), Oil(o, p), 1)
  <2> DEFINE cap == Min({fuel, LampCap})
  <2>1. cap = Oil(o, p)
    BY <1>5 DEF Oil
  <2> HIDE DEF cap
  <2>2. [W2 EXCEPT !.obj[o].age = cap] = Filled(World, o, OilType(o), cap, 1)
    <3> DEFINE R == obj[o]
               q == [R EXCEPT !.otyp = OilType(o), !.age = OilAge(o), !.spe = 1]
               r == [R EXCEPT !.otyp = OilType(o), !.age = cap, !.spe = 1]
    <3>1. W2 = Renewed(World, o, q)
      <4> HIDE DEF W2
      <4>1. Filled(World, o, OilType(o), OilAge(o), 1) = Renewed(World, o, q)
        BY <1>2 DEF Worlds, Filled, Renewed
      <4> QED BY <1>4, <4>1
    <3>2. Filled(World, o, OilType(o), cap, 1) = Renewed(World, o, r)
      BY <1>2 DEF Worlds, Filled, Renewed
    <3>3. [q EXCEPT !.age = cap] = r
      BY <1>2 DEF Obj
    <3> HIDE DEF q, r, W2
    <3>4. [W2 EXCEPT !.obj[o].age = cap] = Renewed(World, o, [q EXCEPT !.age = cap])
      BY <1>2, <3>1 DEF Worlds, Renewed
    <3> QED BY <3>2, <3>3, <3>4
  <2> QED BY <2>1, <2>2 DEF cap
<1> QED BY <1>1, <1>3, <1>4, <1>6

\* What is poured in is a number of turns, and the lamp is not overfilled.
LEMMA OilKept ==
    ASSUME Good(World), NEW o \in ObjId, NEW p \in ObjId, InMem(World, o),
           obj[o].otyp \in Lamps, ~obj[o].lamplit, obj[o].where = "INVENT", obj[p].where = "INVENT"
    PROVE  /\ OilAge(o) \in Int /\ Oil(o, p) \in {OilAge(o) + 2 * obj[p].age, LampCap}
           /\ \A age \in {OilAge(o), Oil(o, p)} :
                 LET V == Filled(World, o, OilType(o), age, 1)
                 IN  /\ Kept(World, V, o) /\ V.obj[o].otyp = OilType(o) /\ V.obj[o].age = age
                     /\ V.obj[o].where = obj[o].where /\ V.obj[o].lamplit = obj[o].lamplit
                     /\ age \in Int
<1>1. /\ World.obj = obj /\ obj[o] \in Obj /\ obj[p] \in Obj /\ Whole(obj[o]) /\ Whole(obj[p])
  BY GoodFacts, WorldIs
<1>2. /\ obj[o].age \in Int /\ obj[p].age \in Int
      /\ PrayerTurns = 0 => obj[o].age >= 0 /\ obj[p].age >= 0
  BY <1>1, ObjFields DEF Whole
<1>3. OilAge(o) \in Int /\ (PrayerTurns = 0 => OilAge(o) >= 0)
  BY <1>2 DEF OilAge
<1>4. /\ Oil(o, p) \in {OilAge(o) + 2 * obj[p].age, LampCap}
      /\ LampCap \in Int /\ LampCap >= 0
  <2>1. OilAge(o) + 2 * obj[p].age \in Int /\ LampCap \in Int /\ LampCap >= 0
    BY <1>2, <1>3, NumberAssumption
  <2> QED BY <2>1, MinFacts DEF Oil
<1>5. \A age \in {OilAge(o), Oil(o, p)} : age \in Int /\ (PrayerTurns = 0 => age >= 0)
  BY <1>2, <1>3, <1>4
<1>6. OilType(o) \in {obj[o].otyp, "OIL_LAMP"}
  BY DEF OilType
<1>7. ASSUME NEW age \in {OilAge(o), Oil(o, p)}
      PROVE  LET V == Filled(World, o, OilType(o), age, 1)
             IN  /\ Kept(World, V, o) /\ V.obj[o].otyp = OilType(o) /\ V.obj[o].age = age
                 /\ V.obj[o].where = obj[o].where /\ V.obj[o].lamplit = obj[o].lamplit
                 /\ age \in Int
  BY <1>1, <1>5, <1>6, FillKept
<1> QED BY <1>3, <1>4, <1>7

\* dodip with a potion of oil.
LEMMA DipIntoOilKeeps ==
    ASSUME IInv, NEW o \in ObjId, NEW p \in ObjId, DipIntoOil(o, p)
    PROVE  IInv'
<1>1. /\ Base /\ Good(World) /\ InMem(World, o) /\ monstermoves \in Int
      /\ obj[o].where = "INVENT" /\ phase = "play" /\ InMem(World, p) /\ o # p
      /\ obj[p].where = "INVENT" /\ World \in Worlds /\ World.obj = obj
  BY Reach DEF DipIntoOil, Carried, HeroActs, Play
<1>2. Good(Useup(World, p))
  BY <1>1, FreeKept
<1>3. \A V : Kept(World, V, o) => Good(V) /\ Good(Useup(V, p))
  <2> SUFFICES ASSUME NEW V, Kept(World, V, o) PROVE Good(V) /\ Good(Useup(V, p))
    OBVIOUS
  <2>1. Good(V) /\ InMem(V, p)
    BY <1>1 DEF Kept, Rest, InMem
  <2> QED BY <1>1, <2>1, FreeKept
<1>4. CASE Catchable(o) /\ Do(Useup(BeginBurn(Paid(World, o), o, FALSE), p))
  <2>1. ~obj[o].lamplit
    BY <1>4 DEF Catchable
  <2>2. Kept(World, BeginBurn(Paid(World, o), o, FALSE), o)
    BY <1>1, <2>1, LightFacts
  <2> QED BY <1>1, <1>3, <1>4, <2>2, DoGood
<1>5. CASE /\ obj[o].otyp \in Lamps /\ ~obj[o].lamplit
           /\ IF OilAge(o) > LampFull
              THEN Do(Filled(World, o, OilType(o), OilAge(o), 1))
              ELSE Do(Useup(Filled(World, o, OilType(o), Oil(o, p), 1), p))
  <2>1. /\ Kept(World, Filled(World, o, OilType(o), OilAge(o), 1), o)
        /\ Kept(World, Filled(World, o, OilType(o), Oil(o, p), 1), o)
    BY <1>1, <1>5, OilKept
  <2> QED BY <1>1, <1>3, <1>5, <2>1, DoGood
<1> QED BY <1>1, <1>2, <1>4, <1>5, DipIs, DoGood

\* A round of run_timers.
LEMMA RunTimerKeeps ==
    ASSUME IInv, NEW t \in timer_base, RunTimer(t)
    PROVE  IInv'
<1>1. /\ Base /\ Good(World) /\ World.timer_base = timer_base /\ World \in Worlds
      /\ monstermoves \in Int
  BY WorldIs DEF IInv, Good, Base
<1>2. /\ t \in Timer /\ t.arg \in ObjId /\ t.timeout \in Int /\ t.timeout <= monstermoves
      /\ t.func \in Func
  <2>1. t \in Timer
    BY <1>1 DEF Worlds
  <2> QED BY <2>1, TimerFields DEF RunTimer, Due
<1> DEFINE o == t.arg
           V == Without(World, t, o)
<1>3. Do(Callback(V, t))
  BY DEF RunTimer, Do, Without
<1>4. t \in Of(World.timer_base, o) /\ InMem(World, o)
  <2>1. t \in Of(World.timer_base, o)
    BY <1>1 DEF Of
  <2> HIDE DEF o
  <2> QED BY <1>1, <1>2, <2>1, GoodFacts DEF o
<1> HIDE DEF o, V
<1>5. CASE t.func = "BURN_OBJECT"
  <2>1. Spent(V, o) /\ Rest(World, V, {o})
    BY <1>1, <1>2, <1>4, <1>5, BurnGone DEF V, o
  <2>2. Expired(World, V, o)
    BY <1>1, <1>4, <2>1 DEF Expired, InMem, Rest
  <2>3. Good(BurnObject(V, o, t.timeout))
    BY <1>1, <1>2, <2>2, BurnObjectKept DEF o, Kept
  <2> QED BY <1>1, <1>3, <1>5, <2>3, DoGood DEF Callback, o
<1>6. CASE t.func = "ROT_ORGANIC"
  <2>1. Kept(World, V, o)
    BY <1>1, <1>2, <1>4, <1>6, RotGone DEF V, o
  <2>2. Good(Obfree(V, o))
    BY <1>1, <1>2, <2>1, FreeKept DEF Kept, o
  <2> QED BY <1>1, <1>3, <1>6, <2>2, DoGood DEF Callback, o
<1> QED BY <1>2, <1>5, <1>6 DEF Func

\* The books stay in order as time passes, as long as no timer is overdue.
LEMMA TimeGood ==
    ASSUME Good(World),
           obj' = obj, timer_base' = timer_base, light_base' = light_base,
           impossible' = FALSE, here' = here, levelfile' = levelfile,
           phase' = "play" /\ PrayerTurns = 0
               => \A t \in timer_base : t.timeout > monstermoves'
    PROVE  Good(World)'
<1>1. /\ World' = [obj |-> obj, timer_base |-> timer_base, light_base |-> light_base,
                   impossible |-> FALSE]
      /\ impossible = FALSE
  BY WorldIs DEF World, Good
<1>2. World' = World
  BY <1>1 DEF World
<1>3. \A o \in ObjId : Sound(World, o)'
  <2> SUFFICES ASSUME NEW o \in ObjId PROVE Sound(World, o)'
    OBVIOUS
  <2>1. Sound(World, o)
    BY DEF Good
  <2>2. Timely(Of(timer_base, o))'
    BY DEF Timely, Of
  <2> QED BY <1>2, <2>1, <2>2, WorldIs DEF Sound, InMem, InFile, NotFiled, Away
<1> QED BY <1>2, <1>3 DEF Good

\* run_timers is done.
LEMMA RunTimersDoneKeeps ==
    ASSUME IInv, RunTimersDone
    PROVE  IInv'
<1>1. \A t \in timer_base : t.timeout > monstermoves'
  <2>1. timer_base \in SUBSET Timer /\ monstermoves \in Int
    BY WorldIs DEF IInv, Good, Base, Worlds
  <2>2. \A t \in timer_base : t.timeout \in Int /\ ~(t.timeout <= monstermoves)
    BY <2>1, TimerFields DEF RunTimersDone, Due
  <2> QED BY <2>1, <2>2 DEF RunTimersDone
<1>2. Good(World)'
  <2>1. Good(World) /\ impossible' = FALSE /\ here' = here /\ levelfile' = levelfile
        /\ obj' = obj /\ timer_base' = timer_base /\ light_base' = light_base
    BY WorldIs DEF IInv, Good, RunTimersDone
  <2> QED BY <1>1, <2>1, TimeGood
<1> QED BY <1>2 DEF IInv, Base, RunTimersDone

\* moveloop's new turn.
LEMMA NewTurnKeeps ==
    ASSUME IInv, NewTurn
    PROVE  IInv'
<1>1. phase' = "play" => PrayerTurns # 0
  BY DEF NewTurn, IInv, Base
<1>2. Good(World)'
  <2>1. Good(World) /\ impossible' = FALSE /\ here' = here /\ levelfile' = levelfile
        /\ obj' = obj /\ timer_base' = timer_base /\ light_base' = light_base
    BY WorldIs DEF IInv, Good, NewTurn
  <2> QED BY <1>1, <2>1, TimeGood
<1> QED BY <1>2 DEF IInv, Base, NewTurn

\* dopray.
LEMMA DoPrayKeeps ==
    ASSUME IInv, DoPray
    PROVE  IInv'
<1>1. PrayerTurns \in Nat /\ PrayerTurns # 0
  BY NumberAssumption DEF DoPray
<1>2. Good(World)'
  <2>1. Good(World) /\ impossible' = FALSE /\ here' = here /\ levelfile' = levelfile
        /\ obj' = obj /\ timer_base' = timer_base /\ light_base' = light_base
    BY WorldIs DEF IInv, Good, DoPray
  <2> QED BY <1>1, <2>1, TimeGood
<1> QED BY <1>1, <1>2 DEF IInv, Base, DoPray

\* Nothing that does not exist has a timer or a light source.
LEMMA AllPlaced ==
    ASSUME NEW W, Good(W)
    PROVE  ~Unplaced(W)
<1> SUFFICES ASSUME NEW o \in ObjId, W.obj[o].where \in {"FREE", "ONBILL"}
             PROVE  W.light_base[o] = 0 /\ Of(W.timer_base, o) = {}
  BY DEF Unplaced, Of, Good, Worlds
<1>1. InMem(W, o)
  BY GoodFacts DEF Away
<1> QED BY <1>1, FreeIsBare

\* dosave0 and dorecover.
LEMMA SaveAndRestoreKeeps ==
    ASSUME IInv, SaveAndRestore
    PROVE  IInv'
<1>1. ~Unplaced(World)
  BY AllPlaced DEF IInv
<1>2. Good(World)'
  <2>1. Good(World) /\ impossible' = FALSE /\ here' = here /\ levelfile' = levelfile
        /\ obj' = obj /\ timer_base' = timer_base /\ light_base' = light_base
    BY <1>1 DEF IInv, SaveAndRestore, Unplaced
  <2>2. phase' # "play"
    BY DEF SaveAndRestore
  <2> QED BY <2>1, <2>2, TimeGood
<1> QED BY <1>2 DEF IInv, Base, SaveAndRestore

\* setpaid: what is on the bill is dark, and freed.
LEMMA SetPaidGood ==
    ASSUME NEW W, Good(W)
    PROVE  /\ Good(SetPaid(W))
           /\ \A o \in ObjId : W.obj[o].where # "ONBILL" => Same(W.obj[o], SetPaid(W).obj[o])
<1> DEFINE V      == SetPaid(W)
           onbill == {o \in ObjId : W.obj[o].where = "ONBILL"}
<1>1. W \in Worlds /\ W.impossible = FALSE
  BY DEF Good
<1>2. \A o \in onbill : ~W.obj[o].lamplit
  BY GoodFacts
<1>3. /\ V.obj = [o \in ObjId |-> IF o \in onbill THEN Freed
                                  ELSE [W.obj[o] EXCEPT !.unpaid = FALSE]]
      /\ V.timer_base = W.timer_base /\ V.light_base = W.light_base
      /\ V.impossible = FALSE
      /\ V = [obj |-> V.obj, timer_base |-> V.timer_base,
              light_base |-> V.light_base, impossible |-> V.impossible]
  <2> DEFINE lit == {o \in onbill : W.obj[o].lamplit}
  <2>1. lit = {}
    BY <1>2
  <2>2. V = [obj |-> [o \in ObjId |-> IF o \in onbill THEN Freed
                                      ELSE [W.obj[o] EXCEPT !.unpaid = FALSE]],
             timer_base |-> W.timer_base,
             light_base |-> [o \in ObjId |-> IF o \in lit /\ W.light_base[o] > 0
                                             THEN W.light_base[o] - 1
                                             ELSE W.light_base[o]],
             impossible |-> W.impossible \/ \E o \in lit : W.light_base[o] = 0]
    BY DEF SetPaid
  <2> HIDE DEF lit, onbill, V
  <2>3. [o \in ObjId |-> IF o \in lit /\ W.light_base[o] > 0 THEN W.light_base[o] - 1
                         ELSE W.light_base[o]] = W.light_base
    BY <1>1, <2>1 DEF Worlds
  <2>4. (W.impossible \/ \E o \in lit : W.light_base[o] = 0) = FALSE
    BY <1>1, <2>1
  <2> QED BY <2>2, <2>3, <2>4
<1>4. ASSUME NEW o \in ObjId, W.obj[o].where # "ONBILL"
      PROVE  /\ Same(W.obj[o], V.obj[o]) /\ V.obj[o].timed = W.obj[o].timed
             /\ V.obj[o] \in Obj /\ V.obj[o].unpaid = FALSE
  <2> DEFINE R == W.obj[o]
             r == [R EXCEPT !.unpaid = FALSE]
  <2>1. V.obj[o] = r
    BY <1>3, <1>4
  <2>2. R \in Obj
    BY <1>1, WorldFields
  <2>3. r \in Obj
    BY <2>2 DEF Obj
  <2>4. Same(R, r) /\ r.timed = R.timed /\ r.unpaid = FALSE
    BY <2>2 DEF Same, Obj
  <2> HIDE DEF r, V
  <2> QED BY <2>1, <2>3, <2>4
<1>5. ASSUME NEW o \in ObjId, W.obj[o].where = "ONBILL"
      PROVE  V.obj[o] = Freed
  BY <1>3, <1>5
<1> HIDE DEF V
<1>6. V.obj \in [ObjId -> Obj]
  BY <1>3, <1>4, <1>5, FreedFacts
<1>7. V \in Worlds
  BY <1>1, <1>3, <1>6 DEF Worlds
<1>8. ASSUME NEW o \in ObjId PROVE Sound(V, o)
  <2>1. Sound(W, o)
    BY DEF Good
  <2>2. CASE W.obj[o].where = "ONBILL"
    <3>1. InMem(W, o)
      BY <2>1, <2>2 DEF Sound, InFile, Away
    <3>2. Of(W.timer_base, o) = {} /\ W.light_base[o] = 0
      BY <2>2, <3>1, FreeIsBare
    <3>3. ~Away(Freed) /\ Whole(Freed)
      BY FreedFacts DEF Away, Whole
    <3>4. InMem(V, o)
      BY <1>3, <1>5, <1>7, <2>2, <3>2, <3>3, FreedFacts, BareIsInMem
    <3>5. NotFiled(Freed, o)
      BY <2>1, <3>1, <3>3 DEF Sound, NotFiled, InMem
    <3> QED BY <1>5, <2>2, <3>4, <3>5 DEF Sound
  <2>3. CASE W.obj[o].where # "ONBILL"
    <3> DEFINE R == W.obj[o]
               r == V.obj[o]
    <3>1. /\ Same(R, r) /\ r.timed = R.timed /\ r \in Obj /\ r.unpaid = FALSE
      BY <1>4, <2>3
    <3> HIDE DEF R, r
    <3>2. Away(r) <=> Away(R)
      BY <3>1 DEF Away, Same
    <3>3. \A T, n : Agrees(R, T, n) => Agrees(r, T, n)
      BY <3>1 DEF Agrees, Balanced, Same, Whole
    <3>4. InMem(W, o) => InMem(V, o)
      BY <1>3, <3>2, <3>3 DEF InMem, R, r
    <3>5. InFile(W, o) => InFile(V, o)
      BY <1>3, <3>1, <3>2, <3>3 DEF InFile, Same, R, r
    <3>6. NotFiled(R, o) => NotFiled(r, o)
      BY <3>1, <3>2 DEF NotFiled, Same
    <3> QED BY <2>1, <3>4, <3>5, <3>6 DEF Sound, R, r
  <2> QED BY <2>2, <2>3
<1>9. Good(V)
  BY <1>3, <1>7, <1>8 DEF Good
<1> QED BY <1>4, <1>9 DEF V

OnMap(r) == r.where \in {"FLOOR", "BURIED", "MINVENT"}

\* What an object has to be after a level change: in memory, with struct r,
\* timers T and n light sources, or in the file of its level.
Arrives(o, r, T, n) ==
    /\ OnMap(r) => r.lev = here'
    /\ Agrees(r, T, n)
    /\ \A k \in Level : Of(levelfile'[k].timers, o) = {} /\ levelfile'[k].lights[o] = 0

StaysBehind(o, r, T, n) ==
    /\ OnMap(r) /\ r.lev # here'
    /\ T = {} /\ n = 0
    /\ Agrees(r, Of(levelfile'[r.lev].timers, o), levelfile'[r.lev].lights[o])
    /\ \A k \in Level \ {r.lev} :
          Of(levelfile'[k].timers, o) = {} /\ levelfile'[k].lights[o] = 0

\* Either way its books are in order on the new level.
LEMMA SoundThere ==
    ASSUME NEW o \in ObjId, phase' = "timers",
           \/ Arrives(o, obj'[o], Of(timer_base', o), light_base'[o])
           \/ StaysBehind(o, obj'[o], Of(timer_base', o), light_base'[o])
    PROVE  Sound(World, o)'
<1>1. Timely(Of(timer_base, o))'
  BY DEF Timely
<1>2. CASE Arrives(o, obj'[o], Of(timer_base', o), light_base'[o])
  <2>1. ~Away(obj[o])'
    BY <1>2 DEF Arrives, OnMap, Away
  <2> QED BY <1>1, <1>2, <2>1 DEF Arrives, Sound, InMem, NotFiled, World
<1>3. CASE StaysBehind(o, obj'[o], Of(timer_base', o), light_base'[o])
  <2>1. Away(obj[o])'
    BY <1>3 DEF StaysBehind, OnMap, Away
  <2> QED BY <1>3, <2>1 DEF StaysBehind, Sound, InFile, NotFiled, World
<1> QED BY <1>2, <1>3

\* An object in a monster's pack, or in transit, is put on a level.
LEMMA PutDown ==
    ASSUME NEW R, NEW T, NEW n, Agrees(R, T, n), NEW r \in Obj,
           R.where \in {"MINVENT", "MIGRATING"}, r.where \in {"FLOOR", "MINVENT"},
           r.otyp = R.otyp, r.age = R.age, r.spe = R.spe, r.quan = R.quan,
           r.lamplit = R.lamplit, r.timed = R.timed, r.unpaid = R.unpaid
    PROVE  Agrees(r, T, n)
BY DEF Agrees, Balanced, Whole

\* What a level change does, object by object and level by level.
GoesTo(W, l, F, stay, where) ==
    /\ \A o \in ObjId :
          /\ Of(timer_base', o) = (IF o \in stay THEN {} ELSE Of(W.timer_base, o))
                                      \cup Of(levelfile[l].timers, o)
          /\ light_base'[o] = (IF o \in stay THEN 0 ELSE W.light_base[o])
                                  + levelfile[l].lights[o]
          /\ Of(levelfile'[l].timers, o) = {} /\ levelfile'[l].lights[o] = 0
          /\ Of(levelfile'[here].timers, o) = IF o \in stay THEN Of(W.timer_base, o) ELSE {}
          /\ levelfile'[here].lights[o] = IF o \in stay THEN W.light_base[o] ELSE 0
          /\ obj'[o] = CASE o \in F -> [W.obj[o] EXCEPT !.lev = l]
                         [] W.obj[o].where = "MIGRATING" /\ W.obj[o].lev = l
                              -> [W.obj[o] EXCEPT !.where = where]
                         [] OTHER -> W.obj[o]
    /\ \A k \in Level \ {l, here} : levelfile'[k] = levelfile[k]

\* goto_level does that.
LEMMA GotoLevelIs ==
    ASSUME IInv, NEW l \in Level, NEW F \in SUBSET ObjId, GotoLevel(l, F)
    PROVE  LET W    == SetPaid(World)
               stay == {o \in ObjId : ObjIsLocal(W, o, F)}
           IN  /\ \E where \in {"FLOOR", "MINVENT"} : GoesTo(W, l, F, stay, where)
               /\ obj' = [o \in ObjId |-> obj'[o]] /\ light_base' = [o \in ObjId |-> light_base'[o]]
               /\ impossible' = FALSE
               /\ timer_base' \in SUBSET Timer
               /\ levelfile'[l] = EmptyFile
               /\ levelfile' \in [Level -> [timers : SUBSET Timer, lights : [ObjId -> Nat]]]
<1> DEFINE W     == SetPaid(World)
           stay  == {o \in ObjId : ObjIsLocal(W, o, F)}
           saved == {t \in W.timer_base : t.arg \in stay}
           left  == [timers |-> saved,
                     lights |-> [o \in ObjId |-> IF o \in stay THEN W.light_base[o] ELSE 0]]
<1>1. /\ Good(W) /\ W \in Worlds /\ here \in Level /\ l # here
      /\ levelfile \in [Level -> [timers : SUBSET Timer, lights : [ObjId -> Nat]]]
  BY SetPaidGood DEF IInv, Base, Good, GotoLevel
<1>2. PICK where \in {"FLOOR", "MINVENT"} :
          obj' = [o \in ObjId |->
                    CASE o \in F -> [W.obj[o] EXCEPT !.lev = l]
                      [] W.obj[o].where = "MIGRATING" /\ W.obj[o].lev = l
                           -> [W.obj[o] EXCEPT !.where = where]
                      [] OTHER -> W.obj[o]]
  BY DEF GotoLevel
<1>3. /\ timer_base' = (W.timer_base \ saved) \cup levelfile[l].timers
      /\ light_base' = [o \in ObjId |-> (IF o \in stay THEN 0 ELSE W.light_base[o])
                                            + levelfile[l].lights[o]]
      /\ levelfile' = [levelfile EXCEPT ![l] = EmptyFile, ![here] = left]
      /\ impossible' = (W.impossible \/ Unplaced(W))
  BY DEF GotoLevel
<1>4. impossible' = FALSE
  BY <1>1, <1>3, AllPlaced DEF Good
<1> HIDE DEF W, stay
<1>5. /\ levelfile'[l] = EmptyFile /\ levelfile'[here] = left
      /\ \A k \in Level \ {l, here} : levelfile'[k] = levelfile[k]
  BY <1>1, <1>3
<1>6. /\ EmptyFile \in [timers : SUBSET Timer, lights : [ObjId -> Nat]]
      /\ left \in [timers : SUBSET Timer, lights : [ObjId -> Nat]]
  BY <1>1 DEF EmptyFile, Worlds
<1>7. ASSUME NEW o \in ObjId
      PROVE  /\ Of(timer_base', o) = (IF o \in stay THEN {} ELSE Of(W.timer_base, o))
                                         \cup Of(levelfile[l].timers, o)
             /\ Of(saved, o) = IF o \in stay THEN Of(W.timer_base, o) ELSE {}
             /\ Of({}, o) = {}
  BY <1>3 DEF Of
<1>8. GoesTo(W, l, F, stay, where)
  <2>1. ASSUME NEW o \in ObjId
        PROVE  /\ left.timers = saved /\ EmptyFile.timers = {} /\ EmptyFile.lights[o] = 0
               /\ left.lights[o] = IF o \in stay THEN W.light_base[o] ELSE 0
    BY DEF EmptyFile
  <2> HIDE DEF left, saved
  <2>2. ASSUME NEW o \in ObjId
        PROVE  /\ Of(levelfile'[l].timers, o) = {} /\ levelfile'[l].lights[o] = 0
               /\ Of(levelfile'[here].timers, o)
                     = IF o \in stay THEN Of(W.timer_base, o) ELSE {}
               /\ levelfile'[here].lights[o] = IF o \in stay THEN W.light_base[o] ELSE 0
    BY <1>5, <1>7, <2>1
  <2>3. ASSUME NEW o \in ObjId
        PROVE  light_base'[o] = (IF o \in stay THEN 0 ELSE W.light_base[o])
                                    + levelfile[l].lights[o]
    BY <1>3
  <2>4. ASSUME NEW o \in ObjId
        PROVE  obj'[o] = CASE o \in F -> [W.obj[o] EXCEPT !.lev = l]
                           [] W.obj[o].where = "MIGRATING" /\ W.obj[o].lev = l
                                -> [W.obj[o] EXCEPT !.where = where]
                           [] OTHER -> W.obj[o]
    BY <1>2
  <2> QED BY <1>5, <1>7, <2>2, <2>3, <2>4 DEF GoesTo
<1>9. timer_base' \in SUBSET Timer
  BY <1>1, <1>3 DEF Worlds
<1>10. levelfile' \in [Level -> [timers : SUBSET Timer, lights : [ObjId -> Nat]]]
  <2> HIDE DEF left
  <2> QED BY <1>1, <1>3, <1>6
<1>11. obj' = [o \in ObjId |-> obj'[o]] /\ light_base' = [o \in ObjId |-> light_base'[o]]
  BY <1>2, <1>3
<1> QED BY <1>4, <1>5, <1>8, <1>9, <1>10, <1>11 DEF W, stay

\* One object across a level change, given what it was and what becomes of it.
LEMMA GoesWell ==
    ASSUME IInv, NEW l \in Level, NEW F \in SUBSET ObjId, here' = l, l # here,
           NEW W, Good(W), NEW stay, stay = {o \in ObjId : ObjIsLocal(W, o, F)},
           NEW where \in {"FLOOR", "MINVENT"}, GoesTo(W, l, F, stay, where),
           \A o \in F : W.obj[o].where = "MINVENT" /\ W.obj[o].lev = here,
           NEW o \in ObjId
    PROVE  /\ obj'[o] \in Obj
           /\ light_base'[o] \in Nat
           /\ \/ Arrives(o, obj'[o], Of(timer_base', o), light_base'[o])
              \/ StaysBehind(o, obj'[o], Of(timer_base', o), light_base'[o])
<1> DEFINE R == W.obj[o]
           r == obj'[o]
           T == Of(timer_base', o)
           n == light_base'[o]
<1>1. /\ Sound(W, o) /\ R \in Obj /\ W.light_base[o] \in Nat
      /\ levelfile[here] = EmptyFile /\ here \in Level
      /\ \A k \in Level : levelfile[k].lights[o] \in Nat
  BY WorldFields DEF Good, IInv, Base
<1>2. /\ o \in stay => R.where \in {"FLOOR", "BURIED", "MINVENT"} /\ R.lev = here /\ o \notin F
      /\ o \in F => R.where = "MINVENT" /\ R.lev = here
      /\ (R.where \in {"FLOOR", "BURIED", "MINVENT"} /\ R.lev = here /\ o \notin F) => o \in stay
  BY DEF ObjIsLocal
<1>3. /\ T = (IF o \in stay THEN {} ELSE Of(W.timer_base, o)) \cup Of(levelfile[l].timers, o)
      /\ n = (IF o \in stay THEN 0 ELSE W.light_base[o]) + levelfile[l].lights[o]
      /\ Of(levelfile'[l].timers, o) = {} /\ levelfile'[l].lights[o] = 0
      /\ Of(levelfile'[here].timers, o) = IF o \in stay THEN Of(W.timer_base, o) ELSE {}
      /\ levelfile'[here].lights[o] = IF o \in stay THEN W.light_base[o] ELSE 0
      /\ \A k \in Level \ {l, here} : levelfile'[k] = levelfile[k]
      /\ r = CASE o \in F -> [R EXCEPT !.lev = l]
               [] R.where = "MIGRATING" /\ R.lev = l -> [R EXCEPT !.where = where]
               [] OTHER -> R
  BY DEF GoesTo
<1>4. n \in Nat
  BY <1>1, <1>3
<1>5. [R EXCEPT !.lev = l] \in Obj /\ [R EXCEPT !.where = where] \in Obj
  BY <1>1 DEF Obj, Where
<1>6. r \in Obj
  BY <1>1, <1>3, <1>5
<1> DEFINE Goal == Arrives(o, r, T, n) \/ StaysBehind(o, r, T, n)
<1>7. CASE InFile(W, o)
  <2>1. /\ OnMap(R) /\ R.lev # here /\ R.lev \in Level
        /\ Of(W.timer_base, o) = {} /\ W.light_base[o] = 0
        /\ Agrees(R, Of(levelfile[R.lev].timers, o), levelfile[R.lev].lights[o])
    BY <1>1, <1>7, ObjFields DEF InFile, Away, OnMap
  <2>2. o \notin stay /\ o \notin F /\ r = R
    BY <1>2, <1>3, <2>1 DEF OnMap
  <2>3. \A k \in Level \ {R.lev} : Of(levelfile[k].timers, o) = {} /\ levelfile[k].lights[o] = 0
    BY <1>1, <2>1 DEF Sound, NotFiled
  <2>4. /\ T = Of(levelfile[l].timers, o) /\ n = levelfile[l].lights[o]
    BY <1>1, <1>3, <2>1, <2>2
  <2> HIDE DEF R, r, T, n
  <2>5. \A k \in Level : \/ k = R.lev /\ R.lev # l /\ levelfile'[k] = levelfile[k]
                         \/ Of(levelfile'[k].timers, o) = {} /\ levelfile'[k].lights[o] = 0
    BY <1>3, <2>1, <2>2, <2>3
  <2>6. CASE R.lev = l
    <3>1. Agrees(r, T, n)
      BY <2>1, <2>2, <2>4, <2>6
    <3>2. Arrives(o, r, T, n)
      BY <2>2, <2>5, <2>6, <3>1 DEF Arrives
    <3> QED BY <1>4, <1>6, <3>2 DEF r, T, n
  <2>7. CASE R.lev # l
    <3>1. T = {} /\ n = 0 /\ levelfile'[R.lev] = levelfile[R.lev]
      BY <1>3, <2>1, <2>3, <2>4, <2>7
    <3>2. StaysBehind(o, r, T, n)
      BY <2>1, <2>2, <2>5, <2>7, <3>1 DEF StaysBehind
    <3> QED BY <1>4, <1>6, <3>2 DEF r, T, n
  <2> QED BY <1>4, <1>6, <2>6, <2>7 DEF r, T, n
<1>8. CASE InMem(W, o)
  <2>1. /\ ~(OnMap(R) /\ R.lev # here)
        /\ Agrees(R, Of(W.timer_base, o), W.light_base[o])
    BY <1>8 DEF InMem, Away, OnMap
  <2>2. \A k \in Level : Of(levelfile[k].timers, o) = {} /\ levelfile[k].lights[o] = 0
    BY <1>1, <1>8 DEF Sound, NotFiled, InMem
  <2>3. /\ T = (IF o \in stay THEN {} ELSE Of(W.timer_base, o))
        /\ n = (IF o \in stay THEN 0 ELSE W.light_base[o])
    <3>1. Of(levelfile[l].timers, o) = {} /\ levelfile[l].lights[o] = 0
      BY <2>2
    <3> HIDE DEF T, n
    <3> QED BY <1>1, <1>3, <3>1
  <2> HIDE DEF R, r, T, n
  <2>4. CASE o \in stay
    <3>1. r = R /\ OnMap(r) /\ r.lev = here
      BY <1>2, <1>3, <2>4 DEF OnMap
    <3>2. /\ Of(levelfile'[here].timers, o) = Of(W.timer_base, o)
          /\ levelfile'[here].lights[o] = W.light_base[o]
      BY <1>3, <2>4
    <3>3. \A k \in Level \ {here} :
             Of(levelfile'[k].timers, o) = {} /\ levelfile'[k].lights[o] = 0
      BY <1>3, <2>2
    <3>4. StaysBehind(o, r, T, n)
      BY <2>1, <2>3, <2>4, <3>1, <3>2, <3>3 DEF StaysBehind
    <3> QED BY <1>4, <1>6, <3>4 DEF r, T, n
  <2>5. CASE o \notin stay
    <3>1. \A k \in Level : Of(levelfile'[k].timers, o) = {} /\ levelfile'[k].lights[o] = 0
      BY <1>3, <2>2, <2>5
    <3>2. T = Of(W.timer_base, o) /\ n = W.light_base[o]
      BY <2>3, <2>5
    <3>3. CASE o \in F
      <4>1. /\ r.otyp = R.otyp /\ r.where = R.where /\ r.lev = l /\ r.age = R.age
            /\ r.spe = R.spe /\ r.quan = R.quan /\ r.lamplit = R.lamplit
            /\ r.timed = R.timed /\ r.unpaid = R.unpaid
        <5>1. r = [R EXCEPT !.lev = l]
          BY <1>2, <1>3, <3>3
        <5> QED BY <1>1, <5>1 DEF Obj
      <4>2. Agrees(r, T, n)
        BY <1>2, <1>6, <2>1, <3>2, <3>3, <4>1, PutDown
      <4> QED BY <1>4, <1>6, <3>1, <4>1, <4>2 DEF Arrives, r, T, n
    <3>4. CASE o \notin F /\ R.where = "MIGRATING" /\ R.lev = l
      <4>1. /\ r.otyp = R.otyp /\ r.where = where /\ r.lev = l /\ r.age = R.age
            /\ r.spe = R.spe /\ r.quan = R.quan /\ r.lamplit = R.lamplit
            /\ r.timed = R.timed /\ r.unpaid = R.unpaid
        BY <1>1, <1>3, <3>4 DEF Obj
      <4>2. Agrees(r, T, n)
        BY <1>2, <1>6, <2>1, <3>2, <3>4, <4>1, PutDown
      <4> QED BY <1>4, <1>6, <3>1, <4>1, <4>2 DEF Arrives, r, T, n
    <3>5. CASE o \notin F /\ ~(R.where = "MIGRATING" /\ R.lev = l)
      <4>1. r = R /\ ~OnMap(r)
        BY <1>2, <1>3, <2>1, <2>5, <3>5 DEF OnMap
      <4>2. Arrives(o, r, T, n)
        BY <2>1, <3>1, <3>2, <4>1 DEF Arrives
      <4> QED BY <1>4, <1>6, <4>2 DEF r, T, n
    <3> QED BY <3>3, <3>4, <3>5
  <2> QED BY <2>4, <2>5
<1> QED BY <1>1, <1>7, <1>8 DEF Sound

\* goto_level.
LEMMA GotoLevelKeeps ==
    ASSUME IInv, NEW l \in Level, NEW F \in SUBSET ObjId, GotoLevel(l, F)
    PROVE  IInv'
<1> DEFINE W    == SetPaid(World)
           stay == {o \in ObjId : ObjIsLocal(W, o, F)}
<1>1. /\ \E where \in {"FLOOR", "MINVENT"} : GoesTo(W, l, F, stay, where)
      /\ obj' = [o \in ObjId |-> obj'[o]] /\ light_base' = [o \in ObjId |-> light_base'[o]]
      /\ impossible' = FALSE
      /\ timer_base' \in SUBSET Timer
      /\ levelfile'[l] = EmptyFile
      /\ levelfile' \in [Level -> [timers : SUBSET Timer, lights : [ObjId -> Nat]]]
  BY GotoLevelIs
<1>2. /\ Good(W) /\ Good(World) /\ World.obj = obj
      /\ \A o \in ObjId : obj[o].where # "ONBILL" => Same(obj[o], W.obj[o])
  <2>1. Good(World) /\ World.obj = obj
    BY WorldIs DEF IInv
  <2> QED BY <2>1, SetPaidGood
<1>3. /\ here' = l /\ l # here /\ phase' = "timers" /\ monstermoves' = monstermoves
      /\ praying' = praying
      /\ \A o \in F : obj[o].where = "MINVENT" /\ obj[o].lev = here
  BY DEF GotoLevel, At
<1> HIDE DEF W
<1>4. \A o \in F : W.obj[o].where = "MINVENT" /\ W.obj[o].lev = here
  BY <1>2, <1>3 DEF Same
<1>5. PICK where \in {"FLOOR", "MINVENT"} : GoesTo(W, l, F, stay, where)
  BY <1>1
<1>6. \E S : S = stay
  OBVIOUS
<1> HIDE DEF stay
<1>7. ASSUME NEW o \in ObjId
      PROVE  /\ obj'[o] \in Obj /\ light_base'[o] \in Nat
             /\ \/ Arrives(o, obj'[o], Of(timer_base', o), light_base'[o])
                \/ StaysBehind(o, obj'[o], Of(timer_base', o), light_base'[o])
  BY <1>2, <1>3, <1>4, <1>5, GoesWell DEF stay
<1>8. \A o \in ObjId : Sound(World, o)'
  BY <1>3, <1>7, SoundThere
<1>9. (World \in Worlds)' /\ (World.impossible = FALSE)'
  BY <1>1, <1>7 DEF World, Worlds
<1>10. Good(World)'
  BY <1>8, <1>9 DEF Good
<1>11. Base'
  BY <1>1, <1>3 DEF Base, IInv
<1> QED BY <1>10, <1>11 DEF IInv

(***************************************************************************)
(* The invariant, and what it says of the properties of module Burning.    *)
(***************************************************************************)
\* At the start everything is dark.
LEMMA InitGood ==
    ASSUME NoGenieForSale, Init
    PROVE  IInv
<1>1. /\ here \in Level /\ NoLev \in Level
  BY LevelAssumption DEF Init, NoLev
<1>2. Base
  BY <1>1, NumberAssumption DEF Base, Init, EmptyFile
<1>3. ASSUME NEW o \in ObjId
      PROVE  /\ obj[o] \in Obj /\ Unlit(obj[o])
             /\ obj[o].unpaid => ForSale
             /\ obj[o].otyp = "MAGIC_LAMP" => ~ForSale
  <2>1. obj[o] \in Stock[o] /\ Stock[o] \subseteq Obj
    BY StockAssumption DEF Init
  <2> QED BY <2>1, StockAssumption DEF ForSale, NoGenieForSale
<1>4. /\ World \in Worlds /\ World.impossible = FALSE
  BY <1>3 DEF Init, World, Worlds
<1>5. ASSUME NEW o \in ObjId
      PROVE  /\ Of(World.timer_base, o) = {} /\ World.light_base[o] = 0
             /\ World.obj[o] = obj[o]
             /\ \A l \in Level : /\ Of(levelfile[l].timers, o) = {}
                                 /\ levelfile[l].lights[o] = 0
  BY DEF Init, World, Of, EmptyFile
<1>6. ASSUME NEW o \in ObjId PROVE Sound(World, o)
  <2> DEFINE r == obj[o]
  <2>1. /\ r \in Obj /\ r.lamplit = FALSE /\ r.timed = 0 /\ r.age >= 0 /\ r.quan >= 1
        /\ r.lev \in Level
    BY <1>3, ObjFields DEF Unlit
  <2>2. Whole(r)
    BY <1>3, <2>1 DEF Whole
  <2> HIDE DEF r
  <2>3. Agrees(r, {}, 0)
    BY <2>1, <2>2 DEF Agrees, Balanced, HasBurn, HasRot, Num
  <2>4. NotFiled(r, o)
    BY <1>5 DEF NotFiled
  <2>5. InMem(World, o) \/ InFile(World, o)
    BY <1>5, <2>1, <2>3 DEF InMem, InFile, Timely, r
  <2> QED BY <1>5, <2>4, <2>5 DEF Sound, r
<1> QED BY <1>2, <1>4, <1>6 DEF IInv, Good

\* Every step of the game, and none.
LEMMA StepGood ==
    ASSUME IInv, [Next]_vars
    PROVE  IInv'
<1>1. CASE \E o \in ObjId : ObjectAction(o)
  <2>1. PICK o \in ObjId : ObjectAction(o)
    BY <1>1
  <2> QED
    BY <2>1, UseLampKeeps, UseCandelabrumKeeps, LightCocktailKeeps, DoRubKeeps,
       CatchLitKeeps, SnuffLitKeeps, ONameKeeps, DropKeeps, PickupKeeps,
       InContainerKeeps, OutContainerKeeps, MPickObjKeeps, MDropObjKeeps,
       MigrateKeeps, BuryAnObjKeeps, UnearthObjsKeeps, DestroyKeeps, PayForKeeps
       DEF ObjectAction
<1>2. CASE \E o, p \in ObjId : UseCandle(o, p) \/ DipIntoOil(o, p)
  BY <1>2, UseCandleKeeps, DipIntoOilKeeps
<1>3. CASE \E t \in timer_base : RunTimer(t)
  BY <1>3, RunTimerKeeps
<1>4. CASE RunTimersDone
  BY <1>4, RunTimersDoneKeeps
<1>5. CASE NewTurn
  BY <1>5, NewTurnKeeps
<1>6. CASE DoPray
  BY <1>6, DoPrayKeeps
<1>7. CASE \E l \in Level, F \in SUBSET ObjId : GotoLevel(l, F)
  BY <1>7, GotoLevelKeeps
<1>8. CASE SaveAndRestore
  BY <1>8, SaveAndRestoreKeeps
<1>9. CASE UNCHANGED vars
  BY <1>9 DEF vars, IInv, Base, Good, Sound, InMem, InFile, NotFiled, Away, Timely,
     World
<1> QED BY <1>1, <1>2, <1>3, <1>4, <1>5, <1>6, <1>7, <1>8, <1>9 DEF Next

\* The books are always in order.
LEMMA Invariance ==
    ASSUME NoGenieForSale
    PROVE  Spec => []IInv
<1>1. Init => IInv
  BY InitGood
<1>2. IInv /\ [Next]_vars => IInv'
  BY StepGood
<1> QED BY <1>1, <1>2, PTL DEF Spec

\* The timers and light sources of an object are those of its place.
LEMMA PendingIs ==
    ASSUME IInv, NEW o \in ObjId
    PROVE  \/ /\ InMem(World, o) /\ ~Away(obj[o])
              /\ Pending(o) = Of(timer_base, o)
              /\ \A l \in Level : levelfile[l].lights[o] = 0
           \/ /\ InFile(World, o) /\ Away(obj[o]) /\ obj[o].lev \in Level
              /\ Pending(o) = Of(levelfile[obj[o].lev].timers, o)
              /\ light_base[o] = 0
              /\ \A l \in Level \ {obj[o].lev} : levelfile[l].lights[o] = 0
<1> DEFINE All == UNION {levelfile[l].timers : l \in Level}
<1>1. /\ Sound(World, o) /\ World.obj = obj /\ World.timer_base = timer_base
      /\ World.light_base = light_base /\ obj[o] \in Obj /\ obj[o].lev \in Level
  <2>1. Good(World) /\ World.obj = obj /\ World.timer_base = timer_base
        /\ World.light_base = light_base
    BY WorldIs DEF IInv
  <2>2. obj[o] \in Obj
    BY <2>1, WorldFields DEF Good
  <2> QED BY <2>1, <2>2, ObjFields DEF Good
<1>2. Pending(o) = Of(timer_base, o) \cup Of(All, o)
  BY DEF Pending, Of
<1>3. CASE InMem(World, o)
  <2>1. \A l \in Level : Of(levelfile[l].timers, o) = {} /\ levelfile[l].lights[o] = 0
    BY <1>1, <1>3 DEF Sound, NotFiled, InMem
  <2>2. Of(All, o) = {}
    BY <2>1 DEF Of
  <2> QED BY <1>1, <1>2, <1>3, <2>1, <2>2 DEF InMem
<1>4. CASE InFile(World, o)
  <2> DEFINE k == obj[o].lev
  <2>1. \A l \in Level \ {k} : Of(levelfile[l].timers, o) = {} /\ levelfile[l].lights[o] = 0
    BY <1>1, <1>4 DEF Sound, NotFiled
  <2>2. Of(All, o) = Of(levelfile[k].timers, o)
    BY <1>1, <2>1 DEF Of
  <2>3. Of(timer_base, o) = {} /\ light_base[o] = 0 /\ Away(obj[o])
    BY <1>1, <1>4 DEF InFile
  <2> QED BY <1>1, <1>2, <1>4, <2>1, <2>2, <2>3
<1> QED BY <1>1, <1>3, <1>4 DEF Sound

\* What the invariant says of one object: r is its struct and T its timers.
LEMMA ObjectAccount ==
    ASSUME IInv, NEW o \in ObjId
    PROVE  \E n \in Nat : Agrees(obj[o], Pending(o), n)
<1>1. World.obj = obj /\ World.timer_base = timer_base /\ World.light_base = light_base
  BY WorldIs
<1>2. light_base[o] \in Nat /\ (obj[o].lev \in Level => levelfile[obj[o].lev].lights[o] \in Nat)
  BY <1>1, WorldFields DEF IInv, Good, Base
<1> QED BY <1>1, <1>2, PendingIs DEF InMem, InFile

\* A timer in memory points at an object in memory.
LEMMA InMemoryIs ==
    ASSUME IInv, NEW o \in ObjId, Of(timer_base, o) # {} \/ light_base[o] > 0
    PROVE  InMemory(o)
<1>1. /\ World.obj = obj /\ World.timer_base = timer_base /\ World.light_base = light_base
      /\ World \in Worlds /\ obj[o] \in Obj /\ light_base[o] \in Nat
  <2>1. World.obj = obj /\ World.light_base = light_base /\ World.timer_base = timer_base
    BY WorldIs
  <2> QED BY <2>1, WorldFields DEF IInv, Good
<1>2. InMem(World, o) /\ ~Away(obj[o])
  BY <1>1, PendingIs DEF InFile
<1>3. obj[o].where \notin {"FREE", "ONBILL"}
  BY <1>1, <1>2, FreeIsBare
<1> QED BY <1>1, <1>2, <1>3, ObjFields DEF InMemory, OnLevel, Away, Where

\* The invariant implies each of the properties: types,
LEMMA TypeInv == ASSUME IInv PROVE TypeOK
BY WorldIs DEF IInv, Base, Good, Worlds, TypeOK

\* the counts of timers,
LEMMA CountInv == ASSUME IInv PROVE TimedCountsTimers
<1> SUFFICES ASSUME NEW o \in ObjId PROVE obj[o].timed = Cardinality(Pending(o))
  BY DEF TimedCountsTimers
<1>1. PICK n \in Nat : Agrees(obj[o], Pending(o), n)
  BY ObjectAccount
<1>2. /\ Pending(o) \in SUBSET Timer
      /\ \A t, u \in Pending(o) : t.func = u.func => t = u
      /\ obj[o].timed = Num(HasBurn(Pending(o))) + Num(HasRot(Pending(o)))
  BY <1>1 DEF Agrees, Balanced
<1> QED BY <1>2, CountTimers

\* where timers and light sources are kept,
LEMMA PlaceInv == ASSUME IInv PROVE TimersFollowObjects
<1>1. /\ World \in Worlds /\ World.timer_base = timer_base /\ World.obj = obj
      /\ World.light_base = light_base
      /\ levelfile \in [Level -> [timers : SUBSET Timer, lights : [ObjId -> Nat]]]
      /\ levelfile[here] = EmptyFile
  BY WorldIs DEF IInv, Good, Base
<1>2. \A t \in timer_base : InMemory(t.arg)
  <2> SUFFICES ASSUME NEW t \in timer_base PROVE InMemory(t.arg)
    OBVIOUS
  <2>1. t.arg \in ObjId
    BY <1>1, TimerFields DEF Worlds
  <2>2. t \in Of(timer_base, t.arg)
    BY DEF Of
  <2> QED BY <2>1, <2>2, InMemoryIs
<1>3. \A o \in ObjId : light_base[o] > 0 => InMemory(o)
  BY InMemoryIs
<1>4. ASSUME NEW l \in Level, NEW o \in ObjId,
             Of(levelfile[l].timers, o) # {} \/ levelfile[l].lights[o] > 0
      PROVE  OnLevel(o, l)
  <2>1. NotFiled(obj[o], o)
    BY <1>1 DEF IInv, Good, Sound
  <2>2. Away(obj[o]) /\ obj[o].lev = l
    BY <1>4, <2>1 DEF NotFiled
  <2> QED BY <2>2 DEF Away, OnLevel
<1>5. ASSUME NEW l \in Level, NEW t \in levelfile[l].timers
      PROVE  OnLevel(t.arg, l)
  <2>1. t.arg \in ObjId
    BY <1>1, TimerFields
  <2>2. t \in Of(levelfile[l].timers, t.arg)
    BY DEF Of
  <2> QED BY <1>4, <2>1, <2>2
<1> QED BY <1>1, <1>2, <1>3, <1>4, <1>5 DEF TimersFollowObjects

\* The burn timers of an object.
LEMMA CountBurns ==
    ASSUME IInv, NEW o \in ObjId
    PROVE  Cardinality(Burns(o))
               = IF obj[o].lamplit /\ obj[o].otyp # "MAGIC_LAMP" THEN 1 ELSE 0
<1>1. PICK n \in Nat : Agrees(obj[o], Pending(o), n)
  BY ObjectAccount
<1>2. /\ \A t, u \in Pending(o) : t.func = u.func => t = u
      /\ HasBurn(Pending(o)) <=> obj[o].lamplit /\ obj[o].otyp # "MAGIC_LAMP"
  BY <1>1 DEF Agrees, Balanced
<1>3. CASE HasBurn(Pending(o))
  <2>1. PICK t \in Pending(o) : t.func = "BURN_OBJECT"
    BY <1>3 DEF HasBurn
  <2>2. Burns(o) = {t}
    BY <1>2, <2>1 DEF Burns
  <2> QED BY <1>2, <1>3, <2>2, FS_Singleton
<1>4. CASE ~HasBurn(Pending(o))
  <2>1. Burns(o) = {}
    BY <1>4 DEF Burns, HasBurn
  <2> QED BY <1>2, <1>4, <2>1, FS_EmptySet
<1> QED BY <1>3, <1>4

\* what is lit,
LEMMA LightInv == ASSUME IInv PROVE LitIffBurning
<1> SUFFICES ASSUME NEW o \in ObjId
             PROVE  LET away == {l \in Level : levelfile[l].lights[o] > 0}
                    IN  IF obj[o].lamplit
                        THEN \/ light_base[o] = 1 /\ away = {}
                             \/ light_base[o] = 0 /\ \E l \in Level :
                                    away = {l} /\ levelfile[l].lights[o] = 1
                        ELSE light_base[o] = 0 /\ away = {}
  BY CountBurns DEF LitIffBurning
<1> DEFINE away == {l \in Level : levelfile[l].lights[o] > 0}
<1>1. World.obj = obj /\ World.timer_base = timer_base /\ World.light_base = light_base
  BY WorldIs
<1>2. CASE /\ InMem(World, o)
           /\ \A l \in Level : levelfile[l].lights[o] = 0
  <2>1. light_base[o] = Num(obj[o].lamplit)
    BY <1>1, <1>2 DEF InMem, Agrees, Balanced
  <2> QED BY <1>2, <2>1 DEF Num
<1>3. CASE /\ InFile(World, o) /\ obj[o].lev \in Level /\ light_base[o] = 0
           /\ \A l \in Level \ {obj[o].lev} : levelfile[l].lights[o] = 0
  <2>1. levelfile[obj[o].lev].lights[o] = Num(obj[o].lamplit)
    BY <1>1, <1>3 DEF InFile, Agrees, Balanced
  <2>2. CASE obj[o].lamplit
    <3>1. levelfile[obj[o].lev].lights[o] = 1
      BY <2>1, <2>2 DEF Num
    <3>2. away = {obj[o].lev}
      BY <1>3, <3>1
    <3> QED BY <1>3, <2>2, <3>1, <3>2
  <2>3. CASE ~obj[o].lamplit
    <3>1. levelfile[obj[o].lev].lights[o] = 0
      BY <2>1, <2>3 DEF Num
    <3>2. away = {}
      BY <1>3, <3>1
    <3> QED BY <1>3, <2>3, <3>2
  <2> QED BY <2>2, <2>3
<1> QED BY <1>2, <1>3, PendingIs

\* and what is due.
LEMMA DueInv == ASSUME IInv PROVE NothingOverdue
<1> SUFFICES ASSUME phase = "play", PrayerTurns = 0, NEW t \in timer_base
             PROVE  t.timeout > monstermoves
  BY DEF NothingOverdue
<1>1. /\ World \in Worlds /\ World.timer_base = timer_base /\ Good(World)
  BY WorldIs DEF IInv, Good
<1>2. t.arg \in ObjId /\ t \in Of(timer_base, t.arg)
  BY <1>1, TimerFields DEF Worlds, Of
<1>3. InMem(World, t.arg)
  BY <1>1, <1>2 DEF Good, Sound, InFile
<1> QED BY <1>1, <1>2, <1>3 DEF InMem, Timely

(***************************************************************************)
(* The theorems.  Nothing is assumed but that what is for sale is no magic *)
(* lamp, if anything is.                                                   *)
(***************************************************************************)
\* Every variable keeps its type.
THEOREM BurningTypes ==
    ASSUME NoGenieForSale
    PROVE  Spec => []TypeOK
<1>1. IInv => TypeOK
  BY TypeInv
<1> QED BY <1>1, Invariance, PTL

\* However objects are lit, split, merged, renamed, buried, billed, carried
\* away or left behind, and whatever expires in the meantime, the timed count
\* of each is the number of timers that point at it (start_timer, stop_timer,
\* obj_stop_timers, obj_split_timers, obj_move_timers, run_timers).
THEOREM CountsAreRight ==
    ASSUME NoGenieForSale
    PROVE  Spec => []TimedCountsTimers
<1>1. IInv => TimedCountsTimers
  BY CountInv
<1> QED BY <1>1, Invariance, PTL

\* No timer or light source is ever in memory while its object is in a level
\* file, nor the other way round: save_timers, save_light_sources and
\* obj_is_local agree with what goto_level takes along.
THEOREM NothingDangles ==
    ASSUME NoGenieForSale
    PROVE  Spec => []TimersFollowObjects
<1>1. IInv => TimersFollowObjects
  BY PlaceInv
<1> QED BY <1>1, Invariance, PTL

\* An object is lit exactly if it has a light source, and has one burn timer
\* exactly if it is lit and no magic lamp, whichever of begin_burn, end_burn,
\* cleanup_burn, burn_object and the splits and merges came last.
THEOREM LitMeansBurning ==
    ASSUME NoGenieForSale
    PROVE  Spec => []LitIffBurning
<1>1. IInv => LitIffBurning
  BY LightInv
<1> QED BY <1>1, Invariance, PTL

\* None of the code's own checks ever fires: those of end_burn, cleanup_burn,
\* begin_burn, del_light_source, obj_move_timers and obj_is_local.
THEOREM NoCheckFires ==
    ASSUME NoGenieForSale
    PROVE  Spec => []NoImpossible
<1>1. IInv => NoImpossible
  BY WorldIs DEF IInv, Good, NoImpossible
<1> QED BY <1>1, Invariance, PTL

\* Whenever the hero may act and nobody prays in this game, every timer in
\* memory expires later: run_timers has seen to the others, those of a level
\* read back and of a restored game included.
THEOREM TimersAreRunInTime ==
    ASSUME NoGenieForSale
    PROVE  Spec => []NothingOverdue
<1>1. IInv => NothingOverdue
  BY DueInv
<1> QED BY <1>1, Invariance, PTL

(***************************************************************************)
(* The fuel clock.  Whatever is done to the objects, each of them keeps    *)
(* the fuel it has, or what becomes of it is one of the things that module *)
(* FuelClock allows.                                                       *)
(***************************************************************************)

\* What n turns of fuel come to in r.
Amount(r, n) ==
    IF r.otyp = "MAGIC_LAMP" \/ r.where \in {"FREE", "ONBILL"} \/ n < 0 THEN 0 ELSE n

\* The fuel of an object with struct r and timers T, and its kind.
FuelOf(r, T) ==
    Amount(r, IF r.lamplit /\ Flames(T) # {}
              THEN r.age + (CHOOSE t \in Flames(T) : TRUE).timeout - monstermoves
              ELSE r.age)
KindOf(r)    == IF r.where \in {"FREE", "ONBILL"} THEN "NONE" ELSE r.otyp

PendingIn(W, o) == {t \in W.timer_base \cup UNION {levelfile[l].timers : l \in Level} :
                        t.arg = o}
FuelIn(W, o)    == FuelOf(W.obj[o], PendingIn(W, o))
KindIn(W, o)    == KindOf(W.obj[o])

\* A candelabrum burns only with candles.
Waxed(r) == KindOf(r) = "CANDELABRUM" => r.spe >= 0 /\ (r.lamplit => r.spe > 0)
Wicks    == \A o \in ObjId : Waxed(obj[o])

\* The x of V is what the p of W was.
Like(W, p, V, x) ==
    /\ KindIn(V, x) = KindIn(W, p) /\ FuelIn(V, x) = FuelIn(W, p)
    /\ Waxed(W.obj[p]) => Waxed(V.obj[x])

\* The fuel of what is dark, of what burns, and of what has none.
LEMMA FuelFacts ==
    ASSUME NEW r \in Obj, NEW T
    PROVE  /\ ~r.lamplit => FuelOf(r, T) = Amount(r, r.age)
           /\ r.otyp = "MAGIC_LAMP" \/ r.where \in {"FREE", "ONBILL"} => FuelOf(r, T) = 0
BY DEF FuelOf, Amount

LEMMA FuelBurning ==
    ASSUME NEW r \in Obj, NEW T, r.lamplit, NEW t \in T, t.func = "BURN_OBJECT",
           \A u \in T : u.func = "BURN_OBJECT" => u = t
    PROVE  FuelOf(r, T) = Amount(r, r.age + t.timeout - monstermoves)
<1>1. Flames(T) = {t}
  BY DEF Flames
<1>2. (CHOOSE u \in Flames(T) : TRUE) = t /\ Flames(T) # {}
  BY <1>1
<1> QED BY <1>2 DEF FuelOf

\* Fuel is a number of turns.
LEMMA AmountFacts ==
    ASSUME NEW r, NEW n \in Int
    PROVE  /\ Amount(r, n) \in Nat /\ Amount(r, n) <= IF n < 0 THEN 0 ELSE n
           /\ \A m \in Int : m <= n => Amount(r, m) <= Amount(r, n)
BY DEF Amount

\* What fuel depends on: rot timers do not matter.
LEMMA FuelSame ==
    ASSUME NEW r, NEW s, NEW T, NEW U, s.otyp = r.otyp, s.age = r.age, s.lamplit = r.lamplit,
           s.where \in {"FREE", "ONBILL"} <=> r.where \in {"FREE", "ONBILL"},
           Flames(T) = Flames(U)
    PROVE  FuelOf(s, U) = FuelOf(r, T) /\ KindOf(s) = KindOf(r)
BY DEF FuelOf, Amount, KindOf

\* The timers of an object in memory are in memory.
LEMMA InMemPending ==
    ASSUME NEW W, Good(W), NEW o \in ObjId, InMem(W, o)
    PROVE  /\ PendingIn(W, o) = Of(W.timer_base, o)
           /\ FuelIn(W, o) = FuelOf(W.obj[o], Of(W.timer_base, o))
<1>1. ~Away(W.obj[o]) /\ NotFiled(W.obj[o], o)
  BY DEF InMem, Good, Sound
<1>2. \A l \in Level : Of(levelfile[l].timers, o) = {}
  BY <1>1 DEF NotFiled
<1>3. PendingIn(W, o) = Of(W.timer_base, o)
  BY <1>2 DEF PendingIn, Of
<1> QED BY <1>3 DEF FuelIn

\* What is not touched keeps its fuel.
LEMMA Untouched ==
    ASSUME NEW W, NEW V, NEW S, Rest(W, V, S), NEW x \in ObjId \ S
    PROVE  Like(W, x, V, x)
<1>1. V.obj[x] = W.obj[x] /\ Of(V.timer_base, x) = Of(W.timer_base, x)
  BY DEF Rest
<1>2. \A X : PendingIn(X, x) = Of(X.timer_base, x)
                                  \cup {t \in UNION {levelfile[l].timers : l \in Level} : t.arg = x}
  BY DEF PendingIn, Of
<1>3. PendingIn(V, x) = PendingIn(W, x)
  BY <1>1, <1>2
<1> QED BY <1>1, <1>3 DEF Like, FuelIn, KindIn

\* One thing after another.
LEMMA LikeAgain ==
    ASSUME NEW W, NEW p, NEW V, NEW x, NEW U, NEW y, Like(W, p, V, x), Like(V, x, U, y)
    PROVE  Like(W, p, U, y)
BY DEF Like

\* A change of a struct that its fuel does not mind.
LEMMA StructLike ==
    ASSUME NEW W, Good(W), NEW o \in ObjId, InMem(W, o), NEW V, Kept(W, V, o),
           Flames(Of(V.timer_base, o)) = Flames(Of(W.timer_base, o)),
           NEW r, r = W.obj[o], NEW s, s = V.obj[o],
           s.otyp = r.otyp, s.age = r.age, s.lamplit = r.lamplit, s.spe = r.spe,
           s.where \in {"FREE", "ONBILL"} <=> r.where \in {"FREE", "ONBILL"}
    PROVE  Like(W, o, V, o)
<1>1. Good(V) /\ InMem(V, o)
  BY DEF Kept
<1>2. /\ FuelIn(W, o) = FuelOf(r, Of(W.timer_base, o))
      /\ FuelIn(V, o) = FuelOf(s, Of(V.timer_base, o))
  BY <1>1, InMemPending
<1>3. FuelIn(V, o) = FuelIn(W, o) /\ KindOf(s) = KindOf(r)
  BY <1>2, FuelSame
<1> QED BY <1>3 DEF Like, KindIn, Waxed

\* begin_burn takes from the age what the timer will say.
LEMMA BeginBurnFuel ==
    ASSUME NEW W \in Worlds, W.impossible = FALSE, NEW o \in ObjId, NEW already_lit,
           already_lit \in BOOLEAN, Ready(W, o, already_lit), monstermoves \in Int
    PROVE  LET V == BeginBurn(W, o, already_lit)
           IN  FuelOf(V.obj[o], Of(V.timer_base, o)) = Amount(W.obj[o], W.obj[o].age)
<1> DEFINE V  == BeginBurn(W, o, already_lit)
           R  == W.obj[o]
           T  == Of(W.timer_base, o)
           k  == Turns(R.otyp, R.age)
           X  == [[StartTimer(W, k, "BURN_OBJECT", o) EXCEPT !.obj[o].age = @ - k]
                     EXCEPT !.obj[o].lamplit = TRUE]
           t  == [timeout |-> monstermoves + k, func |-> "BURN_OBJECT", arg |-> o]
<1>1. /\ R \in Obj /\ R.age \in Int /\ Balanced(R, T, Num(already_lit), FALSE)
      /\ already_lit => R.otyp # "MAGIC_LAMP"
  BY WorldFields, ObjFields DEF Ready, Spent, InMem, Agrees, Balanced, Num
<1>2. V \in Worlds /\ Still(R, V.obj[o]) /\ V.obj[o] \in Obj
  <2>1. V \in Worlds /\ Still(R, V.obj[o])
    BY BeginBurnKeeps DEF Rest
  <2> HIDE DEF V
  <2> QED BY <2>1, WorldFields
<1>3. CASE R.otyp = "MAGIC_LAMP"
  <2>1. V.obj[o].otyp = "MAGIC_LAMP"
    BY <1>2, <1>3 DEF Still
  <2> HIDE DEF V, R
  <2>2. FuelOf(V.obj[o], Of(V.timer_base, o)) = 0 /\ Amount(R, R.age) = 0
    BY <1>2, <1>3, <2>1, FuelFacts DEF Amount
  <2> QED BY <2>2 DEF V, R
<1>4. CASE R.otyp # "MAGIC_LAMP" /\ R.age = 0
  <2>1. V = W /\ ~already_lit /\ ~R.lamplit
    BY <1>4 DEF BeginBurn, Ready
  <2> HIDE DEF V
  <2> QED BY <1>1, <2>1, FuelFacts DEF V
<1>5. CASE R.otyp # "MAGIC_LAMP" /\ R.age # 0
  <2>1. V = IF already_lit THEN X ELSE NewLightSource(X, o)
    <3>1. ~already_lit => R.where \notin {"FREE", "MIGRATING", "ONBILL"}
      BY DEF Ready
    <3> QED BY <1>5, <3>1 DEF BeginBurn
  <2>2. k \in Int
    BY <1>1, TurnsFacts
  <2>3. /\ t \in Timer /\ Only(W, X, o) /\ X.timer_base = W.timer_base \cup {t}
        /\ Still(R, X.obj[o]) /\ X.obj[o].lamplit = TRUE /\ X.obj[o].age = R.age - k
    <3> HIDE DEF k
    <3>1. LET A == StartTimer(W, k, "BURN_OBJECT", o)
              B == [A EXCEPT !.obj[o].age = @ - k]
              Y == [B EXCEPT !.obj[o].lamplit = TRUE]
              u == [timeout |-> monstermoves + k, func |-> "BURN_OBJECT", arg |-> o]
          IN  /\ u \in Timer /\ Only(W, Y, o)
              /\ Y.timer_base = W.timer_base \cup {u}
              /\ Y.light_base = W.light_base
              /\ Still(W.obj[o], Y.obj[o]) /\ Y.obj[o].lamplit = TRUE
              /\ Y.obj[o].timed = W.obj[o].timed + 1
              /\ Y.obj[o].age = W.obj[o].age - k
      BY <2>2, FlameIs
    <3> QED BY <3>1, Zenon
  <2>4. t.func = "BURN_OBJECT" /\ t.arg = o /\ t.timeout = monstermoves + k
    OBVIOUS
  <2> HIDE DEF X, t, k, V, R
  <2>5. V.obj = X.obj /\ V.timer_base = X.timer_base
    <3>1. X \in Worlds /\ X.impossible = FALSE
      BY <2>3 DEF Only
    <3> QED BY <2>1, <3>1, NewLightSourceIs
  <2>6. Of(V.timer_base, o) = T \cup {t}
    <3>1. Of(W.timer_base \cup {t}, o) = Of(W.timer_base, o) \cup {t}
      BY <2>4 DEF Of
    <3> QED BY <2>3, <2>5, <3>1 DEF T
  <2>7. \A u \in T \cup {t} : u.func = "BURN_OBJECT" => u = t
    BY <1>1 DEF Balanced, HasBurn
  <2> HIDE DEF T
  <2>8. FuelOf(V.obj[o], T \cup {t})
            = Amount(V.obj[o], V.obj[o].age + t.timeout - monstermoves)
    BY <1>2, <2>3, <2>4, <2>5, <2>7, FuelBurning
  <2>9. V.obj[o].age + t.timeout - monstermoves = R.age
    BY <1>1, <2>2, <2>3, <2>4, <2>5
  <2>10. Amount(V.obj[o], R.age) = Amount(R, R.age)
    BY <1>2 DEF Amount, Still
  <2> QED BY <2>6, <2>8, <2>9, <2>10 DEF V, R
<1> QED BY <1>3, <1>4, <1>5

\* begin_burn on what is dark.
LEMMA BeginBurnLike ==
    ASSUME NEW W, Good(W), NEW o \in ObjId, InMem(W, o), ~W.obj[o].lamplit,
           W.obj[o].where \notin {"FREE", "MIGRATING", "ONBILL"}, monstermoves \in Int,
           W.obj[o].otyp = "CANDELABRUM" => W.obj[o].spe > 0
    PROVE  Like(W, o, BeginBurn(W, o, FALSE), o)
<1> DEFINE V == BeginBurn(W, o, FALSE)
           r == W.obj[o]
<1>1. W \in Worlds /\ W.impossible = FALSE /\ r \in Obj
  BY GoodFacts
<1>2. FuelOf(V.obj[o], Of(V.timer_base, o)) = Amount(r, r.age)
  <2>1. \A lit \in BOOLEAN : Ready(W, o, lit) =>
            LET Y == BeginBurn(W, o, lit)
            IN  FuelOf(Y.obj[o], Of(Y.timer_base, o)) = Amount(W.obj[o], W.obj[o].age)
    BY <1>1, BeginBurnFuel
  <2>2. Ready(W, o, FALSE)
    BY DEF Ready
  <2> QED BY <2>1, <2>2
<1>3. Kept(W, V, o) /\ Still(r, V.obj[o])
  BY BurnKept
<1> HIDE DEF V
<1>4. FuelIn(V, o) = FuelOf(V.obj[o], Of(V.timer_base, o))
  BY <1>3, InMemPending DEF Kept
<1>5. FuelIn(W, o) = Amount(r, r.age)
  <2>1. FuelIn(W, o) = FuelOf(r, Of(W.timer_base, o))
    BY InMemPending
  <2> QED BY <1>1, <2>1, FuelFacts
<1>6. KindOf(V.obj[o]) = KindOf(r) /\ Waxed(V.obj[o])
  BY <1>1, <1>3, ObjFields DEF KindOf, Still, Waxed
<1> QED BY <1>2, <1>4, <1>5, <1>6 DEF Like, KindIn, V

\* end_burn gives back what the timer had taken.
LEMMA EndBurnLike ==
    ASSUME NEW W, Good(W), NEW o \in ObjId, InMem(W, o), W.obj[o].lamplit,
           NEW attached, attached \/ W.obj[o].otyp = "MAGIC_LAMP",
           phase = "play", monstermoves \in Int
    PROVE  Like(W, o, EndBurn(W, o, attached), o)
<1> DEFINE V == EndBurn(W, o, attached)
           R == W.obj[o]
           T == Of(W.timer_base, o)
<1>1. /\ W \in Worlds /\ W.impossible = FALSE /\ R \in Obj
      /\ W.light_base[o] = 1 /\ Balanced(R, T, 1, R.otyp # "MAGIC_LAMP")
  BY GoodFacts DEF InMem, Agrees, Balanced, Num
<1>2. Kept(W, V, o) /\ Still(R, V.obj[o]) /\ V.obj[o].lamplit = FALSE
  BY EndKept
<1>3. V.obj[o] \in Obj
  <2> HIDE DEF V
  <2> QED BY <1>2, GoodFacts DEF Kept
<1>4. FuelOf(R, T) = FuelOf(V.obj[o], Of(V.timer_base, o))
  <2>1. CASE R.otyp = "MAGIC_LAMP"
    <3>1. V.obj[o].otyp = "MAGIC_LAMP"
      BY <1>2, <2>1 DEF Still
    <3> HIDE DEF V
    <3> QED BY <1>1, <1>3, <2>1, <3>1, FuelFacts
  <2>2. CASE R.otyp # "MAGIC_LAMP"
    <3>1. PICK t \in T : /\ t \in Timer /\ t \in W.timer_base /\ t.arg = o
                         /\ t.func = "BURN_OBJECT"
                         /\ TimersOf(W, "BURN_OBJECT", o) = {t}
      BY <1>1, <2>2, BurnTimer
    <3> DEFINE r == [R EXCEPT !.timed = @ - 1, !.age = @ + t.timeout - monstermoves,
                              !.lamplit = FALSE]
    <3>2. V = StopTimer(W, "BURN_OBJECT", o)
      BY <2>2, <3>1 DEF EndBurn
    <3>3. Is(V, [W.obj EXCEPT ![o] = r], W.timer_base \ {t}, [W.light_base EXCEPT ![o] = 0])
      BY <1>1, <3>1, <3>2, StopTimerIs
    <3>4. r.age = R.age + t.timeout - monstermoves
      BY <1>1 DEF Obj
    <3>5. \A u \in T : u.func = "BURN_OBJECT" => u = t
      BY <1>1, <3>1 DEF Balanced
    <3> HIDE DEF V, r, T
    <3>6. V.obj[o] = r
      BY <1>1, <3>3 DEF Is, Worlds
    <3> HIDE DEF R
    <3>7. FuelOf(R, T) = Amount(R, r.age)
      BY <1>1, <3>1, <3>4, <3>5, FuelBurning DEF R
    <3>8. FuelOf(V.obj[o], Of(V.timer_base, o)) = Amount(V.obj[o], r.age)
      BY <1>2, <1>3, <3>6, FuelFacts
    <3>9. Amount(V.obj[o], r.age) = Amount(R, r.age)
      BY <1>2 DEF Amount, Still
    <3> QED BY <3>7, <3>8, <3>9
  <2> QED BY <2>1, <2>2
<1> HIDE DEF V
<1>5. /\ FuelIn(V, o) = FuelOf(V.obj[o], Of(V.timer_base, o))
      /\ FuelIn(W, o) = FuelOf(R, T)
  BY <1>2, InMemPending DEF Kept
<1>6. KindOf(V.obj[o]) = KindOf(R) /\ (Waxed(R) => Waxed(V.obj[o]))
  BY <1>2 DEF KindOf, Still, Waxed
<1> QED BY <1>4, <1>5, <1>6 DEF Like, KindIn, V

\* A debt is made or cleared.
LEMMA OwedLike ==
    ASSUME NEW W, Good(W), NEW o \in ObjId, InMem(W, o), NEW b \in BOOLEAN, b => ForSale
    PROVE  LET V == [W EXCEPT !.obj[o].unpaid = b]
           IN  Kept(W, V, o) /\ Like(W, o, V, o) /\ Same(W.obj[o], V.obj[o])
<1> DEFINE V == [W EXCEPT !.obj[o].unpaid = b]
<1>1. W \in Worlds
  BY GoodFacts
<1>2. Kept(W, V, o) /\ Same(W.obj[o], V.obj[o]) /\ V.timer_base = W.timer_base
  BY <1>1, OwedKept DEF Worlds
<1> HIDE DEF V
<1>3. Like(W, o, V, o)
  BY <1>2, StructLike DEF Same
<1> QED BY <1>2, <1>3 DEF V

LEMMA PaidLike ==
    ASSUME NEW W, Good(W), NEW o \in ObjId, InMem(W, o)
    PROVE  Kept(W, Paid(W, o), o) /\ Like(W, o, Paid(W, o), o) /\ Same(W.obj[o], Paid(W, o).obj[o])
<1>1. \A b \in BOOLEAN : (b => ForSale) =>
          LET V == [W EXCEPT !.obj[o].unpaid = b]
          IN  Kept(W, V, o) /\ Like(W, o, V, o) /\ Same(W.obj[o], V.obj[o])
  BY OwedLike
<1> QED BY <1>1 DEF Paid

\* A move burns nothing.
LEMMA PutLike ==
    ASSUME NEW W, Good(W), NEW o \in ObjId, InMem(W, o), NEW where, NEW l, Place(where, l),
           where = "BURIED" \/ ~HasRot(Of(W.timer_base, o)),
           W.obj[o].where \notin {"FREE", "ONBILL"}
    PROVE  Placed(W, Put(W, o, where, l), o, where, l) /\ Like(W, o, Put(W, o, where, l), o)
<1> DEFINE V == Put(W, o, where, l)
<1>1. Placed(W, V, o, where, l)
  BY PutKept
<1> HIDE DEF V
<1>2. Like(W, o, V, o)
  BY <1>1, StructLike DEF Placed, Place
<1> QED BY <1>1, <1>2 DEF V

\* What has been used up, or is not made yet.
Lost(V, o) == V.obj[o].where \in {"FREE", "ONBILL"}

LEMMA LostFacts ==
    ASSUME NEW V, NEW o, Lost(V, o)
    PROVE  KindIn(V, o) = "NONE" /\ FuelIn(V, o) = 0 /\ Waxed(V.obj[o])
BY DEF Lost, KindIn, FuelIn, KindOf, FuelOf, Amount, Waxed

\* dealloc_obj and obfree.
LEMMA ObfreeLost ==
    ASSUME NEW W, Good(W), NEW o \in ObjId, InMem(W, o), monstermoves \in Int
    PROVE  /\ Kept(W, Obfree(W, o), o) /\ Lost(Obfree(W, o), o)
           /\ Kept(W, DeallocObj(W, o), o) /\ Lost(DeallocObj(W, o), o)
<1>1. W \in Worlds /\ W.impossible = FALSE
  BY GoodFacts
<1>2. /\ Rest(W, Obfree(W, o), {o}) /\ InMem(Obfree(W, o), o)
      /\ Lost(Obfree(W, o), o)
  BY <1>1, ObfreeKeeps DEF Lost
<1>3. /\ Rest(W, DeallocObj(W, o), {o}) /\ InMem(DeallocObj(W, o), o)
      /\ Lost(DeallocObj(W, o), o)
  BY <1>1, DeallocObjKeeps, FreedFacts DEF Lost
<1> QED BY <1>2, <1>3, Keeping

\* useup.
LEMMA UseupLost ==
    ASSUME NEW W, Good(W), NEW o \in ObjId, InMem(W, o), monstermoves \in Int
    PROVE  LET V == Useup(W, o)
           IN  Kept(W, V, o) /\ (Like(W, o, V, o) \/ Lost(V, o))
<1> DEFINE R == W.obj[o]
           r == [R EXCEPT !.quan = R.quan - 1]
           V == [W EXCEPT !.obj[o].quan = @ - 1]
<1>1. CASE R.quan > 1
  <2>1. Useup(W, o) = V
    BY <1>1 DEF Useup
  <2>2. W \in Worlds /\ R \in Obj /\ Whole(R) /\ R.quan - 1 \in Int /\ R.quan \in Int
    <3>1. W \in Worlds /\ R \in Obj /\ Whole(R)
      BY GoodFacts
    <3> HIDE DEF R
    <3> QED BY <3>1, ObjFields
  <2>3. r \in Obj
    BY <2>2, Structs
  <2>4. V = Renewed(W, o, r)
    BY DEF Renewed
  <2>5. /\ r.quan = R.quan - 1 /\ r.otyp = R.otyp /\ r.where = R.where /\ r.lev = R.lev
        /\ r.lamplit = R.lamplit /\ r.timed = R.timed /\ r.unpaid = R.unpaid
        /\ r.age = R.age /\ r.spe = R.spe
    BY <2>2 DEF Obj
  <2>6. V.timer_base = W.timer_base
    BY <2>2 DEF Worlds
  <2> HIDE DEF r, V
  <2>7. Whole(r)
    BY <1>1, <2>2, <2>3, <2>5 DEF Whole
  <2>8. Kept(W, V, o) /\ V.obj[o] = r
    BY <2>3, <2>4, <2>5, <2>7, RenewKept
  <2>9. Like(W, o, V, o)
    BY <2>5, <2>6, <2>8, StructLike
  <2> QED BY <2>1, <2>8, <2>9
<1>2. CASE ~(R.quan > 1)
  BY <1>2, ObfreeLost DEF Useup
<1> QED BY <1>1, <1>2

\* The average of two ages lies between them.
LEMMA BetweenFacts ==
    ASSUME NEW a \in Nat, NEW b \in Nat, NEW m \in Nat, NEW n \in Nat, m >= 1, n >= 1
    PROVE  LET q == Quot(a * m + b * n, m + n)
           IN  q \in Nat /\ (a <= b => a <= q /\ q <= b) /\ (b <= a => b <= q /\ q <= a)
<1> DEFINE N == m + n
           s == a * m + b * n
           q == Quot(s, N)
<1>1. N \in Nat /\ N >= 1 /\ s \in Nat
  OBVIOUS
<1>2. \A x \in Nat, y \in Nat : x <= y => x * N <= x * m + y * n /\ x * m + y * n <= y * N
  <2> SUFFICES ASSUME NEW x \in Nat, NEW y \in Nat, x <= y
               PROVE  x * N <= x * m + y * n /\ x * m + y * n <= y * N
    OBVIOUS
  <2>1. x * n <= y * n /\ x * m <= y * m
    OBVIOUS
  <2>2. x * N = x * m + x * n /\ y * N = y * m + y * n
    OBVIOUS
  <2> QED BY <2>1, <2>2
<1>3. \A x \in Nat, y \in Nat : x <= y => x * N <= y * m + x * n /\ y * m + x * n <= y * N
  <2> SUFFICES ASSUME NEW x \in Nat, NEW y \in Nat, x <= y
               PROVE  x * N <= y * m + x * n /\ y * m + x * n <= y * N
    OBVIOUS
  <2>1. x * n <= y * n /\ x * m <= y * m
    OBVIOUS
  <2>2. x * N = x * m + x * n /\ y * N = y * m + y * n
    OBVIOUS
  <2> QED BY <2>1, <2>2
<1>4. (a <= b => a * N <= s /\ s <= b * N) /\ (b <= a => b * N <= s /\ s <= a * N)
  BY <1>2, <1>3
<1> HIDE DEF N, s
<1>5. q = s \div N
  BY <1>1 DEF Quot
<1>6. \A S \in Nat, M \in Nat, x \in Nat : M >= 1 =>
          (x * M <= S => x <= S \div M) /\ (S <= x * M => S \div M <= x)
  <2> SUFFICES ASSUME NEW S \in Nat, NEW M \in Nat, NEW x \in Nat, M >= 1
               PROVE  (x * M <= S => x <= S \div M) /\ (S <= x * M => S \div M <= x)
    OBVIOUS
  <2> DEFINE d == S \div M
             e == S % M
  <2>1. d \in Int /\ e \in Int /\ 0 <= e /\ e < M /\ S = M * d + e
    OBVIOUS
  <2> HIDE DEF d, e
  <2>2. ASSUME x * M <= S, d < x PROVE FALSE
    <3>1. d + 1 <= x /\ (d + 1) * M <= x * M
      BY <2>1, <2>2
    <3>2. (d + 1) * M = M * d + M
      BY <2>1
    <3> QED BY <2>1, <2>2, <3>1, <3>2
  <2>3. ASSUME S <= x * M, x < d PROVE FALSE
    <3>1. x + 1 <= d /\ (x + 1) * M <= d * M
      BY <2>1, <2>3
    <3>2. (x + 1) * M = x * M + M /\ d * M = M * d
      BY <2>1
    <3> QED BY <2>1, <2>3, <3>1, <3>2
  <2>4. (x * M <= S => x <= d) /\ (S <= x * M => d <= x)
    BY <2>1, <2>2, <2>3
  <2> QED BY <2>4 DEF d
<1>7. q \in Nat
  BY <1>1, <1>5, <1>6
<1>8. (a <= b => a <= q /\ q <= b) /\ (b <= a => b <= q /\ q <= a)
  BY <1>1, <1>4, <1>5, <1>6
<1> QED BY <1>7, <1>8 DEF N, s

\* Two stacks dark and mixed, or both lit: then the one keeps its fuel.
Mixed(W, d, o, V) ==
    /\ ~V.obj[d].lamplit
    /\ KindIn(W, d) = KindIn(W, o) /\ KindIn(V, d) = KindIn(W, d)
    /\ KindIn(W, d) \in {"POT_OIL", "CANDLE"}
    /\ FuelIn(V, d) \in FuelIn(W, d) .. FuelIn(W, o) \cup FuelIn(W, o) .. FuelIn(W, d)

\* merged.
LEMMA MergedLike ==
    ASSUME NEW W, Good(W), NEW otmp \in ObjId, NEW o \in ObjId, InMem(W, otmp), InMem(W, o),
           Mergable(W, otmp, o), ~Lost(W, otmp), ~Lost(W, o),
           phase = "play", monstermoves \in Int, PrayerTurns = 0
    PROVE  LET V == Merged(W, otmp, o)
           IN  /\ Good(V) /\ Rest(W, V, {otmp, o}) /\ Lost(V, o) /\ Waxed(V.obj[otmp])
               /\ Like(W, otmp, V, otmp) \/ Mixed(W, otmp, o, V)
<1> DEFINE d   == W.obj[otmp]
           r   == W.obj[o]
           avg == Quot(d.age * d.quan + r.age * r.quan, d.quan + r.quan)
           age == IF r.lamplit THEN d.age ELSE avg
           q   == [d EXCEPT !.quan = d.quan + r.quan]
           s   == [q EXCEPT !.age = age]
           W1  == [W EXCEPT !.obj[otmp].quan = @ + r.quan,
                            !.obj[otmp].age =
                               IF r.lamplit THEN @
                               ELSE Quot(@ * d.quan + r.age * r.quan, d.quan + r.quan)]
           W2  == IF r.lamplit THEN EndBurn(W1, o, TRUE) ELSE W1
           V   == DeallocObj(W2, o)
<1>1. /\ W \in Worlds /\ W.impossible = FALSE /\ otmp # o
      /\ d \in Obj /\ r \in Obj /\ Whole(d) /\ Whole(r)
      /\ d.quan \in Int /\ r.quan \in Int /\ d.age \in Int /\ r.age \in Int
      /\ d.otyp = r.otyp /\ d.lamplit = r.lamplit /\ d.otyp \in {"POT_OIL", "CANDLE"}
  BY GoodFacts, ObjFields DEF Mergable
<1>2. d.age >= 0 /\ r.age >= 0 /\ d.quan >= 1 /\ r.quan >= 1
  BY <1>1 DEF Whole, Lost
<1>3. /\ avg \in Nat /\ (d.age <= r.age => d.age <= avg /\ avg <= r.age)
      /\ r.age <= d.age => r.age <= avg /\ avg <= d.age
  <2> DEFINE a == d.age
             b == r.age
             m == d.quan
             n == r.quan
  <2>1. a \in Nat /\ b \in Nat /\ m \in Nat /\ n \in Nat /\ m >= 1 /\ n >= 1
    BY <1>1, <1>2
  <2> HIDE DEF a, b, m, n
  <2>2. LET x == Quot(a * m + b * n, m + n)
        IN  x \in Nat /\ (a <= b => a <= x /\ x <= b) /\ (b <= a => b <= x /\ x <= a)
    BY <2>1, BetweenFacts
  <2> QED BY <2>2 DEF a, b, m, n
<1> HIDE DEF avg
<1>4. q \in Obj /\ s \in Obj /\ age \in Nat
  <2>1. d.quan + r.quan \in Int /\ age \in Int /\ age \in Nat
    BY <1>1, <1>2, <1>3
  <2>2. q \in Obj
    BY <1>1, <2>1, Structs
  <2> HIDE DEF q, age
  <2> QED BY <2>1, <2>2, Structs
<1>5. /\ s.otyp = d.otyp /\ s.where = d.where /\ s.lev = d.lev /\ s.spe = d.spe
      /\ s.quan = d.quan + r.quan /\ s.age = age /\ s.lamplit = d.lamplit
      /\ s.timed = d.timed /\ s.unpaid = d.unpaid
  <2> HIDE DEF age, r
  <2> QED BY <1>1 DEF Obj
<1>6. W1 = Renewed(W, otmp, s) /\ W1.timer_base = W.timer_base
  <2>1. W1 = [W EXCEPT !.obj[otmp].quan = d.quan + r.quan, !.obj[otmp].age = age]
    BY <1>1 DEF Worlds, Obj, avg
  <2> HIDE DEF W1, r, age
  <2>2. W1 = Renewed(W, otmp, s)
    BY <1>1, <2>1 DEF Renewed, Worlds
  <2> QED BY <1>1, <2>2 DEF Renewed, Worlds
<1>7. Merged(W, otmp, o) = V
  BY DEF Merged
<1>8. age = IF r.lamplit THEN d.age ELSE avg
  OBVIOUS
<1> HIDE DEF W1, s, q, age
<1>9. Whole(s)
  BY <1>1, <1>2, <1>4, <1>5 DEF Whole
<1>10. Kept(W, W1, otmp) /\ W1.obj[otmp] = s
  BY <1>4, <1>5, <1>6, <1>9, RenewKept
<1>11. Good(W1) /\ InMem(W1, o) /\ W1.obj[o] = r
  <2>1. Good(W1) /\ Rest(W, W1, {otmp})
    BY <1>10 DEF Kept
  <2>2. o # otmp
    BY <1>1
  <2>3. InMem(W1, o) /\ W1.obj[o] = W.obj[o]
    <3> HIDE DEF d, r
    <3> QED BY <2>1, <2>2 DEF Rest, InMem
  <2> QED BY <2>1, <2>3
<1>12. Good(W2) /\ InMem(W2, o) /\ Rest(W1, W2, {o})
  <2>1. CASE r.lamplit
    <3>1. Kept(W1, EndBurn(W1, o, TRUE), o)
      <4>1. \A a : a = TRUE => Kept(W1, EndBurn(W1, o, a), o)
        BY <1>11, <2>1, EndKept
      <4> QED BY <4>1
    <3> QED BY <2>1, <3>1 DEF Kept
  <2>2. CASE ~r.lamplit
    <3>1. Rest(W1, W1, {o})
      BY <1>11 DEF Rest, Good
    <3> QED BY <1>11, <2>2, <3>1
  <2> QED BY <2>1, <2>2
<1> HIDE DEF W2
<1>13. Kept(W2, V, o) /\ Lost(V, o)
  BY <1>12, ObfreeLost
<1> HIDE DEF V, d, r
<1>14. Rest(W1, V, {o}) /\ Good(V)
  <2>1. {o} \cup {o} = {o}
    OBVIOUS
  <2> QED BY <1>12, <1>13, <2>1, Compose DEF Kept
<1>15. Rest(W, V, {otmp, o})
  <2>1. {otmp} \cup {o} = {otmp, o}
    OBVIOUS
  <2> QED BY <1>10, <1>14, <2>1, Compose DEF Kept
<1>16. Like(W1, otmp, V, otmp) /\ V.obj[otmp] = s
  <2>1. otmp \in ObjId \ {o}
    BY <1>1
  <2> QED BY <1>10, <1>14, <2>1, Untouched DEF Rest
<1>17. Waxed(s) /\ KindOf(s) = d.otyp /\ KindOf(d) = d.otyp /\ KindOf(r) = d.otyp
  BY <1>1, <1>5 DEF Waxed, KindOf, Lost, d, r
<1>18. CASE r.lamplit
  <2>1. Like(W, otmp, W1, otmp)
    <3>1. /\ s.otyp = d.otyp /\ s.where = d.where /\ s.spe = d.spe
          /\ s.age = d.age /\ s.lamplit = d.lamplit
      BY <1>5, <1>8, <1>18
    <3> QED BY <1>6, <1>10, <3>1, StructLike DEF d
  <2>2. Like(W, otmp, V, otmp)
    BY <1>16, <2>1, LikeAgain
  <2> QED BY <1>7, <1>13, <1>14, <1>15, <1>16, <1>17, <2>2
<1>19. CASE ~r.lamplit
  <2>1. FuelIn(V, otmp) = Amount(s, age)
    <3>1. FuelIn(V, otmp) = FuelIn(W1, otmp)
      BY <1>16 DEF Like
    <3>2. FuelIn(W1, otmp) = FuelOf(s, Of(W1.timer_base, otmp))
      BY <1>10, InMemPending DEF Kept
    <3> QED BY <1>1, <1>4, <1>5, <1>19, <3>1, <3>2, FuelFacts
  <2>2. FuelIn(W, otmp) = Amount(d, d.age) /\ FuelIn(W, o) = Amount(r, r.age)
    <3>1. FuelIn(W, otmp) = FuelOf(d, Of(W.timer_base, otmp))
      BY InMemPending DEF d
    <3>2. FuelIn(W, o) = FuelOf(r, Of(W.timer_base, o))
      BY InMemPending DEF r
    <3> QED BY <1>1, <1>19, <3>1, <3>2, FuelFacts
  <2>3. /\ Amount(s, age) = avg /\ Amount(d, d.age) = d.age /\ Amount(r, r.age) = r.age
    BY <1>1, <1>2, <1>3, <1>5, <1>8, <1>19 DEF Amount, Lost, d, r
  <2>4. avg \in d.age .. r.age \cup r.age .. d.age
    BY <1>1, <1>3
  <2>5. ~V.obj[otmp].lamplit
    BY <1>1, <1>5, <1>16, <1>19
  <2>6. Mixed(W, otmp, o, V)
    <3>1. /\ KindIn(W, otmp) = d.otyp /\ KindIn(W, o) = d.otyp /\ KindIn(V, otmp) = d.otyp
      BY <1>16, <1>17 DEF KindIn, d, r
    <3> QED BY <1>1, <2>1, <2>2, <2>3, <2>4, <2>5, <3>1 DEF Mixed
  <2> QED BY <1>7, <1>13, <1>14, <1>15, <1>16, <1>17, <2>6
<1> QED BY <1>18, <1>19

\* Copied timers say the same of a copied struct.
LEMMA CopyFuel ==
    ASSUME NEW T \in SUBSET Timer, NEW o \in ObjId, NEW new \in ObjId,
           \A t, u \in Of(T, o) : t.func = u.func => t = u,
           NEW r \in Obj, NEW s \in Obj, Alike(r, s)
    PROVE  FuelOf(s, Copies(T, o, new)) = FuelOf(r, Of(T, o))
<1> DEFINE C == Copies(T, o, new)
           S == Of(T, o)
<1>1. /\ \A c, d \in C : c.func = d.func => c = d
      /\ HasBurn(C) <=> HasBurn(S)
  BY CopiesFacts
<1>2. CASE ~r.lamplit \/ ~HasBurn(S)
  <2>1. ~HasBurn(S) => Flames(S) = {} /\ Flames(C) = {}
    BY <1>1 DEF HasBurn, Flames
  <2> HIDE DEF S, C
  <2>2. FuelOf(s, C) = FuelOf(r, S)
    BY <1>2, <2>1 DEF FuelOf, Amount, Alike
  <2> QED BY <2>2 DEF S, C
<1>3. CASE r.lamplit /\ HasBurn(S)
  <2>1. PICK t \in S : t.func = "BURN_OBJECT"
    BY <1>3 DEF HasBurn
  <2> DEFINE c == [t EXCEPT !.arg = new]
  <2>2. t \in Timer /\ t \in T /\ t.arg = o
    BY <2>1 DEF Of
  <2>3. c \in C /\ c.func = "BURN_OBJECT" /\ c.timeout = t.timeout
    BY <2>1, <2>2 DEF Timer, Copies
  <2> HIDE DEF c, S, C
  <2>4. \A u \in S : u.func = "BURN_OBJECT" => u = t
    BY <2>1 DEF S
  <2>5. \A u \in C : u.func = "BURN_OBJECT" => u = c
    BY <1>1, <2>3
  <2>6. FuelOf(r, S) = Amount(r, r.age + t.timeout - monstermoves)
    BY <1>3, <2>1, <2>4, FuelBurning
  <2>7. FuelOf(s, C) = Amount(s, s.age + c.timeout - monstermoves)
    BY <1>3, <2>3, <2>5, FuelBurning DEF Alike
  <2> QED BY <2>3, <2>6, <2>7 DEF Alike, Amount, S, C
<1> QED BY <1>2, <1>3

\* The copy has what the original has.
LEMMA CopyLike ==
    ASSUME NEW W, Good(W), NEW V, Good(V), NEW o \in ObjId, NEW new \in ObjId,
           InMem(W, o), InMem(V, new), Alike(W.obj[o], V.obj[new]),
           Of(V.timer_base, new) = Copies(W.timer_base, o, new)
    PROVE  Like(W, o, V, new)
<1>1. W.obj[o] \in Obj /\ V.obj[new] \in Obj /\ W.timer_base \in SUBSET Timer
  BY GoodFacts, WorldFields
<1>2. \A t, u \in Of(W.timer_base, o) : t.func = u.func => t = u
  BY DEF InMem, Agrees, Balanced
<1>3. FuelIn(V, new) = FuelIn(W, o)
  BY <1>1, <1>2, CopyFuel, InMemPending
<1>4. KindOf(V.obj[new]) = KindOf(W.obj[o]) /\ (Waxed(W.obj[o]) => Waxed(V.obj[new]))
  BY DEF KindOf, Waxed, Alike
<1> QED BY <1>3, <1>4 DEF Like, KindIn

\* In V, x has the kind and the fuel that p had in the state, which is x itself
\* or what x is split off from.
Is1(V, x, p)  == /\ p = x \/ KindIn(World, x) = "NONE"
                 /\ KindIn(V, x) = KindIn(World, p) /\ FuelIn(V, x) = FuelIn(World, p)
Comes(V, x)   == \E p \in ObjId : Is1(V, x, p)
From(V)       == \A x \in ObjId : Waxed(V.obj[x]) /\ Comes(V, x)

LEMMA FromWorld == ASSUME Wicks PROVE From(World)
BY WorldIs DEF From, Comes, Is1, Wicks

\* What comes of something comes of what that came of.
LEMMA ComesAgain ==
    ASSUME NEW W, From(W), NEW V, NEW x \in ObjId, Like(W, x, V, x)
    PROVE  Waxed(V.obj[x]) /\ Comes(V, x)
BY DEF From, Comes, Is1, Like

\* A step at one object, which keeps its fuel.
LEMMA Onward ==
    ASSUME NEW W, From(W), NEW V, NEW o \in ObjId, Kept(W, V, o), Like(W, o, V, o)
    PROVE  From(V)
<1> SUFFICES ASSUME NEW x \in ObjId PROVE Waxed(V.obj[x]) /\ Comes(V, x)
  BY DEF From
<1>1. Like(W, x, V, x)
  BY Untouched DEF Kept
<1> QED BY <1>1, ComesAgain

\* All of o, or a part of it.
LEMMA PortionFrom ==
    ASSUME Good(World), Wicks, NEW o \in ObjId, InMem(World, o), obj[o].where # "FREE",
           NEW p \in Portions(o)
    PROVE  From(p.w) /\ Like(World, o, p.w, p.o) /\ Like(World, o, p.w, o)
<1>1. /\ p.o \in ObjId /\ Good(p.w) /\ InMem(p.w, p.o) /\ InMem(p.w, o)
      /\ Alike(obj[o], p.w.obj[p.o]) /\ Alike(obj[o], p.w.obj[o])
      /\ Rest(World, p.w, {o, p.o}) /\ Of(p.w.timer_base, o) = Of(timer_base, o)
      /\ p.o # o => /\ obj[p.o].where = "FREE"
                    /\ Of(p.w.timer_base, p.o) = Copies(timer_base, o, p.o)
  BY PortionKept
<1>2. Like(World, o, p.w, o)
  <2>1. FuelIn(World, o) = FuelOf(obj[o], Of(timer_base, o))
    BY InMemPending, WorldIs
  <2>2. FuelIn(p.w, o) = FuelOf(p.w.obj[o], Of(timer_base, o))
    BY <1>1, InMemPending
  <2>3. FuelIn(p.w, o) = FuelIn(World, o) /\ KindOf(p.w.obj[o]) = KindOf(obj[o])
    BY <1>1, <2>1, <2>2, FuelSame DEF Alike
  <2> QED BY <1>1, <2>3, WorldIs DEF Like, KindIn, Waxed, Alike
<1>3. Like(World, o, p.w, p.o)
  <2>1. CASE p.o = o
    BY <1>2, <2>1
  <2>2. CASE p.o # o
    BY <1>1, <2>2, CopyLike, WorldIs
  <2> QED BY <2>1, <2>2
<1>4. From(p.w)
  <2> SUFFICES ASSUME NEW x \in ObjId PROVE Waxed(p.w.obj[x]) /\ Comes(p.w, x)
    BY DEF From
  <2>1. CASE x \notin {o, p.o}
    <3>1. Like(World, x, p.w, x)
      BY <1>1, <2>1, Untouched
    <3> QED BY <3>1, FromWorld, ComesAgain
  <2>2. CASE x = o
    BY <1>2, <2>2, FromWorld, ComesAgain
  <2>3. CASE x = p.o /\ x # o
    <3>1. KindIn(World, x) = "NONE"
      BY <1>1, <2>3, WorldIs DEF KindIn, KindOf
    <3>2. Waxed(World.obj[o])
      BY WorldIs DEF Wicks
    <3> QED BY <1>3, <2>3, <3>1, <3>2 DEF Comes, Is1, Like
  <2> QED BY <2>1, <2>2, <2>3
<1> QED BY <1>2, <1>3, <1>4

\* The things that module FuelClock allows, from the state to V.
Burning(W, x)  == W.obj[x].lamplit /\ FuelIn(W, x) > 0
Stays(V, p)    == KindIn(V, p) = KindIn(World, p) /\ FuelIn(V, p) = FuelIn(World, p)
Blended(V, x)  ==
    /\ ~V.obj[x].lamplit /\ KindIn(V, x) \in {"POT_OIL", "CANDLE"}
    /\ \E p, q \in ObjId :
          /\ p = x \/ KindIn(World, x) = "NONE"
          /\ KindIn(World, p) = KindIn(V, x) /\ KindIn(World, q) = KindIn(V, x)
          /\ FuelIn(V, x) \in FuelIn(World, p) .. FuelIn(World, q)
                                \cup FuelIn(World, q) .. FuelIn(World, p)
Refilled(V, x) ==
    /\ KindIn(World, x) \in Lamps /\ KindIn(V, x) = "OIL_LAMP"
    /\ ~World.obj[x].lamplit /\ ~V.obj[x].lamplit
    /\ \E p \in ObjId : /\ KindIn(World, p) = "POT_OIL" /\ (Stays(V, p) \/ Lost(V, p))
                        /\ FuelIn(V, x) \in FuelIn(World, x)
                                              .. FuelIn(World, x) + 2 * FuelIn(World, p)
Wasted(V, x)   ==
    /\ KindIn(World, x) = "CANDELABRUM" /\ KindIn(V, x) = "CANDELABRUM"
    /\ ~World.obj[x].lamplit /\ FuelIn(V, x) = FuelIn(World, x) \div 2
Attached(V, x) ==
    /\ KindIn(World, x) = "CANDELABRUM" /\ KindIn(V, x) = "CANDELABRUM"
    /\ Burning(V, x) => Burning(World, x)
    /\ \E p \in ObjId : /\ KindIn(World, p) = "CANDLE" /\ (Stays(V, p) \/ Lost(V, p))
                        /\ \/ FuelIn(V, x) <= FuelIn(World, x)
                           \/ FuelIn(V, x) <= FuelIn(World, p)
Rubbed(V, x)   ==
    /\ KindIn(World, x) = "MAGIC_LAMP" /\ KindIn(V, x) = "OIL_LAMP" /\ FuelIn(V, x) > 0

Handled(V, x) == \/ Comes(V, x) \/ Lost(V, x) \/ Blended(V, x) \/ Refilled(V, x)
                 \/ Wasted(V, x) \/ Attached(V, x) \/ Rubbed(V, x)
AllHandled(V) == \A x \in ObjId : Waxed(V.obj[x]) /\ Handled(V, x)

LEMMA FromHandled == ASSUME NEW V, From(V) PROVE AllHandled(V)
BY DEF From, AllHandled, Handled

\* Fuel is a number of turns, kinds are kinds.
LEMMA FuelTypes ==
    ASSUME Base, NEW W \in Worlds, NEW o \in ObjId
    PROVE  FuelIn(W, o) \in Nat /\ KindIn(W, o) \in Otyp \cup {"NONE"}
<1> DEFINE r == W.obj[o]
           T == PendingIn(W, o)
           n == IF r.lamplit /\ Flames(T) # {}
                THEN r.age + (CHOOSE t \in Flames(T) : TRUE).timeout - monstermoves
                ELSE r.age
<1>1. r \in Obj /\ r.age \in Int /\ r.otyp \in Otyp
  <2>1. r \in Obj
    BY WorldFields
  <2> HIDE DEF r
  <2> QED BY <2>1, ObjFields
<1>2. T \in SUBSET Timer
  <2>1. W.timer_base \in SUBSET Timer
    BY WorldFields
  <2>2. \A l \in Level : levelfile[l].timers \in SUBSET Timer
    BY DEF Base
  <2> QED BY <2>1, <2>2 DEF PendingIn
<1> HIDE DEF r, T
<1>3. Flames(T) # {} => (CHOOSE t \in Flames(T) : TRUE).timeout \in Int
  <2>1. Flames(T) # {} => (CHOOSE t \in Flames(T) : TRUE) \in Timer
    BY <1>2 DEF Flames
  <2> QED BY <2>1, TimerFields
<1>4. n \in Int
  BY <1>1, <1>3 DEF Base
<1>5. FuelIn(W, o) = Amount(r, n)
  BY DEF FuelIn, FuelOf, r, T
<1> HIDE DEF n
<1> QED BY <1>1, <1>4, <1>5, AmountFacts DEF KindIn, KindOf, r

\* What the clock shows is the fuel of the world.
LEMMA LeftIs ==
    ASSUME NEW o \in ObjId
    PROVE  /\ Left(o) = FuelIn(World, o)
           /\ (IF Gone(o) THEN "NONE" ELSE obj[o].otyp) = KindIn(World, o)
           /\ (obj[o].lamplit /\ Left(o) > 0) = Burning(World, o)
<1>1. PendingIn(World, o) = Pending(o)
  BY WorldIs DEF PendingIn, Pending
<1>2. Flames(Pending(o)) = Burns(o)
  BY DEF Flames, Burns
<1>3. Left(o) = FuelIn(World, o)
  BY <1>1, <1>2, WorldIs DEF Left, Gone, FuelIn, FuelOf, Amount
<1> QED BY <1>3, WorldIs DEF Gone, KindIn, KindOf, Burning

\* And what it will show is that of the world the operation computes.
LEMMA LeftThere ==
    ASSUME NEW V, Do(V), NEW o \in ObjId
    PROVE  /\ Left(o)' = FuelIn(V, o)
           /\ (IF Gone(o) THEN "NONE" ELSE obj[o].otyp)' = KindIn(V, o)
           /\ (obj[o].lamplit /\ Left(o) > 0)' = Burning(V, o)
<1>1. /\ obj' = V.obj /\ timer_base' = V.timer_base /\ levelfile' = levelfile
      /\ monstermoves' = monstermoves
  BY DEF Do, Becomes
<1>2. Pending(o)' = PendingIn(V, o)
  BY <1>1 DEF PendingIn, Pending
<1>3. Burns(o)' = Flames(PendingIn(V, o))
  BY <1>2 DEF Flames, Burns
<1>4. Left(o)' = FuelIn(V, o)
  BY <1>1, <1>3 DEF Left, Gone, FuelIn, FuelOf, Amount
<1> QED BY <1>1, <1>4 DEF Gone, KindIn, KindOf, Burning

\* An operation that treats every object so is one that the clock allows.
LEMMA HandleIs ==
    ASSUME IInv, phase = "play", NEW V, Good(V), Do(V), AllHandled(V)
    PROVE  Wicks' /\ Clock!Handle
<1>1. Wicks'
  BY DEF AllHandled, Wicks, Do, Becomes
<1> DEFINE kind == [o \in ObjId |-> IF Gone(o) THEN "NONE" ELSE obj[o].otyp]
           lit  == [o \in ObjId |-> obj[o].lamplit /\ Left(o) > 0]
           fuel == [o \in ObjId |-> Left(o)]
<1>2. /\ \A o \in ObjId : kind[o] = KindIn(World, o) /\ fuel[o] = FuelIn(World, o)
      /\ \A o \in ObjId : lit[o] = Burning(World, o)
  BY LeftIs
<1>3. /\ \A o \in ObjId : kind'[o] = KindIn(V, o) /\ fuel'[o] = FuelIn(V, o)
      /\ \A o \in ObjId : lit'[o] = Burning(V, o)
  BY LeftThere
<1>4. /\ kind' = [o \in ObjId |-> kind'[o]] /\ lit' = [o \in ObjId |-> lit'[o]]
      /\ fuel' = [o \in ObjId |-> fuel'[o]]
  OBVIOUS
<1>5. /\ ~(phase = "timers") /\ phase' = phase /\ monstermoves' = monstermoves
  BY DEF Do
<1>6. Base /\ World \in Worlds /\ V \in Worlds
  BY DEF IInv, Good
<1>7. Clock!Handle <=>
        /\ ~(phase = "timers") /\ (phase = "timers")' = (phase = "timers")
        /\ monstermoves' = monstermoves
        /\ kind' \in [ObjId -> Clock!Kind] /\ lit' \in [ObjId -> BOOLEAN]
        /\ fuel' \in [ObjId -> Nat]
        /\ \A o \in ObjId :
              /\ lit'[o] => fuel'[o] > 0
              /\ \/ Clock!Keep(o) \/ Clock!Vanish(o) \/ Clock!Copy(o) \/ Clock!Mix(o)
                 \/ Clock!Refill(o) \/ Clock!Waste(o) \/ Clock!Attach(o) \/ Clock!Djinni(o)
  BY DEF Clock!Handle
<1>8. \A o \in ObjId : Clock!Keep(o) <=> kind'[o] = kind[o] /\ fuel'[o] = fuel[o]
  BY DEF Clock!Keep
<1>9. \A o \in ObjId : Clock!Vanish(o) <=> kind'[o] = "NONE" /\ fuel'[o] = 0
  BY DEF Clock!Vanish
<1>10. \A o \in ObjId : Clock!Copy(o) <=>
         kind[o] = "NONE" /\ \E p \in ObjId : kind'[o] = kind[p] /\ fuel'[o] = fuel[p]
  BY DEF Clock!Copy
<1>11. \A o \in ObjId : Clock!Mix(o) <=>
         /\ ~lit'[o]
         /\ \E p, q \in ObjId :
               /\ p = o \/ kind[o] = "NONE"
               /\ kind[p] = kind[q] /\ kind[q] = kind'[o]
               /\ kind'[o] \in {"POT_OIL", "CANDLE"}
               /\ fuel'[o] \in fuel[p] .. fuel[q] \cup fuel[q] .. fuel[p]
  BY DEF Clock!Mix
<1>12. \A o \in ObjId : Clock!Refill(o) <=>
         /\ kind[o] \in Lamps /\ kind'[o] = "OIL_LAMP" /\ ~lit[o] /\ ~lit'[o]
         /\ \E p \in ObjId : /\ kind[p] = "POT_OIL" /\ (Clock!Keep(p) \/ Clock!Vanish(p))
                             /\ fuel'[o] \in fuel[o] .. fuel[o] + 2 * fuel[p]
  BY DEF Clock!Refill, Clock!Lamp, Lamps
<1>13. \A o \in ObjId : Clock!Waste(o) <=>
         /\ kind[o] = "CANDELABRUM" /\ kind'[o] = kind[o]
         /\ ~lit[o] /\ fuel'[o] = fuel[o] \div 2
  BY DEF Clock!Waste
<1>14. \A o \in ObjId : Clock!Attach(o) <=>
         /\ kind[o] = "CANDELABRUM" /\ kind'[o] = kind[o] /\ (lit'[o] => lit[o])
         /\ \E p \in ObjId : /\ kind[p] = "CANDLE" /\ (Clock!Keep(p) \/ Clock!Vanish(p))
                             /\ fuel'[o] <= fuel[o] \/ fuel'[o] <= fuel[p]
  BY DEF Clock!Attach
<1>15. \A o \in ObjId : Clock!Djinni(o) <=>
         kind[o] = "MAGIC_LAMP" /\ kind'[o] = "OIL_LAMP" /\ fuel'[o] > 0
  BY DEF Clock!Djinni
<1> HIDE DEF kind, lit, fuel
<1>16. kind' \in [ObjId -> Clock!Kind] /\ lit' \in [ObjId -> BOOLEAN] /\ fuel' \in [ObjId -> Nat]
  <2>1. \A o \in ObjId : /\ FuelIn(V, o) \in Nat /\ KindIn(V, o) \in Clock!Kind
                         /\ Burning(V, o) \in BOOLEAN
    <3>1. Otyp \cup {"NONE"} = Clock!Kind
      BY DEF Otyp, Lamps, Clock!Kind, Clock!Lamp
    <3>2. \A o \in ObjId : Burning(V, o) \in BOOLEAN
      BY DEF Burning
    <3> QED BY <1>6, <3>1, <3>2, FuelTypes
  <2> QED BY <1>3, <1>4, <2>1
<1>17. ASSUME NEW o \in ObjId
       PROVE  /\ lit'[o] => fuel'[o] > 0
              /\ \/ Clock!Keep(o) \/ Clock!Vanish(o) \/ Clock!Copy(o) \/ Clock!Mix(o)
                 \/ Clock!Refill(o) \/ Clock!Waste(o) \/ Clock!Attach(o) \/ Clock!Djinni(o)
  <2>1. \A p \in ObjId : Stays(V, p) => Clock!Keep(p)
    BY <1>2, <1>3, <1>8 DEF Stays
  <2>2. \A p \in ObjId : Lost(V, p) => Clock!Vanish(p)
    BY <1>3, <1>9, LostFacts
  <2>3. lit'[o] => fuel'[o] > 0
    BY <1>3 DEF Burning
  <2>4. CASE Comes(V, o)
    <3>1. PICK p \in ObjId : Is1(V, o, p)
      BY <2>4 DEF Comes
    <3>2. CASE p = o
      BY <1>2, <1>3, <1>8, <2>3, <3>1, <3>2 DEF Is1
    <3>3. CASE p # o
      BY <1>2, <1>3, <1>10, <2>3, <3>1, <3>3 DEF Is1
    <3> QED BY <3>2, <3>3
  <2>5. CASE Lost(V, o)
    BY <2>2, <2>3, <2>5
  <2>6. CASE Blended(V, o)
    <3>1. ~lit'[o]
      BY <1>3, <2>6 DEF Blended, Burning
    <3>2. Clock!Mix(o)
      BY <1>2, <1>3, <1>11, <2>6, <3>1 DEF Blended
    <3> QED BY <2>3, <3>2
  <2>7. CASE Refilled(V, o)
    <3>1. ~lit'[o] /\ ~lit[o]
      BY <1>2, <1>3, <2>7 DEF Refilled, Burning
    <3>2. Clock!Refill(o)
      BY <1>2, <1>3, <1>12, <2>1, <2>2, <2>7, <3>1 DEF Refilled
    <3> QED BY <2>3, <3>2
  <2>8. CASE Wasted(V, o)
    <3>1. ~lit[o]
      BY <1>2, <2>8 DEF Wasted, Burning
    <3>2. Clock!Waste(o)
      BY <1>2, <1>3, <1>13, <2>8, <3>1 DEF Wasted
    <3> QED BY <2>3, <3>2
  <2>9. CASE Attached(V, o)
    <3>1. Clock!Attach(o)
      BY <1>2, <1>3, <1>14, <2>1, <2>2, <2>9 DEF Attached
    <3> QED BY <2>3, <3>1
  <2>10. CASE Rubbed(V, o)
    BY <1>2, <1>3, <1>15, <2>3, <2>10 DEF Rubbed
  <2> QED BY <2>4, <2>5, <2>6, <2>7, <2>8, <2>9, <2>10 DEF AllHandled, Handled
<1> QED BY <1>1, <1>5, <1>7, <1>16, <1>17

\* Two stacks become one.
LEMMA MergedHandled ==
    ASSUME NEW W, Good(W), From(W), NEW d \in ObjId, NEW o \in ObjId, InMem(W, d), InMem(W, o),
           Mergable(W, d, o), ~Lost(W, d), ~Lost(W, o),
           phase = "play", monstermoves \in Int, PrayerTurns = 0
    PROVE  Good(Merged(W, d, o)) /\ AllHandled(Merged(W, d, o))
<1> DEFINE V == Merged(W, d, o)
<1>1. /\ Good(V) /\ Rest(W, V, {d, o}) /\ Lost(V, o) /\ Waxed(V.obj[d])
      /\ Like(W, d, V, d) \/ Mixed(W, d, o, V)
  BY MergedLike
<1> HIDE DEF V
<1>2. ASSUME NEW x \in ObjId PROVE Waxed(V.obj[x]) /\ Handled(V, x)
  <2>1. CASE x \notin {d, o}
    <3>1. Like(W, x, V, x)
      BY <1>1, <2>1, Untouched
    <3> QED BY <3>1, ComesAgain DEF Handled
  <2>2. CASE x = o
    BY <1>1, <2>2, LostFacts DEF Handled
  <2>3. CASE x = d /\ Like(W, d, V, d)
    BY <2>3, ComesAgain DEF Handled
  <2>4. CASE x = d /\ Mixed(W, d, o, V)
    <3>1. PICK p \in ObjId : Is1(W, d, p)
      BY DEF From, Comes
    <3>2. PICK q \in ObjId : Is1(W, o, q)
      BY DEF From, Comes
    <3>3. Blended(V, d)
      BY <2>4, <3>1, <3>2 DEF Blended, Mixed, Is1
    <3> QED BY <1>1, <2>4, <3>3 DEF Handled
  <2> QED BY <1>1, <2>1, <2>2, <2>3, <2>4
<1> QED BY <1>1, <1>2 DEF AllHandled, V

\* o put on its own or stacked with what is already there.
LEMMA AddToHandled ==
    ASSUME NEW W, Good(W), From(W), NEW o \in ObjId, InMem(W, o), NEW where, NEW l,
           Place(where, l), where # "BURIED", ~HasRot(Of(W.timer_base, o)), ~Lost(W, o),
           phase = "play", monstermoves \in Int, PrayerTurns = 0
    PROVE  \A V \in AddTo(W, o, where, l) : Good(V) /\ AllHandled(V)
<1> DEFINE P     == Put(W, o, where, l)
           peers == {d \in ObjId : P.obj[d].where = where /\ P.obj[d].lev = l}
<1>1. Placed(W, P, o, where, l) /\ Like(W, o, P, o)
  BY PutLike DEF Lost
<1>2. \A V \in AddTo(W, o, where, l) :
          \/ V = P
          \/ \E d \in peers : Mergable(P, o, d) /\ V = Merged(P, o, d)
          \/ \E d \in peers : Mergable(P, d, o) /\ V = Merged(P, d, o)
  BY DEF AddTo
<1> HIDE DEF P
<1>3. Good(P) /\ InMem(P, o) /\ ~Lost(P, o)
  BY <1>1 DEF Placed, Kept, Place, Lost
<1>4. From(P)
  BY <1>1, Onward DEF Placed
<1>5. Good(P) /\ AllHandled(P)
  BY <1>3, <1>4, FromHandled
<1>6. ASSUME NEW d \in peers PROVE InMem(P, d) /\ ~Lost(P, d)
  <2>1. ~Away(P.obj[d])
    BY DEF Away, Place
  <2>2. ~Lost(P, d)
    BY DEF Place, Lost
  <2> QED BY <1>3, <2>1, <2>2, GoodFacts
<1>7. ASSUME NEW d \in peers, Mergable(P, o, d)
      PROVE  Good(Merged(P, o, d)) /\ AllHandled(Merged(P, o, d))
  BY <1>3, <1>4, <1>6, <1>7, MergedHandled
<1>8. ASSUME NEW d \in peers, Mergable(P, d, o)
      PROVE  Good(Merged(P, d, o)) /\ AllHandled(Merged(P, d, o))
  BY <1>3, <1>4, <1>6, <1>8, MergedHandled
<1> QED BY <1>2, <1>5, <1>7, <1>8

\* What was not buried is put somewhere else.
LEMMA MoveHandled ==
    ASSUME NEW W, Good(W), From(W), NEW o \in ObjId, InMem(W, o),
           W.obj[o].where \notin {"BURIED", "FREE", "ONBILL"},
           phase = "play", monstermoves \in Int, PrayerTurns = 0
    PROVE  \A w, l : Place(w, l) /\ w # "BURIED"
               => \A V \in AddTo(W, o, w, l) : Good(V) /\ AllHandled(V)
<1>1. ~HasRot(Of(W.timer_base, o)) /\ ~Lost(W, o)
  BY NoRot DEF Lost
<1> QED BY <1>1, AddToHandled

\* An operation after which everything has the fuel of what it comes from.
LEMMA FromPlay ==
    ASSUME IInv, phase = "play", NEW V, Good(V), From(V), Do(V)
    PROVE  Wicks' /\ Clock!Handle
BY FromHandled, HandleIs

\* end_burn.
LEMMA EndFrom ==
    ASSUME NEW W, Good(W), From(W), NEW o \in ObjId, InMem(W, o), W.obj[o].lamplit,
           NEW attached, attached \/ W.obj[o].otyp = "MAGIC_LAMP",
           phase = "play", monstermoves \in Int
    PROVE  LET V == EndBurn(W, o, attached)
           IN  /\ Good(V) /\ From(V) /\ InMem(V, o) /\ Still(W.obj[o], V.obj[o])
               /\ Kept(W, V, o) /\ Like(W, o, V, o)
<1> DEFINE V == EndBurn(W, o, attached)
<1>1. Kept(W, V, o) /\ Still(W.obj[o], V.obj[o])
  BY EndKept
<1>2. Like(W, o, V, o)
  BY EndBurnLike
<1> HIDE DEF V
<1>3. From(V)
  BY <1>1, <1>2, Onward
<1> QED BY <1>1, <1>2, <1>3 DEF Kept, V

\* end_burn on what has a timer if it needs one.
LEMMA EndsFrom ==
    ASSUME NEW W, Good(W), From(W), NEW o \in ObjId, InMem(W, o), W.obj[o].lamplit,
           phase = "play", monstermoves \in Int
    PROVE  LET V == EndBurn(W, o, TRUE)
           IN  /\ Good(V) /\ From(V) /\ InMem(V, o) /\ Still(W.obj[o], V.obj[o])
               /\ Kept(W, V, o) /\ Like(W, o, V, o)
<1>1. \A a : a =>
          LET V == EndBurn(W, o, a)
          IN  /\ Good(V) /\ From(V) /\ InMem(V, o) /\ Still(W.obj[o], V.obj[o])
              /\ Kept(W, V, o) /\ Like(W, o, V, o)
  BY EndFrom
<1> QED BY <1>1

\* The bill is paid.
LEMMA PaidFrom ==
    ASSUME NEW W, Good(W), From(W), NEW o \in ObjId, InMem(W, o)
    PROVE  LET V == Paid(W, o)
           IN  /\ Good(V) /\ From(V) /\ InMem(V, o) /\ Same(W.obj[o], V.obj[o])
               /\ Kept(W, V, o) /\ Like(W, o, V, o)
<1> DEFINE V == Paid(W, o)
<1>1. Kept(W, V, o) /\ Like(W, o, V, o) /\ Same(W.obj[o], V.obj[o])
  BY PaidLike
<1> HIDE DEF V
<1>2. From(V)
  BY <1>1, Onward
<1> QED BY <1>1, <1>2 DEF Kept, V

\* begin_burn.
LEMMA BeginFrom ==
    ASSUME NEW W, Good(W), From(W), NEW o \in ObjId, InMem(W, o), ~W.obj[o].lamplit,
           W.obj[o].where \notin {"FREE", "MIGRATING", "ONBILL"}, monstermoves \in Int,
           W.obj[o].otyp = "CANDELABRUM" => W.obj[o].spe > 0
    PROVE  LET V == BeginBurn(W, o, FALSE)
           IN  /\ Good(V) /\ From(V) /\ InMem(V, o) /\ Still(W.obj[o], V.obj[o])
               /\ Kept(W, V, o) /\ Like(W, o, V, o)
<1> DEFINE V == BeginBurn(W, o, FALSE)
<1>1. Kept(W, V, o) /\ Still(W.obj[o], V.obj[o])
  BY BurnKept
<1>2. Like(W, o, V, o)
  BY BeginBurnLike
<1> HIDE DEF V
<1>3. From(V)
  BY <1>1, <1>2, Onward
<1> QED BY <1>1, <1>2, <1>3 DEF Kept, V

\* begin_burn on what the hero has just bought.
LEMMA BuyAndBurnFrom ==
    ASSUME NEW W, Good(W), From(W), NEW o \in ObjId, InMem(W, o), ~W.obj[o].lamplit,
           W.obj[o].where \notin {"FREE", "MIGRATING", "ONBILL"}, monstermoves \in Int,
           W.obj[o].otyp = "CANDELABRUM" => W.obj[o].spe > 0
    PROVE  LET V == BeginBurn(Paid(W, o), o, FALSE)
           IN  Good(V) /\ From(V) /\ Kept(W, V, o)
<1> DEFINE P == Paid(W, o)
<1>1. /\ Good(P) /\ From(P) /\ InMem(P, o) /\ Same(W.obj[o], P.obj[o]) /\ Kept(W, P, o)
  BY PaidFrom
<1> HIDE DEF P
<1>2. /\ ~P.obj[o].lamplit /\ P.obj[o].where \notin {"FREE", "MIGRATING", "ONBILL"}
      /\ P.obj[o].otyp = "CANDELABRUM" => P.obj[o].spe > 0
  BY <1>1 DEF Same
<1>3. LET V == BeginBurn(P, o, FALSE)
      IN  /\ Good(V) /\ From(V) /\ InMem(V, o) /\ Still(P.obj[o], V.obj[o])
          /\ Kept(P, V, o) /\ Like(P, o, V, o)
  BY <1>1, <1>2, BeginFrom
<1>4. Kept(W, BeginBurn(P, o, FALSE), o)
  BY <1>1, <1>3, KeptAgain
<1> QED BY <1>3, <1>4 DEF P

(***************************************************************************)
(* What each action does with the fuel.                                    *)
(***************************************************************************)

\* use_lamp.
LEMMA UseLampFuel ==
    ASSUME IInv, Wicks, NEW o \in ObjId, UseLamp(o)
    PROVE  Wicks' /\ Clock!Handle
<1>1. /\ Good(World) /\ InMem(World, o) /\ monstermoves \in Int /\ World.obj = obj
      /\ obj[o].where = "INVENT" /\ phase = "play" /\ obj[o].otyp # "CANDELABRUM"
  BY Reach DEF UseLamp, Carried, HeroActs, Play, Lamps
<1>2. From(World)
  BY FromWorld
<1>3. /\ obj[o].lamplit => LET V == EndBurn(World, o, TRUE) IN Good(V) /\ From(V)
      /\ ~obj[o].lamplit => /\ LET V == BeginBurn(World, o, FALSE) IN Good(V) /\ From(V)
                            /\ LET V == BeginBurn(Paid(World, o), o, FALSE)
                               IN  Good(V) /\ From(V)
  BY <1>1, <1>2, EndsFrom, BeginFrom, BuyAndBurnFrom
<1> QED BY <1>1, <1>3, FromPlay DEF UseLamp

\* catch_lit.
LEMMA CatchLitFuel ==
    ASSUME IInv, Wicks, NEW o \in ObjId, CatchLit(o)
    PROVE  Wicks' /\ Clock!Handle
<1>1. /\ Good(World) /\ InMem(World, o) /\ monstermoves \in Int /\ World.obj = obj
      /\ obj[o].where \in {"INVENT", "FLOOR", "MINVENT"} /\ phase = "play" /\ obj[o] \in Obj
  BY Reach DEF CatchLit, InReach, Carried, At, HeroActs, Play
<1>2. From(World)
  BY FromWorld
<1>3. ~obj[o].lamplit /\ (obj[o].otyp = "CANDELABRUM" => obj[o].spe > 0)
  <2>1. Waxed(obj[o]) /\ obj[o].spe \in Int
    BY <1>1, ObjFields DEF Wicks
  <2> QED BY <1>1, <2>1 DEF CatchLit, Catchable, Waxed, KindOf
<1>4. LET V == BeginBurn(Paid(World, o), o, FALSE) IN Good(V) /\ From(V)
  BY <1>1, <1>2, <1>3, BuyAndBurnFrom
<1> QED BY <1>1, <1>4, FromPlay DEF CatchLit

\* snuff_lit.
LEMMA SnuffLitFuel ==
    ASSUME IInv, Wicks, NEW o \in ObjId, SnuffLit(o)
    PROVE  Wicks' /\ Clock!Handle
<1>1. /\ Good(World) /\ InMem(World, o) /\ monstermoves \in Int /\ World.obj = obj
      /\ obj[o].lamplit /\ phase = "play"
  BY Reach DEF SnuffLit, InReach, Carried, At, HeroActs, Play
<1>2. From(World)
  BY FromWorld
<1>3. \A a : a \/ World.obj[o].otyp = "MAGIC_LAMP"
          => LET V == EndBurn(World, o, a) IN Good(V) /\ From(V)
  BY <1>1, <1>2, EndFrom
<1>4. LET V == EndBurn(World, o, obj[o].otyp # "MAGIC_LAMP") IN Good(V) /\ From(V)
  BY <1>1, <1>3
<1> QED BY <1>1, <1>4, FromPlay DEF SnuffLit

\* An operation after which the objects of S are treated well, and no others.
LEMMA AllButHandled ==
    ASSUME Wicks, NEW S, NEW V, Rest(World, V, S),
           \A x \in ObjId \cap S : Waxed(V.obj[x]) /\ Handled(V, x)
    PROVE  AllHandled(V)
<1> SUFFICES ASSUME NEW x \in ObjId PROVE Waxed(V.obj[x]) /\ Handled(V, x)
  BY DEF AllHandled
<1>1. CASE x \notin S
  <2>1. Like(World, x, V, x)
    BY <1>1, Untouched
  <2> QED BY <2>1, FromWorld, ComesAgain DEF Handled
<1> QED BY <1>1

\* One object keeps its fuel, or is lost.
LEMMA OneHandled ==
    ASSUME Wicks, NEW o \in ObjId, NEW V, Rest(World, V, {o}),
           Like(World, o, V, o) \/ Lost(V, o)
    PROVE  AllHandled(V)
<1>1. Waxed(V.obj[o]) /\ Handled(V, o)
  BY FromWorld, ComesAgain, LostFacts DEF Handled
<1> QED BY <1>1, AllButHandled

\* The fuel of what is dark.
LEMMA DarkFuel ==
    ASSUME NEW W, Good(W), NEW o \in ObjId, InMem(W, o), ~W.obj[o].lamplit
    PROVE  /\ FuelIn(W, o) = Amount(W.obj[o], W.obj[o].age)
           /\ W.obj[o].age >= 0 /\ W.obj[o].otyp # "MAGIC_LAMP" /\ ~Lost(W, o)
                  => FuelIn(W, o) = W.obj[o].age
<1>1. FuelIn(W, o) = FuelOf(W.obj[o], Of(W.timer_base, o)) /\ W.obj[o] \in Obj
  BY InMemPending, GoodFacts
<1> DEFINE r == W.obj[o]
<1>2. r.age \in Int
  BY <1>1, ObjFields
<1>3. FuelIn(W, o) = Amount(r, r.age)
  BY <1>1, FuelFacts
<1> QED BY <1>2, <1>3 DEF Amount, Lost

\* oname.
LEMMA ONameFuel ==
    ASSUME IInv, Wicks, NEW o \in ObjId, OName(o)
    PROVE  Wicks' /\ Clock!Handle
<1>1. /\ Base /\ Good(World) /\ InMem(World, o) /\ monstermoves \in Int /\ World.obj = obj
      /\ obj[o].where = "INVENT" /\ World \in Worlds /\ World.impossible = FALSE
      /\ phase = "play"
  BY Reach DEF OName, Carried, HeroActs, Play
<1>2. ASSUME NEW new \in ObjId, obj[new].where = "FREE"
      PROVE  Good(ReallocObj(World, o, new)) /\ AllHandled(ReallocObj(World, o, new))
  <2> DEFINE V == ReallocObj(World, o, new)
  <2>1. InMem(World, new) /\ o # new
    BY <1>1, <1>2, FreeInMem
  <2>2. /\ Rest(World, V, {o, new}) /\ InMem(V, o) /\ InMem(V, new) /\ V.obj[o] = Freed
        /\ Alike(World.obj[o], V.obj[new])
        /\ Of(V.timer_base, new) = Copies(World.timer_base, o, new)
    BY <1>1, <1>2, <2>1, ReallocObjKeeps
  <2> HIDE DEF V
  <2>3. \A q \in ObjId \cap {o, new} : ~Away(World.obj[q]) /\ InMem(V, q)
    BY <1>1, <2>1, <2>2 DEF InMem
  <2>4. Good(V)
    BY <1>1, <2>2, <2>3, Change
  <2>5. Like(World, o, V, new)
    BY <1>1, <2>2, <2>4, CopyLike
  <2>6. KindIn(World, new) = "NONE" /\ Waxed(World.obj[o])
    BY <1>1, <1>2 DEF KindIn, KindOf, Wicks
  <2>7. Waxed(V.obj[new]) /\ Comes(V, new)
    BY <2>5, <2>6 DEF Like, Comes, Is1
  <2>8. Lost(V, o)
    BY <2>2, FreedFacts DEF Lost
  <2>9. AllHandled(V)
    BY <2>2, <2>7, <2>8, LostFacts, AllButHandled DEF Handled
  <2> QED BY <2>4, <2>9 DEF V
<1> QED BY <1>1, <1>2, HandleIs DEF OName

\* Objects are used up, eaten, broken or burnt.
LEMMA DestroyFuel ==
    ASSUME IInv, Wicks, NEW o \in ObjId, Destroy(o)
    PROVE  Wicks' /\ Clock!Handle
<1>1. Good(World) /\ InMem(World, o) /\ monstermoves \in Int /\ phase = "play"
  BY Reach DEF Destroy, Carried, At, Play
<1>2. /\ Kept(World, Obfree(World, o), o) /\ Lost(Obfree(World, o), o)
      /\ LET V == Useup(World, o) IN Kept(World, V, o) /\ (Like(World, o, V, o) \/ Lost(V, o))
  BY <1>1, ObfreeLost, UseupLost
<1>3. /\ Good(Obfree(World, o)) /\ AllHandled(Obfree(World, o))
      /\ Good(Useup(World, o)) /\ AllHandled(Useup(World, o))
  BY <1>2, OneHandled DEF Kept
<1> QED BY <1>1, <1>3, HandleIs DEF Destroy

\* dopayobj, for what the hero owes and what is used up.
LEMMA PayForFuel ==
    ASSUME IInv, Wicks, NEW o \in ObjId, PayFor(o)
    PROVE  Wicks' /\ Clock!Handle
<1>1. Good(World) /\ phase = "play"
  BY DEF IInv, PayFor, HeroActs, Play
<1>2. CASE obj[o].where = "ONBILL" /\ Do(DeallocObj(World, o))
  <2>1. InMem(World, o) /\ monstermoves \in Int
    BY <1>2, Reach
  <2>2. Kept(World, DeallocObj(World, o), o) /\ Lost(DeallocObj(World, o), o)
    BY <1>1, <2>1, ObfreeLost
  <2>3. Good(DeallocObj(World, o)) /\ AllHandled(DeallocObj(World, o))
    BY <2>2, OneHandled DEF Kept
  <2> QED BY <1>1, <1>2, <2>3, HandleIs
<1>3. CASE obj[o].unpaid /\ Do(Paid(World, o))
  <2> DEFINE V == Paid(World, o)
  <2>1. Good(V) /\ Only(World, V, o) /\ V.timer_base = timer_base /\ Same(obj[o], V.obj[o])
    BY <1>1, PaidGood
  <2> HIDE DEF V
  <2>2. Rest(World, V, {o})
    BY <2>1, WorldIs, OnlyRest
  <2>3. Like(World, o, V, o)
    <3>1. PendingIn(V, o) = PendingIn(World, o)
      BY <2>1, WorldIs DEF PendingIn
    <3>2. FuelIn(V, o) = FuelIn(World, o) /\ KindOf(V.obj[o]) = KindOf(obj[o])
      BY <2>1, <3>1, WorldIs, FuelSame DEF FuelIn, Same
    <3> QED BY <2>1, <3>2, WorldIs DEF Like, KindIn, Waxed, Same
  <2>4. AllHandled(V)
    BY <2>2, <2>3, OneHandled
  <2> QED BY <1>1, <1>3, <2>1, <2>4, HandleIs DEF V
<1> QED BY <1>2, <1>3 DEF PayFor

\* dorub.
LEMMA DoRubFuel ==
    ASSUME IInv, Wicks, NEW o \in ObjId, DoRub(o)
    PROVE  Wicks' /\ Clock!Handle
<1>1. PICK age \in DjinniAge :
          Do(IF obj[o].lamplit THEN BeginBurn(Rub(o, age), o, TRUE) ELSE Rub(o, age))
  BY DEF DoRub, Rub
<1> DEFINE W == Rub(o, age)
           V == IF obj[o].lamplit THEN BeginBurn(W, o, TRUE) ELSE W
           r == W.obj[o]
<1>2. /\ monstermoves \in Int /\ World.obj = obj /\ obj[o].where = "INVENT"
      /\ obj[o].otyp = "MAGIC_LAMP" /\ phase = "play"
  BY Reach DEF DoRub, Carried, HeroActs, Play
<1>3. /\ Kept(World, V, o) /\ W \in Worlds /\ W.impossible = FALSE
      /\ r \in Obj /\ r.otyp = "OIL_LAMP" /\ r.where = "INVENT" /\ r.age = age
      /\ r.lamplit = obj[o].lamplit
      /\ obj[o].lamplit => Ready(W, o, TRUE)
  BY RubKept
<1>4. age \in Nat /\ age > 0
  BY NumberAssumption
<1>5. FuelOf(V.obj[o], Of(V.timer_base, o)) = Amount(r, r.age) /\ KindOf(V.obj[o]) = "OIL_LAMP"
  <2>1. CASE ~obj[o].lamplit
    <3>1. V = W
      BY <2>1
    <3> HIDE DEF W, V
    <3> QED BY <1>3, <2>1, <3>1, FuelFacts DEF KindOf
  <2>2. CASE obj[o].lamplit
    <3> HIDE DEF W
    <3>1. V = BeginBurn(W, o, TRUE)
      BY <2>2
    <3>2. \A lit \in BOOLEAN : Ready(W, o, lit) =>
             LET Y == BeginBurn(W, o, lit)
             IN  /\ FuelOf(Y.obj[o], Of(Y.timer_base, o)) = Amount(W.obj[o], W.obj[o].age)
                 /\ Still(W.obj[o], Y.obj[o])
      BY <1>2, <1>3, BeginBurnFuel, BeginBurnKeeps
    <3>3. LET Y == BeginBurn(W, o, TRUE)
          IN  /\ FuelOf(Y.obj[o], Of(Y.timer_base, o)) = Amount(W.obj[o], W.obj[o].age)
              /\ Still(W.obj[o], Y.obj[o])
      BY <1>3, <2>2, <3>2
    <3> HIDE DEF V
    <3> QED BY <1>3, <3>1, <3>3 DEF KindOf, Still
  <2> QED BY <2>1, <2>2
<1>6. Amount(r, r.age) = age
  BY <1>3, <1>4 DEF Amount
<1> HIDE DEF V, W, r
<1>7. FuelIn(V, o) > 0
  <2>1. FuelIn(V, o) = FuelOf(V.obj[o], Of(V.timer_base, o))
    BY <1>3, InMemPending DEF Kept
  <2> QED BY <1>4, <1>5, <1>6, <2>1
<1>8. Rubbed(V, o) /\ Waxed(V.obj[o])
  BY <1>2, <1>5, <1>7 DEF Rubbed, KindIn, KindOf, Waxed
<1>9. Good(V) /\ AllHandled(V)
  BY <1>3, <1>8, AllButHandled DEF Kept, Handled
<1> QED BY <1>1, <1>2, <1>9, HandleIs DEF V, W

\* use_candelabrum: off the invocation square, half of the fuel is wasted.
LEMMA UseCandelabrumFuel ==
    ASSUME IInv, Wicks, NEW o \in ObjId, UseCandelabrum(o), PrayerTurns = 0
    PROVE  Wicks' /\ Clock!Handle
<1>1. /\ Good(World) /\ InMem(World, o) /\ monstermoves \in Int /\ World.obj = obj
      /\ obj[o].where = "INVENT" /\ phase = "play" /\ obj[o] \in Obj /\ Whole(obj[o])
      /\ World \in Worlds /\ World.impossible = FALSE /\ obj[o].otyp = "CANDELABRUM"
  BY Reach DEF UseCandelabrum, Carried, HeroActs, Play
<1>2. From(World)
  BY FromWorld
<1>3. obj[o].lamplit => LET V == EndBurn(World, o, TRUE) IN Good(V) /\ From(V)
  BY <1>1, <1>2, EndsFrom
<1>4. ASSUME ~obj[o].lamplit, obj[o].spe > 0, NEW age \in {obj[o].age, Quot(obj[o].age, 2)}
      PROVE  LET V == BeginBurn([World EXCEPT !.obj[o].age = age], o, FALSE)
             IN  Good(V) /\ AllHandled(V)
  <2> DEFINE W == [World EXCEPT !.obj[o].age = age]
             V == BeginBurn(W, o, FALSE)
             R == obj[o]
             r == W.obj[o]
  <2>1. R.age \in Nat /\ age \in Nat /\ age \in {R.age, R.age \div 2}
    <3>1. R.age \in Int /\ R.age >= 0
      BY <1>1, ObjFields DEF Whole
    <3>2. \A n \in Nat : Quot(n, 2) = n \div 2 /\ n \div 2 \in Nat
      BY DEF Quot
    <3> QED BY <3>1, <3>2
  <2>2. /\ Kept(World, W, o) /\ r = [R EXCEPT !.age = age]
    <3>1. Kept(World, W, o)
      BY <1>1, <2>1, AgeKept
    <3>2. \A a \in Int : LET X == [World EXCEPT !.obj[o].age = a]
                        IN  X.obj[o] = [World.obj[o] EXCEPT !.age = a]
      BY <1>1, AgeIs
    <3>3. LET X == [World EXCEPT !.obj[o].age = age]
          IN  X.obj[o] = [World.obj[o] EXCEPT !.age = age]
      BY <2>1, <3>2
    <3>4. r = [R EXCEPT !.age = age]
      BY <1>1, <3>3
    <3> QED BY <3>1, <3>4
  <2>3. /\ r.otyp = R.otyp /\ r.where = R.where /\ r.lamplit = R.lamplit
        /\ r.spe = R.spe /\ r.age = age
    <3> HIDE DEF W
    <3> QED BY <1>1, <2>2 DEF Obj
  <2> HIDE DEF W
  <2>4. Good(W) /\ InMem(W, o)
    BY <2>2 DEF Kept
  <2>5. Kept(W, V, o) /\ Still(r, V.obj[o]) /\ Like(W, o, V, o)
    BY <1>1, <1>4, <2>3, <2>4, BurnKept, BeginBurnLike
  <2> HIDE DEF V
  <2>6. Kept(World, V, o)
    BY <2>2, <2>5, KeptAgain
  <2>7. FuelIn(V, o) = age /\ KindIn(V, o) = "CANDELABRUM"
    <3>1. FuelIn(W, o) = age
      BY <1>1, <1>4, <2>1, <2>3, <2>4, DarkFuel DEF Lost
    <3> QED BY <1>1, <2>3, <2>5, <3>1 DEF Like, KindIn, KindOf
  <2>8. FuelIn(World, o) = R.age /\ KindIn(World, o) = "CANDELABRUM"
    <3>1. FuelIn(World, o) = R.age
      BY <1>1, <1>4, <2>1, DarkFuel DEF Lost
    <3> QED BY <1>1, <3>1 DEF KindIn, KindOf
  <2>9. Waxed(V.obj[o])
    <3>1. R.spe \in Int
      BY <1>1, ObjFields
    <3> QED BY <1>4, <2>3, <2>5, <3>1 DEF Waxed, Still
  <2>10. CASE age = R.age
    <3>1. Comes(V, o)
      BY <2>7, <2>8, <2>10 DEF Comes, Is1
    <3>2. AllHandled(V)
      BY <2>6, <2>9, <3>1, AllButHandled DEF Kept, Handled
    <3>3. Good(V) /\ AllHandled(V)
      BY <2>6, <3>2 DEF Kept
    <3> QED BY <3>3 DEF V, W
  <2>11. CASE age = R.age \div 2
    <3>1. Wasted(V, o)
      BY <1>1, <1>4, <2>7, <2>8, <2>11 DEF Wasted
    <3>2. AllHandled(V)
      BY <2>6, <2>9, <3>1, AllButHandled DEF Kept, Handled
    <3>3. Good(V) /\ AllHandled(V)
      BY <2>6, <3>2 DEF Kept
    <3> QED BY <3>3 DEF V, W
  <2> QED BY <2>1, <2>10, <2>11
<1>5. \A V : Good(V) /\ AllHandled(V) /\ Do(V) => Wicks' /\ Clock!Handle
  BY <1>1, HandleIs
<1>6. \A V : Good(V) /\ From(V) /\ Do(V) => Wicks' /\ Clock!Handle
  BY <1>1, FromPlay
<1> QED BY <1>3, <1>4, <1>5, <1>6 DEF UseCandelabrum

\* drop, throwit.
LEMMA DropFuel ==
    ASSUME IInv, Wicks, PrayerTurns = 0, NEW o \in ObjId, Drop(o)
    PROVE  Wicks' /\ Clock!Handle
<1>1. /\ Good(World) /\ InMem(World, o) /\ monstermoves \in Int
      /\ obj[o].where = "INVENT" /\ phase = "play" /\ here \in Level
  BY Reach DEF Drop, Carried, HeroActs, Play, Base
<1>2. PICK p \in Portions(o), thrown \in BOOLEAN :
          LET c  == p.w.obj[p.o]
              W1 == IF thrown /\ c.lamplit /\ c.otyp \in {"CANDLE", "CANDELABRUM"}
                    THEN EndBurn(p.w, p.o, TRUE) ELSE p.w
          IN  \E W \in AddTo(Paid(W1, p.o), p.o, "FLOOR", here) : Do(W)
  BY DEF Drop
<1> DEFINE q  == p.o
           c  == p.w.obj[q]
           W1 == IF thrown /\ c.lamplit /\ c.otyp \in {"CANDLE", "CANDELABRUM"}
                 THEN EndBurn(p.w, q, TRUE) ELSE p.w
           W2 == Paid(W1, q)
<1>3. q \in ObjId /\ Good(p.w) /\ InMem(p.w, q) /\ c.where = "INVENT" /\ From(p.w)
  BY <1>1, PortionKept, PortionFrom DEF Alike
<1>4. Good(W1) /\ From(W1) /\ InMem(W1, q) /\ W1.obj[q].where = "INVENT"
  <2> HIDE DEF q
  <2>1. c.lamplit => LET V == EndBurn(p.w, q, TRUE)
                     IN  Good(V) /\ From(V) /\ InMem(V, q) /\ Still(c, V.obj[q])
    BY <1>1, <1>3, EndsFrom
  <2>2. c.lamplit => LET V == EndBurn(p.w, q, TRUE)
                     IN  Good(V) /\ From(V) /\ InMem(V, q) /\ V.obj[q].where = "INVENT"
    BY <1>3, <2>1 DEF Still
  <2> QED BY <1>3, <2>2
<1> HIDE DEF W1, q
<1>5. Good(W2) /\ From(W2) /\ InMem(W2, q) /\ W2.obj[q].where = "INVENT"
  BY <1>3, <1>4, PaidFrom DEF Same
<1> HIDE DEF W2
<1>6. \A V \in AddTo(W2, q, "FLOOR", here) : Good(V) /\ AllHandled(V)
  <2>1. \A w, l : Place(w, l) /\ w # "BURIED"
            => \A V \in AddTo(W2, q, w, l) : Good(V) /\ AllHandled(V)
    BY <1>1, <1>3, <1>5, MoveHandled
  <2> QED BY <1>1, <2>1, Places
<1> QED BY <1>1, <1>2, <1>6, HandleIs DEF W1, W2, q

\* pick_obj, addinv.
LEMMA PickupFuel ==
    ASSUME IInv, Wicks, PrayerTurns = 0, NEW o \in ObjId, Pickup(o)
    PROVE  Wicks' /\ Clock!Handle
<1>1. /\ Good(World) /\ InMem(World, o) /\ monstermoves \in Int
      /\ obj[o].where = "FLOOR" /\ phase = "play"
  BY Reach DEF Pickup, At, HeroActs, Play
<1>2. PICK p \in Portions(o), owed \in IF MayShop THEN BOOLEAN ELSE {FALSE} :
          \E W \in AddTo([p.w EXCEPT !.obj[p.o].unpaid = owed], p.o, "INVENT", NoLev) : Do(W)
  BY DEF Pickup
<1> DEFINE q == p.o
           U == p.w
           W1 == [U EXCEPT !.obj[q].unpaid = owed]
<1>3. q \in ObjId /\ Good(U) /\ InMem(U, q) /\ U.obj[q].where = "FLOOR" /\ From(U)
  BY <1>1, PortionKept, PortionFrom DEF Alike
<1>4. owed \in BOOLEAN /\ (owed => ForSale)
  BY NumberAssumption DEF ForSale
<1> HIDE DEF q, U
<1>5. Good(W1) /\ From(W1) /\ InMem(W1, q) /\ W1.obj[q].where = "FLOOR"
  <2>1. Kept(U, W1, q) /\ Like(U, q, W1, q) /\ Same(U.obj[q], W1.obj[q])
    BY <1>3, <1>4, OwedLike
  <2> HIDE DEF W1
  <2> QED BY <1>3, <2>1, Onward DEF Kept, Same
<1> HIDE DEF W1
<1>6. \A V \in AddTo(W1, q, "INVENT", NoLev) : Good(V) /\ AllHandled(V)
  <2>1. \A w, l : Place(w, l) /\ w # "BURIED"
            => \A V \in AddTo(W1, q, w, l) : Good(V) /\ AllHandled(V)
    BY <1>1, <1>3, <1>5, MoveHandled
  <2> QED BY <2>1, Places
<1> QED BY <1>1, <1>2, <1>6, HandleIs DEF W1, U, q

\* in_container, for what is not a candelabrum.
LEMMA InContainerFuel ==
    ASSUME IInv, Wicks, PrayerTurns = 0, NEW o \in ObjId, InContainer(o)
    PROVE  Wicks' /\ Clock!Handle
<1>1. /\ Good(World) /\ InMem(World, o) /\ monstermoves \in Int
      /\ obj[o].where = "INVENT" /\ phase = "play"
  BY Reach DEF InContainer, Carried, HeroActs, Play
<1>2. PICK p \in Portions(o) :
          LET W1 == IF p.w.obj[p.o].lamplit THEN EndBurn(p.w, p.o, TRUE) ELSE p.w
          IN  \E W \in AddTo(W1, p.o, "CONTAINED", NoLev) : Do(W)
  BY DEF InContainer
<1> DEFINE q  == p.o
           U  == p.w
           W1 == IF U.obj[q].lamplit THEN EndBurn(U, q, TRUE) ELSE U
<1>3. q \in ObjId /\ Good(U) /\ InMem(U, q) /\ U.obj[q].where = "INVENT" /\ From(U)
  BY <1>1, PortionKept, PortionFrom DEF Alike
<1> HIDE DEF q, U
<1>4. Good(W1) /\ From(W1) /\ InMem(W1, q) /\ W1.obj[q].where = "INVENT"
  <2>1. U.obj[q].lamplit => LET V == EndBurn(U, q, TRUE)
                            IN  Good(V) /\ From(V) /\ InMem(V, q) /\ Still(U.obj[q], V.obj[q])
    BY <1>1, <1>3, EndsFrom
  <2>2. U.obj[q].lamplit => LET V == EndBurn(U, q, TRUE)
                            IN  Good(V) /\ From(V) /\ InMem(V, q) /\ V.obj[q].where = "INVENT"
    BY <1>3, <2>1 DEF Still
  <2> QED BY <1>3, <2>2
<1> HIDE DEF W1
<1>5. \A V \in AddTo(W1, q, "CONTAINED", NoLev) : Good(V) /\ AllHandled(V)
  <2>1. \A w, l : Place(w, l) /\ w # "BURIED"
            => \A V \in AddTo(W1, q, w, l) : Good(V) /\ AllHandled(V)
    BY <1>1, <1>3, <1>4, MoveHandled
  <2> QED BY <2>1, Places
<1> QED BY <1>1, <1>2, <1>5, HandleIs DEF W1, U, q

\* out_container.
LEMMA OutContainerFuel ==
    ASSUME IInv, Wicks, PrayerTurns = 0, NEW o \in ObjId, OutContainer(o)
    PROVE  Wicks' /\ Clock!Handle
<1>1. /\ Good(World) /\ InMem(World, o) /\ monstermoves \in Int
      /\ obj[o].where = "CONTAINED" /\ phase = "play"
  BY Reach DEF OutContainer, HeroActs, Play
<1>2. PICK p \in Portions(o) : \E W \in AddTo(p.w, p.o, "INVENT", NoLev) : Do(W)
  BY DEF OutContainer
<1> DEFINE q  == p.o
           U  == p.w
<1>3. q \in ObjId /\ Good(U) /\ InMem(U, q) /\ U.obj[q].where = "CONTAINED" /\ From(U)
  BY <1>1, PortionKept, PortionFrom DEF Alike
<1> HIDE DEF q, U
<1>4. \A V \in AddTo(U, q, "INVENT", NoLev) : Good(V) /\ AllHandled(V)
  <2>1. \A w, l : Place(w, l) /\ w # "BURIED"
            => \A V \in AddTo(U, q, w, l) : Good(V) /\ AllHandled(V)
    BY <1>1, <1>3, MoveHandled
  <2> QED BY <2>1, Places
<1> QED BY <1>1, <1>2, <1>4, HandleIs DEF U, q

\* o is put somewhere else.
LEMMA PutFrom ==
    ASSUME NEW W, Good(W), From(W), NEW o \in ObjId, InMem(W, o),
           W.obj[o].where \notin {"BURIED", "FREE", "ONBILL"}
    PROVE  \A w, l : Place(w, l) =>
               LET V == Put(W, o, w, l)
               IN  Placed(W, V, o, w, l) /\ Good(V) /\ From(V) /\ InMem(V, o)
<1> SUFFICES ASSUME NEW w, NEW l, Place(w, l)
             PROVE  LET V == Put(W, o, w, l)
                    IN  Placed(W, V, o, w, l) /\ Good(V) /\ From(V) /\ InMem(V, o)
  OBVIOUS
<1> DEFINE V == Put(W, o, w, l)
<1>1. ~HasRot(Of(W.timer_base, o))
  BY NoRot
<1>2. Placed(W, V, o, w, l) /\ Like(W, o, V, o)
  BY <1>1, PutLike
<1> HIDE DEF V
<1>3. From(V)
  BY <1>2, Onward DEF Placed
<1> QED BY <1>2, <1>3 DEF Placed, Kept, V

\* mpickobj: an engulfer's goes out.
LEMMA MPickObjFuel ==
    ASSUME IInv, Wicks, PrayerTurns = 0, NEW o \in ObjId, MPickObj(o)
    PROVE  Wicks' /\ Clock!Handle
<1>1. /\ Good(World) /\ InMem(World, o) /\ monstermoves \in Int /\ World.obj = obj
      /\ obj[o].where \in {"INVENT", "FLOOR"} /\ phase = "play" /\ here \in Level
  BY Reach DEF MPickObj, Carried, At, HeroActs, Play, Base
<1>2. From(World)
  BY FromWorld
<1>3. \A V \in AddTo(World, o, "MINVENT", here) : Good(V) /\ AllHandled(V)
  <2>1. \A w, l : Place(w, l) /\ w # "BURIED"
            => \A V \in AddTo(World, o, w, l) : Good(V) /\ AllHandled(V)
    BY <1>1, <1>2, MoveHandled
  <2> QED BY <1>1, <2>1, Places
<1>4. ASSUME obj[o].lamplit
      PROVE  LET V == EndBurn(Put(World, o, "MINVENT", here), o, obj[o].otyp # "MAGIC_LAMP")
             IN  Good(V) /\ From(V)
  <2> DEFINE W == Put(World, o, "MINVENT", here)
  <2>1. Placed(World, W, o, "MINVENT", here) /\ Good(W) /\ From(W) /\ InMem(W, o)
    <3>1. \A w, l : Place(w, l) =>
               LET V == Put(World, o, w, l)
               IN  Placed(World, V, o, w, l) /\ Good(V) /\ From(V) /\ InMem(V, o)
      BY <1>1, <1>2, PutFrom
    <3> QED BY <1>1, <3>1, Places
  <2> HIDE DEF W
  <2>2. W.obj[o].lamplit /\ W.obj[o].otyp = obj[o].otyp
    BY <1>1, <1>4, <2>1 DEF Placed
  <2>3. \A a : a \/ W.obj[o].otyp = "MAGIC_LAMP"
            => LET V == EndBurn(W, o, a) IN Good(V) /\ From(V)
    BY <1>1, <2>1, <2>2, EndFrom
  <2>4. LET V == EndBurn(W, o, obj[o].otyp # "MAGIC_LAMP") IN Good(V) /\ From(V)
    BY <2>2, <2>3
  <2> QED BY <2>4 DEF W
<1>5. \A V : Good(V) /\ From(V) /\ Do(V) => Wicks' /\ Clock!Handle
  BY <1>1, FromPlay
<1>6. \A V : Good(V) /\ AllHandled(V) /\ Do(V) => Wicks' /\ Clock!Handle
  BY <1>1, HandleIs
<1> QED BY <1>3, <1>4, <1>5, <1>6 DEF MPickObj

\* mdrop_obj.
LEMMA MDropObjFuel ==
    ASSUME IInv, Wicks, PrayerTurns = 0, NEW o \in ObjId, MDropObj(o)
    PROVE  Wicks' /\ Clock!Handle
<1>1. /\ Good(World) /\ InMem(World, o) /\ monstermoves \in Int /\ World.obj = obj
      /\ obj[o].where = "MINVENT" /\ phase = "play" /\ here \in Level
  BY Reach DEF MDropObj, At, HeroActs, Play, Base
<1>2. \A V \in AddTo(World, o, "FLOOR", here) : Good(V) /\ AllHandled(V)
  <2>1. \A w, l : Place(w, l) /\ w # "BURIED"
            => \A V \in AddTo(World, o, w, l) : Good(V) /\ AllHandled(V)
    BY <1>1, FromWorld, MoveHandled
  <2> QED BY <1>1, <2>1, Places
<1> QED BY <1>1, <1>2, HandleIs DEF MDropObj

\* obj_delivery's and migrate_to_level's objects.
LEMMA MigrateFuel ==
    ASSUME IInv, Wicks, NEW o \in ObjId, Migrate(o)
    PROVE  Wicks' /\ Clock!Handle
<1>1. /\ Good(World) /\ InMem(World, o) /\ World.obj = obj
      /\ obj[o].where \in {"FLOOR", "MINVENT"} /\ phase = "play"
  BY Reach DEF Migrate, At, Play
<1>2. ASSUME NEW l \in Level
      PROVE  LET V == Put(World, o, "MIGRATING", l) IN Good(V) /\ From(V)
  <2>1. \A w, k : Place(w, k) => LET V == Put(World, o, w, k) IN Good(V) /\ From(V)
    BY <1>1, FromWorld, PutFrom
  <2> QED BY <2>1, Places
<1> QED BY <1>1, <1>2, FromPlay DEF Migrate

\* bury_an_obj.
LEMMA BuryAnObjFuel ==
    ASSUME IInv, Wicks, NEW o \in ObjId, BuryAnObj(o)
    PROVE  Wicks' /\ Clock!Handle
<1>1. /\ Good(World) /\ InMem(World, o) /\ monstermoves \in Int /\ World.obj = obj
      /\ obj[o].where = "FLOOR" /\ phase = "play" /\ here \in Level
  BY Reach DEF BuryAnObj, At, Play, Base
<1> DEFINE W1 == IF obj[o].lamplit /\ obj[o].otyp # "POT_OIL"
                 THEN EndBurn(World, o, TRUE) ELSE World
           W2 == Put(W1, o, "BURIED", here)
<1>2. /\ Good(W1) /\ From(W1) /\ InMem(W1, o)
      /\ W1.obj[o].where = "FLOOR" /\ W1.obj[o].otyp = obj[o].otyp
  <2>1. From(World)
    BY FromWorld
  <2>2. obj[o].lamplit => LET V == EndBurn(World, o, TRUE)
                          IN  /\ Good(V) /\ From(V) /\ InMem(V, o)
                              /\ V.obj[o].where = "FLOOR" /\ V.obj[o].otyp = obj[o].otyp
    <3>1. obj[o].lamplit => LET V == EndBurn(World, o, TRUE)
                            IN  Good(V) /\ From(V) /\ InMem(V, o) /\ Still(obj[o], V.obj[o])
      BY <1>1, <2>1, EndsFrom
    <3> QED BY <1>1, <3>1 DEF Still
  <2> QED BY <1>1, <2>1, <2>2
<1> HIDE DEF W1
<1>3. ~HasRot(Of(W1.timer_base, o))
  BY <1>2, NoRot
<1>4. Placed(W1, W2, o, "BURIED", here) /\ Good(W2) /\ From(W2) /\ InMem(W2, o)
  <2>1. \A w, l : Place(w, l) =>
             LET V == Put(W1, o, w, l)
             IN  Placed(W1, V, o, w, l) /\ Good(V) /\ From(V) /\ InMem(V, o)
    BY <1>2, PutFrom
  <2> QED BY <1>1, <2>1, Places
<1> HIDE DEF W2
<1>5. /\ W2.obj[o].where = "BURIED" /\ W2.obj[o].otyp = obj[o].otyp
      /\ W2.timer_base = W1.timer_base
  BY <1>2, <1>4 DEF Placed
<1>6. ASSUME obj[o].otyp \in {"POT_OIL", "CANDLE"}, NEW when \in RotTimes
      PROVE  LET V == StartTimer(W2, when, "ROT_ORGANIC", o) IN Good(V) /\ From(V)
  <2>1. when \in Int /\ when > 0
    BY NumberAssumption
  <2> DEFINE V == StartTimer(W2, when, "ROT_ORGANIC", o)
  <2>2. /\ Kept(W2, V, o) /\ Same(W2.obj[o], V.obj[o])
        /\ Flames(Of(V.timer_base, o)) = Flames(Of(W2.timer_base, o))
    BY <1>1, <1>3, <1>4, <1>5, <1>6, <2>1, StartRotKept
  <2> HIDE DEF V
  <2>3. Like(W2, o, V, o)
    BY <1>4, <2>2, StructLike DEF Same
  <2>4. Good(V) /\ From(V)
    BY <1>4, <2>2, <2>3, Onward DEF Kept
  <2> QED BY <2>4 DEF V
<1> QED BY <1>1, <1>4, <1>6, FromPlay DEF BuryAnObj, W1, W2

\* unearth_objs.
LEMMA UnearthObjsFuel ==
    ASSUME IInv, Wicks, PrayerTurns = 0, NEW o \in ObjId, UnearthObjs(o)
    PROVE  Wicks' /\ Clock!Handle
<1>1. /\ Good(World) /\ InMem(World, o) /\ monstermoves \in Int /\ World.obj = obj
      /\ obj[o].where = "BURIED" /\ phase = "play" /\ here \in Level
  BY Reach DEF UnearthObjs, At, Play, Base
<1> DEFINE W1 == IF obj[o].timed # 0 THEN StopTimer(World, "ROT_ORGANIC", o) ELSE World
<1>2. /\ Kept(World, W1, o) /\ Same(obj[o], W1.obj[o]) /\ ~HasRot(Of(W1.timer_base, o))
      /\ Flames(Of(W1.timer_base, o)) = Flames(Of(World.timer_base, o))
  <2>1. LET V == IF World.obj[o].timed # 0 THEN StopTimer(World, "ROT_ORGANIC", o) ELSE World
        IN  /\ Kept(World, V, o) /\ Same(World.obj[o], V.obj[o])
            /\ ~HasRot(Of(V.timer_base, o))
            /\ Flames(Of(V.timer_base, o)) = Flames(Of(World.timer_base, o))
    BY <1>1, StopRotKept
  <2> QED BY <1>1, <2>1
<1> HIDE DEF W1
<1>3. From(W1)
  <2>1. Like(World, o, W1, o)
    BY <1>1, <1>2, StructLike DEF Same
  <2> QED BY <1>2, <2>1, FromWorld, Onward
<1>4. Good(W1) /\ InMem(W1, o) /\ ~Lost(W1, o)
  BY <1>1, <1>2 DEF Kept, Same, Lost
<1>5. \A V \in AddTo(W1, o, "FLOOR", here) : Good(V) /\ AllHandled(V)
  <2>1. \A w, l : Place(w, l) /\ w # "BURIED"
            => \A V \in AddTo(W1, o, w, l) : Good(V) /\ AllHandled(V)
    BY <1>1, <1>2, <1>3, <1>4, AddToHandled
  <2> QED BY <1>1, <2>1, Places
<1> QED BY <1>1, <1>5, HandleIs DEF UnearthObjs, W1

\* What is lit has a timer that is not due yet, and the fuel that timer says.
LEMMA LitFuel ==
    ASSUME NEW W, Good(W), NEW o \in ObjId, InMem(W, o), W.obj[o].lamplit,
           W.obj[o].otyp # "MAGIC_LAMP", phase = "play", PrayerTurns = 0, monstermoves \in Int
    PROVE  \E n \in Nat \ {0} : \A r \in Obj :
               r.lamplit => FuelOf(r, Of(W.timer_base, o)) = Amount(r, r.age + n)
<1> DEFINE T == Of(W.timer_base, o)
<1>1. Balanced(W.obj[o], T, W.light_base[o], TRUE) /\ Timely(T)
  BY DEF InMem, Agrees
<1>2. PICK t \in T : /\ t.func = "BURN_OBJECT" /\ t \in Timer
                     /\ \A u \in T : u.func = "BURN_OBJECT" => u = t
  BY <1>1 DEF Balanced, HasBurn
<1> HIDE DEF T
<1>3. t.timeout \in Int /\ t.timeout > monstermoves
  BY <1>1, <1>2, TimerFields DEF Timely
<1> DEFINE n == t.timeout - monstermoves
<1>4. n \in Nat \ {0}
  BY <1>3
<1>5. ASSUME NEW r \in Obj, r.lamplit PROVE FuelOf(r, T) = Amount(r, r.age + n)
  <2>1. FuelOf(r, T) = Amount(r, r.age + t.timeout - monstermoves)
    BY <1>2, <1>5, FuelBurning
  <2>2. r.age + t.timeout - monstermoves = r.age + n
    BY <1>3, ObjFields
  <2> QED BY <2>1, <2>2
<1> HIDE DEF n
<1> QED BY <1>4, <1>5 DEF T

\* There is at least as much fuel as the age says, and what is lit burns.
LEMMA FuelAtLeast ==
    ASSUME NEW W, Good(W), NEW o \in ObjId, InMem(W, o), ~Lost(W, o),
           W.obj[o].otyp # "MAGIC_LAMP", phase = "play", PrayerTurns = 0, monstermoves \in Int
    PROVE  /\ W.obj[o].age \in Nat /\ W.obj[o].age <= FuelIn(W, o)
           /\ W.obj[o].lamplit => Burning(W, o)
<1> DEFINE r == W.obj[o]
<1>1. r \in Obj /\ Whole(r)
  BY GoodFacts
<1>2. r.age \in Nat
  <2> HIDE DEF r
  <2>1. r.age \in Int
    BY <1>1, ObjFields
  <2> QED BY <1>1, <2>1 DEF Whole, Lost, r
<1>3. CASE ~r.lamplit
  <2>1. FuelIn(W, o) = r.age
    BY <1>2, <1>3, DarkFuel
  <2> QED BY <1>2, <1>3, <2>1
<1>4. CASE r.lamplit
  <2>1. PICK n \in Nat \ {0} : \A s \in Obj :
               s.lamplit => FuelOf(s, Of(W.timer_base, o)) = Amount(s, s.age + n)
    BY <1>4, LitFuel
  <2>2. FuelIn(W, o) = Amount(r, r.age + n)
    BY <1>1, <1>4, <2>1, InMemPending
  <2>3. Amount(r, r.age + n) = r.age + n
    BY <1>2, <2>1 DEF Amount, Lost
  <2> HIDE DEF r
  <2>4. r.age <= FuelIn(W, o) /\ FuelIn(W, o) > 0
    BY <1>2, <2>1, <2>2, <2>3
  <2> QED BY <1>2, <1>4, <2>4 DEF Burning, r
<1> QED BY <1>3, <1>4

\* A candelabrum has no more than it had, or than the candles had.
LEMMA CandledFuel ==
    ASSUME NEW U, Good(U), NEW m \in ObjId, InMem(U, m), NEW c, Whole(c), c.where = "INVENT",
           U.obj[m].otyp = "CANDELABRUM", ~Lost(U, m), Waxed(U.obj[m]),
           phase = "play", PrayerTurns = 0, monstermoves \in Int
    PROVE  LET V == Candled(U, m, c)
           IN  /\ FuelIn(V, m) <= FuelIn(U, m) \/ FuelIn(V, m) <= c.age
               /\ KindIn(V, m) = "CANDELABRUM" /\ Waxed(V.obj[m])
<1> DEFINE V == Candled(U, m, c)
           R == U.obj[m]
           r == V.obj[m]
           T == Of(U.timer_base, m)
<1>1. /\ Kept(U, V, m) /\ V.timer_base = U.timer_base
      /\ r.otyp = R.otyp /\ r.where = R.where /\ r.lamplit = R.lamplit
      /\ r.spe = R.spe + c.quan
      /\ r.age = IF R.spe = 0 \/ R.age > c.age THEN c.age ELSE R.age
  BY CandledKept
<1> HIDE DEF V
<1>2. Good(V) /\ InMem(V, m) /\ r \in Obj /\ R \in Obj
  BY <1>1, GoodFacts DEF Kept
<1>3. FuelIn(U, m) = FuelOf(R, T) /\ FuelIn(V, m) = FuelOf(r, T)
  BY <1>1, <1>2, InMemPending
<1>4. R.age \in Nat /\ c.age \in Nat /\ c.quan \in Nat \ {0} /\ R.spe \in Int
  <2>1. R.age \in Nat
    BY FuelAtLeast
  <2>2. c.age \in Int /\ c.quan \in Int /\ R.spe \in Int
    BY <1>2, ObjFields DEF Whole
  <2> QED BY <2>1, <2>2 DEF Whole
<1>5. KindOf(r) = "CANDELABRUM" /\ KindOf(R) = "CANDELABRUM"
  BY <1>1 DEF KindOf, Lost
<1>6. R.spe >= 0 /\ (R.lamplit => R.spe > 0) /\ Waxed(r)
  <2>1. R.spe >= 0 /\ (R.lamplit => R.spe > 0)
    BY <1>5 DEF Waxed
  <2> QED BY <1>1, <1>4, <2>1 DEF Waxed
<1>7. \A n \in Nat : Amount(r, n) = n /\ Amount(R, n) = n
  BY <1>1 DEF Amount, Lost
<1>8. CASE ~R.lamplit
  <2>1. FuelOf(R, T) = R.age /\ FuelOf(r, T) = r.age
    BY <1>1, <1>2, <1>4, <1>7, <1>8, FuelFacts
  <2> QED BY <1>1, <1>3, <1>4, <1>5, <1>6, <2>1 DEF KindIn, V
<1>9. CASE R.lamplit
  <2>1. PICK n \in Nat \ {0} : \A s \in Obj : s.lamplit => FuelOf(s, T) = Amount(s, s.age + n)
    BY <1>9, LitFuel
  <2>2. FuelOf(R, T) = Amount(R, R.age + n) /\ FuelOf(r, T) = Amount(r, r.age + n)
    BY <1>1, <1>2, <1>9, <2>1
  <2> HIDE DEF R, r, T
  <2>3. FuelOf(R, T) = R.age + n /\ FuelOf(r, T) = r.age + n /\ r.age <= R.age
    BY <1>1, <1>4, <1>6, <1>7, <1>9, <2>1, <2>2
  <2>4. FuelIn(V, m) <= FuelIn(U, m)
    BY <1>1, <1>3, <1>4, <2>1, <2>3
  <2> QED BY <1>5, <1>6, <2>4 DEF KindIn, V, R, r
<1> QED BY <1>8, <1>9

\* use_candle: the candles become the candelabrum's.
LEMMA UseCandleFuel ==
    ASSUME IInv, Wicks, PrayerTurns = 0, NEW o \in ObjId, NEW m \in ObjId, UseCandle(o, m)
    PROVE  Wicks' /\ Clock!Handle
<1>1. /\ Good(World) /\ InMem(World, o) /\ monstermoves \in Int /\ World.obj = obj
      /\ obj[o].where = "INVENT" /\ phase = "play" /\ InMem(World, m)
      /\ obj[m].where = "INVENT" /\ m # o
      /\ obj[m].otyp = "CANDELABRUM" /\ obj[o].otyp = "CANDLE"
  BY Reach DEF UseCandle, Carried, HeroActs, Play
<1>2. PICK p \in Portions(o) :
          LET c  == p.w.obj[p.o]
              W1 == [p.w EXCEPT
                       !.obj[m].age = IF obj[m].spe = 0 \/ @ > c.age THEN c.age ELSE @,
                       !.obj[m].spe = @ + c.quan]
              W2 == IF c.lamplit THEN EndBurn(W1, p.o, TRUE) ELSE W1
          IN  Do(Obfree(W2, p.o))
  BY DEF UseCandle
<1> DEFINE q  == p.o
           U  == p.w
           c  == U.obj[q]
           W1 == Candled(U, m, c)
           W2 == IF c.lamplit THEN EndBurn(W1, q, TRUE) ELSE W1
           V  == Obfree(W2, q)
<1>3. /\ q \in ObjId /\ Good(U) /\ InMem(U, q) /\ c.where = "INVENT" /\ c.age = obj[o].age
      /\ m # q /\ InMem(U, m) /\ U.obj[m] = obj[m] /\ Rest(World, U, {o, q})
  BY <1>1, PortionKept DEF Alike
<1>4. Do(V)
  BY <1>2, <1>3 DEF Candled
<1>5. From(U) /\ Like(World, o, U, o)
  BY <1>1, PortionFrom
<1> HIDE DEF q, U
<1>6. Whole(c)
  BY <1>3, GoodFacts
<1>7. Kept(U, W1, m) /\ W1.obj[m].lamplit = U.obj[m].lamplit
  BY <1>3, <1>6, CandledKept
<1>8. /\ FuelIn(W1, m) <= FuelIn(U, m) \/ FuelIn(W1, m) <= c.age
      /\ KindIn(W1, m) = "CANDELABRUM" /\ Waxed(W1.obj[m])
  BY <1>1, <1>3, <1>5, <1>6, CandledFuel DEF From, Lost
<1> HIDE DEF W1
<1>9. Good(W1) /\ InMem(W1, q) /\ W1.obj[q] = c
  BY <1>3, <1>7 DEF Kept, Rest, InMem
<1>10. Good(W2) /\ InMem(W2, q) /\ Rest(W1, W2, {q})
  <2>1. c.lamplit => Kept(W1, EndBurn(W1, q, TRUE), q)
    BY <1>1, <1>3, <1>9, LightFacts
  <2>2. Rest(W1, W1, {q})
    BY <1>9 DEF Rest, Good
  <2> QED BY <1>9, <2>1, <2>2 DEF Kept
<1> HIDE DEF W2
<1>11. Kept(W2, V, q) /\ Lost(V, q)
  BY <1>1, <1>3, <1>10, ObfreeLost
<1> HIDE DEF V, c
<1>12. Rest(W1, V, {q}) /\ Rest(U, V, {m, q}) /\ Good(V)
  <2>1. {q} \cup {q} = {q} /\ {m} \cup {q} = {m, q}
    OBVIOUS
  <2>2. Rest(W1, V, {q})
    BY <1>10, <1>11, <2>1, Compose DEF Kept
  <2> QED BY <1>7, <1>11, <2>1, <2>2, Compose DEF Kept
<1>13. ASSUME NEW x \in ObjId, x \notin {m, q} PROVE Waxed(V.obj[x]) /\ Comes(V, x)
  <2>1. Like(U, x, V, x)
    BY <1>12, <1>13, Untouched
  <2> QED BY <1>5, <2>1, ComesAgain
<1>14. Stays(V, o) \/ Lost(V, o)
  <2>1. CASE q = o
    BY <1>11, <2>1
  <2>2. CASE q # o
    <3>1. Like(U, o, V, o)
      BY <1>1, <1>12, <2>2, Untouched
    <3> QED BY <1>5, <3>1 DEF Stays, Like
  <2> QED BY <2>1, <2>2
<1>15. Like(World, m, U, m) /\ Like(W1, m, V, m) /\ V.obj[m] = W1.obj[m]
  <2>1. Like(World, m, U, m)
    BY <1>1, <1>3, Untouched
  <2>2. Like(W1, m, V, m) /\ V.obj[m] = W1.obj[m]
    BY <1>3, <1>12, Untouched DEF Rest
  <2> QED BY <2>1, <2>2
<1>16. Attached(V, m) /\ Waxed(V.obj[m])
  <2>1. KindIn(World, m) = "CANDELABRUM" /\ KindIn(World, o) = "CANDLE"
    BY <1>1 DEF KindIn, KindOf
  <2>2. KindIn(V, m) = "CANDELABRUM" /\ Waxed(V.obj[m])
    BY <1>8, <1>15 DEF Like
  <2>3. obj[m].lamplit => Burning(World, m)
    BY <1>1, FuelAtLeast DEF Lost
  <2>4. Burning(V, m) => Burning(World, m)
    BY <1>3, <1>7, <1>15, <2>3 DEF Burning
  <2>5. obj[o].age \in Nat /\ obj[o].age <= FuelIn(World, o)
    BY <1>1, FuelAtLeast DEF Lost
  <2>6. FuelIn(V, m) \in Nat /\ FuelIn(World, o) \in Nat /\ FuelIn(World, m) \in Nat
    BY <1>1, <1>12, FuelTypes DEF Good, IInv
  <2>7. FuelIn(V, m) <= FuelIn(World, m) \/ FuelIn(V, m) <= obj[o].age
    BY <1>3, <1>8, <1>15 DEF Like
  <2>8. FuelIn(V, m) <= FuelIn(World, m) \/ FuelIn(V, m) <= FuelIn(World, o)
    BY <2>5, <2>6, <2>7
  <2> QED BY <1>14, <2>1, <2>2, <2>4, <2>8 DEF Attached
<1>17. AllHandled(V)
  BY <1>11, <1>13, <1>16, LostFacts DEF AllHandled, Handled
<1> QED BY <1>1, <1>4, <1>12, <1>17, HandleIs

\* light_cocktail.
LEMMA LightCocktailFuel ==
    ASSUME IInv, Wicks, PrayerTurns = 0, NEW o \in ObjId, LightCocktail(o)
    PROVE  Wicks' /\ Clock!Handle
<1>1. /\ Good(World) /\ InMem(World, o) /\ monstermoves \in Int /\ World.obj = obj
      /\ obj[o].where = "INVENT" /\ phase = "play" /\ here \in Level /\ obj[o].otyp = "POT_OIL"
  BY Reach DEF LightCocktail, Carried, HeroActs, Play, Base
<1>2. From(World)
  BY FromWorld
<1>3. ASSUME obj[o].lamplit
      PROVE  \A W \in AddTo(EndBurn(World, o, TRUE), o, "INVENT", NoLev) :
                 Good(W) /\ AllHandled(W)
  <2> DEFINE V == EndBurn(World, o, TRUE)
  <2>1. Good(V) /\ From(V) /\ InMem(V, o) /\ Still(obj[o], V.obj[o])
    BY <1>1, <1>2, <1>3, EndsFrom
  <2> HIDE DEF V
  <2>2. V.obj[o].where = "INVENT"
    BY <1>1, <2>1 DEF Still
  <2>3. \A w, l : Place(w, l) /\ w # "BURIED"
            => \A X \in AddTo(V, o, w, l) : Good(X) /\ AllHandled(X)
    BY <1>1, <2>1, <2>2, MoveHandled
  <2>4. \A X \in AddTo(V, o, "INVENT", NoLev) : Good(X) /\ AllHandled(X)
    BY <2>3, Places
  <2> QED BY <2>4 DEF V
<1>4. ASSUME ~obj[o].lamplit
      PROVE  LET V == BeginBurn(Paid(World, o), o, FALSE) IN Good(V) /\ From(V)
  BY <1>1, <1>2, <1>4, BuyAndBurnFrom
<1>5. ASSUME ~obj[o].lamplit, NEW p \in Portions(o), p.o # o
      PROVE  LET W1 == BeginBurn(Paid(Paid(p.w, o), p.o), p.o, FALSE)
             IN  \A W \in AddTo(W1, p.o, "INVENT", NoLev) \cup AddTo(W1, p.o, "FLOOR", here) :
                     Good(W) /\ AllHandled(W)
  <2> DEFINE q  == p.o
             U  == p.w
             A  == Paid(U, o)
             W1 == BeginBurn(Paid(A, q), q, FALSE)
  <2>1. /\ q \in ObjId /\ Good(U) /\ From(U) /\ InMem(U, q) /\ InMem(U, o) /\ q # o
        /\ U.obj[q].where = "INVENT" /\ ~U.obj[q].lamplit /\ U.obj[q].otyp = "POT_OIL"
    BY <1>1, <1>5, PortionKept, PortionFrom DEF Alike
  <2> HIDE DEF q, U
  <2>2. Good(A) /\ From(A) /\ InMem(A, q) /\ A.obj[q] = U.obj[q]
    <3>1. Kept(U, A, o) /\ From(A)
      BY <2>1, PaidFrom
    <3> QED BY <2>1, <3>1 DEF Kept, Rest, InMem
  <2> HIDE DEF A
  <2>3. Good(W1) /\ From(W1) /\ Kept(A, W1, q) /\ W1.obj[q].where = "INVENT"
    <3>1. Good(W1) /\ From(W1) /\ Kept(A, W1, q)
      BY <1>1, <2>1, <2>2, BuyAndBurnFrom
    <3>2. Good(Paid(A, q)) /\ InMem(Paid(A, q), q) /\ Same(A.obj[q], Paid(A, q).obj[q])
      BY <2>1, <2>2, PaidFrom
    <3>3. Still(Paid(A, q).obj[q], W1.obj[q])
      BY <1>1, <2>1, <2>2, <3>2, BurnKept DEF Same
    <3> QED BY <2>1, <2>2, <3>1, <3>2, <3>3 DEF Same, Still
  <2> HIDE DEF W1
  <2>4. \A w, l : Place(w, l) /\ w # "BURIED"
            => \A X \in AddTo(W1, q, w, l) : Good(X) /\ AllHandled(X)
    BY <1>1, <2>1, <2>3, MoveHandled DEF Kept
  <2>5. \A X \in AddTo(W1, q, "INVENT", NoLev) \cup AddTo(W1, q, "FLOOR", here) :
            Good(X) /\ AllHandled(X)
    BY <1>1, <2>4, Places
  <2> QED BY <2>5 DEF W1, A, U, q
<1>6. \A V : Good(V) /\ From(V) /\ Do(V) => Wicks' /\ Clock!Handle
  BY <1>1, FromPlay
<1>7. \A V : Good(V) /\ AllHandled(V) /\ Do(V) => Wicks' /\ Clock!Handle
  BY <1>1, HandleIs
<1> QED BY <1>3, <1>4, <1>5, <1>6, <1>7 DEF LightCocktail

\* After something that lets everything keep its fuel, useup.
LEMMA UseupHandled ==
    ASSUME NEW W, Good(W), From(W), NEW p \in ObjId, InMem(W, p), monstermoves \in Int
    PROVE  LET V == Useup(W, p) IN Good(V) /\ AllHandled(V)
<1> DEFINE V == Useup(W, p)
<1>1. Kept(W, V, p) /\ (Like(W, p, V, p) \/ Lost(V, p))
  BY UseupLost
<1> HIDE DEF V
<1>2. ASSUME NEW x \in ObjId PROVE Waxed(V.obj[x]) /\ Handled(V, x)
  <2>1. CASE Like(W, x, V, x)
    BY <2>1, ComesAgain DEF Handled
  <2>2. CASE Lost(V, x)
    BY <2>2, LostFacts DEF Handled
  <2>3. x # p => Like(W, x, V, x)
    BY <1>1, Untouched DEF Kept
  <2> QED BY <1>1, <2>1, <2>2, <2>3
<1> QED BY <1>1, <1>2 DEF Kept, AllHandled, V

\* Oil is poured into a dark lamp.
LEMMA PouredHandled ==
    ASSUME IInv, Wicks, PrayerTurns = 0, phase = "play", NEW o \in ObjId, NEW p \in ObjId,
           InMem(World, o), InMem(World, p), o # p, obj[o].where = "INVENT",
           obj[p].where = "INVENT", obj[p].otyp = "POT_OIL", ~obj[p].lamplit,
           obj[o].otyp \in Lamps, ~obj[o].lamplit, OilAge(o) <= LampFull
    PROVE  LET V == Useup(Filled(World, o, OilType(o), Oil(o, p), 1), p)
           IN  Good(V) /\ AllHandled(V)
<1> DEFINE W == Filled(World, o, OilType(o), Oil(o, p), 1)
           V == Useup(W, p)
<1>1. /\ Good(World) /\ World.obj = obj /\ monstermoves \in Int
  BY WorldIs DEF IInv, Base
<1>2. /\ OilAge(o) \in Int /\ Oil(o, p) \in {OilAge(o) + 2 * obj[p].age, LampCap}
      /\ Kept(World, W, o) /\ W.obj[o].otyp = OilType(o) /\ W.obj[o].age = Oil(o, p)
      /\ W.obj[o].where = "INVENT" /\ ~W.obj[o].lamplit /\ Oil(o, p) \in Int
  BY <1>1, OilKept
<1> HIDE DEF W
<1>3. Good(W) /\ InMem(W, o) /\ InMem(W, p) /\ Like(World, p, W, p)
  <2>1. Good(W) /\ InMem(W, o) /\ Rest(World, W, {o})
    BY <1>2 DEF Kept
  <2>2. InMem(W, p)
    BY <2>1 DEF Rest, InMem
  <2> QED BY <2>1, <2>2, Untouched
<1>4. Kept(W, V, p) /\ (Like(W, p, V, p) \/ Lost(V, p))
  BY <1>1, <1>3, UseupLost
<1> HIDE DEF V
<1>5. Rest(World, V, {o, p}) /\ Good(V) /\ Like(W, o, V, o) /\ V.obj[o] = W.obj[o]
  <2>1. {o} \cup {p} = {o, p}
    OBVIOUS
  <2>2. Rest(World, V, {o, p})
    BY <1>2, <1>4, <2>1, Compose DEF Kept
  <2>3. Like(W, o, V, o) /\ V.obj[o] = W.obj[o]
    BY <1>4, Untouched DEF Kept, Rest
  <2> QED BY <1>4, <2>2, <2>3 DEF Kept
<1>6. Stays(V, p) \/ Lost(V, p)
  BY <1>3, <1>4 DEF Like, Stays
<1>7. Waxed(V.obj[p]) /\ Handled(V, p)
  <2>1. CASE Lost(V, p)
    BY <2>1, LostFacts DEF Handled
  <2>2. CASE Like(W, p, V, p)
    <3>1. Like(World, p, V, p)
      BY <1>3, <2>2, LikeAgain
    <3> QED BY <3>1, FromWorld, ComesAgain DEF Handled
  <2> QED BY <1>4, <2>1, <2>2
<1>8. KindIn(V, o) = OilType(o) /\ KindIn(World, o) = obj[o].otyp /\ Waxed(V.obj[o])
  <2>1. OilType(o) \in Lamps
    BY DEF OilType, Lamps
  <2> QED BY <1>1, <1>2, <1>5, <2>1 DEF KindIn, KindOf, Waxed, Lamps
<1>9. KindIn(World, p) = "POT_OIL" /\ FuelIn(World, p) = obj[p].age /\ obj[p].age \in Nat
  <2>1. obj[p].age \in Nat
    BY <1>1, FuelAtLeast DEF Lost
  <2>2. FuelIn(World, p) = obj[p].age
    BY <1>1, <2>1, DarkFuel DEF Lost
  <2> QED BY <1>1, <2>1, <2>2 DEF KindIn, KindOf
<1>10. FuelIn(W, o) = Amount(W.obj[o], Oil(o, p)) /\ FuelIn(V, o) = FuelIn(W, o)
  BY <1>2, <1>3, <1>5, DarkFuel DEF Like
<1>11. FuelIn(World, o) = Amount(obj[o], obj[o].age)
  BY <1>1, DarkFuel
<1>12. CASE OilType(o) = "MAGIC_LAMP"
  <2>1. FuelIn(V, o) = 0 /\ FuelIn(World, o) = 0 /\ obj[o].otyp = "MAGIC_LAMP"
    BY <1>2, <1>10, <1>11, <1>12 DEF Amount, OilType
  <2>2. Comes(V, o)
    BY <1>8, <1>12, <2>1 DEF Comes, Is1
  <2>3. \A x \in ObjId \cap {o, p} : Waxed(V.obj[x]) /\ Handled(V, x)
    BY <1>7, <1>8, <2>2 DEF Handled
  <2>4. AllHandled(V)
    BY <1>5, <2>3, AllButHandled
  <2>5. Good(V) /\ AllHandled(V)
    BY <1>5, <2>4
  <2> QED BY <2>5 DEF V, W
<1>13. CASE OilType(o) # "MAGIC_LAMP"
  <2>1. OilType(o) = "OIL_LAMP"
    BY <1>13 DEF OilType, Lamps
  <2>2. FuelIn(World, o) = OilAge(o) /\ OilAge(o) \in Nat
    <3>1. obj[o].otyp = "MAGIC_LAMP" => OilAge(o) = 0 /\ FuelIn(World, o) = 0
      BY <1>11, <1>13 DEF OilAge, OilType, Amount
    <3>2. obj[o].otyp # "MAGIC_LAMP" => /\ obj[o].age \in Nat /\ OilAge(o) = obj[o].age
                                        /\ FuelIn(World, o) = obj[o].age
      <4>1. obj[o].otyp # "MAGIC_LAMP" => obj[o].age \in Nat /\ OilAge(o) = obj[o].age
        BY <1>1, FuelAtLeast DEF Lost, OilAge, Emptied
      <4> QED BY <1>1, <4>1, DarkFuel DEF Lost
    <3> QED BY <3>1, <3>2
  <2>3. Oil(o, p) \in OilAge(o) .. OilAge(o) + 2 * obj[p].age
    <3>1. OilAge(o) + 2 * obj[p].age \in Int /\ LampCap \in Int /\ LampFull <= LampCap
          /\ LampFull \in Int
      BY <1>9, <2>2, NumberAssumption
    <3>2. /\ Oil(o, p) <= OilAge(o) + 2 * obj[p].age
      BY <3>1, MinFacts DEF Oil
    <3> QED BY <1>2, <1>9, <2>2, <3>1, <3>2
  <2>4. FuelIn(V, o) = Oil(o, p)
    BY <1>2, <1>10, <2>1, <2>2, <2>3, <1>9 DEF Amount
  <2>5. Refilled(V, o)
    <3>1. KindIn(World, o) \in Lamps /\ KindIn(V, o) = "OIL_LAMP"
      BY <1>8, <2>1
    <3>2. ~World.obj[o].lamplit /\ ~V.obj[o].lamplit
      BY <1>1, <1>2, <1>5
    <3>3. FuelIn(V, o) \in FuelIn(World, o) .. FuelIn(World, o) + 2 * FuelIn(World, p)
      BY <1>9, <2>2, <2>3, <2>4
    <3> QED BY <1>6, <1>9, <3>1, <3>2, <3>3 DEF Refilled
  <2>6. \A x \in ObjId \cap {o, p} : Waxed(V.obj[x]) /\ Handled(V, x)
    BY <1>7, <1>8, <2>5 DEF Handled
  <2>7. AllHandled(V)
    BY <1>5, <2>6, AllButHandled
  <2>8. Good(V) /\ AllHandled(V)
    BY <1>5, <2>7
  <2> QED BY <2>8 DEF V, W
<1> QED BY <1>12, <1>13

\* dodip with a potion of oil.
LEMMA DipIntoOilFuel ==
    ASSUME IInv, Wicks, PrayerTurns = 0, NEW o \in ObjId, NEW p \in ObjId, DipIntoOil(o, p)
    PROVE  Wicks' /\ Clock!Handle
<1>1. /\ Good(World) /\ InMem(World, o) /\ monstermoves \in Int
      /\ obj[o].where = "INVENT" /\ phase = "play" /\ InMem(World, p) /\ o # p
      /\ obj[p].where = "INVENT" /\ World \in Worlds /\ World.obj = obj /\ obj[o] \in Obj
      /\ obj[p].otyp = "POT_OIL"
  BY Reach DEF DipIntoOil, Carried, HeroActs, Play
<1>2. From(World)
  BY FromWorld
<1>3. LET V == Useup(World, p) IN Good(V) /\ AllHandled(V)
  BY <1>1, <1>2, UseupHandled
<1>4. ASSUME Catchable(o)
      PROVE  LET V == Useup(BeginBurn(Paid(World, o), o, FALSE), p) IN Good(V) /\ AllHandled(V)
  <2> DEFINE W == BeginBurn(Paid(World, o), o, FALSE)
  <2>1. ~obj[o].lamplit /\ (obj[o].otyp = "CANDELABRUM" => obj[o].spe > 0)
    <3>1. Waxed(obj[o]) /\ obj[o].spe \in Int
      BY <1>1, ObjFields DEF Wicks
    <3> QED BY <1>1, <1>4, <3>1 DEF Catchable, Waxed, KindOf
  <2>2. Good(W) /\ From(W) /\ Kept(World, W, o)
    BY <1>1, <1>2, <2>1, BuyAndBurnFrom
  <2> HIDE DEF W
  <2>3. InMem(W, p)
    BY <1>1, <2>2 DEF Kept, Rest, InMem
  <2>4. LET V == Useup(W, p) IN Good(V) /\ AllHandled(V)
    BY <1>1, <2>2, <2>3, UseupHandled
  <2> QED BY <2>4 DEF W
<1>5. ASSUME obj[o].otyp \in Lamps, ~obj[o].lamplit, OilAge(o) > LampFull
      PROVE  LET V == Filled(World, o, OilType(o), OilAge(o), 1) IN Good(V) /\ AllHandled(V)
  <2> DEFINE V == Filled(World, o, OilType(o), OilAge(o), 1)
  <2>1. /\ Kept(World, V, o) /\ V.obj[o].otyp = OilType(o) /\ V.obj[o].age = OilAge(o)
        /\ V.obj[o].where = obj[o].where /\ V.obj[o].lamplit = obj[o].lamplit
    BY <1>1, <1>5, OilKept
  <2> HIDE DEF V
  <2>2. OilType(o) = obj[o].otyp /\ OilAge(o) = obj[o].age
    <3>1. ~(OilAge(o) = 0)
      BY <1>5, NumberAssumption
    <3> QED BY <3>1 DEF OilType, OilAge
  <2>3. Like(World, o, V, o)
    <3>1. FuelIn(World, o) = Amount(obj[o], obj[o].age) /\ FuelIn(V, o) = Amount(V.obj[o], V.obj[o].age)
      BY <1>1, <1>5, <2>1, DarkFuel DEF Kept
    <3>2. Amount(V.obj[o], V.obj[o].age) = Amount(obj[o], obj[o].age)
      BY <2>1, <2>2 DEF Amount
    <3>3. KindOf(V.obj[o]) = KindOf(obj[o]) /\ Waxed(V.obj[o])
      BY <1>1, <1>5, <2>1, <2>2 DEF KindOf, Waxed, Lamps
    <3> QED BY <1>1, <3>1, <3>2, <3>3 DEF Like, KindIn
  <2>4. Good(V) /\ AllHandled(V)
    BY <2>1, <2>3, OneHandled DEF Kept
  <2> QED BY <2>4 DEF V
<1>6. ASSUME obj[o].otyp \in Lamps, ~obj[o].lamplit, ~obj[p].lamplit, ~(OilAge(o) > LampFull)
      PROVE  LET V == Useup(Filled(World, o, OilType(o), Oil(o, p), 1), p)
             IN  Good(V) /\ AllHandled(V)
  <2>1. OilAge(o) <= LampFull
    <3>1. OilAge(o) \in Int /\ LampFull \in Int
      BY <1>1, <1>6, OilKept, NumberAssumption
    <3> QED BY <1>6, <3>1
  <2> QED BY <1>1, <1>6, <2>1, PouredHandled
<1>7. \A V : Good(V) /\ AllHandled(V) /\ Do(V) => Wicks' /\ Clock!Handle
  BY <1>1, HandleIs
<1> QED BY <1>1, <1>3, <1>4, <1>5, <1>6, <1>7, DipIs

(***************************************************************************)
(* The timers are run: a burn that only pauses goes on, a late expiry is   *)
(* made up for, and what is burnt down or rotten is no more.               *)
(***************************************************************************)
\* The burn goes on.
Relit(V, o) == BeginBurn(V, o, TRUE)

Bright(V, o) == V.obj[o].lamplit

\* What is lit again burns, with the fuel that was left.
LEMMA RelitFuel ==
    ASSUME NEW W, NEW V, NEW o \in ObjId, Expired(W, V, o), V.obj[o].age # 0,
           monstermoves \in Int
    PROVE  LET U == Relit(V, o)
           IN  /\ Kept(W, U, o) /\ Still(V.obj[o], U.obj[o]) /\ Bright(U, o)
               /\ FuelIn(U, o) = Amount(V.obj[o], V.obj[o].age)
<1> DEFINE U == BeginBurn(V, o, TRUE)
           R == V.obj[o]
           k == Turns(R.otyp, R.age)
<1>1. Kept(W, U, o)
  BY RelitKept
<1>2. /\ V \in Worlds /\ V.impossible = FALSE /\ Spent(V, o) /\ R \in Obj
      /\ R.otyp # "MAGIC_LAMP" /\ R.age # 0
  BY WorldFields DEF Expired, Rest, Spent
<1>3. \A lit \in BOOLEAN : Ready(V, o, lit) =>
          LET X == BeginBurn(V, o, lit)
          IN  /\ FuelOf(X.obj[o], Of(X.timer_base, o)) = Amount(V.obj[o], V.obj[o].age)
              /\ Still(V.obj[o], X.obj[o])
  BY <1>2, BeginBurnFuel, BeginBurnKeeps
<1>4. Ready(V, o, TRUE)
  BY <1>2 DEF Ready
<1>5. /\ FuelOf(U.obj[o], Of(U.timer_base, o)) = Amount(R, R.age)
      /\ Still(R, U.obj[o])
  BY <1>3, <1>4
<1>6. Bright(U, o)
  <2> DEFINE X == [[StartTimer(V, k, "BURN_OBJECT", o) EXCEPT !.obj[o].age = @ - k]
                      EXCEPT !.obj[o].lamplit = TRUE]
  <2>1. U = X
    BY <1>2 DEF BeginBurn
  <2>2. k \in Int
    <3>1. R.age \in Int /\ (PrayerTurns = 0 => R.age >= 0)
      BY <1>2, ObjFields
         DEF Spent, Balanced, Whole
    <3> QED BY <3>1, TurnsFacts
  <2>3. X.obj[o].lamplit = TRUE
    <3> HIDE DEF k
    <3>1. LET A == StartTimer(V, k, "BURN_OBJECT", o)
              B == [A EXCEPT !.obj[o].age = @ - k]
              Y == [B EXCEPT !.obj[o].lamplit = TRUE]
          IN  Y.obj[o].lamplit = TRUE
      BY <1>2, <2>2, FlameIs
    <3> QED BY <3>1, Zenon
  <2> HIDE DEF X, U
  <2> QED BY <2>1, <2>3 DEF Bright
<1> HIDE DEF U
<1>7. FuelIn(U, o) = FuelOf(U.obj[o], Of(U.timer_base, o))
  BY <1>1, InMemPending DEF Kept
<1> QED BY <1>1, <1>5, <1>6, <1>7 DEF U, Relit

\* V is W but for o, which burns or does not burn as before, or is oil or wax and
\* no more.
Settled(W, V, o) ==
    /\ Kept(W, V, o)
    /\ \/ Lost(V, o) /\ KindIn(W, o) \in {"POT_OIL", "CANDLE"}
       \/ Like(W, o, V, o) /\ Burning(V, o) = Burning(W, o)

\* burn_object.
LEMMA BurnObjectFuel ==
    ASSUME NEW W, Good(W), NEW o \in ObjId, InMem(W, o), NEW t \in Of(W.timer_base, o),
           t.func = "BURN_OBJECT", t \in Timer, t.timeout <= monstermoves,
           monstermoves \in Int, PrayerTurns = 0
    PROVE  Settled(W, BurnObject(Without(W, t, o), o, t.timeout), o)
<1> DEFINE V == Without(W, t, o)
           R == W.obj[o]
           r == V.obj[o]
           late == monstermoves - t.timeout
           rest == r.age - late
           A == [V EXCEPT !.obj[o].age = rest]
<1>1. Same(R, r) /\ Expired(W, V, o) /\ R \in Obj /\ r \in Obj
  <2>1. Spent(V, o) /\ Rest(W, V, {o}) /\ Same(R, r) /\ r \in Obj
    BY BurnGone, WithoutIs
  <2> QED BY <2>1, GoodFacts DEF Expired, Rest, InMem
<1>2. /\ t.timeout \in Int /\ late \in Int /\ late >= 0 /\ r.age \in Int /\ rest \in Int
      /\ R.age = r.age /\ R.lamplit /\ R.otyp # "MAGIC_LAMP"
  <2>1. t.timeout \in Int
    BY TimerFields
  <2>2. r.age \in Int
    BY <1>1, ObjFields
  <2>3. R.lamplit /\ R.otyp # "MAGIC_LAMP" /\ R.age = r.age
    BY <1>1 DEF Expired, Spent, Same
  <2> QED BY <2>1, <2>2, <2>3
<1>3. FuelIn(W, o) = Amount(R, rest)
  <2>1. FuelIn(W, o) = FuelOf(R, Of(W.timer_base, o))
    BY InMemPending
  <2>2. \A u \in Of(W.timer_base, o) : u.func = "BURN_OBJECT" => u = t
    BY DEF InMem, Agrees, Balanced
  <2>3. FuelOf(R, Of(W.timer_base, o)) = Amount(R, R.age + t.timeout - monstermoves)
    BY <1>1, <1>2, <2>2, FuelBurning
  <2> QED BY <1>2, <2>1, <2>3
<1>4. BurnObject(V, o, t.timeout)
          = IF late # 0
            THEN IF late >= r.age THEN BurntOut(V, o) ELSE Relit(A, o)
            ELSE IF r.otyp = "POT_OIL" \/ r.age = 0
                 THEN BurntOut(V, o) ELSE Relit(V, o)
  BY DEF BurnObject, Relit
<1>5. rest > 0 => /\ Expired(W, A, o) /\ A.obj[o].age = rest
                  /\ Still(r, A.obj[o])
  <2> SUFFICES ASSUME rest > 0
               PROVE  Expired(W, A, o) /\ A.obj[o].age = rest /\ Still(r, A.obj[o])
    OBVIOUS
  <2>1. Still(r, A.obj[o])
    <3>1. A.obj[o] = [r EXCEPT !.age = rest]
      <4>1. V \in Worlds
        BY <1>1 DEF Expired
      <4> HIDE DEF V, rest
      <4> QED BY <4>1 DEF Worlds
    <3> HIDE DEF A, r
    <3> QED BY <1>1, <3>1 DEF Still, Obj
  <2> DEFINE a == rest
  <2>2. a \in Int /\ a >= 0
    BY <1>2
  <2> HIDE DEF V, a
  <2>3. LET X == [V EXCEPT !.obj[o].age = a] IN Expired(W, X, o) /\ X.obj[o].age = a
    BY <1>1, <2>2, ExpiredAge
  <2> QED BY <2>1, <2>3 DEF a
<1> HIDE DEF V, A, R, r, rest, late
\* a burn that goes on
<1>6. ASSUME NEW X, Expired(W, X, o), Still(r, X.obj[o]), X.obj[o].age = rest, rest # 0
      PROVE  Settled(W, Relit(X, o), o)
  <2> DEFINE U == Relit(X, o)
  <2>1. /\ Kept(W, U, o) /\ Still(X.obj[o], U.obj[o]) /\ Bright(U, o)
        /\ FuelIn(U, o) = Amount(X.obj[o], rest)
    BY <1>6, RelitFuel
  <2> HIDE DEF U
  <2>2. U.obj[o].otyp = R.otyp /\ U.obj[o].where = R.where /\ U.obj[o].spe = R.spe
        /\ X.obj[o].otyp = R.otyp /\ X.obj[o].where = R.where
    BY <1>1, <1>6, <2>1 DEF Still, Same
  <2>3. FuelIn(U, o) = FuelIn(W, o)
    BY <1>3, <2>1, <2>2 DEF Amount
  <2>4. Like(W, o, U, o)
    BY <1>2, <2>1, <2>2, <2>3 DEF Like, KindIn, KindOf, Waxed, R
  <2>5. Burning(U, o) = Burning(W, o)
    BY <1>2, <2>1, <2>3 DEF Burning, Bright, R
  <2> QED BY <2>1, <2>4, <2>5 DEF Settled, U
\* a burn that is over
<1>7. ASSUME rest <= 0 \/ r.otyp = "POT_OIL"
      PROVE  Settled(W, BurntOut(V, o), o)
  <2> DEFINE U == BurntOut(V, o)
             s == U.obj[o]
  <2>1. /\ Kept(W, U, o)
        /\ r.otyp \in {"CANDLE", "POT_OIL"} => s.where \in {"FREE", "ONBILL"}
        /\ r.otyp \notin {"CANDLE", "POT_OIL"} =>
               /\ s.otyp = r.otyp /\ s.where = r.where
               /\ s.lamplit = FALSE /\ s.age = 0
               /\ s.otyp = "CANDELABRUM" => s.spe = 0
    BY <1>1, BurntOutKept DEF r
  <2> HIDE DEF U
  <2>2. CASE r.otyp \in {"CANDLE", "POT_OIL"}
    <3>1. KindIn(W, o) = r.otyp
      <4>1. R.where \notin {"FREE", "ONBILL"}
        BY <1>2, GoodFacts DEF R
      <4> QED BY <1>1, <4>1 DEF KindIn, KindOf, Same, R
    <3> QED BY <2>1, <2>2, <3>1 DEF Settled, U, Lost
  <2>3. CASE r.otyp \notin {"CANDLE", "POT_OIL"}
    <3>1. FuelIn(W, o) = 0
      BY <1>2, <1>3, <1>7, <2>3 DEF Amount, rest
    <3>2. FuelIn(U, o) = 0
      <4>1. s \in Obj
        BY <2>1, GoodFacts DEF Kept
      <4>2. FuelIn(U, o) = FuelOf(s, Of(U.timer_base, o))
        BY <2>1, InMemPending DEF Kept
      <4> HIDE DEF s
      <4>3. FuelOf(s, Of(U.timer_base, o)) = Amount(s, s.age)
        BY <2>1, <2>3, <4>1, FuelFacts
      <4> QED BY <2>1, <2>3, <4>2, <4>3 DEF Amount
    <3>3. Like(W, o, U, o)
      BY <1>1, <2>1, <2>3, <3>1, <3>2 DEF Like, KindIn, KindOf, Waxed, Same, R
    <3>4. Burning(U, o) = Burning(W, o)
      BY <3>1, <3>2 DEF Burning
    <3> QED BY <2>1, <3>3, <3>4 DEF Settled, U
  <2> QED BY <2>2, <2>3
<1>8. CASE late # 0 /\ late >= r.age
  <2>1. rest <= 0
    BY <1>2, <1>8 DEF rest
  <2> QED BY <1>4, <1>7, <1>8, <2>1 DEF V
<1>9. CASE late # 0 /\ ~(late >= r.age)
  <2>1. rest > 0 /\ rest # 0
    BY <1>2, <1>9 DEF rest
  <2>2. Settled(W, Relit(A, o), o)
    BY <1>5, <1>6, <2>1
  <2> QED BY <1>4, <1>9, <2>2 DEF V
<1>10. CASE late = 0 /\ (r.otyp = "POT_OIL" \/ r.age = 0)
  <2>1. r.otyp = "POT_OIL" \/ rest <= 0
    BY <1>2, <1>10 DEF rest
  <2> QED BY <1>4, <1>7, <1>10, <2>1 DEF V
<1>11. CASE late = 0 /\ ~(r.otyp = "POT_OIL" \/ r.age = 0)
  <2>1. rest = r.age /\ rest # 0
    BY <1>2, <1>11 DEF rest
  <2>2. Settled(W, Relit(V, o), o)
    BY <1>1, <1>6, <2>1 DEF Still, r
  <2> QED BY <1>4, <1>11, <2>2 DEF V
<1> QED BY <1>8, <1>9, <1>10, <1>11

\* Such a step is one that the clock allows while the game catches up.
LEMMA CatchUpIs ==
    ASSUME IInv, Wicks, phase = "timers", NEW o \in ObjId, NEW V, Settled(World, V, o), Do(V)
    PROVE  Wicks' /\ Clock!CatchUp
<1> DEFINE kind == [x \in ObjId |-> IF Gone(x) THEN "NONE" ELSE obj[x].otyp]
           lit  == [x \in ObjId |-> obj[x].lamplit /\ Left(x) > 0]
           fuel == [x \in ObjId |-> Left(x)]
<1>1. /\ \A x \in ObjId : kind[x] = KindIn(World, x) /\ fuel[x] = FuelIn(World, x)
      /\ \A x \in ObjId : lit[x] = Burning(World, x)
  BY LeftIs
<1>2. /\ \A x \in ObjId : kind'[x] = KindIn(V, x) /\ fuel'[x] = FuelIn(V, x)
      /\ \A x \in ObjId : lit'[x] = Burning(V, x)
  BY LeftThere
<1>3. /\ kind = [x \in ObjId |-> kind[x]] /\ kind' = [x \in ObjId |-> kind'[x]]
      /\ lit = [x \in ObjId |-> lit[x]] /\ lit' = [x \in ObjId |-> lit'[x]]
      /\ fuel = [x \in ObjId |-> fuel[x]] /\ fuel' = [x \in ObjId |-> fuel'[x]]
  OBVIOUS
<1>4. monstermoves' = monstermoves /\ (phase = "timers")' \in BOOLEAN
  BY DEF Do
<1>5. Clock!CatchUp <=>
        /\ (phase = "timers")' \in BOOLEAN /\ monstermoves' = monstermoves
        /\ \/ kind' = kind /\ lit' = lit /\ fuel' = fuel
           \/ \E x \in ObjId : /\ phase = "timers"
                               /\ kind[x] \in {"POT_OIL", "CANDLE"}
                               /\ kind' = [kind EXCEPT ![x] = "NONE"]
                               /\ lit' = [lit EXCEPT ![x] = FALSE]
                               /\ fuel' = [fuel EXCEPT ![x] = 0]
  BY DEF Clock!CatchUp
<1> HIDE DEF kind, lit, fuel
<1>6. ASSUME NEW x \in ObjId, x # o
      PROVE  Like(World, x, V, x) /\ Burning(V, x) = Burning(World, x)
  <2>1. Rest(World, V, {o})
    BY DEF Settled, Kept
  <2>2. Like(World, x, V, x)
    BY <1>6, <2>1, Untouched
  <2>3. V.obj[x] = World.obj[x]
    BY <1>6, <2>1 DEF Rest
  <2> QED BY <2>2, <2>3 DEF Like, Burning
<1>7. Wicks'
  <2>1. \A x \in ObjId : Waxed(V.obj[x])
    BY <1>6, WorldIs, LostFacts DEF Settled, Like, Wicks
  <2> QED BY <2>1 DEF Wicks, Do, Becomes
<1>8. CASE Like(World, o, V, o) /\ Burning(V, o) = Burning(World, o)
  <2>1. \A x \in ObjId : kind'[x] = kind[x] /\ fuel'[x] = fuel[x] /\ lit'[x] = lit[x]
    BY <1>1, <1>2, <1>6, <1>8 DEF Like
  <2>2. kind' = kind /\ lit' = lit /\ fuel' = fuel
    BY <1>3, <2>1
  <2> QED BY <1>4, <1>5, <1>7, <2>2
<1>9. CASE Lost(V, o) /\ KindIn(World, o) \in {"POT_OIL", "CANDLE"}
  <2>1. kind'[o] = "NONE" /\ fuel'[o] = 0 /\ lit'[o] = FALSE
    <3>1. KindIn(V, o) = "NONE" /\ FuelIn(V, o) = 0
      BY <1>9, LostFacts
    <3>2. Burning(V, o) = FALSE
      BY <3>1 DEF Burning
    <3> QED BY <1>2, <3>1, <3>2
  <2>2. \A x \in ObjId : x # o => kind'[x] = kind[x] /\ fuel'[x] = fuel[x] /\ lit'[x] = lit[x]
    BY <1>1, <1>2, <1>6 DEF Like
  <2>3. /\ kind' = [kind EXCEPT ![o] = "NONE"] /\ lit' = [lit EXCEPT ![o] = FALSE]
        /\ fuel' = [fuel EXCEPT ![o] = 0]
    BY <1>3, <2>1, <2>2
  <2>4. phase = "timers" /\ kind[o] \in {"POT_OIL", "CANDLE"}
    BY <1>1, <1>9
  <2> QED BY <1>4, <1>5, <1>7, <2>3, <2>4
<1> QED BY <1>8, <1>9 DEF Settled

\* A round of run_timers.
LEMMA RunTimerFuel ==
    ASSUME IInv, Wicks, PrayerTurns = 0, NEW t \in timer_base, RunTimer(t)
    PROVE  Wicks' /\ Clock!CatchUp
<1>1. /\ Base /\ Good(World) /\ World.timer_base = timer_base /\ World \in Worlds
      /\ monstermoves \in Int /\ phase = "timers"
  BY WorldIs DEF IInv, Good, Base, RunTimer
<1>2. /\ t \in Timer /\ t.arg \in ObjId /\ t.timeout \in Int /\ t.timeout <= monstermoves
      /\ t.func \in Func
  <2>1. t \in Timer
    BY <1>1 DEF Worlds
  <2> QED BY <2>1, TimerFields DEF RunTimer, Due
<1> DEFINE o == t.arg
           V == Without(World, t, o)
<1>3. Do(Callback(V, t))
  BY DEF RunTimer, Do, Without
<1>4. t \in Of(World.timer_base, o) /\ InMem(World, o)
  <2>1. t \in Of(World.timer_base, o)
    BY <1>1 DEF Of
  <2> HIDE DEF o
  <2> QED BY <1>1, <1>2, <2>1, GoodFacts DEF o
<1> HIDE DEF o, V
<1>5. Settled(World, Callback(V, t), o)
  <2>1. CASE t.func = "BURN_OBJECT"
    <3>1. Settled(World, BurnObject(V, o, t.timeout), o)
      BY <1>1, <1>2, <1>4, <2>1, BurnObjectFuel DEF V, o
    <3> QED BY <2>1, <3>1 DEF Callback, o
  <2>2. CASE t.func = "ROT_ORGANIC"
    <3>1. Kept(World, V, o)
      BY <1>1, <1>2, <1>4, <2>2, RotGone DEF V, o
    <3>2. Kept(V, Obfree(V, o), o) /\ Lost(Obfree(V, o), o)
      BY <1>1, <1>2, <3>1, ObfreeLost DEF Kept, o
    <3>3. Kept(World, Obfree(V, o), o)
      BY <3>1, <3>2, KeptAgain
    <3>4. KindIn(World, o) \in {"POT_OIL", "CANDLE"}
      <4>1. HasRot(Of(World.timer_base, o))
        BY <1>4, <2>2 DEF HasRot
      <4>2. /\ World.obj[o].where = "BURIED"
            /\ World.obj[o].otyp \in {"POT_OIL", "CANDLE"}
        BY <1>4, <4>1 DEF InMem, Agrees, Balanced
      <4> QED BY <4>2 DEF KindIn, KindOf
    <3> QED BY <2>2, <3>2, <3>3, <3>4 DEF Callback, Settled, o
  <2> QED BY <1>2, <2>1, <2>2 DEF Func
<1> QED BY <1>1, <1>2, <1>3, <1>5, CatchUpIs DEF o

(***************************************************************************)
(* What moves timers about without running them, and the passing of time.  *)
(***************************************************************************)
\* What the clock shows of an object.
Shown(x) == <<IF Gone(x) THEN "NONE" ELSE obj[x].otyp, obj[x].lamplit /\ Left(x) > 0, Left(x)>>

\* What the clock shows of an object depends on a few fields and its timers.
LEMMA SameShown ==
    ASSUME NEW x \in ObjId, monstermoves' = monstermoves, NEW r, r = obj[x], NEW s, s = obj'[x],
           s.otyp = r.otyp, s.age = r.age, s.lamplit = r.lamplit, s.spe = r.spe,
           s.where \in {"FREE", "ONBILL"} <=> r.where \in {"FREE", "ONBILL"},
           Pending(x)' = Pending(x)
    PROVE  Shown(x)' = Shown(x) /\ (Waxed(r) => Waxed(s))
<1>1. Burns(x)' = Burns(x)
  BY DEF Burns
<1>2. Gone(x)' <=> Gone(x)
  BY DEF Gone
<1>3. Left(x)' = Left(x)
  BY <1>1, <1>2 DEF Left
<1>4. (IF Gone(x) THEN "NONE" ELSE obj[x].otyp)' = IF Gone(x) THEN "NONE" ELSE obj[x].otyp
  BY <1>2
<1>5. (obj[x].lamplit /\ Left(x) > 0)' = (obj[x].lamplit /\ Left(x) > 0)
  BY <1>3
<1> QED BY <1>3, <1>4, <1>5 DEF Shown, Waxed, KindOf

\* Nothing shows of what is no more.
LEMMA GoneShown ==
    ASSUME NEW x \in ObjId, Gone(x), Gone(x)'
    PROVE  Shown(x)' = Shown(x) /\ Waxed(obj'[x])
<1>1. Left(x) = 0 /\ Left(x)' = 0
  BY DEF Left
<1>2. (obj[x].lamplit /\ Left(x) > 0) = FALSE /\ (obj[x].lamplit /\ Left(x) > 0)' = FALSE
  BY <1>1
<1> QED BY <1>1, <1>2 DEF Shown, Gone, Waxed, KindOf

\* If nothing changes on it, the game at most starts or stops to catch up.
LEMMA QuietIs ==
    ASSUME monstermoves' = monstermoves,
           \A x \in ObjId : Shown(x)' = Shown(x) /\ (Waxed(obj[x]) => Waxed(obj'[x]))
    PROVE  (Wicks => Wicks') /\ Clock!CatchUp
<1>1. \A x \in ObjId :
         /\ (IF Gone(x) THEN "NONE" ELSE obj[x].otyp)' = (IF Gone(x) THEN "NONE" ELSE obj[x].otyp)
         /\ (obj[x].lamplit /\ Left(x) > 0)' = (obj[x].lamplit /\ Left(x) > 0)
         /\ Left(x)' = Left(x)
  BY DEF Shown
<1>2. /\ [x \in ObjId |-> IF Gone(x) THEN "NONE" ELSE obj[x].otyp]'
            = [x \in ObjId |-> IF Gone(x) THEN "NONE" ELSE obj[x].otyp]
      /\ [x \in ObjId |-> obj[x].lamplit /\ Left(x) > 0]'
            = [x \in ObjId |-> obj[x].lamplit /\ Left(x) > 0]
      /\ [x \in ObjId |-> Left(x)]' = [x \in ObjId |-> Left(x)]
  BY <1>1
<1>3. (phase = "timers")' \in BOOLEAN
  OBVIOUS
<1>4. Clock!CatchUp
  BY <1>2, <1>3 DEF Clock!CatchUp
<1> QED BY <1>4 DEF Wicks

\* Objects, timers and level files are as they were.
LEMMA AsTheyWere ==
    ASSUME obj' = obj, timer_base' = timer_base, levelfile' = levelfile,
           monstermoves' = monstermoves
    PROVE  \A x \in ObjId : Shown(x)' = Shown(x) /\ (Waxed(obj[x]) => Waxed(obj'[x]))
<1> SUFFICES ASSUME NEW x \in ObjId
             PROVE  Shown(x)' = Shown(x) /\ (Waxed(obj[x]) => Waxed(obj'[x]))
  OBVIOUS
<1>1. Pending(x)' = Pending(x)
  BY DEF Pending
<1> QED BY <1>1, SameShown

\* run_timers is done.
LEMMA RunTimersDoneFuel ==
    ASSUME Wicks, RunTimersDone
    PROVE  Wicks' /\ Clock!CatchUp
BY AsTheyWere, QuietIs DEF RunTimersDone

\* dosave0 and dorecover.
LEMMA SaveAndRestoreFuel ==
    ASSUME Wicks, SaveAndRestore
    PROVE  Wicks' /\ Clock!CatchUp
BY AsTheyWere, QuietIs DEF SaveAndRestore

\* setpaid moves no timer.
LEMMA SetPaidIs ==
    ASSUME NEW W
    PROVE  /\ SetPaid(W).timer_base = W.timer_base
           /\ \A o \in ObjId : W.obj[o].where = "ONBILL" => SetPaid(W).obj[o] = Freed
BY DEF SetPaid

\* Across a level change, each object keeps the timers it has, wherever they are kept.
LEMMA PendingKept ==
    ASSUME NEW W, W.timer_base = timer_base, NEW l \in Level, here \in Level, l # here,
           levelfile[here] = EmptyFile,
           NEW F, NEW stay, NEW where, GoesTo(W, l, F, stay, where), NEW o \in ObjId
    PROVE  Pending(o)' = Pending(o)
<1>1. \A t : t \in Pending(o)
                <=> t \in Of(timer_base, o) \/ \E k \in Level : t \in Of(levelfile[k].timers, o)
  BY DEF Pending, Of
<1>2. \A t : t \in Pending(o)'
                <=> t \in Of(timer_base', o) \/ \E k \in Level : t \in Of(levelfile'[k].timers, o)
  BY DEF Pending, Of
<1>3. /\ Of(timer_base', o) = (IF o \in stay THEN {} ELSE Of(timer_base, o))
                                  \cup Of(levelfile[l].timers, o)
      /\ Of(levelfile'[l].timers, o) = {}
      /\ Of(levelfile'[here].timers, o) = IF o \in stay THEN Of(timer_base, o) ELSE {}
      /\ \A k \in Level \ {l, here} : levelfile'[k] = levelfile[k]
  BY DEF GoesTo
<1>4. Of(levelfile[here].timers, o) = {}
  BY DEF EmptyFile, Of
<1>5. \A t : t \in Pending(o)' <=> t \in Pending(o)
  <2> SUFFICES ASSUME NEW t PROVE t \in Pending(o)' <=> t \in Pending(o)
    OBVIOUS
  <2>1. (\E k \in Level : t \in Of(levelfile[k].timers, o))
            <=> \/ t \in Of(levelfile[l].timers, o)
                \/ \E k \in Level \ {l, here} : t \in Of(levelfile[k].timers, o)
    BY <1>4
  <2>2. (\E k \in Level : t \in Of(levelfile'[k].timers, o))
            <=> \/ o \in stay /\ t \in Of(timer_base, o)
                \/ \E k \in Level \ {l, here} : t \in Of(levelfile[k].timers, o)
    BY <1>3
  <2> QED BY <1>1, <1>2, <1>3, <2>1, <2>2
<1> QED BY <1>5 DEF Pending

\* goto_level.
LEMMA GotoLevelFuel ==
    ASSUME IInv, Wicks, NEW l \in Level, NEW F \in SUBSET ObjId, GotoLevel(l, F)
    PROVE  Wicks' /\ Clock!CatchUp
<1> DEFINE W    == SetPaid(World)
           stay == {o \in ObjId : ObjIsLocal(W, o, F)}
<1>1. \E where \in {"FLOOR", "MINVENT"} : GoesTo(W, l, F, stay, where)
  BY GotoLevelIs
<1>2. /\ Good(W) /\ W.timer_base = timer_base
      /\ \A o \in ObjId : obj[o].where # "ONBILL" => Same(obj[o], W.obj[o])
      /\ \A o \in ObjId : obj[o].where = "ONBILL" => W.obj[o] = Freed
  <2>1. Good(World) /\ World.obj = obj /\ World.timer_base = timer_base
    BY WorldIs DEF IInv
  <2> QED BY <2>1, SetPaidGood, SetPaidIs
<1>3. /\ l # here /\ here \in Level /\ levelfile[here] = EmptyFile
      /\ monstermoves' = monstermoves
      /\ \A o \in F : obj[o].where = "MINVENT"
  BY DEF GotoLevel, At, IInv, Base
<1> HIDE DEF W, stay
<1>4. PICK where \in {"FLOOR", "MINVENT"} : GoesTo(W, l, F, stay, where)
  BY <1>1
<1>5. ASSUME NEW o \in ObjId
      PROVE  Shown(o)' = Shown(o) /\ (Waxed(obj[o]) => Waxed(obj'[o]))
  <2> DEFINE R == W.obj[o]
             r == obj'[o]
  <2>1. R \in Obj
    BY <1>2, GoodFacts
  <2>2. r = CASE o \in F -> [R EXCEPT !.lev = l]
              [] R.where = "MIGRATING" /\ R.lev = l -> [R EXCEPT !.where = where]
              [] OTHER -> R
    BY <1>4 DEF GoesTo
  <2> HIDE DEF R, r
  <2>3. CASE obj[o].where = "ONBILL"
    <3>1. o \notin F /\ R.where = "FREE"
      BY <1>2, <1>3, <2>3, FreedFacts DEF R
    <3>2. r.where = "FREE"
      BY <2>2, <3>1
    <3>3. Gone(o) /\ Gone(o)'
      BY <2>3, <3>2 DEF Gone, r
    <3> QED BY <3>3, GoneShown
  <2>4. CASE obj[o].where # "ONBILL"
    <3>1. /\ r.otyp = R.otyp /\ r.age = R.age /\ r.lamplit = R.lamplit /\ r.spe = R.spe
          /\ r.where = R.where \/ (R.where = "MIGRATING" /\ r.where = where)
      <4>1. CASE o \in F
        <5>1. R.where = "MINVENT"
          BY <1>2, <1>3, <4>1 DEF Same, R
        <5>2. r = [R EXCEPT !.lev = l]
          BY <2>2, <4>1, <5>1
        <5> QED BY <2>1, <5>2 DEF Obj
      <4>2. CASE o \notin F /\ R.where = "MIGRATING" /\ R.lev = l
        <5>1. r = [R EXCEPT !.where = where]
          BY <2>2, <4>2
        <5> QED BY <2>1, <4>2, <5>1 DEF Obj
      <4>3. CASE o \notin F /\ ~(R.where = "MIGRATING" /\ R.lev = l)
        BY <2>2, <4>3
      <4> QED BY <4>1, <4>2, <4>3
    <3>2. Same(obj[o], R)
      BY <1>2, <2>4 DEF R
    <3>3. /\ r.otyp = obj[o].otyp /\ r.age = obj[o].age /\ r.lamplit = obj[o].lamplit
          /\ r.spe = obj[o].spe
          /\ r.where \in {"FREE", "ONBILL"} <=> obj[o].where \in {"FREE", "ONBILL"}
      BY <3>1, <3>2 DEF Same
    <3>4. Pending(o)' = Pending(o)
      BY <1>2, <1>3, <1>4, PendingKept
    <3> QED BY <1>3, <3>3, <3>4, SameShown DEF r
  <2> QED BY <2>3, <2>4
<1> QED BY <1>3, <1>5, QuietIs

\* moveloop's new turn: a turn of fuel is used by all that burns.
LEMMA NewTurnFuel ==
    ASSUME IInv, Wicks, PrayerTurns = 0, NewTurn
    PROVE  Wicks' /\ Clock!Pass
<1>1. /\ obj' = obj /\ timer_base' = timer_base /\ levelfile' = levelfile
      /\ monstermoves' = monstermoves + 1 /\ monstermoves \in Int /\ phase = "play"
  BY DEF NewTurn, Play, IInv, Base
<1>2. ASSUME NEW x \in ObjId
      PROVE  /\ (IF Gone(x) THEN "NONE" ELSE obj[x].otyp)'
                    = IF Gone(x) THEN "NONE" ELSE obj[x].otyp
             /\ Left(x)' = IF obj[x].lamplit /\ Left(x) > 0 THEN Left(x) - 1 ELSE Left(x)
             /\ (obj[x].lamplit /\ Left(x) > 0)' = ((obj[x].lamplit /\ Left(x) > 0) /\ Left(x) > 1)
  <2> DEFINE r == obj[x]
             T == Pending(x)
  <2>1. PICK n \in Nat : Agrees(r, T, n)
    BY ObjectAccount
  <2>2. r \in Obj /\ r.age \in Int /\ r.lamplit \in BOOLEAN
    <3>1. r \in Obj
      BY <2>1 DEF Agrees, Balanced, Whole
    <3> HIDE DEF r
    <3> QED BY <3>1, ObjFields
  <2>3. Burns(x) = Flames(T) /\ Burns(x)' = Burns(x) /\ (Gone(x)' <=> Gone(x))
    BY <1>1 DEF Burns, Flames, Pending, Gone
  <2>4. (IF Gone(x) THEN "NONE" ELSE obj[x].otyp)' = IF Gone(x) THEN "NONE" ELSE obj[x].otyp
    BY <1>1, <2>3
  <2>5. CASE r.otyp = "MAGIC_LAMP" \/ Gone(x)
    <3>1. Left(x) = 0 /\ Left(x)' = 0
      BY <1>1, <2>3, <2>5 DEF Left
    <3> QED BY <2>4, <3>1
  <2>6. CASE ~r.lamplit
    <3>1. Left(x)' = Left(x)
      BY <1>1, <2>3, <2>6 DEF Left
    <3> QED BY <1>1, <2>4, <2>6, <3>1
  <2>7. CASE r.lamplit /\ r.otyp # "MAGIC_LAMP" /\ ~Gone(x)
    <3>1. PICK t \in T : t.func = "BURN_OBJECT"
      BY <2>1, <2>7 DEF Agrees, Balanced, HasBurn
    <3>2. \A u \in T : u.func = "BURN_OBJECT" => u = t
      BY <2>1, <3>1 DEF Agrees, Balanced
    <3>3. t.timeout \in Int
      BY <2>1, <3>1, TimerFields DEF Agrees, Balanced
    <3>4. Flames(T) = {t}
      BY <3>1, <3>2 DEF Flames
    <3>5. Burns(x) # {} /\ (CHOOSE u \in Burns(x) : TRUE) = t
      BY <2>3, <3>4
    <3> DEFINE k == r.age + t.timeout - monstermoves
               m == r.age + t.timeout - (monstermoves + 1)
    <3>6. Left(x) = IF k < 0 THEN 0 ELSE k
      BY <2>7, <3>5 DEF Left
    <3>7. Left(x)' = IF m < 0 THEN 0 ELSE m
      <4>1. Burns(x)' # {} /\ (CHOOSE u \in Burns(x)' : TRUE) = t
        BY <2>3, <3>5
      <4>2. Left(x)' = LET left == obj[x].age + (CHOOSE u \in Burns(x)' : TRUE).timeout
                                       - (monstermoves + 1)
                       IN  IF left < 0 THEN 0 ELSE left
        BY <1>1, <2>3, <2>7, <4>1 DEF Left
      <4> QED BY <4>1, <4>2
    <3>8. k \in Int /\ m = k - 1
      BY <1>1, <2>2, <3>3
    <3> HIDE DEF k, m
    <3>9. /\ Left(x)' = IF Left(x) > 0 THEN Left(x) - 1 ELSE Left(x)
          /\ (Left(x)' > 0) <=> (Left(x) > 1)
      BY <3>6, <3>7, <3>8
    <3> QED BY <1>1, <2>4, <2>7, <3>6, <3>8, <3>9
  <2> QED BY <2>5, <2>6, <2>7
<1>3. Wicks'
  BY <1>1 DEF Wicks
<1> DEFINE kind == [x \in ObjId |-> IF Gone(x) THEN "NONE" ELSE obj[x].otyp]
           lit  == [x \in ObjId |-> obj[x].lamplit /\ Left(x) > 0]
           fuel == [x \in ObjId |-> Left(x)]
<1>4. kind' = kind
  BY <1>2
<1>5. fuel' = [x \in ObjId |-> IF lit[x] THEN fuel[x] - 1 ELSE fuel[x]]
  BY <1>2
<1>6. lit' = [x \in ObjId |-> lit[x] /\ fuel[x] > 1]
  BY <1>2
<1>7. ~(phase = "timers") /\ (phase = "timers")' \in BOOLEAN
  BY <1>1
<1>8. Clock!Pass <=>
        /\ ~(phase = "timers") /\ monstermoves' = monstermoves + 1
        /\ (phase = "timers")' \in BOOLEAN /\ kind' = kind
        /\ fuel' = [x \in ObjId |-> IF lit[x] THEN fuel[x] - 1 ELSE fuel[x]]
        /\ lit' = [x \in ObjId |-> lit[x] /\ fuel[x] > 1]
  BY DEF Clock!Pass
<1> HIDE DEF kind, lit, fuel
<1> QED BY <1>1, <1>3, <1>4, <1>5, <1>6, <1>7, <1>8

(***************************************************************************)
(* The refinement.                                                         *)
(***************************************************************************)
\* The game starts as the clock does.
LEMMA InitFuel ==
    ASSUME NoGenieForSale, Init
    PROVE  Wicks /\ Clock!Init
<1>1. IInv
  BY InitGood
<1>2. /\ monstermoves = 1 /\ phase = "play"
      /\ \A o \in ObjId : /\ ~obj[o].lamplit
                          /\ obj[o].otyp = "CANDELABRUM" => obj[o].spe >= 0
  <2>1. \A o \in ObjId : obj[o] \in Stock[o]
    BY DEF Init
  <2> QED BY <2>1, StockAssumption DEF Init, Unlit
<1>3. Wicks
  BY <1>2 DEF Wicks, Waxed, KindOf
<1> DEFINE kind == [o \in ObjId |-> IF Gone(o) THEN "NONE" ELSE obj[o].otyp]
           lit  == [o \in ObjId |-> obj[o].lamplit /\ Left(o) > 0]
           fuel == [o \in ObjId |-> Left(o)]
<1>4. Otyp \cup {"NONE"} = Clock!Kind
  BY DEF Otyp, Lamps, Clock!Kind, Clock!Lamp
<1>5. \A o \in ObjId : Left(o) \in Nat /\ kind[o] \in Clock!Kind
  <2>1. Base /\ World \in Worlds
    BY <1>1 DEF IInv, Good
  <2>2. \A o \in ObjId : FuelIn(World, o) \in Nat /\ KindIn(World, o) \in Otyp \cup {"NONE"}
    BY <2>1, FuelTypes
  <2> QED BY <1>4, <2>2, LeftIs
<1>6. lit = [o \in ObjId |-> FALSE]
  BY <1>2
<1>7. ASSUME NEW o \in ObjId, kind[o] = "NONE" PROVE fuel[o] = 0
  <2>1. obj[o].otyp \in Otyp
    <3>1. obj[o] \in Obj
      BY <1>1, WorldIs, WorldFields DEF IInv, Good
    <3> QED BY <3>1, ObjFields
  <2>2. Gone(o)
    BY <1>7, <2>1 DEF Otyp, Lamps
  <2> QED BY <2>2 DEF Left
<1>8. kind \in [ObjId -> Clock!Kind] /\ fuel \in [ObjId -> Nat]
  BY <1>5
<1>9. Clock!Init <=>
        /\ monstermoves = 1 /\ (phase = "timers") = FALSE
        /\ kind \in [ObjId -> Clock!Kind] /\ lit = [o \in ObjId |-> FALSE]
        /\ fuel \in [ObjId -> Nat]
        /\ \A o \in ObjId : kind[o] = "NONE" => fuel[o] = 0
  BY DEF Clock!Init
<1> HIDE DEF kind, lit, fuel
<1> QED BY <1>2, <1>3, <1>6, <1>7, <1>8, <1>9

\* Whatever is done to an object is handling it.
LEMMA ObjectActionFuel ==
    ASSUME IInv, Wicks, PrayerTurns = 0, NEW o \in ObjId, ObjectAction(o)
    PROVE  Wicks' /\ Clock!Handle
BY UseLampFuel, UseCandelabrumFuel, LightCocktailFuel, DoRubFuel, CatchLitFuel, SnuffLitFuel,
   ONameFuel, DropFuel, PickupFuel, InContainerFuel, OutContainerFuel, MPickObjFuel,
   MDropObjFuel, MigrateFuel, BuryAnObjFuel, UnearthObjsFuel, DestroyFuel, PayForFuel
   DEF ObjectAction

\* Every step of the game is one of the clock, or does not show on it.
LEMMA StepFuel ==
    ASSUME IInv, Wicks, PrayerTurns = 0, [Next]_vars
    PROVE  Wicks' /\ [Clock!Next]_(Clock!clock)
<1>1. CASE \E o \in ObjId : ObjectAction(o)
  BY <1>1, ObjectActionFuel DEF Clock!Next
<1>2. CASE \E o, p \in ObjId : UseCandle(o, p) \/ DipIntoOil(o, p)
  BY <1>2, UseCandleFuel, DipIntoOilFuel DEF Clock!Next
<1>3. CASE \E t \in timer_base : RunTimer(t)
  BY <1>3, RunTimerFuel DEF Clock!Next
<1>4. CASE RunTimersDone
  BY <1>4, RunTimersDoneFuel DEF Clock!Next
<1>5. CASE NewTurn
  BY <1>5, NewTurnFuel DEF Clock!Next
<1>6. CASE DoPray
  BY <1>6 DEF DoPray
<1>7. CASE \E l \in Level, F \in SUBSET ObjId : GotoLevel(l, F)
  BY <1>7, GotoLevelFuel DEF Clock!Next
<1>8. CASE SaveAndRestore
  BY <1>8, SaveAndRestoreFuel DEF Clock!Next
<1>9. CASE UNCHANGED vars
  <2>1. Wicks'
    BY <1>9 DEF vars, Wicks
  <2>2. UNCHANGED Clock!clock
    BY <1>9 DEF vars, Clock!clock, Gone, Left, Burns, Pending
  <2> QED BY <2>1, <2>2
<1> QED BY <1>1, <1>2, <1>3, <1>4, <1>5, <1>6, <1>7, <1>8, <1>9 DEF Next

\* A lamp, candle or potion of oil burns for exactly the turns of fuel it has,
\* wherever it is: in the pack, with a monster, on a level that the hero has
\* left, in transit or in a saved game; however often its burn pauses and
\* however late its timer is run (begin_burn, end_burn, cleanup_burn and
\* burn_object of timeout.c, goto_level, save_timers and restore_timers), and
\* whatever else is done to it, its fuel and kind change only as module
\* FuelClock says.  Nobody prays in this game: a prayer holds up run_timers.
THEOREM FuelIsKept ==
    ASSUME NoGenieForSale, PrayerTurns = 0
    PROVE  Spec => ImplementsFuelClock
<1>1. Init => IInv /\ Wicks /\ Clock!Init
  BY InitGood, InitFuel
<1>2. IInv /\ Wicks /\ [Next]_vars => (IInv /\ Wicks)' /\ [Clock!Next]_(Clock!clock)
  BY StepGood, StepFuel
<1> QED BY <1>1, <1>2, PTL DEF Spec, ImplementsFuelClock, Clock!Spec
=============================================================================
