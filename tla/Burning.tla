------------------------------ MODULE Burning ------------------------------
(***************************************************************************)
(* Lamps, candles, oil potions and the candelabrum: the burn timers of     *)
(* src/src/timeout.c, the light sources of src/src/light.c, and every      *)
(* operation on objects that starts, stops, copies, moves, frees or saves  *)
(* one of them.                                                            *)
(*                                                                         *)
(* The bookkeeping under scrutiny is spread over four places that must     *)
(* agree: an object's own fields (lamplit, age, timed), the timer queue    *)
(* that points at the object, the list of light sources that points at it, *)
(* and the level files, to which the parts of both lists that stay behind  *)
(* are written when the hero leaves a level.                               *)
(*                                                                         *)
(* The timer queue is a set of timers here, and run_timers may fire any of *)
(* the earliest ones: the order of equal timeouts is module TimerQueue's.  *)
(* Map positions are abstracted: which objects share a square is chosen    *)
(* freely where the code looks at it.                                      *)
(***************************************************************************)
EXTENDS Integers, FiniteSets, FiniteSetsExt

CONSTANTS
    ObjId,          \* object identities (struct obj pointers)
    Level,          \* dungeon levels
    Stock,          \* Stock[o]: the objects that o may start the game as
    LampTimes,      \* ages at which a lamp's burn pauses: 150, 100, 50, 25
    CandleTimes,    \* ages at which a candle's burn pauses: 75, 15
    AgeClose,       \* candles of one age \div AgeClose stack: 25
    RotTimes,       \* delays bury_an_obj may give a rotting potion
    MaxCandles,     \* candles that fit in a candelabrum: 7
    LampFull,       \* a lamp with more than this takes no oil: 1000
    LampCap,        \* the most a lamp holds: 1500
    DjinniAge,      \* fuel left in a lamp the djinni has left: 500..1499
    PrayerTurns,    \* turns a prayer takes: 3, or 0 if the hero never prays
    MayShop,        \* are there shops?
    MaxTime         \* bound on monstermoves

Lamps   == {"OIL_LAMP", "MAGIC_LAMP"}
Otyp    == Lamps \cup {"POT_OIL", "CANDLE", "CANDELABRUM"}
Where   == {"FREE", "INVENT", "FLOOR", "MINVENT", "CONTAINED", "BURIED",
            "MIGRATING", "ONBILL"}
Func    == {"BURN_OBJECT", "ROT_ORGANIC"}
Obj     == [otyp : Otyp, where : Where, lev : Level, age : Int, spe : Int,
            quan : Int, lamplit : BOOLEAN, timed : Int, unpaid : BOOLEAN]
Timer   == [timeout : Int, func : Func, arg : ObjId]

Unlit(o) == o.lamplit = FALSE /\ o.timed = 0 /\ o.age >= 0 /\ o.quan >= 1

ASSUME StockAssumption ==
    /\ Stock \in [ObjId -> SUBSET Obj]
    /\ \A o \in ObjId : \A r \in Stock[o] :
           Unlit(r) /\ (r.otyp = "CANDELABRUM" => r.spe >= 0)
ASSUME NumberAssumption ==
    /\ LampTimes \subseteq Nat \ {0} /\ IsFiniteSet(LampTimes)
    /\ CandleTimes \subseteq Nat \ {0} /\ IsFiniteSet(CandleTimes)
    /\ RotTimes \subseteq Nat \ {0} /\ DjinniAge \subseteq Nat \ {0}
    /\ AgeClose \in Nat \ {0} /\ MaxCandles \in Nat \ {0}
    /\ LampCap \in Nat /\ LampFull \in 0 .. LampCap /\ MaxTime \in Nat
    /\ PrayerTurns \in Nat /\ MayShop \in BOOLEAN
ASSUME LevelAssumption == Level # {} /\ IsFiniteSet(ObjId)

VARIABLES
    monstermoves,   \* turn counter
    here,           \* the level in memory (u.uz)
    obj,            \* every struct obj, in memory or in its level's file
    timer_base,     \* the timers in memory
    light_base,     \* light_base[o]: light sources in memory attached to o
    levelfile,      \* the timers and light sources written with each level
    phase,          \* "play", or "timers" while run_timers loops
    praying,        \* turns left of a prayer; u.uinvulnerable while positive
    impossible      \* impossible() or panic() has been called

vars == <<monstermoves, here, obj, timer_base, light_base, levelfile, phase,
          praying, impossible>>

(***************************************************************************)
(* The code's functions, as operators from world to world, where a world   *)
(* is what they read and assign.                                           *)
(***************************************************************************)
World == [obj |-> obj, timer_base |-> timer_base, light_base |-> light_base,
          impossible |-> impossible]

Becomes(W) == /\ obj' = W.obj
              /\ timer_base' = W.timer_base
              /\ light_base' = W.light_base
              /\ impossible' = W.impossible

Impossible(W) == [W EXCEPT !.impossible = TRUE]

\* Truncating division, as in C.
Quot(a, b) == IF a < 0 THEN -((-a) \div b) ELSE a \div b

\* The level the game starts on; also given to objects that are on none.
NoLev   == CHOOSE l \in Level : TRUE
Freed   == [otyp |-> "POT_OIL", where |-> "FREE", lev |-> NoLev, age |-> 0,
            spe |-> 0, quan |-> 1, lamplit |-> FALSE, timed |-> 0,
            unpaid |-> FALSE]

\* obj_extract_self and the add_to_* / place_object function of where.
Put(W, o, where, l) == [W EXCEPT !.obj[o].where = where, !.obj[o].lev = l]

NewLightSource(W, o) == [W EXCEPT !.light_base[o] = @ + 1]
DelLightSource(W, o) ==
    IF W.light_base[o] > 0 THEN [W EXCEPT !.light_base[o] = @ - 1]
                           ELSE Impossible(W)

\* Mutant: the object's count is forgotten.
StartTimerUncounted(W, when, func, o) ==
    [W EXCEPT !.timer_base = @ \cup {[timeout |-> monstermoves + when,
                                      func |-> func, arg |-> o]}]

StartTimer(W, when, func, o) ==
    [W EXCEPT !.timer_base = @ \cup {[timeout |-> monstermoves + when,
                                      func |-> func, arg |-> o]},
              !.obj[o].timed = @ + 1]

\* Cleanup of a burning object whose timer was stopped before it ran out.
CleanupBurn(W, o, expire_time) ==
    IF ~W.obj[o].lamplit THEN Impossible(W)
    ELSE [DelLightSource(W, o) EXCEPT
              !.obj[o].age = @ + expire_time - monstermoves,
              !.obj[o].lamplit = FALSE]

TimersOf(W, func, o) == {t \in W.timer_base : t.func = func /\ t.arg = o}

StopTimer(W, func, o) ==
    IF TimersOf(W, func, o) = {} THEN W
    ELSE LET t  == CHOOSE t \in TimersOf(W, func, o) : TRUE
             W1 == [W EXCEPT !.timer_base = @ \ {t}, !.obj[o].timed = @ - 1]
         IN  IF func = "BURN_OBJECT" THEN CleanupBurn(W1, o, t.timeout) ELSE W1

\* Stop every timer of o, with its cleanup.
ObjStopTimers(W, o) ==
    LET burns == TimersOf(W, "BURN_OBJECT", o)
        W1    == [W EXCEPT !.timer_base = {t \in @ : t.arg # o},
                           !.obj[o].timed = 0]
    IN  IF burns = {} THEN W1
        ELSE CleanupBurn(W1, o, (CHOOSE t \in burns : TRUE).timeout)

\* Copy src's timers and light sources to the split-off dest.
ObjSplitTimers(W, src, dest) ==
    LET copies == {[t EXCEPT !.arg = dest] :
                       t \in {u \in W.timer_base : u.arg = src}}
    IN  [W EXCEPT !.timer_base = @ \cup copies,
                  !.obj[dest].timed = Cardinality(copies)]

\* Mutant: the split-off part burns without a light source.
ObjSplitLightSourceDark(W, src, dest) == [W EXCEPT !.obj[dest].lamplit = TRUE]

ObjSplitLightSource(W, src, dest) ==
    [W EXCEPT !.light_base[dest] = @ + W.light_base[src],
              !.obj[dest].lamplit = W.light_base[src] > 0]

\* What src has is dest's; the timers found are counted.
ObjMoveTimers(W, src, dest) ==
    [W EXCEPT !.impossible = @ \/ W.obj[src].timed
                                   # Cardinality({t \in W.timer_base : t.arg = src}),
              !.timer_base = {IF t.arg = src THEN [t EXCEPT !.arg = dest] ELSE t : t \in @},
              !.obj[dest].timed = W.obj[src].timed,
              !.obj[src].timed = 0]

ObjMoveLightSource(W, src, dest) ==
    [W EXCEPT !.light_base[dest] = W.light_base[src], !.light_base[src] = 0,
              !.obj[dest].lamplit = TRUE, !.obj[src].lamplit = FALSE]

\* A lit object goes dark; the timer goes too, if one is attached.
EndBurn(W, o, timer_attached) ==
    IF ~W.obj[o].lamplit THEN Impossible(W)
    ELSE IF ~timer_attached \/ W.obj[o].otyp = "MAGIC_LAMP"
    THEN [DelLightSource(W, o) EXCEPT !.obj[o].lamplit = FALSE]
    ELSE IF TimersOf(W, "BURN_OBJECT", o) = {} THEN Impossible(W)
    ELSE StopTimer(W, "BURN_OBJECT", o)

\* Fuel used before the next pause of the burn.
MagicTimes(otyp) == CASE otyp = "OIL_LAMP" -> LampTimes
                      [] otyp \in {"CANDLE", "CANDELABRUM"} -> CandleTimes
                      [] OTHER -> {}

\* Mutant: a burn that pauses at its last pause again.
TurnsAgain(otyp, age) ==
    LET below == {m \in MagicTimes(otyp) : m <= age}
    IN  IF below = {} THEN age ELSE age - Max(below)

Turns(otyp, age) ==
    LET below == {m \in MagicTimes(otyp) : m < age}
    IN  IF below = {} THEN age ELSE age - Max(below)

\* Mutant: what already burns gets a second light source.
BeginBurnRelit(W, o, already_lit) ==
    NewLightSource([W EXCEPT !.obj[o].lamplit = TRUE], o)

BeginBurn(W, o, already_lit) ==
    LET r     == W.obj[o]
        turns == Turns(r.otyp, r.age)
        W1    == IF r.otyp = "MAGIC_LAMP" THEN W
                 ELSE [StartTimer(W, turns, "BURN_OBJECT", o) EXCEPT
                           !.obj[o].age = @ - turns]
        W2    == [W1 EXCEPT !.obj[o].lamplit = TRUE]
    IN  IF r.age = 0 /\ r.otyp # "MAGIC_LAMP" THEN W
        ELSE IF already_lit THEN W2
        ELSE IF r.where \in {"FREE", "MIGRATING", "ONBILL"} THEN Impossible(W2)
        ELSE NewLightSource(W2, o)

DeallocObj(W, o) ==
    LET W1 == IF W.obj[o].timed # 0 THEN ObjStopTimers(W, o) ELSE W
        W2 == IF W1.obj[o].lamplit THEN DelLightSource(W1, o) ELSE W1
    IN  [W2 EXCEPT !.obj[o] = Freed]

\* Mutant: the timers of what goes on the bill are kept.
AddToBillobjsTimed(W, o) ==
    [Put(W, o, "ONBILL", NoLev) EXCEPT !.obj[o].unpaid = FALSE]

AddToBillobjs(W, o) ==
    LET W1 == IF W.obj[o].timed # 0 THEN ObjStopTimers(W, o) ELSE W
    IN  [Put(W1, o, "ONBILL", NoLev) EXCEPT !.obj[o].unpaid = FALSE]

\* obj_extract_self and obfree without a merge: a used-up object that is on
\* the shopkeeper's bill is kept until it is paid for.
Obfree(W, o) == IF W.obj[o].unpaid THEN AddToBillobjs(W, o) ELSE DeallocObj(W, o)

Useup(W, o) == IF W.obj[o].quan > 1 THEN [W EXCEPT !.obj[o].quan = @ - 1]
                                    ELSE Obfree(W, o)

SplitObj(W, o, num, new) ==
    LET r  == W.obj[o]
        W1 == [W EXCEPT !.obj[o].quan = @ - num,
                        !.obj[new] = [r EXCEPT !.quan = num, !.timed = 0,
                                               !.lamplit = FALSE]]
        W2 == IF r.timed # 0 THEN ObjSplitTimers(W1, o, new) ELSE W1
    IN  IF r.lamplit THEN ObjSplitLightSource(W2, o, new) ELSE W2

\* A name does not fit into the object: it is replaced by the larger new.
ReallocObj(W, o, new) ==
    LET r  == W.obj[o]
        W1 == [W EXCEPT !.obj[new] = [r EXCEPT !.timed = 0, !.lamplit = FALSE]]
        W2 == IF r.timed # 0 THEN ObjMoveTimers(W1, o, new) ELSE W1
        W3 == IF r.lamplit THEN ObjMoveLightSource(W2, o, new) ELSE W2
    IN  DeallocObj(W3, o)

Mergable(W, otmp, o) ==
    LET d == W.obj[otmp]
        r == W.obj[o]
    IN  /\ otmp # o
        /\ r.otyp = d.otyp /\ r.otyp \in {"POT_OIL", "CANDLE"}
        /\ r.unpaid = d.unpaid /\ r.spe = d.spe /\ r.lamplit = d.lamplit
        /\ r.otyp = "CANDLE" => Quot(r.age, AgeClose) = Quot(d.age, AgeClose)
        /\ ~(r.otyp = "POT_OIL" /\ r.lamplit)

\* o is merged into otmp and freed.
Merged(W, otmp, o) ==
    LET d  == W.obj[otmp]
        r  == W.obj[o]
        W1 == [W EXCEPT !.obj[otmp].quan = @ + r.quan,
                        !.obj[otmp].age =
                            IF r.lamplit THEN @
                            ELSE Quot(@ * d.quan + r.age * r.quan, d.quan + r.quan)]
        W2 == IF r.lamplit THEN EndBurn(W1, o, TRUE) ELSE W1
    IN  DeallocObj(W2, o)

(***************************************************************************)
(* What the hero and the monsters do to objects.                           *)
(***************************************************************************)
Play     == phase = "play" /\ ~impossible
HeroActs == Play /\ praying = 0
Do(W)    == /\ Becomes(W)
            /\ UNCHANGED <<monstermoves, here, levelfile, phase, praying>>

At(o, where) == obj[o].where = where /\ obj[o].lev = here
Carried(o)   == obj[o].where = "INVENT"
InReach(o)   == Carried(o) \/ At(o, "FLOOR") \/ At(o, "MINVENT")

\* o put at where, on its own or stacked with what is already there: a stack
\* on the floor is absorbed by the newcomer, elsewhere it absorbs it.
AddTo(W, o, where, l) ==
    LET P     == Put(W, o, where, l)
        peers == {d \in ObjId : P.obj[d].where = where /\ P.obj[d].lev = l}
    IN  {P} \cup (IF where = "FLOOR"
                  THEN {Merged(P, o, d) : d \in {d \in peers : Mergable(P, o, d)}}
                  ELSE {Merged(P, d, o) : d \in {d \in peers : Mergable(P, d, o)}})

\* All of o, or some of it split off: the world and the object in hand.
Portions(o) ==
    {[w |-> World, o |-> o]} \cup
    {[w |-> SplitObj(World, o, num, new), o |-> new] :
        num \in 1 .. obj[o].quan - 1, new \in {n \in ObjId : obj[n].where = "FREE"}}

\* The hero calls o by a name.
OName(o) ==
    /\ HeroActs /\ Carried(o)
    /\ \E new \in {n \in ObjId : obj[n].where = "FREE"} : Do(ReallocObj(World, o, new))

Paid(W, o) == [W EXCEPT !.obj[o].unpaid = FALSE]

UseLamp(o) ==
    /\ HeroActs /\ Carried(o) /\ obj[o].otyp \in Lamps \cup {"CANDLE"}
    /\ \/ /\ obj[o].lamplit
          /\ Do(EndBurn(World, o, TRUE))
       \/ /\ ~obj[o].lamplit
          /\ obj[o].otyp # "CANDLE" => obj[o].age # 0
          /\ obj[o].otyp = "MAGIC_LAMP" => obj[o].spe # 0
          /\ \/ Do(BeginBurn(World, o, FALSE))
             \/ /\ obj[o].otyp = "CANDLE"        \* a new candle is bought
                /\ obj[o].unpaid
                /\ Do(BeginBurn(Paid(World, o), o, FALSE))

UseCandelabrum(o) ==
    /\ HeroActs /\ Carried(o) /\ obj[o].otyp = "CANDELABRUM"
    /\ \/ /\ obj[o].lamplit
          /\ Do(EndBurn(World, o, TRUE))
       \/ /\ ~obj[o].lamplit /\ obj[o].spe > 0
          /\ \E age \in {obj[o].age, Quot(obj[o].age, 2)} :
                Do(BeginBurn([World EXCEPT !.obj[o].age = age], o, FALSE))

\* Attach candles to the candelabrum m.
UseCandle(o, m) ==
    /\ HeroActs /\ Carried(o) /\ Carried(m)
    /\ obj[o].otyp = "CANDLE" /\ obj[m].otyp = "CANDELABRUM"
    /\ LET room == MaxCandles - obj[m].spe
       IN  /\ room > 0
           /\ \E p \in Portions(o) :
                /\ p.w.obj[p.o].quan = Min({obj[o].quan, room})
                /\ LET c  == p.w.obj[p.o]
                       W1 == [p.w EXCEPT
                                !.obj[m].age = IF obj[m].spe = 0 \/ @ > c.age
                                               THEN c.age ELSE @,
                                !.obj[m].spe = @ + c.quan]
                       W2 == IF c.lamplit THEN EndBurn(W1, p.o, TRUE) ELSE W1
                   IN  Do(Obfree(W2, p.o))

LightCocktail(o) ==
    /\ HeroActs /\ Carried(o) /\ obj[o].otyp = "POT_OIL"
    /\ \/ /\ obj[o].lamplit
          /\ \E W \in AddTo(EndBurn(World, o, TRUE), o, "INVENT", NoLev) : Do(W)
       \/ /\ ~obj[o].lamplit
          /\ obj[o].quan = 1
          /\ Do(BeginBurn(Paid(World, o), o, FALSE))
       \/ /\ ~obj[o].lamplit
          /\ \E p \in Portions(o) :
                /\ p.o # o /\ p.w.obj[p.o].quan = 1
                /\ LET W1 == BeginBurn(Paid(Paid(p.w, o), p.o), p.o, FALSE)
                   IN  \E W \in AddTo(W1, p.o, "INVENT", NoLev)
                              \cup AddTo(W1, p.o, "FLOOR", here) : Do(W)

Catchable(o) ==
    /\ ~obj[o].lamplit
    /\ obj[o].otyp \in {"MAGIC_LAMP", "CANDELABRUM"} => obj[o].spe # 0
    /\ obj[o].otyp # "MAGIC_LAMP" => obj[o].age # 0

CatchLit(o) ==
    /\ Play /\ InReach(o) /\ Catchable(o)
    /\ Do(BeginBurn(Paid(World, o), o, FALSE))

\* Water, darkness, being swallowed.
SnuffLit(o) ==
    /\ Play /\ InReach(o) /\ obj[o].lamplit
    /\ Do(EndBurn(World, o, obj[o].otyp # "MAGIC_LAMP"))

\* Dip o into the oil potion p: a burning potion may light it, an unlit one
\* fills a lamp, unless it is spilt or explodes because the lamp is lit.
DipIntoOil(o, p) ==
    /\ HeroActs /\ Carried(o) /\ Carried(p) /\ o # p /\ obj[p].otyp = "POT_OIL"
    /\ \/ /\ obj[p].lamplit
          /\ \/ Do(Useup(World, p))
             \/ Catchable(o) /\ Do(Useup(BeginBurn(Paid(World, o), o, FALSE), p))
       \/ /\ ~obj[p].lamplit
          /\ Do(Useup(World, p))
       \/ /\ ~obj[p].lamplit /\ obj[o].otyp \in Lamps /\ ~obj[o].lamplit
          /\ LET spent == obj[o].otyp = "MAGIC_LAMP" /\ obj[o].spe = 0
                 W1    == IF spent THEN [World EXCEPT !.obj[o].otyp = "OIL_LAMP",
                                                      !.obj[o].age = 0]
                                   ELSE World
                 W2    == [W1 EXCEPT !.obj[o].spe = 1]
                 age   == W1.obj[o].age
                 fuel  == age + 2 * obj[p].age
             IN  IF age > LampFull THEN Do(W2)
                 ELSE Do(Useup([W2 EXCEPT !.obj[o].age = Min({fuel, LampCap})], p))

\* The djinni leaves its lamp, which is an ordinary one from now on.
DoRub(o) ==
    /\ HeroActs /\ Carried(o) /\ obj[o].otyp = "MAGIC_LAMP" /\ obj[o].spe > 0
    /\ \E age \in DjinniAge :
          LET W == [World EXCEPT !.obj[o] = [@ EXCEPT !.otyp = "OIL_LAMP",
                                                      !.spe = 0, !.age = age]]
          IN  Do(IF obj[o].lamplit THEN BeginBurn(W, o, TRUE) ELSE W)

\* Drop or throw; candles go out in flight.  What lands in the shop is no
\* longer owed.
Drop(o) ==
    /\ HeroActs /\ Carried(o)
    /\ \E p \in Portions(o), thrown \in BOOLEAN :
          LET c  == p.w.obj[p.o]
              W1 == IF thrown /\ c.lamplit /\ c.otyp \in {"CANDLE", "CANDELABRUM"}
                    THEN EndBurn(p.w, p.o, TRUE) ELSE p.w
          IN  \E W \in AddTo(Paid(W1, p.o), p.o, "FLOOR", here) : Do(W)

Pickup(o) ==
    /\ HeroActs /\ At(o, "FLOOR")
    /\ \E p \in Portions(o), owed \in IF MayShop THEN BOOLEAN ELSE {FALSE} :
          \E W \in AddTo([p.w EXCEPT !.obj[p.o].unpaid = owed], p.o, "INVENT", NoLev) :
              Do(W)

InContainer(o) ==
    /\ HeroActs /\ Carried(o) /\ obj[o].otyp # "CANDELABRUM"
    /\ \E p \in Portions(o) :
          LET W1 == IF p.w.obj[p.o].lamplit THEN EndBurn(p.w, p.o, TRUE) ELSE p.w
          IN  \E W \in AddTo(W1, p.o, "CONTAINED", NoLev) : Do(W)

OutContainer(o) ==
    /\ HeroActs /\ obj[o].where = "CONTAINED"
    /\ \E p \in Portions(o) :
          \E W \in AddTo(p.w, p.o, "INVENT", NoLev) : Do(W)

\* A monster takes o from the floor or from the hero, who owes for it still if
\* it was unpaid; an engulfer's goes out.
MPickObj(o) ==
    /\ Play /\ (At(o, "FLOOR") \/ Carried(o))
    /\ \/ \E W \in AddTo(World, o, "MINVENT", here) : Do(W)
       \/ /\ obj[o].lamplit
          /\ Do(EndBurn(Put(World, o, "MINVENT", here), o,
                        obj[o].otyp # "MAGIC_LAMP"))

MDropObj(o) ==
    /\ Play /\ At(o, "MINVENT")
    /\ \E W \in AddTo(World, o, "FLOOR", here) : Do(W)

\* o, or the monster that has it, falls or is sent to another level.
Migrate(o) ==
    /\ Play /\ (At(o, "FLOOR") \/ At(o, "MINVENT"))
    /\ \E l \in Level \ {here} : Do(Put(World, o, "MIGRATING", l))

BuryAnObj(o) ==
    /\ Play /\ At(o, "FLOOR") /\ obj[o].otyp # "CANDELABRUM"
    /\ LET W1 == IF obj[o].lamplit /\ obj[o].otyp # "POT_OIL"
                 THEN EndBurn(World, o, TRUE) ELSE World
           W2 == Put(W1, o, "BURIED", here)
       IN  \/ Do(W2)
           \/ /\ obj[o].otyp \in {"POT_OIL", "CANDLE"}  \* ice; organic
              /\ \E when \in RotTimes : Do(StartTimer(W2, when, "ROT_ORGANIC", o))

UnearthObjs(o) ==
    /\ Play /\ At(o, "BURIED")
    /\ LET W1 == IF obj[o].timed # 0 THEN StopTimer(World, "ROT_ORGANIC", o)
                 ELSE World
       IN  \E W \in AddTo(W1, o, "FLOOR", here) : Do(W)

\* Eaten, broken, exploded, blasted.
Destroy(o) ==
    /\ Play
    /\ \/ Carried(o) /\ Do(Useup(World, o))
       \/ (At(o, "FLOOR") \/ At(o, "MINVENT")) /\ Do(Obfree(World, o))

(***************************************************************************)
(* Shops, time, timers and levels.                                         *)
(***************************************************************************)

\* The hero pays for o, which is then the hero's, or gone if used up.
PayFor(o) ==
    /\ HeroActs
    /\ \/ obj[o].unpaid /\ Do(Paid(World, o))
       \/ obj[o].where = "ONBILL" /\ Do(DeallocObj(World, o))

\* Everything unpaid is the hero's and the used-up part of the bill is freed.
SetPaid(W) ==
    LET onbill == {o \in ObjId : W.obj[o].where = "ONBILL"}
        lit    == {o \in onbill : W.obj[o].lamplit}
    IN  [obj |-> [o \in ObjId |-> IF o \in onbill THEN Freed
                                  ELSE [W.obj[o] EXCEPT !.unpaid = FALSE]],
         timer_base |-> W.timer_base,
         light_base |-> [o \in ObjId |-> IF o \in lit /\ W.light_base[o] > 0
                                         THEN W.light_base[o] - 1
                                         ELSE W.light_base[o]],
         impossible |-> W.impossible \/ \E o \in lit : W.light_base[o] = 0]

\* The lamp has run dry or the candle is burnt down.
BurntOut(W, o) ==
    LET W1 == EndBurn([W EXCEPT !.obj[o].age = 0], o, FALSE)
    IN  CASE W.obj[o].otyp = "CANDELABRUM" -> [W1 EXCEPT !.obj[o].spe = 0]
          [] W.obj[o].otyp \in {"CANDLE", "POT_OIL"} -> Obfree(W1, o)
          [] OTHER -> W1

\* Mutant: the turns since the expiry are not burnt.
BurnObjectLate(W, o, timeout) ==
    IF W.obj[o].age = 0 THEN BurntOut(W, o) ELSE BeginBurn(W, o, TRUE)

BurnObject(W, o, timeout) ==
    LET how_long == monstermoves - timeout
        age      == W.obj[o].age
    IN  IF how_long # 0
        THEN IF how_long >= age
             THEN BurntOut(W, o)
             ELSE BeginBurn([W EXCEPT !.obj[o].age = age - how_long], o, TRUE)
        ELSE IF W.obj[o].otyp = "POT_OIL" \/ age = 0
             THEN BurntOut(W, o)
             ELSE BeginBurn(W, o, TRUE)

Callback(W, t) == IF t.func = "BURN_OBJECT" THEN BurnObject(W, t.arg, t.timeout)
                                            ELSE Obfree(W, t.arg)

\* Mutant: a timer is due the turn after.
DueNextTurn == {t \in timer_base : t.timeout < monstermoves}

Due == {t \in timer_base : t.timeout <= monstermoves}

\* One round of run_timers' loop.
RunTimer(t) ==
    /\ phase = "timers" /\ ~impossible
    /\ t \in Due /\ \A u \in Due : t.timeout <= u.timeout
    /\ Becomes(Callback([World EXCEPT !.timer_base = @ \ {t},
                                      !.obj[t.arg].timed = @ - 1], t))
    /\ UNCHANGED <<monstermoves, here, levelfile, phase, praying>>

RunTimersDone ==
    /\ phase = "timers" /\ ~impossible /\ Due = {}
    /\ phase' = "play"
    /\ UNCHANGED <<monstermoves, here, obj, timer_base, light_base, levelfile,
                   praying, impossible>>

\* Mutant: the count of helpless turns goes on below zero.
NewTurnBelowZero ==
    /\ Play /\ monstermoves < MaxTime
    /\ monstermoves' = monstermoves + 1
    /\ phase' = "timers" /\ praying' = praying - 1
    /\ UNCHANGED <<here, obj, timer_base, light_base, levelfile, impossible>>

\* A new turn; nh_timeout does not get to run_timers during a prayer.
NewTurn ==
    /\ Play /\ monstermoves < MaxTime
    /\ monstermoves' = monstermoves + 1
    /\ phase' = IF praying > 0 THEN "play" ELSE "timers"
    /\ praying' = IF praying > 0 THEN praying - 1 ELSE 0
    /\ UNCHANGED <<here, obj, timer_base, light_base, levelfile, impossible>>

DoPray ==
    /\ HeroActs /\ PrayerTurns > 0 /\ monstermoves + PrayerTurns <= MaxTime
    /\ praying' = PrayerTurns
    /\ UNCHANGED <<monstermoves, here, obj, timer_base, light_base, levelfile,
                   phase, impossible>>

\* Mutant: what the hero's followers carry is taken to stay behind.
ObjIsLocalFollowers(W, o, F) ==
    W.obj[o].where \in {"FLOOR", "BURIED", "MINVENT"} /\ W.obj[o].lev = here

\* obj_is_local, with the set F of objects whose monsters follow the hero.
ObjIsLocal(W, o, F) ==
    /\ W.obj[o].where \in {"FLOOR", "BURIED", "MINVENT"}
    /\ W.obj[o].lev = here /\ o \notin F

\* obj_is_local panics on an object that is in no list of the game's.
Unplaced(W) ==
    \E o \in ObjId : /\ W.obj[o].where \in {"FREE", "ONBILL"}
                     /\ W.light_base[o] > 0 \/ \E t \in W.timer_base : t.arg = o

EmptyFile == [timers |-> {}, lights |-> [o \in ObjId |-> 0]]

\* goto_level: the level is saved, the new one is read, what migrates to it
\* and who follows the hero arrives, and overdue timers are run.
GotoLevel(l, F) ==
    /\ HeroActs /\ l # here
    /\ \A o \in F : At(o, "MINVENT")
    /\ LET W     == SetPaid(World)
           stay  == {o \in ObjId : ObjIsLocal(W, o, F)}
           saved == {t \in W.timer_base : t.arg \in stay}
       IN  /\ \E where \in {"FLOOR", "MINVENT"} :
                obj' = [o \in ObjId |->
                          CASE o \in F -> [W.obj[o] EXCEPT !.lev = l]
                            [] W.obj[o].where = "MIGRATING" /\ W.obj[o].lev = l
                                 -> [W.obj[o] EXCEPT !.where = where]
                            [] OTHER -> W.obj[o]]
           /\ timer_base' = (W.timer_base \ saved) \cup levelfile[l].timers
           /\ light_base' =
                [o \in ObjId |-> (IF o \in stay THEN 0 ELSE W.light_base[o])
                                 + levelfile[l].lights[o]]
           /\ levelfile' =
                [levelfile EXCEPT
                    ![l] = EmptyFile,
                    ![here] = [timers |-> saved,
                               lights |-> [o \in ObjId |->
                                   IF o \in stay THEN W.light_base[o] ELSE 0]]]
           /\ impossible' = (W.impossible \/ Unplaced(W))
    /\ here' = l
    /\ phase' = "timers"
    /\ UNCHANGED <<monstermoves, praying>>

\* dosave0 and dorecover: both ranges are written and read back.
SaveAndRestore ==
    /\ HeroActs
    /\ impossible' = Unplaced(World)
    /\ phase' = "timers"
    /\ UNCHANGED <<monstermoves, here, obj, timer_base, light_base, levelfile,
                   praying>>

-----------------------------------------------------------------------------
Init ==
    /\ monstermoves = 1
    /\ here = NoLev
    /\ obj \in {f \in [ObjId -> UNION {Stock[o] : o \in ObjId}] :
                    \A o \in ObjId : f[o] \in Stock[o]}
    /\ timer_base = {}
    /\ light_base = [o \in ObjId |-> 0]
    /\ levelfile = [l \in Level |-> EmptyFile]
    /\ phase = "play" /\ praying = 0 /\ impossible = FALSE

ObjectAction(o) ==
    \/ UseLamp(o) \/ UseCandelabrum(o) \/ LightCocktail(o) \/ DoRub(o)
    \/ CatchLit(o) \/ SnuffLit(o) \/ OName(o)
    \/ Drop(o) \/ Pickup(o) \/ InContainer(o) \/ OutContainer(o)
    \/ MPickObj(o) \/ MDropObj(o) \/ Migrate(o)
    \/ BuryAnObj(o) \/ UnearthObjs(o) \/ Destroy(o) \/ PayFor(o)

Next ==
    \/ \E o \in ObjId : ObjectAction(o)
    \/ \E o, p \in ObjId : UseCandle(o, p) \/ DipIntoOil(o, p)
    \/ \E t \in timer_base : RunTimer(t)
    \/ RunTimersDone
    \/ NewTurn
    \/ DoPray
    \/ \E l \in Level, F \in SUBSET ObjId : GotoLevel(l, F)
    \/ SaveAndRestore

\* run_timers is a loop of the one thread: it goes on until it is done.
Fairness == WF_vars(RunTimersDone \/ \E t \in timer_base : RunTimer(t))

Spec == Init /\ [][Next]_vars /\ Fairness

-----------------------------------------------------------------------------
(***************************************************************************)
(* Properties.                                                             *)
(***************************************************************************)
Pending(o) == {t \in timer_base \cup UNION {levelfile[l].timers : l \in Level} :
                   t.arg = o}
Burns(o)   == {t \in Pending(o) : t.func = "BURN_OBJECT"}

OnLevel(o, l) == obj[o].where \in {"FLOOR", "BURIED", "MINVENT"} /\ obj[o].lev = l
InMemory(o)   == \/ obj[o].where \in {"INVENT", "CONTAINED", "MIGRATING"}
                 \/ OnLevel(o, here)

\* Types and ranges of the state.
TypeOK ==
    /\ monstermoves \in Int /\ here \in Level /\ praying \in Nat
    /\ obj \in [ObjId -> Obj]
    /\ timer_base \subseteq Timer
    /\ light_base \in [ObjId -> Nat]
    /\ levelfile \in [Level -> [timers : SUBSET Timer, lights : [ObjId -> Nat]]]
    /\ phase \in {"play", "timers"} /\ impossible \in BOOLEAN

\* An object's timed count, which decides whether its timers are looked for
\* when it is freed, split, billed or unearthed, is the number of timers that
\* point at it (start_timer, stop_timer, obj_split_timers, run_timers).
TimedCountsTimers == \A o \in ObjId : obj[o].timed = Cardinality(Pending(o))

\* Every timer and light source is kept where its object is: those in memory
\* point at objects in memory, and those in a level file at objects in the
\* same file (save_timers and save_light_sources against what goto_level
\* takes along).  A timer that breaks this is a dangling pointer, or a panic
\* in relink_timers when the level is read.
TimersFollowObjects ==
    /\ \A t \in timer_base : InMemory(t.arg)
    /\ \A o \in ObjId : light_base[o] > 0 => InMemory(o)
    /\ \A l \in Level : /\ \A t \in levelfile[l].timers : OnLevel(t.arg, l)
                        /\ \A o \in ObjId : levelfile[l].lights[o] > 0 => OnLevel(o, l)
    /\ levelfile[here] = EmptyFile

\* A burning object has one light source and, unless it is a magic lamp, one
\* burn timer; a dark one has neither (begin_burn, end_burn, cleanup_burn and
\* everything that frees, splits, merges or saves objects).
LitIffBurning ==
    \A o \in ObjId :
        /\ LET away == {l \in Level : levelfile[l].lights[o] > 0}
           IN  IF obj[o].lamplit
               THEN \/ light_base[o] = 1 /\ away = {}
                    \/ light_base[o] = 0 /\ \E l \in Level :
                           away = {l} /\ levelfile[l].lights[o] = 1
               ELSE light_base[o] = 0 /\ away = {}
        /\ Cardinality(Burns(o)) =
               IF obj[o].lamplit /\ obj[o].otyp # "MAGIC_LAMP" THEN 1 ELSE 0

\* None of the code's own checks fires: end_burn and cleanup_burn find the
\* object lit and timed, del_light_source finds the light source, begin_burn
\* finds the object's position, and obj_is_local knows its place.
NoImpossible == ~impossible

\* Between turns no timer is overdue, unless a prayer has suspended them: the
\* timers of a level read back, of a restored game and of this turn have been
\* run before the hero acts (nh_timeout, goto_level, dorecover).
NothingOverdue ==
    phase = "play" /\ PrayerTurns = 0 => \A t \in timer_base : t.timeout > monstermoves

\* run_timers comes to an end: callbacks restart timers only in the future.
TimersSettle == phase = "timers" ~> phase = "play"

(***************************************************************************)
(* The promise of module FuelClock: while an object burns, the timer's     *)
(* expiry and the age it will then have say what is left; otherwise its    *)
(* age does.                                                               *)
(***************************************************************************)
Gone(o) == obj[o].where \in {"FREE", "ONBILL"}
Left(o) ==
    LET r    == obj[o]
        left == IF r.lamplit /\ Burns(o) # {}
                THEN r.age + (CHOOSE t \in Burns(o) : TRUE).timeout - monstermoves
                ELSE r.age
    IN  IF r.otyp = "MAGIC_LAMP" \/ Gone(o) \/ left < 0 THEN 0 ELSE left

Clock == INSTANCE FuelClock
            WITH turn <- monstermoves,
                 busy <- phase = "timers",
                 kind <- [o \in ObjId |-> IF Gone(o) THEN "NONE" ELSE obj[o].otyp],
                 lit  <- [o \in ObjId |-> obj[o].lamplit /\ Left(o) > 0],
                 fuel <- [o \in ObjId |-> Left(o)]

\* Timers, pauses, level files and late expiry implement the fuel clock: a
\* lamp left on another level, carried by a monster or in transit burns
\* exactly as one in the hero's hands.
ImplementsFuelClock == Clock!Spec
=============================================================================
