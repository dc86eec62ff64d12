----------------------------- MODULE Occupation -----------------------------
(***************************************************************************)
(* The occupations that keep a pointer to an object from one turn to the   *)
(* next: eating (victual.piece), opening a tin (tin.tin) and studying a    *)
(* spellbook (book).  An occupation is called once a turn by moveloop, may *)
(* be interrupted and resumed, and between two calls monsters steal, eat,  *)
(* burn and drop objects, corpses rot, the hero is teleported and, once    *)
(* interrupted, names, drops and picks up things and changes levels.       *)
(*                                                                         *)
(* Objects live at addresses, which free() gives back and malloc() gives   *)
(* out again: a pointer kept too long may point at another object.  The    *)
(* hunger of the hero, what food does to her and the chances of everything *)
(* are choices; her pack is never full, and shops are left to ShopBill.    *)
(***************************************************************************)
EXTENDS Integers, FiniteSets, Sequences, SequencesExt, FiniteSetsExt, Functions

CONSTANTS
    Addr,       \* addresses of struct obj
    Null,
    Square,     \* squares of a level
    Level,
    Stock,      \* the possible first contents of memory
    Full,       \* Full[otyp]: the nutrition of one piece of food
    OcDelay,    \* OcDelay[otyp]: the turns that one piece takes
    TinTimes,   \* what start_tin may set tin.reqtime to
    GiveUp,     \* turns after which the hero gives up a tin: 50
    BookDelay   \* turns that a spellbook takes

Foods  == {"CORPSE", "RATION"}
Places == {"INVENT", "FLOOR", "MINVENT", "FREE"}
Obj    == [where : Places, at : Square, otyp : Foods \cup {"TIN", "BOOK"}, quan : Nat,
           oeaten : Nat, orotten : BOOLEAN, named : BOOLEAN]

ASSUME OccupationAssumption ==
    /\ IsFiniteSet(Addr) /\ Null \notin Addr
    /\ 1 \in Square /\ 1 \in Level
    /\ {Full, OcDelay} \subseteq [Foods -> Nat \ {0}]
    /\ TinTimes \subseteq Nat \ {0} /\ {GiveUp, BookDelay} \subseteq Nat

VARIABLES
    obj,        \* memory
    victual,    \* the meal, in progress or interrupted
    tin,        \* the tin being opened
    book,       \* the book being studied
    delay,      \* minus the turns it still takes
    uwep,       \* the wielded object
    occupation, \* what moveloop calls each turn
    levelfile,  \* the objects of the other levels
    lev,        \* the level the hero is on
    u,          \* and her square
    phase       \* whose turn it is: "hero", "others"; "crashed" ends the game

vars == <<obj, victual, tin, book, delay, uwep, occupation, levelfile, lev, u, phase>>

-----------------------------------------------------------------------------
(***************************************************************************)
(* Memory and the C statics that point into it, as one record.             *)
(***************************************************************************)
Now == [obj |-> obj, victual |-> victual, tin |-> tin, book |-> book,
        delay |-> delay, uwep |-> uwep, occupation |-> occupation]

NoMeal == [piece |-> Null, eating |-> FALSE, doreset |-> FALSE, usedtime |-> 0,
           reqtime |-> 0, nmod |-> 0]
NoTin  == [tin |-> Null, usedtime |-> 0, reqtime |-> 0]

\* What the program never reads again is forgotten: the counters of a meal without a
\* piece, a tin that is not being opened, the delay of no book.
Becomes(m) ==
    LET Off(occ) == m.occupation # occ
    IN  /\ victual' = IF m.victual.piece = Null /\ Off("eatfood") THEN NoMeal ELSE m.victual
        /\ tin' = IF Off("opentin") THEN NoTin ELSE m.tin
        /\ delay' = IF m.book = Null /\ Off("learn") THEN 0 ELSE m.delay
        /\ obj' = m.obj /\ book' = m.book /\ uwep' = m.uwep /\ occupation' = m.occupation

Nowhere == CHOOSE s \in Square : TRUE     \* of what is carried

Free == [where |-> "FREE", at |-> Nowhere, otyp |-> "RATION", quan |-> 0,
         oeaten |-> 0, orotten |-> FALSE, named |-> FALSE]
IsObject(r) == r \in Obj /\ r.where # "FREE" /\ r.quan > 0

\* One address is kept for renaming.
ASSUME StockAssumption ==
    \A s \in Stock : /\ s \in [Addr -> Obj]
                     /\ \A o \in Addr : s[o] = Free \/ IsObject(s[o])
                     /\ \E o \in Addr : s[o] = Free

Live(mem)    == {o \in Addr : mem[o].where # "FREE"}
Carried(m, o) == m.obj[o].where = "INVENT"
Here(m, o)    == m.obj[o].where = "FLOOR" /\ m.obj[o].at = u
InReach(m, o) == Carried(m, o) \/ Here(m, o)

Malloc(m) == CHOOSE o \in Addr : m.obj[o] = Free

\* What is in the level files will need memory again.
Filed(file) == UNION {{l} \X DOMAIN file[l] : l \in Level}
RoomToSplit ==
    Cardinality(Live(obj)) + Cardinality(Filed(levelfile)) + 2 <= Cardinality(Addr)

FoodDisappears(m, o) == [m EXCEPT !.victual.piece = IF @ = o THEN Null ELSE @]
BookDisappears(m, o) == [m EXCEPT !.book = IF @ = o THEN Null ELSE @]
Dealloc(m, o)        == [m EXCEPT !.obj[o] = Free]

ObFree(m, o) ==
    Dealloc([BookDisappears(FoodDisappears(m, o), o) EXCEPT
                !.uwep = IF @ = o THEN Null ELSE @], o)

\* useup and useupf: the last one is freed.
UseUp(m, o) ==
    IF m.obj[o].quan > 1 THEN [m EXCEPT !.obj[o].quan = @ - 1] ELSE ObFree(m, o)

SplitObj(m, o, n) ==
    [m EXCEPT !.obj[o].quan = @ - n, !.obj[Malloc(m)] = [m.obj[o] EXCEPT !.quan = n]]

Substitute(m, old, new) ==
    LET Follow(p) == IF p = old THEN new ELSE p
    IN  [m EXCEPT !.victual.piece = Follow(@), !.tin.tin = Follow(@), !.book = Follow(@)]

\* Mutant: nobody is told.
ReallocUnknown(m, o) ==
    LET new == Malloc(m)
    IN  Dealloc([m EXCEPT !.obj[new] = [m.obj[o] EXCEPT !.named = TRUE],
                          !.uwep = IF @ = o THEN new ELSE @], o)

\* The named object is a new one, worn and pointed at in the place of the old.
ReallocObj(m, o) ==
    LET new == Malloc(m)
    IN  Dealloc(Substitute(
            [m EXCEPT !.obj[new] = [m.obj[o] EXCEPT !.named = TRUE],
                      !.uwep = IF @ = o THEN new ELSE @], o, new), o)

Mergable(x, y) ==
    /\ x.otyp = y.otyp /\ x.otyp # "BOOK"
    /\ x.oeaten = y.oeaten /\ x.orotten = y.orotten
    /\ x.otyp = "CORPSE" => x.named = y.named

\* merged(&otmp, &o): o goes into otmp, which takes over its name.
Merged(m, otmp, o) ==
    LET more == [m EXCEPT !.obj[otmp].quan = @ + m.obj[o].quan]
    IN  ObFree(IF m.obj[o].named /\ ~m.obj[otmp].named THEN ReallocObj(more, otmp) ELSE more, o)

\* The first of the objects in the same place that o merges with.
Partner(m, o) ==
    {p \in Addr \ {o} : /\ m.obj[p].where = m.obj[o].where
                        /\ m.obj[o].where = "FLOOR" => m.obj[p].at = m.obj[o].at
                        /\ Mergable(m.obj[p], m.obj[o])}

\* addinv and add_to_minv merge the newcomer into what is there already,
Joins(m, o, place) ==
    LET there == [m EXCEPT !.obj[o].where = place, !.obj[o].at = Nowhere]
    IN  IF Partner(there, o) = {} THEN there
        ELSE Merged(there, CHOOSE p \in Partner(there, o) : TRUE, o)

\* stackobj what is there already into the newcomer.
Lands(m, o, s) ==
    LET there == [m EXCEPT !.obj[o].where = "FLOOR", !.obj[o].at = s]
    IN  IF Partner(there, o) = {} THEN there
        ELSE Merged(there, o, CHOOSE p \in Partner(there, o) : TRUE)

-----------------------------------------------------------------------------
(***************************************************************************)
(* Eating.                                                                 *)
(***************************************************************************)
\* One of the stack is set apart, and counts as begun.  It becomes the piece.
TouchFood(m, o) ==
    LET stack == m.obj[o].quan > 1
        piece == IF stack /\ Carried(m, o) THEN Malloc(m) ELSE o
        apart == IF ~stack THEN m
                 ELSE SplitObj(m, o, IF Carried(m, o) THEN 1 ELSE m.obj[o].quan - 1)
    IN  [apart EXCEPT !.obj[piece].oeaten = IF @ = 0 THEN Full[apart.obj[piece].otyp] ELSE @,
                      !.victual.piece = piece]

\* Mutant: it may hit 0.
ConsumeToNothing(m, amt) ==
    LET o    == m.victual.piece
        left == m.obj[o].oeaten
        rest == IF amt > 0 THEN left \div 2 ^ amt ELSE IF left > -amt THEN left + amt ELSE 0
    IN  IF rest > 0 THEN [m EXCEPT !.obj[o].oeaten = rest]
        ELSE [m EXCEPT !.obj[o].oeaten = 0, !.victual.reqtime = m.victual.usedtime]

\* amt > 0 halves, amt < 0 takes off.
ConsumeOeaten(m, amt) ==
    LET o    == m.victual.piece
        left == m.obj[o].oeaten
        rest == IF amt > 0 THEN left \div 2 ^ amt ELSE IF left > -amt THEN left + amt ELSE 0
    IN  IF rest > 0 THEN [m EXCEPT !.obj[o].oeaten = rest]
        ELSE [m EXCEPT !.obj[o].oeaten = 1, !.victual.reqtime = m.victual.usedtime]

Idle(m) == [m EXCEPT !.occupation = "none"]

\* The stop_occupation() in it finds nothing to finish: victual.eating is off by then.
DoResetEat(m) ==
    LET kept == IF m.victual.piece = Null THEN m ELSE TouchFood(m, m.victual.piece)
    IN  Idle([kept EXCEPT !.victual.eating = FALSE, !.victual.doreset = FALSE])

\* fate: what becomes of the hero.  Nearly sated, she may choose to stop (lesshungry); she
\* may choke on it, and survive; and a Rider revives, or she is lifesaved (cprefx).
Bite(m, fate) ==
    LET v   == m.victual
        amt == IF v.nmod < 0 THEN v.nmod
               ELSE IF v.nmod > 0 /\ v.usedtime % v.nmod # 0 THEN -1 ELSE 0
    IN  IF v.doreset THEN DoResetEat(m)
        ELSE IF amt = 0 THEN m
        ELSE ConsumeOeaten([m EXCEPT !.victual.doreset = fate = "sated" /\ v.eating], amt)

DoneEating(m) ==
    Idle([UseUp(m, m.victual.piece) EXCEPT
            !.victual.piece = Null, !.victual.eating = FALSE, !.victual.doreset = FALSE])

Tick(m) == [m EXCEPT !.victual.usedtime = @ + 1]

EatFood(m, fate) ==
    LET v == m.victual
        t == Tick(m)
    IN  IF v.piece = Null \/ ~InReach(m, v.piece) THEN DoResetEat(m)
        ELSE IF ~v.eating THEN Idle(m)
        ELSE IF t.victual.usedtime > v.reqtime THEN DoneEating(t)
        ELSE IF fate = "chokes" THEN Idle(t)
        ELSE Bite(t, fate)

\* In case consume_oeaten() has decided that the food is all gone.
MaybeFinishedMeal(m) ==
    IF m.occupation = "eatfood" /\ m.victual.usedtime >= m.victual.reqtime
    THEN EatFood(Idle(m), "eats") ELSE m

StopOccupation(m) == Idle(MaybeFinishedMeal(m))

StartEating(m, fate) ==
    LET begun  == [m EXCEPT !.victual.doreset = FALSE, !.victual.eating = TRUE]
        bitten == Bite(begun, fate)
        t      == Tick(bitten)
    IN  CASE fate = "revives" -> ObFree(begun, m.victual.piece)
          [] fate = "spared"  -> [begun EXCEPT !.victual.eating = FALSE]
          [] fate = "chokes"  -> begun
          [] OTHER -> IF t.victual.usedtime >= t.victual.reqtime THEN DoneEating(t)
                      ELSE [t EXCEPT !.occupation = "eatfood"]

RoundDiv(x, y) == (2 * x + y) \div (2 * y)

Portion(m) ==
    LET food == m.obj[m.victual.piece]
        left == food.oeaten
        req  == RoundDiv(m.victual.reqtime * left, Full[food.otyp])
    IN  [m EXCEPT !.victual.reqtime = req,
                  !.victual.nmod = IF req = 0 THEN 0
                                   ELSE IF left >= req THEN -(left \div req) ELSE req % left]

\* luck: tainted, or rotten with or without fainting.
NewMeal(m, o, luck, fate) ==
    LET corpse == m.obj[o].otyp = "CORPSE"
        taken  == [TouchFood(m, o) EXCEPT !.victual.usedtime = 0,
                                          !.victual.reqtime = OcDelay[m.obj[o].otyp]]
        piece  == taken.victual.piece
        faint  == [taken EXCEPT !.obj[piece].orotten = TRUE]
    IN  CASE luck = "tainted" -> [UseUp(taken, piece) EXCEPT !.victual.piece = Null]
          [] luck = "faints"  -> Portion(IF corpse THEN faint ELSE ConsumeOeaten(faint, 1))
          [] luck = "rotten"  ->
                StartEating(Portion(ConsumeOeaten(taken, IF corpse THEN 2 ELSE 1)), fate)
          [] OTHER -> StartEating(Portion(taken), fate)

-----------------------------------------------------------------------------
(***************************************************************************)
(* A turn of the hero: the occupation, or else a command.                  *)
(***************************************************************************)
Init ==
    /\ obj \in Stock
    /\ victual = NoMeal /\ tin = NoTin /\ book = Null /\ delay = 0
    /\ uwep = Null /\ occupation = "none"
    /\ levelfile = [l \in Level |-> <<>>] /\ lev = 1 /\ u = 1
    /\ phase = "hero"

Busy(with) ==
    /\ phase = "hero" /\ occupation = with
    /\ UNCHANGED <<levelfile, lev, u>>

\* moveloop, after the occupation: monster_nearby() stops it and resets the meal.
OrNearby(m) ==
    \E nearby \in BOOLEAN :
        LET stopped == StopOccupation(m)
        IN  Becomes(IF ~nearby THEN m
                    ELSE [stopped EXCEPT !.victual.doreset = @ \/ stopped.victual.eating])

Crash == phase' = "crashed" /\ Becomes(Idle(Now))

Eating ==
    /\ Busy("eatfood")
    /\ \E fate \in {"eats", "sated", "chokes"} : OrNearby(EatFood(Now, fate))
    /\ phase' = "others"

OpenTin ==
    LET used == [Now EXCEPT !.tin.usedtime = @ + 1]
        open == Idle([UseUp(used, tin.tin) EXCEPT !.tin.tin = Null])
        Forget(m) == [m EXCEPT !.victual.piece = Null, !.victual.eating = FALSE,
                               !.victual.doreset = FALSE]
    IN  /\ Busy("opentin")
        /\ IF tin.tin \notin Live(obj) THEN Crash
           ELSE /\ phase' = "others"
                /\ IF ~InReach(Now, tin.tin) THEN OrNearby(Idle(Now))
                   ELSE IF tin.usedtime >= GiveUp THEN OrNearby(Idle(used))
                   ELSE IF tin.usedtime + 1 < tin.reqtime THEN OrNearby(used)
                   ELSE \E eaten \in BOOLEAN : OrNearby(IF eaten THEN Forget(open) ELSE open)

\* Lenses may count a turn twice; a cursed book and a confused reader may destroy it.
Learn ==
    /\ Busy("learn")
    /\ \E confused, lenses, gone \in BOOLEAN :
        LET d    == IF delay # 0 /\ lenses THEN delay + 1 ELSE delay
            done == confused \/ d = 0
            left == IF gone THEN UseUp(Now, book) ELSE Now
        IN  IF ~done
            THEN OrNearby([Now EXCEPT !.delay = d + 1]) /\ phase' = "others"
            ELSE IF book = Null /\ (gone \/ ~confused)
            THEN Crash
            ELSE /\ OrNearby(Idle([left EXCEPT !.book = Null, !.delay = 0]))
                 /\ phase' = "others"

Command ==
    /\ phase = "hero" /\ occupation = "none"
    /\ phase' = "others"

Stays == UNCHANGED <<levelfile, lev, u>>

Wait == Command /\ Stays /\ Becomes(Now)

Eat(o) ==
    /\ Command /\ Stays
    /\ InReach(Now, o) /\ obj[o].otyp \in Foods
    /\ obj[o].quan > 1 => RoomToSplit
    /\ LET corpse == obj[o].otyp = "CORPSE"
           fates  == {"eats", "sated", "chokes"} \cup IF corpse THEN {"revives", "spared"} ELSE {}
       IN  IF o = victual.piece
           THEN \E fate \in fates : Becomes(StartEating(TouchFood(Now, o), fate))
           ELSE \/ \E luck \in {"fresh", "rotten"}, fate \in fates :
                    Becomes(NewMeal(Now, o, luck, fate))
                \/ \E luck \in {"faints"} \cup IF corpse THEN {"tainted"} ELSE {} :
                    Becomes(NewMeal(Now, o, luck, "eats"))

StartTin(o) ==
    /\ Command /\ Stays
    /\ InReach(Now, o) /\ obj[o].otyp = "TIN"
    /\ \E t \in TinTimes :
        Becomes([Now EXCEPT !.tin = [tin |-> o, usedtime |-> 0, reqtime |-> t],
                            !.occupation = "opentin"])

\* Taken up again only if it is the book of the last time.
StudyBook(o) ==
    LET study == [Now EXCEPT !.book = o, !.occupation = "learn"]
    IN  /\ Command /\ Stays
        /\ Carried(Now, o) /\ obj[o].otyp = "BOOK"
        /\ \/ delay # 0 /\ book = o /\ Becomes(study)
           \/ \E confused \in BOOLEAN :
                /\ confused \/ delay = 0 \/ book # o
                /\ \/ ~confused /\ Becomes([study EXCEPT !.delay = -BookDelay])
                   \* too hard or confusing
                   \/ Becomes([Now EXCEPT !.delay = 0])
                   \/ Becomes([UseUp(Now, o) EXCEPT !.delay = 0])

DoWield(o) ==
    /\ Command /\ Stays
    /\ Carried(Now, o) /\ obj[o].otyp = "CORPSE"
    /\ Becomes([Now EXCEPT !.uwep = IF @ = o THEN Null ELSE o])

DoOname(o) ==
    /\ Command /\ Stays
    /\ Carried(Now, o) /\ ~obj[o].named
    /\ Becomes(ReallocObj(Now, o))

Pickup(o) ==
    /\ Command /\ Stays
    /\ Here(Now, o)
    /\ Becomes(Joins(Now, o, "INVENT"))

Drop(o) ==
    /\ Command /\ Stays
    /\ Carried(Now, o)
    /\ Becomes(Lands([Now EXCEPT !.uwep = IF @ = o THEN Null ELSE @], o, u))

DoMove ==
    /\ Command /\ Becomes(Now)
    /\ u' \in Square \ {u}
    /\ UNCHANGED <<levelfile, lev>>

\* savelev frees what stays behind, getlev allocates it anew.
GotoLevel(l) ==
    LET stay  == {o \in Live(obj) : ~Carried(Now, o)}
        left  == SetToSeq(stay)
        gone  == [o \in Addr |-> IF o \in stay THEN Free ELSE obj[o]]
        slots == SetToSeq(Addr \ Live(gone))
        From(o) == {i \in DOMAIN levelfile[l] : slots[i] = o}
        back  == [o \in Addr |-> IF From(o) = {} THEN gone[o]
                                 ELSE levelfile[l][CHOOSE i \in From(o) : TRUE]]
        Kept(p) == IF p \in stay THEN Null ELSE p
    IN  /\ Command /\ l # lev
        /\ Becomes([Now EXCEPT !.obj = back, !.victual.piece = Kept(@), !.book = Kept(@)])
        /\ levelfile' = [levelfile EXCEPT ![lev] = [i \in DOMAIN left |-> obj[left[i]]],
                                          ![l] = <<>>]
        /\ lev' = l /\ u' \in Square

-----------------------------------------------------------------------------
(***************************************************************************)
(* Between two turns of the hero: monsters and the clock.                  *)
(***************************************************************************)
Others == phase = "others" /\ phase' = "others" /\ UNCHANGED <<levelfile, lev>>

EndTurn == phase = "others" /\ phase' = "hero" /\ Becomes(Now) /\ Stays

\* Something comes into view, hits the hero, ...
Interrupt ==
    /\ Others /\ occupation # "none"
    /\ Becomes(StopOccupation(Now))
    /\ UNCHANGED u

\* tele(), which stops nothing
Tele ==
    /\ Others /\ Becomes(Now)
    /\ u' \in Square \ {u}

Steal ==
    LET m == MaybeFinishedMeal(Now)
    IN  /\ Others /\ UNCHANGED u
        /\ \E o \in Addr :
            /\ Carried(m, o)
            /\ Becomes(Joins([StopOccupation(m) EXCEPT !.uwep = IF @ = o THEN Null ELSE @],
                             o, "MINVENT"))

\* destroy_item(SPBOOK_CLASS, AD_FIRE), which stops nothing either
DestroyBook(o) ==
    /\ Others /\ UNCHANGED u
    /\ Carried(Now, o) /\ obj[o].otyp = "BOOK"
    /\ Becomes(UseUp(Now, o))

\* mpickstuff, where the hero is not
MPickUp(o) ==
    /\ Others /\ UNCHANGED u
    /\ obj[o].where = "FLOOR" /\ obj[o].at # u
    /\ Becomes(Joins(Now, o, "MINVENT"))

\* dog_eat and meatobj
MEat(o) ==
    /\ Others /\ UNCHANGED u
    /\ obj[o].where \in {"MINVENT", "FLOOR"} /\ ~Here(Now, o)
    /\ Becomes(ObFree(Now, o))

RelObj(o) ==
    /\ Others /\ UNCHANGED u
    /\ obj[o].where = "MINVENT"
    /\ \E s \in Square \ {u} : Becomes(Lands(Now, o, s))

\* rot_corpse frees the corpse, without looking whether stop_occupation() has.
RotCorpse(o) ==
    LET m == IF uwep = o THEN StopOccupation([Now EXCEPT !.uwep = Null]) ELSE Now
    IN  /\ phase = "others" /\ Stays
        /\ o \in Live(obj) /\ obj[o].otyp = "CORPSE"
        /\ IF o \in Live(m.obj) THEN Becomes(ObFree(m, o)) /\ phase' = phase ELSE Crash

Next ==
    \/ Eating \/ OpenTin \/ Learn
    \/ Wait \/ DoMove \/ \E l \in Level : GotoLevel(l)
    \/ \E o \in Addr : \/ Eat(o) \/ StartTin(o) \/ StudyBook(o) \/ DoWield(o)
                       \/ DoOname(o) \/ Pickup(o) \/ Drop(o)
    \/ Interrupt \/ Tele \/ Steal \/ EndTurn
    \/ \E o \in Addr : DestroyBook(o) \/ MPickUp(o) \/ MEat(o) \/ RelObj(o) \/ RotCorpse(o)

Spec == Init /\ [][Next]_vars

-----------------------------------------------------------------------------
(***************************************************************************)
(* Properties.                                                             *)
(***************************************************************************)
\* What was begun can be found again: the piece is food that has been begun, the book
\* is a book, and what is wielded is carried, whatever has been merged, split, renamed,
\* stolen, destroyed or left behind since (eat.c:358, eat.c:371, spell.c:520: "the
\* stored address ... is no longer valid").
PointersLive ==
    /\ victual.piece # Null =>
        /\ obj[victual.piece].where # "FREE" /\ obj[victual.piece].otyp \in Foods
        /\ obj[victual.piece].oeaten > 0
    /\ book # Null => obj[book].where # "FREE" /\ obj[book].otyp = "BOOK"
    /\ uwep # Null => obj[uwep].where = "INVENT"

Nutrition(r) ==
    IF r.otyp \notin Foods THEN 0 ELSE r.quan * (IF r.oeaten = 0 THEN Full[r.otyp] ELSE r.oeaten)

Food ==
    LET Sum(f) == FoldFunction(LAMBDA r, n : n + Nutrition(r), 0, f)
    IN  Sum(obj) + SumFunction([l \in Level |-> Sum(levelfile[l])])

\* Food that has been eaten does not come back: no interruption, not even "on the
\* critical turn", restores a meal to the status of untouched (eat.c:2636).
NoRefill == [][obj' # obj \/ levelfile' # levelfile => Food' <= Food]_vars
=============================================================================
