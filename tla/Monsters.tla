------------------------------ MODULE Monsters ------------------------------
(***************************************************************************)
(* Where every monster is: the lists fmon, mydogs and migrating_mons, the  *)
(* map level.monsters, the level files, and the pointers that the hero     *)
(* keeps into them (u.ustuck, u.usteed), through everything that creates,  *)
(* moves, replaces, kills or takes away a monster.  The walk of movemon    *)
(* over fmon is one step per monster, inside the loop of moveloop that     *)
(* deals out movement; level changes and saves come between.               *)
(*                                                                         *)
(* mydogs is filled and emptied within one goto_level, so it is a part of  *)
(* a World and not a variable.  Squares have no geometry: any two are      *)
(* adjacent, and enexto() finds a free one whenever there is one.          *)
(***************************************************************************)
EXTENDS Integers, FiniteSets, Sequences, SequencesExt, FiniteSetsExt

CONSTANTS
    MonId,          \* identities of struct monst
    NoMon,          \* the null pointer
    Level,          \* dungeon levels
    Square,         \* the squares of a level
    Nowhere,        \* mx = 0
    Form,           \* kinds of monster (mons[])
    Lights,         \* the forms that emit light
    Steeds,         \* the forms that can be ridden
    Engulfers,      \* the forms with an engulfing attack
    Animals,        \* the forms that are animals
    Stickers,       \* the forms that hold on to the hero
    Speed,          \* Speed[f]: movement a form gains in a turn
    HeroSpeeds,     \* movement the hero may gain in a turn
    NORMAL_SPEED,   \* movement that one action costs: 12
    Cast,           \* Cast[l]: the monsters that level l is created with
    MaxMonsters,    \* bound on the monsters alive
    MaxMovement,    \* bound on the movement a monster keeps
    Oversights      \* the sequences of section "Oversights" that may happen

OversightKinds == {"rise", "stray", "plucked", "fall", "nested"}

ASSUME FormAssumption ==
    /\ Lights \subseteq Form /\ Steeds \subseteq Form /\ Stickers \subseteq Form
    /\ Engulfers \subseteq Form /\ Animals \subseteq Form
    /\ Speed \in [Form -> Nat] /\ HeroSpeeds \subseteq Nat \ {0}
    /\ Form # {} /\ HeroSpeeds # {} /\ NORMAL_SPEED \in Nat \ {0}
    /\ Cast \in [Level -> Seq([id : MonId, data : Form])]
    /\ Oversights \subseteq OversightKinds
Ids(l) == [i \in 1..Len(Cast[l]) |-> Cast[l][i].id]
ASSUME PlaceAssumption ==
    /\ NoMon \notin MonId /\ Nowhere \notin Square /\ "stay" \notin Level
    /\ IsFiniteSet(MonId) /\ IsFiniteSet(Square) /\ Level # {}
    /\ MaxMonsters \in Nat /\ MaxMovement \in Nat
    /\ Cardinality(MonId) > MaxMonsters /\ Cardinality(Square) > MaxMonsters
    /\ \A l, k \in Level : \A i \in 1..Len(Cast[l]), j \in 1..Len(Cast[k]) :
          Cast[l][i].id = Cast[k][j].id => l = k /\ i = j
    /\ Cardinality(UNION {Range(Ids(l)) : l \in Level}) <= MaxMonsters

VARIABLES
    here,           \* the level in memory (u.uz)
    mon,            \* every struct monst, in memory or in a level file
    fmon,           \* the monsters of this level, living or dead
    migrating_mons, \* those on their way to another level
    grid,           \* level.monsters
    light,          \* light[m]: light sources in memory attached to m
    you,            \* the hero: place, pointers to monsters, movement
    purge,          \* iflags.purge_monsters
    impossible,     \* impossible() or panic() has been called
    levelfile,      \* the monsters and light sources written with each level
    phase,          \* "hero", "monsters" or "newturn"
    walk,           \* the monster that movemon visits next (nmtmp)
    somebody        \* somebody_can_move

vars == <<here, mon, fmon, migrating_mons, grid, light, you, purge,
          impossible, levelfile, phase, walk, somebody>>

ToLevel == Level \cup {"stay"}
Monst   == [data : Form, mx : Square \cup {Nowhere}, alive : BOOLEAN,
            movement : Nat, mleashed : BOOLEAN, dest : Level]
You     == [at : Square, ustuck : MonId \cup {NoMon}, uswallow : BOOLEAN,
            usteed : MonId \cup {NoMon}, utolev : ToLevel, movement : Nat]

(***************************************************************************)
(* The code's functions, as operators from world to world.                 *)
(***************************************************************************)
World == [mon |-> mon, fmon |-> fmon, mydogs |-> <<>>,
          migrating_mons |-> migrating_mons, grid |-> grid, light |-> light,
          you |-> you, purge |-> purge, impossible |-> impossible]

Becomes(W) == /\ mon' = W.mon
              /\ fmon' = W.fmon
              /\ migrating_mons' = W.migrating_mons
              /\ grid' = W.grid
              /\ light' = W.light
              /\ you' = W.you
              /\ purge' = W.purge
              /\ impossible' = W.impossible

Impossible(W) == [W EXCEPT !.impossible = TRUE]

\* The level the game starts on; also given to monsters that go nowhere.
NoLev  == CHOOSE l \in Level : TRUE
Freed  == [data |-> CHOOSE f \in Form : TRUE, mx |-> Nowhere, alive |-> FALSE,
           movement |-> 0, mleashed |-> FALSE, dest |-> NoLev]
Bare   == [x \in Square |-> NoMon]

InFiles == UNION {Range(levelfile[l].fmon) : l \in Level}
Owned(W) == Range(W.fmon) \cup Range(W.mydogs) \cup Range(W.migrating_mons)
                          \cup InFiles
NewMonst(W) == CHOOSE m \in MonId : m \notin Owned(W)

\* enexto: the squares it may find.
Enexto(W) == {x \in Square : W.grid[x] = NoMon /\ x # W.you.at}
Spot(W)   == CHOOSE x \in Enexto(W) : TRUE

RemoveMonster(W, x) == IF x = Nowhere THEN W ELSE [W EXCEPT !.grid[x] = NoMon]

PlaceMonster(W, m, x) ==
    IF m = W.you.usteed \/ ~W.mon[m].alive
    THEN Impossible(W)
    ELSE [W EXCEPT !.mon[m].mx = x, !.grid[x] = m]

\* The list s when the monsters of S are unlinked from it.
Without(s, S) ==
    LET kept[i \in 0..Len(s)] ==
            IF i = 0 THEN <<>>
            ELSE IF s[i] \in S THEN kept[i - 1] ELSE Append(kept[i - 1], s[i])
    IN  kept[Len(s)]

\* Mutant: a monster taken off its list stays on the map.
RelMonOnMap(W, m) == [W EXCEPT !.fmon = Without(@, {m})]

RelMon(W, m) ==
    IF m \notin Range(W.fmon)
    THEN Impossible(W)
    ELSE [RemoveMonster(W, W.mon[m].mx)
              EXCEPT !.fmon = Without(@, {m})]

NewLightSource(W, m) ==
    IF W.mon[m].data \in Lights THEN [W EXCEPT !.light[m] = @ + 1] ELSE W
DelLightSource(W, m, form) ==
    IF form \notin Lights THEN W
    ELSE IF W.light[m] = 0 THEN Impossible(W)
    ELSE [W EXCEPT !.light[m] = @ - 1]

Unstuck(W, m) ==
    IF W.you.ustuck # m THEN W
    ELSE [W EXCEPT !.you.at = IF W.you.uswallow THEN W.mon[m].mx ELSE @,
                   !.you.uswallow = FALSE, !.you.ustuck = NoMon]

Teleds(W, x) ==
    LET V == [W EXCEPT !.you.at = x, !.you.ustuck = NoMon,
                       !.you.uswallow = FALSE]
        s == W.you.usteed
    IN  IF s = NoMon THEN V ELSE [V EXCEPT !.mon[s].mx = x]

\* Mutant: an engulfer is moved without its hero.
RlocToAlone(W, m, x) ==
    IF x = W.mon[m].mx THEN W
    ELSE PlaceMonster(RemoveMonster(W, W.mon[m].mx), m, x)

RlocTo(W, m, x) ==
    LET V == PlaceMonster(RemoveMonster(W, W.mon[m].mx), m, x)
    IN  IF x = W.mon[m].mx THEN W
        ELSE IF W.you.ustuck # m THEN V
        ELSE IF W.you.uswallow THEN [V EXCEPT !.you.at = x]
        ELSE [V EXCEPT !.you.ustuck = NoMon]

Mnexto(W, m) ==
    IF m = W.you.usteed THEN [W EXCEPT !.mon[m].mx = W.you.at]
    ELSE IF Enexto(W) = {} THEN W
    ELSE RlocTo(W, m, Spot(W))

Rloc(W, m) ==
    IF Enexto(W) = {} THEN W
    ELSE IF m = W.you.usteed THEN Teleds(W, Spot(W))
    ELSE RlocTo(W, m, Spot(W))

Expels(W, m) == Mnexto(Unstuck(W, m), m)

\* Mutant: the dead monster is not counted.
MDetachUncounted(W, m) ==
    LET V == RemoveMonster([W EXCEPT !.mon[m].mleashed = FALSE], W.mon[m].mx)
    IN  Unstuck(DelLightSource(V, m, W.mon[m].data), m)

MDetach(W, m) ==
    LET V == RemoveMonster([W EXCEPT !.mon[m].mleashed = FALSE], W.mon[m].mx)
    IN  [Unstuck(DelLightSource(V, m, W.mon[m].data), m)
             EXCEPT !.purge = @ + 1]

\* Mutant: the dead monster is freed while movemon walks.
MonDeadAtOnce(W, m) ==
    LET V == [W EXCEPT !.mon[m].alive = FALSE]
        D == MDetach(IF m = W.you.usteed THEN [V EXCEPT !.you.usteed = NoMon]
                                         ELSE V, m)
    IN  [RelMon(D, m) EXCEPT !.mon[m] = Freed, !.purge = W.purge]

\* mondead and mongone; dismount_steed only clears u.usteed for a dead steed.
MonDead(W, m) ==
    LET V == [W EXCEPT !.mon[m].alive = FALSE]
    IN  MDetach(IF m = W.you.usteed THEN [V EXCEPT !.you.usteed = NoMon]
                                    ELSE V, m)

\* dismount_steed; have_spot is landing_spot()'s answer, and drowns says
\* whether the steed dies in the water it is left in.
DismountSteed(W, have_spot, drowns) ==
    LET s == W.you.usteed
        V == PlaceMonster([W EXCEPT !.you.usteed = NoMon], s, W.you.at)
    IN  IF ~W.you.uswallow /\ W.you.ustuck = NoMon /\ have_spot
        THEN IF drowns THEN MonDead(V, s) ELSE Teleds(V, Spot(V))
        ELSE IF Enexto(V) # {} THEN RlocTo(V, s, Spot(V))
        ELSE MonDead(V, s)

\* Mutant: the light stays with the old monster.
ReplMonDark(W, m, n) ==
    LET V == RelMon([W EXCEPT !.mon[n] = W.mon[m]], m)
        P == IF m = W.you.usteed THEN V ELSE PlaceMonster(V, n, V.mon[n].mx)
    IN  [P EXCEPT !.fmon = <<n>> \o @, !.mon[m] = Freed,
                  !.you.ustuck = IF @ = m THEN n ELSE @,
                  !.you.usteed = IF @ = m THEN n ELSE @]

ReplMon(W, m, n) ==
    LET V == RelMon([W EXCEPT !.mon[n] = W.mon[m]], m)
        P == IF m = W.you.usteed THEN V ELSE PlaceMonster(V, n, V.mon[n].mx)
        L == DelLightSource(NewLightSource(P, n), m, W.mon[m].data)
    IN  [L EXCEPT !.fmon = <<n>> \o @, !.mon[m] = Freed,
                  !.you.ustuck = IF @ = m THEN n ELSE @,
                  !.you.usteed = IF @ = m THEN n ELSE @]

DMonsFree(W) ==
    LET dead == {m \in Range(W.fmon) : ~W.mon[m].alive}
        V    == IF Cardinality(dead) = W.purge THEN W ELSE Impossible(W)
    IN  [V EXCEPT !.fmon = Without(@, dead),
                  !.mon  = [m \in MonId |-> IF m \in dead THEN Freed ELSE @[m]],
                  !.purge = 0]

MakeMon(W, form) ==
    LET n == NewMonst(W)
        V == [W EXCEPT !.mon[n] = [Freed EXCEPT !.data = form, !.alive = TRUE],
                       !.fmon = <<n>> \o @]
    IN  NewLightSource(PlaceMonster(V, n, Spot(W)), n)

CloneMon(W, m, christened) ==
    LET n == NewMonst(W)
        V == [W EXCEPT !.mon[n] = [W.mon[m] EXCEPT !.mleashed = FALSE],
                       !.fmon = <<n>> \o @]
        C == NewLightSource(PlaceMonster(V, n, Spot(W)), n)
    IN  IF christened THEN ReplMon(C, n, NewMonst(C)) ELSE C

NewCham(W, m, form) ==
    LET V == [W EXCEPT !.mon[m].data = form]
        L == IF (W.mon[m].data \in Lights) = (form \in Lights) THEN V
             ELSE NewLightSource(DelLightSource(V, m, W.mon[m].data), m)
    IN  IF W.you.ustuck # m THEN L
        ELSE IF W.you.uswallow
             THEN IF form \in Engulfers THEN L ELSE Expels(L, m)
        ELSE IF form \in Stickers THEN L ELSE Unstuck(L, m)

\* for (mtmp = list; mtmp; mtmp = mtmp->nmon) W = Each(W, mtmp)
ForEach(Each(_, _), W, list) ==
    LET done[i \in 0..Len(list)] ==
            IF i = 0 THEN W ELSE Each(done[i - 1], list[i])
    IN  done[Len(list)]

UnleashAll(W) ==
    [W EXCEPT !.mon = [m \in MonId |-> [@[m] EXCEPT !.mleashed = FALSE]]]

GulpMU(W, m, have_spot) ==
    LET V == [PlaceMonster(RemoveMonster(W, W.mon[m].mx), m, W.you.at)
                  EXCEPT !.you.ustuck = m]
        D == IF W.mon[m].data \in Animals /\ W.you.usteed # NoMon
             THEN DismountSteed(V, have_spot, FALSE) ELSE V
    IN  [UnleashAll(D) EXCEPT !.you.uswallow = TRUE]

\* gulpmm: died holds those of the two that mdamagem kills.
GulpMM(W, a, d, died) ==
    LET ax == W.mon[a].mx
        dx == W.mon[d].mx
        V  == PlaceMonster(RemoveMonster(W, ax), a, dx)
    IN  CASE died = {a, d} -> MonDead(MonDead(V, d), a)
          [] died = {d}    -> PlaceMonster(MonDead(V, d), a, dx)
          [] died = {a}    -> PlaceMonster(MonDead(V, a), d, dx)
          [] died = {}     -> PlaceMonster(PlaceMonster(V, a, ax), d, dx)

(***************************************************************************)
(* Level changes.                                                          *)
(***************************************************************************)
\* Mutant: the monster keeps its leash.
MigrateLeashed(W, m, l) ==
    LET V == RelMon(W, m)
    IN  [V EXCEPT !.mon[m].mx = Nowhere, !.mon[m].dest = l,
                  !.migrating_mons = <<m>> \o @]

MigrateToLevel(W, m, l) ==
    LET V == RelMon([W EXCEPT !.mon[m].mleashed = FALSE], m)
    IN  [V EXCEPT !.mon[m].mx = Nowhere, !.mon[m].dest = l,
                  !.migrating_mons = <<m>> \o @]

\* keepdogs: the steed and those that follow go to mydogs, the last one
\* first; whoever stays is unleashed.
KeepDogs(W, followers) ==
    LET goes == {m \in Range(W.fmon) :
                    W.mon[m].alive /\ m \in followers \cup {W.you.usteed}}
        stay == Range(W.fmon) \ goes
    IN  [W EXCEPT !.fmon   = Without(@, goes),
                  !.mydogs = Reverse(Without(W.fmon, stay)),
                  !.grid   = [x \in Square |-> IF @[x] \in goes THEN NoMon ELSE @[x]],
                  !.mon    = [m \in MonId |->
                      IF m \in goes THEN [@[m] EXCEPT !.mx = Nowhere]
                      ELSE IF m \in stay THEN [@[m] EXCEPT !.mleashed = FALSE]
                      ELSE @[m]]]

\* Which light sources go with the level: mon_is_local.
LocalLights(W) ==
    [m \in MonId |-> IF W.mon[m].mx = Nowhere THEN 0 ELSE W.light[m]]
LevelFile(W)   == [fmon |-> W.fmon, light |-> LocalLights(W)]

\* savelev with WRITE_SAVE and FREE_SAVE: what is left in memory.
SaveLev(W) ==
    [W EXCEPT !.fmon = <<>>, !.grid = Bare,
              !.light = [m \in MonId |-> W.light[m] - LocalLights(W)[m]]]

\* The end of getlev: every monster of the level is placed.
MapOf(W) == ForEach(LAMBDA V, m : PlaceMonster(V, m, V.mon[m].mx),
                     [W EXCEPT !.grid = Bare], W.fmon)
GetLev(W, file) ==
    MapOf([W EXCEPT !.fmon = file.fmon,
                    !.light = [m \in MonId |-> W.light[m] + file.light[m]]])

UOnNewpos(W, x) ==
    LET s == W.you.usteed
        V == [W EXCEPT !.you.at = x]
    IN  IF s = NoMon THEN V ELSE [V EXCEPT !.mon[s].mx = x]

\* mon_arrive; bold are the followers that try the hero's own square.
MonArrive(W, m, with_you, bold) ==
    LET V == [W EXCEPT !.fmon = <<m>> \o @, !.mon[m].dest = NoLev]
    IN  IF m = W.you.usteed THEN V
        ELSE IF with_you
             THEN IF V.grid[V.you.at] = NoMon /\ m \in bold
                  THEN RlocTo(V, m, V.you.at) ELSE Mnexto(V, m)
        ELSE IF Enexto(V) = {} THEN MonDead(V, m)
        ELSE RlocTo(V, m, Spot(V))

\* Mutant: those whose level this is are delivered and stay listed.
LoseDogsTwice(W, l, bold) ==
    LET With(V, m) == MonArrive(V, m, TRUE, bold)
        Own(V, m)  == IF V.mon[m].dest = l THEN MonArrive(V, m, FALSE, bold)
                                           ELSE V
    IN  ForEach(Own, ForEach(With, [W EXCEPT !.mydogs = <<>>], W.mydogs),
                 W.migrating_mons)

LoseDogs(W, l, bold) ==
    LET others     == {m \in MonId : W.mon[m].dest # l}
        With(V, m) == MonArrive(V, m, TRUE, bold)
        Own(V, m)  == MonArrive([V EXCEPT !.migrating_mons = Without(@, {m})],
                                m, FALSE, bold)
    IN  ForEach(Own, ForEach(With, [W EXCEPT !.mydogs = <<>>], W.mydogs),
                 Without(W.migrating_mons, others))

\* The end of goto_level: who is on the hero's square gives way, or the
\* hero does (shove).
Collision(W, shove) ==
    LET m == W.grid[W.you.at]
        V == IF shove THEN Mnexto(W, m) ELSE UOnNewpos(W, Spot(W))
    IN  IF m = NoMon THEN W
        ELSE IF V.grid[V.you.at] = NoMon THEN V
        ELSE Rloc(Impossible(V), V.grid[V.you.at])
\* How a level change turns out: who follows, who is bold, where the hero
\* arrives, whether a riding hero falls down the stairs, finds a landing
\* spot, and who gives way in the end.
Trips(l) ==
    LET taken == {mon[m].mx : m \in Range(levelfile[l].fmon)}
        other == {m \in Range(fmon) : mon[m].alive} \ {you.usteed}
    IN  {c \in [followers : SUBSET other, bold : SUBSET other,
                at : taken \cup {CHOOSE x \in Square : x \notin taken},
                fell : BOOLEAN, have_spot : BOOLEAN, shove : BOOLEAN] :
           /\ c.bold \subseteq c.followers
           /\ c.fell => /\ you.usteed # NoMon
                        /\ c.at \in taken => "fall" \in Oversights
           /\ ~c.fell => ~c.have_spot}

\* goto_level up to savelev.
Leave(W, followers) ==
    LET K == [KeepDogs([W EXCEPT !.you.ustuck = NoMon], followers)
                  EXCEPT !.you.uswallow = FALSE]
    IN  IF K.purge = 0 THEN K ELSE DMonsFree(K)

\* goto_level from getlev or mklev on.
Arrive(W, l, c) ==
    LET A == UOnNewpos(GetLev(SaveLev(W), levelfile[l]), c.at)
        F == IF c.fell THEN DismountSteed(A, c.have_spot, FALSE) ELSE A
    IN  Collision(LoseDogs(F, l, c.bold), c.shove)

EmptyFile == [fmon |-> <<>>, light |-> [m \in MonId |-> 0]]

\* The hero is on level l with world W; the level left is in its file.
GotoLevel(W, l, c) ==
    /\ here' = l
    /\ levelfile' = [levelfile EXCEPT ![here] = LevelFile(Leave(W, c.followers)),
                                      ![l] = EmptyFile]

First(s) == IF s = <<>> THEN NoMon ELSE Head(s)
Next_(m, s) == LET i == CHOOSE i \in 1..Len(s) : s[i] = m
               IN  IF i = Len(s) THEN NoMon ELSE s[i + 1]

Living(W) == {m \in MonId : W.mon[m].alive}
OnMap     == {m \in Range(fmon) : mon[m].alive} \ {you.usteed}
Room      == Cardinality(Living(World)) < MaxMonsters
\* The monsters the hero can reach: only the engulfer from inside of it.
Reach     == IF you.uswallow THEN {you.ustuck} ELSE OnMap
Swallowing(m) == you.uswallow /\ you.ustuck = m

(***************************************************************************)
(* Oversights.  Five sequences of legal steps leave the pointers of the    *)
(* hero or the map wrong.  Oversights says which of them may happen:       *)
(*   "rise"    the monster that holds the hero leaves the level (cursed    *)
(*             gain level, cursed teleportation): migrate_to_level keeps   *)
(*             u.ustuck;                                                   *)
(*   "stray"   a riding hero steps back from a pinned pet, or is engulfed  *)
(*             and stays mounted: the steed is not moved along;            *)
(*   "plucked" an animal engulfs a riding hero: gulpmu has put it on his   *)
(*             square when dismount_steed puts the steed there too; since  *)
(*             u.ustuck is set rloc_to then moves the steed on and leaves  *)
(*             the square empty, and the engulfer is not on the map;       *)
(*   "fall"    a riding hero falls down the stairs onto a monster of the   *)
(*             new level: dismount_steed puts the steed on top of it;      *)
(*   "nested"  another engulfer swallows the one that holds the hero.      *)
(***************************************************************************)

(***************************************************************************)
(* The hero's commands.                                                    *)
(***************************************************************************)
\* movemon starts its walk over W.fmon.
StartWalk(W) == /\ phase' = "monsters"
                /\ walk' = First(W.fmon)
                /\ somebody' = FALSE

\* A command that takes time, and one that does not.
Takes(W) == LET V == [W EXCEPT !.you.movement = @ - NORMAL_SPEED]
            IN  Becomes(V) /\ StartWalk(V)
Command(W)     == phase = "hero" /\ Takes(W) /\ UNCHANGED <<here, levelfile>>
FreeCommand(W) == /\ phase = "hero"
                  /\ Becomes(W)
                  /\ UNCHANGED <<here, levelfile, phase, walk, somebody>>

Search   == Command(World)
Move     == Enexto(World) # {} /\ Command(Teleds(World, Spot(World)))
Attack   == \E m \in Reach : Command(MonDead(World, m))
ZapTele  == \E m \in Reach : Command(Rloc(World, m))
ZapPoly  == \E m \in Reach : \E f \in Form \ {mon[m].data} :
                Command(NewCham(World, m, f))
DoLeash  == \E m \in OnMap : ~you.uswallow /\
                Command([World EXCEPT !.mon[m].mleashed = ~@])
DigHole  == \E m \in OnMap \ {you.ustuck}, l \in Level \ {here} :
                ~you.uswallow /\ Command(MigrateToLevel(World, m, l))
Christen == \E m \in Reach \cup ({you.usteed} \ {NoMon}) :
                FreeCommand(ReplMon(World, m, NewMonst(World)))

\* domove onto a pet's square: the two change places, and the pet may be
\* hurt or fall where it is put, or be pinned: then the hero steps back.
SwapPet ==
    \E m \in OnMap \ {you.ustuck} :
        LET x == mon[m].mx
            V == UOnNewpos(World, x)
            S == PlaceMonster(RemoveMonster([V EXCEPT !.you.ustuck = NoMon], x),
                              m, you.at)
        IN  /\ ~you.uswallow
            /\ \/ Command(S)
               \/ Command(MonDead(S, m))
               \/ \E l \in Level \ {here} : Command(MigrateToLevel(S, m, l))
               \/ /\ you.usteed # NoMon /\ "stray" \in Oversights
                  /\ Command([V EXCEPT !.you.at = you.at, !.you.ustuck = NoMon])

Mount ==
    \E m \in OnMap :
        LET x == mon[m].mx
        IN  /\ you.usteed = NoMon /\ you.ustuck = NoMon
            /\ mon[m].data \in Steeds
            /\ Command(Teleds(RemoveMonster([World EXCEPT !.you.usteed = m], x), x))

Dismount ==
    /\ you.usteed # NoMon
    /\ \E have_spot, drowns \in BOOLEAN :
           Command(DismountSteed(World, have_spot, drowns))

ChangeLevel ==
    /\ phase = "hero"
    /\ \E l \in Level \ {here} : \E c \in Trips(l) :
           /\ Takes(Arrive(Leave(World, c.followers), l, c))
           /\ GotoLevel(World, l, c)

\* restlevelstate, after getlev has put every monster of fmon on the map.
RestLevelState(W, stuck, steed) ==
    LET S == IF stuck = NoMon \/ stuck \in Range(W.fmon)
             THEN [W EXCEPT !.you.ustuck = stuck] ELSE Impossible(W)
    IN  IF steed = NoMon THEN S
        ELSE IF steed \notin Range(W.fmon) THEN Impossible(S)
        ELSE RemoveMonster([S EXCEPT !.you.usteed = steed], S.mon[steed].mx)

\* dosave, dorecover, and moveloop from its beginning.
SaveRestore ==
    LET D == IF purge = 0 THEN World ELSE DMonsFree(World)
        R == MapOf([D EXCEPT !.you.usteed = NoMon, !.you.ustuck = NoMon,
                             !.you.movement = NORMAL_SPEED])
    IN  FreeCommand(RestLevelState(R, you.ustuck, you.usteed))
(***************************************************************************)
(* movemon, one monster per step.  What a monster does is one of the       *)
(* disjuncts of MonActs; Pays(W) is the end of its step.                   *)
(***************************************************************************)
Skip ==
    /\ phase = "monsters" /\ walk # NoMon
    /\ ~mon[walk].alive \/ mon[walk].movement < NORMAL_SPEED
    /\ walk' = Next_(walk, fmon)
    /\ UNCHANGED <<here, mon, fmon, migrating_mons, grid, light, you, purge,
                   impossible, levelfile, phase, somebody>>

\* Mutant: a monster acts without movement left.
CanMoveTired ==
    /\ phase = "monsters" /\ walk # NoMon
    /\ mon[walk].alive
CanMove ==
    /\ phase = "monsters" /\ walk # NoMon
    /\ mon[walk].alive /\ mon[walk].movement >= NORMAL_SPEED
Paid == [World EXCEPT !.mon[walk].movement = @ - NORMAL_SPEED]
Pays(W) ==
    /\ Becomes(W)
    /\ walk' = Next_(walk, fmon)
    /\ somebody' = (somebody \/ Paid.mon[walk].movement >= NORMAL_SPEED)
    /\ UNCHANGED <<here, levelfile, phase>>

\* m_move: an engulfer takes the hero with it.
MMove(W, m, x) ==
    LET V == PlaceMonster(RemoveMonster(W, W.mon[m].mx), m, x)
    IN  IF W.you.uswallow /\ W.you.ustuck = m
        THEN [V EXCEPT !.you.at = x] ELSE V

MonRests   == Pays(Paid)
MonMoves   == /\ walk # you.usteed /\ Enexto(World) # {}
              /\ Pays(MMove(Paid, walk, Spot(World)))
MonTeles   == Pays(Rloc(Paid, walk))
MonDies    == Pays(MonDead(Paid, walk))
MonKills   == \E d \in Range(fmon) \ {walk} :
                  /\ mon[d].alive
                  /\ Pays(MonDead(Paid, d))
MonChanges == \E f \in Form \ {mon[walk].data} : Pays(NewCham(Paid, walk, f))
MonClones  == /\ Room /\ walk # you.usteed
              /\ \E christened \in BOOLEAN :
                    /\ Cardinality(MonId \ Owned(World)) >= IF christened THEN 2 ELSE 1
                    /\ Pays(CloneMon(Paid, walk, christened))
MonHolds   == /\ mon[walk].data \in Stickers /\ walk # you.usteed
              /\ you.ustuck = NoMon
              /\ Pays([Paid EXCEPT !.you.ustuck = walk])
MonEngulfs == /\ mon[walk].data \in Engulfers /\ walk # you.usteed
              /\ ~you.uswallow
              /\ you.usteed # NoMon =>
                    (IF mon[walk].data \in Animals THEN "plucked" ELSE "stray")
                        \in Oversights
              /\ \E have_spot \in BOOLEAN : Pays(GulpMU(Paid, walk, have_spot))
MonLetsGo  == /\ you.ustuck = walk
              /\ Pays(IF you.uswallow THEN Expels(Paid, walk)
                                      ELSE Unstuck(Paid, walk))
MonGulps   == /\ mon[walk].data \in Engulfers /\ walk # you.usteed
              /\ ~Swallowing(walk)
              /\ \E d \in OnMap \ {walk} :
                    /\ Swallowing(d) => "nested" \in Oversights
                    /\ \E died \in SUBSET {walk, d} :
                          Pays(GulpMM(Paid, walk, d, died))
MonLeaves  == /\ walk # you.usteed /\ ~Swallowing(walk)
              /\ you.ustuck = walk => "rise" \in Oversights
              /\ \E l \in Level \ {here} : Pays(MigrateToLevel(Paid, walk, l))
\* It teleports the hero, perhaps onto a trap door.
MonSends   == /\ Enexto(World) # {} /\ walk # you.usteed
              /\ \E to \in ToLevel \ {here} :
                    Pays([Teleds(Paid, Spot(Paid)) EXCEPT !.you.utolev = to])

MonActs ==
    /\ CanMove
    /\ \/ MonRests   \/ MonMoves  \/ MonTeles \/ MonDies    \/ MonKills
       \/ MonChanges \/ MonClones \/ MonHolds \/ MonEngulfs \/ MonLetsGo
       \/ MonGulps   \/ MonLeaves \/ MonSends

(***************************************************************************)
(* The rest of moveloop: the end of movemon, and what follows it.          *)
(***************************************************************************)
\* The inner loop goes on, the hero's turn comes, or a new turn begins.
AfterPass(W, monscanmove) ==
    CASE W.you.movement > NORMAL_SPEED ->
             phase' = "hero" /\ walk' = NoMon /\ somebody' = FALSE
      [] W.you.movement <= NORMAL_SPEED /\ monscanmove ->
             StartWalk(W)
      [] W.you.movement = NORMAL_SPEED /\ ~monscanmove ->
             phase' = "hero" /\ walk' = NoMon /\ somebody' = FALSE
      [] W.you.movement < NORMAL_SPEED /\ ~monscanmove ->
             phase' = "newturn" /\ walk' = NoMon /\ somebody' = FALSE

EndPass ==
    /\ phase = "monsters" /\ walk = NoMon /\ you.utolev = "stay"
    /\ LET W == DMonsFree(World)
       IN  Becomes(W) /\ AfterPass(W, somebody)
    /\ UNCHANGED <<here, levelfile>>

\* deferred_goto: the monsters of the new level are dormant.
EndPassElsewhere ==
    /\ phase = "monsters" /\ walk = NoMon /\ you.utolev \in Level
    /\ LET D == [DMonsFree(World) EXCEPT !.you.utolev = "stay"]
       IN  \E c \in Trips(you.utolev) :
              /\ ~c.fell
              /\ LET W == Arrive(Leave(D, c.followers), you.utolev, c)
                 IN  Becomes(W) /\ AfterPass(W, FALSE)
              /\ GotoLevel(D, you.utolev, c)

\* mcalcdistress may change or drown a monster and makemon may make one;
\* movement is dealt out in between.
CapMovement(n) == IF n > MaxMovement THEN MaxMovement ELSE n
Allot(W) ==
    [W EXCEPT !.mon = [m \in MonId |->
        IF m \in Range(W.fmon)
        THEN [W.mon[m] EXCEPT !.movement = CapMovement(@ + Speed[W.mon[m].data])]
        ELSE W.mon[m]]]
NewTurn ==
    /\ phase = "newturn"
    /\ \E n \in HeroSpeeds :
         LET Starts(W) ==
                LET V == [W EXCEPT !.you.movement = @ + n]
                IN  /\ Becomes(V)
                    /\ IF V.you.movement < NORMAL_SPEED THEN StartWalk(V)
                       ELSE phase' = "hero" /\ walk' = NoMon /\ somebody' = FALSE
         IN  \/ Starts(Allot(World))
             \/ \E m \in OnMap : Starts(Allot(MonDead(World, m)))
             \/ \E m \in OnMap : \E f \in Form \ {mon[m].data} :
                    Starts(Allot(NewCham(World, m, f)))
             \/ \E f \in Form : Room /\ Enexto(World) # {}
                                     /\ Starts(MakeMon(Allot(World), f))
    /\ UNCHANGED <<here, levelfile>>

(***************************************************************************)
(* The specification.                                                      *)
(***************************************************************************)
\* The monsters that mklev gives to the levels; the hero starts next to
\* those of the first one.
Nth  == SetToSeq(Square)
Glow(l) == [m \in MonId |->
    IF \E i \in 1..Len(Cast[l]) : Cast[l][i].id = m /\ Cast[l][i].data \in Lights
    THEN 1 ELSE 0]
Init ==
    /\ here = NoLev
    /\ mon = [m \in MonId |->
          IF \E l \in Level : m \in Range(Ids(l))
          THEN LET l == CHOOSE l \in Level : m \in Range(Ids(l))
                   i == CHOOSE i \in 1..Len(Cast[l]) : Cast[l][i].id = m
               IN  [Freed EXCEPT !.data = Cast[l][i].data, !.alive = TRUE,
                                 !.mx = Nth[i]]
          ELSE Freed]
    /\ fmon = Ids(here)
    /\ migrating_mons = <<>>
    /\ grid = [x \in Square |->
          IF \E m \in Range(fmon) : mon[m].mx = x
          THEN CHOOSE m \in Range(fmon) : mon[m].mx = x ELSE NoMon]
    /\ light = Glow(here)
    /\ you = [at |-> Nth[Len(fmon) + 1], ustuck |-> NoMon, uswallow |-> FALSE,
              usteed |-> NoMon, utolev |-> "stay", movement |-> NORMAL_SPEED]
    /\ purge = 0
    /\ impossible = FALSE
    /\ levelfile = [l \in Level |->
          IF l = here THEN EmptyFile ELSE [fmon |-> Ids(l), light |-> Glow(l)]]
    /\ phase = "hero"
    /\ walk = NoMon
    /\ somebody = FALSE

Hero == \/ Search   \/ Move  \/ Attack  \/ ZapTele  \/ ZapPoly
        \/ DoLeash  \/ DigHole \/ Christen \/ SwapPet \/ Mount
        \/ Dismount \/ ChangeLevel \/ SaveRestore
Monsters == Skip \/ MonActs \/ EndPass \/ EndPassElsewhere \/ NewTurn
Next == Hero \/ Monsters

Spec == Init /\ [][Next]_vars

(***************************************************************************)
(* Properties.                                                             *)
(***************************************************************************)
TypeOK ==
    /\ here \in Level
    /\ mon \in [MonId -> Monst]
    /\ fmon \in Seq(MonId) /\ migrating_mons \in Seq(MonId)
    /\ grid \in [Square -> MonId \cup {NoMon}]
    /\ light \in [MonId -> Nat]
    /\ you \in You
    /\ purge \in Nat /\ impossible \in BOOLEAN
    /\ levelfile \in [Level -> [fmon : Seq(MonId), light : [MonId -> Nat]]]
    /\ phase \in {"hero", "monsters", "newturn"}
    /\ walk \in MonId \cup {NoMon} /\ somebody \in BOOLEAN

\* Every monster is on exactly one list, once: fmon, migrating_mons or that
\* of a level file.  Only fmon holds dead ones, as many as dmonsfree expects;
\* whatever is on no list is freed.
At(s, m) == {i \in 1..Len(s) : s[i] = m}
Spots(m) == ({"fmon"} \X {here} \X At(fmon, m))
            \cup ({"migrating_mons"} \X {here} \X At(migrating_mons, m))
            \cup UNION {{"levelfile"} \X {l} \X At(levelfile[l].fmon, m) : l \in Level}
OnOneList ==
    /\ \A m \in MonId : /\ \A s, t \in Spots(m) : s = t
                        /\ Spots(m) = {} => mon[m] = Freed
                        /\ m \notin Range(fmon) => (mon[m].alive <=> Spots(m) # {})
    /\ purge = Cardinality({m \in Range(fmon) : ~mon[m].alive})

\* level.monsters shows each living monster of the level where it is, except
\* the steed, and shows nothing else.
MapAgrees ==
    /\ \A x \in Square : grid[x] # NoMon =>
          /\ grid[x] \in OnMap
          /\ mon[grid[x]].mx = x
    /\ \A m \in OnMap : grid[mon[m].mx] = m

\* u.ustuck and u.usteed are living monsters of this level; the steed is
\* where the hero is; so is an engulfer, and nobody else.
HeroAgrees ==
    /\ you.ustuck # NoMon => you.ustuck \in OnMap
    /\ you.usteed # NoMon => /\ you.usteed \in Range(fmon)
                             /\ mon[you.usteed].alive
                             /\ mon[you.usteed].mx = you.at
    /\ you.uswallow => you.ustuck # NoMon
    /\ grid[you.at] = IF you.uswallow THEN you.ustuck ELSE NoMon

\* A monster has a light source exactly while it lives and its form emits
\* light; the source is in memory or in the level file, as the monster is.
LightIffGlowing ==
    /\ \A m \in MonId :
          light[m] = IF /\ mon[m].alive /\ mon[m].data \in Lights
                        /\ m \notin InFiles THEN 1 ELSE 0
    /\ \A l \in Level : \A m \in MonId :
          levelfile[l].light[m] = IF /\ m \in Range(levelfile[l].fmon)
                                     /\ mon[m].data \in Lights THEN 1 ELSE 0

\* A leash holds only a living monster of the hero's level, and none while
\* the hero is inside another one.
LeashedIsNear ==
    \A m \in MonId : mon[m].mleashed =>
        m \in Range(fmon) /\ mon[m].alive /\ ~you.uswallow

\* impossible() and panic() are never called: no monster is placed dead, the
\* lists are found to hold what is taken from them, every light source is
\* there to be deleted, a restored game finds u.ustuck and u.usteed.
NoImpossible == ~impossible

\* While movemon walks fmon, only the monster whose turn it is leaves the
\* list, so the saved next one stays in it (mon.c:573, "monsters can only
\* affect level migrations on themselves").
OnlyTheMoverLeaves ==
    [][phase = "monsters" /\ walk # NoMon =>
         /\ Range(fmon) \ Range(fmon') \subseteq {walk}
         /\ walk' = NoMon \/ walk' \in Range(fmon')]_vars
=============================================================================
