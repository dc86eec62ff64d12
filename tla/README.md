# bingehack in TLA+

bingehack is a NetHack 3.4.3 fork in C.  This directory holds TLA+ modules that
model parts of it, the TLC configurations that check them on small instances,
and TLAPS proofs about them.  Paths are relative to the repository; `timeout.c:354`
is line 354 of `src/timeout.c`.

## 1. Inventory

The program is one thread.  `moveloop` (allmain.c) gives the hero and the
monsters their moves, and once a turn calls `nh_timeout`.  The things that are
hard are not threads.  They are long-lived cross references (an object is
pointed at by timers, light sources, a shop bill, worn slots, occupations) that
some hundred commands must keep right, level files through which everything on
a level is taken apart and put together again, callbacks that change the list
whose walk called them, signals, and crashes between file operations.

| component | state | operations | what makes it correct | module |
|---|---|---|---|---|
| timer queue (timeout.c) | `timer_base`, ordered by time; `timer_id` | `start_timer`, `stop_timer`, `obj_move_timers`, `obj_split_timers`, `obj_stop_timers`, `run_timers`, `save_timers`, `restore_timers`, `relink_timers` | order; each timer once, in memory or in one file; called in order and not early; ids are never used as pointers | TimerQueue, TimerSet |
| burning objects (timeout.c, apply.c) | `lamplit`, `age`, `spe`, `quan`, `timed` of an object | `begin_burn`, `end_burn`, `cleanup_burn`, `burn_object`, and every command that lights, snuffs, fills, splits, merges, names, moves, sells or destroys | count, timers, light source and flag agree; fuel is used at one unit a turn whatever happens | Burning, FuelClock |
| light sources (light.c) | `light_base` | `new_light_source`, `del_light_source`, `obj_split_light_source`, `obj_move_light_source`, `save_light_sources` | one for each lit object and each glowing monster, kept where it is | Burning, Monsters |
| object lists (mkobj.c, invent.c) | `where`, the lists | `splitobj`, `merged`, `obj_extract_self`, `add_to_*`, `obfree` | an object is in one list; what it carries with it follows | Burning, in part |
| shop bill (shk.c) | `bill_p`, `billct`, `unpaid`, `no_charge`, `billobjs`; credit, debit, loan, robbed | `addtobill`, `splitbill`, `subfrombill`, `obfree`, `sellobj`, `dopay`, `setpaid`, `rob_shop`, `stolen_value` | entries, flags and objects agree; gold changes hands only; nothing is had for nothing | ShopBill; lit goods in Burning |
| level change (do.c) | `u.uz`, level files, `mydogs`, `migrating_objs`, `migrating_mons` | `goto_level`, `keepdogs`, `losedogs`, `obj_delivery` | what stays and what comes along is decided once, for all lists | TimerQueue, Burning, Monsters |
| save and restore (save.c, restore.c) | the save file | `dosave0`, `savelev`, `dorecover`, `getlev` | a restored game is the game saved | TimerQueue, Burning, Monsters |
| insurance (files.c, unixunix.c, util/recover.c) | `lock.N` files, save file | `create_levelfile`, `save_currentstate`, `delete_levelfile`, `getlock`, `recover` | what is on disk is one world, of the last checkpoint or save; one process at a time uses it | Checkpoint |
| monster lifecycle (allmain.c, mon.c, dog.c, steed.c, mhitu.c) | `fmon`, `mydogs`, `migrating_mons`, `level.monsters`, `u.ustuck`, `u.usteed`, `mleashed` | `movemon`, `m_detach`, `dmonsfree`, `relmon`, `replmon`, `newcham`, `clone_mon`, `migrate_to_level`, `gulpmu`, `dismount_steed` | no walk meets a freed monster, none is in two lists; list, map, lights and the hero's pointers agree | Monsters |
| bones (bones.c) | a bones file | `savebones`, `getbones` | no ids or references of the dead game survive | Bones planned |
| occupations (eat.c, spell.c, allmain.c) | `occupation`, `victual`, `tin`, `book`, kept over turns | `eatfood`, `opentin`, `learn`, `stop_occupation`, `food_disappears`, `food_substitution`, `consume_oeaten` | no pointer to a freed object; what is eaten stays eaten | Occupation |
| organics, eggs, figurines (mkobj.c, dig.c) | timers of other kinds | callbacks | as the timer queue | planned as clients |
| regions, worms, vault guard, ball and chain | lists saved with a level | | | planned, small |
| record file (topten.c, files.c) | `record`, `*_lock` | `lock_file`, `topten` | one writer | planned, small |
| everything else | | display, generation of levels, combat tables, text, options, window ports, MySQL and chat | | not modelled, see section 7 |

Calls between them: commands (apply.c, dothrow.c, pickup.c, ...) call the object
lists and the burn functions; these call timers and light sources; `run_timers`
calls back into `burn_object` and `rot_organic`, which free objects; `goto_level`
and `dosave0` write the parts of timers and light sources that are local
(`obj_is_local`) and free the objects afterwards.  The only asynchronous entry is
`hangup` (save.c), the handler of SIGHUP, which saves the game from within.

The behaviours that a test would hardly reach are listed with their lines in
`PROJECT.json` under "hazards"; each names the properties that look for it.

## 2. The modules

**TimerQueue** is timeout.c's list as a sequence, and its way through level files
and the save file.  One step is one turn of a loop of the code: one timer
written and unlinked, one read and inserted, one call of a timer's function, one
turn of the walk of `obj_split_timers`.  So what is an intermediate state in the
code is a state of the model.

| state | code |
|---|---|
| `timer_base`, `timer_id`, `monstermoves` | the variables of these names |
| `place`, `here`, `mem` | where an object is; `u.uz`; the level whose objects are in memory, which is another one while `dosave0` and `dorecover` copy level files |
| `levelfile`, `savefile` | the timers written with a level, with the game state |
| `pc`, `then` | the loop the program is in and what follows it |
| `curr`, `walk`, `out`, `reading`, `todo` | local variables of the loops |

`StartTimer`, `StopTimer`, `ObjMoveTimers`, `ObjStopTimers`, `ObjSplitTimers`,
`MoveObj`, `NewTurn`, `GotoLevel`, `DoSave` and `DoRecover` are what the game
does; the actions in `Machine` are what the program then has to do.  What a
timer's function does is chosen freely: while `pc = "call"` it may start, stop,
move and split timers and move objects.  Most functions in `timeout_funcs` start
timers for later only; `revive_mon` (do.c:1643) starts ROT_CORPSE at a time that
may be past.  ROT_CORPSE's own function starts none that is overdue: the constant
`Final` has such functions, and `StartTimer` allows overdue timers of these only,
to functions that are not among them.

**TimerSet** is what TimerQueue implements: a set of pending timers and the ones
being called.  It says that a timer is pending from its start until it is
stopped or called, that it is called in order among the timers of the hero's
world, at its time or later, and that saving, restoring and travelling touch
none.  The refinement mapping takes the union of the queue, what is still to be
read, the save file and the files of levels the hero is not on.

**Burning** has objects with fields and every operation on them.  The C functions
are operators from a record (`obj`, `timer_base`, `light_base`, `impossible`) to
such a record, named after them, so that an action composes them in the order
the code calls them: `UseCandle` is `splitobj`, the change of the candelabrum,
`end_burn`, `obfree`.  `impossible` is set where the code calls `impossible` or
`panic`.  The queue is a set here; among timers of one time `RunTimer` picks any.
`phase = "timers"` is the inside of `run_timers`, which ends a turn, an arrival
and a restore; `praying` is `u.uinvulnerable`, under which `nh_timeout` returns
early (timeout.c:186).  Squares are abstracted: where the code looks for an
object at the same place, any object on the floor of the level may be there.

**FuelClock** is what Burning implements: a burning object uses one turn of fuel
a turn, others none, wherever they are.  While the game catches up (levels left and
entered, saves, late timers) nothing changes but that oil and candles vanish.  A
command may leave an object as it is, use it up, make a like one of it (`Copy`), or do
what is named: stack oil or candles with their like, at a fuel between the two
(`Mix`); fill a lamp with at most twice the oil that is poured (`Refill`); put candles
into a candelabrum, which adds nothing to the larger of the two fuels (`Attach`);
halve the fuel of one that is lit off the invocation square (`Waste`); take the djinni out of a
magic lamp.  The mapping computes what is left from `age` and the expiry
of the timer; it is what the player sees, and in the code no single variable has
it.

**Checkpoint** is the files of a game and the processes that use them, one file
operation a step: `creat` leaves a file truncated, a later step writes it out.

| state | code |
|---|---|
| `levelfile`, `lock`, `save` | the files `lock.N` of levels, `lock.0`, and the save file; each with whose pid is in it, and with its `writers`: who has had it open for writing since it was last created by one process alone |
| `game[p]` | in a process's memory: `u.uz`, the inventory, `LFILE_EXISTS` of `level_info`, the level, `flags.ins_chkpt`, and the static `havestate` |
| `pc[p]`, `dest[p]`, `todo[p]`, `opened[p]` | where it is in `goto_level`, `save_currentstate`, `dosave0` or `dorecover`; the level and the file it works on |
| `recover` | what the utility is doing |
| `committed` | no variable of the code: the world of the last checkpoint or save, noted when it was made |
| `clash` | no variable of the code: two processes have written one file that both had open |

A level is the set of things on it, and a thing carries the process in whose new
game it was made.  `GetLock` is one step up to the creation of the lock, since the code holds `HLOCK`
so far; it releases it (unixunix.c:183) before the pid is written, which is
`WritePid`.  `Answers` says how a lock of another process may be passed ("y", "n",
or "old": not written for three days), `CrashIn` where a process may be killed.
A file that was cut short reads as `Garbage`, which no check of the code accepts.
A panic on reading such a level while playing ends the game as `Tricked` does (its
save file has another name).

`creat` truncates a file and does not unlink it (files.c:462), so that two processes
may have one file open, each writing from the start and at its own offset.  Once one
of them writes while the other has had the file open (`Clashes`), what is in it may
be the content of either, or any part of the one with any part of the other, or
`Garbage`, under the pid of any of its writers (`Writes`, `SplicedLevel`,
`SplicedState`); it is so for levels, the lock and the save file.  Nothing restricts
it to be unreadable: such a file may pass every check of `getlev`.

A save file is a file, not a name: who has
opened it to restore (`opened[p]`) still sees what its writer appends after it was
unlinked, and sees it empty when another process creates it again (`Created`,
`Appended`, `AppendTo`, `Becomes`).
`torn` notes that something was
killed where the files do not agree, which is everywhere but in `Harmless`:
between level changes, and in `dosave0` before it copies the first level.  The utility runs when no game does,
pids are not used twice; mode 0 keeps everyone out.

**Monsters** is where every monster is, through the loop of `moveloop`: the
hero's command, the walk of `movemon` over `fmon`, one monster a step, the end of
it (`dmonsfree`, `deferred_goto`), and a new turn, which deals out movement.

| state | code |
|---|---|
| `fmon`, `migrating_mons`, `purge` | the lists, and `iflags.purge_monsters`; `mydogs` lives within one `goto_level` and is a field of the world record only |
| `mon[m]` | a `struct monst`: form, `mx`, alive (`mhp > 0`), `movement`, `mleashed`, and the level it goes to |
| `grid`, `light` | `level.monsters`; the light sources attached to each monster |
| `you` | where the hero is, `u.ustuck`, `u.uswallow`, `u.usteed`, `u.utolev`, `youmonst.movement` |
| `levelfile`, `here` | the monsters and lights written with each level; `u.uz` |
| `phase`, `walk`, `somebody` | where `moveloop` is, `nmtmp` and `somebody_can_move` of `movemon` |

The functions of the code are operators from a world to a world, composed in the
order of the code.  What a monster decides is a choice among what monsters can
do (`MonActs`); whom combat kills is a choice; squares have no geometry, any two
are adjacent, and `enexto` finds a free one if there is one.  Where the code
calls `impossible` or `panic` the flag `impossible` is set.  Five sequences of
legal steps leave the hero's pointers or the map wrong (section 6).  The constant
`Oversights` says which of them may happen, and each of them is a guard with its
name; the passing run has none, so that its properties are about all the rest,
and the run `holder` has "rise".

**ShopBill** is one shop, its keeper and its customer.

| state | code |
|---|---|
| `obj[o]` | where an object is, its quantity, `unpaid`, `no_charge`; "bill" is `billobjs`, "shk" and "minvent" what keeper and monsters carry |
| `bill` | `bill_p[0 .. billct-1]`: object, quantity, used up or not, price |
| `shk` | the keeper: in the shop, away or dead; angry, surcharge, following; robbed, credit, debit, loan, gold |
| `ugold`, `floorgold`, `at` | the hero's gold, the gold on the floor, and whether the hero is inside, in the door or outside |

A command is one step: `Drop` is `splitobj` with `splitbill`, then `sellobj` and
`stackobj`.  `dopay` is a loop over its two passes with the answers of the hero
as a set; whether the keeper is awake, what he offers (half or a third, a quarter
off) and whether two like stacks are kept apart by something else are choices.
The shop is followed until its keeper dies.  Objects that monsters take and use
stay on the bill, as in the code.  All identities are alike (`NewObj` may take any
that is free), so that TLC may permute them.

**Occupation** is memory and the static variables that point into it, from one
turn of the hero to the next.

| state | code |
|---|---|
| `obj[a]` | the `struct obj` at address `a`: where it is, its type, quantity, `oeaten`, `orotten`, whether it is named; `FREE` is memory that `free` has |
| `victual`, `tin`, `book`, `delay` | the statics of eat.c and spell.c |
| `occupation`, `uwep` | the variables of these names |
| `levelfile`, `lev`, `u` | objects written with each level; where the hero is |
| `phase` | whether `moveloop` is at the hero's turn or between two; "crashed" after a use of freed memory |

The functions of the code are operators from memory and pointers to the same.  An
occupation is called once in the hero's turn, and `monster_nearby` may stop it
(`OrNearby`); between two turns monsters and the clock do as many things as they
like.  `Malloc` may hand out the address that was freed last, so that a pointer
kept too long points at another object rather than at nothing.  Abstractions:
what the code never reads again is forgotten (`Becomes`), which address is given
out does not matter (`CHOOSE`), the pack is never full, what is carried has no
square, and a stack is split only while addresses last (`RoomToSplit`).  The
three cases in which the code itself uses freed memory end the game as "crashed"
(section 6).

**ListTheorems** proves what `InsertAt` and `RemoveAt` of the community modules
do to any sequence, and an induction for loops.  **TimerQueueProofs** (order, and
where timers are), **TimerSetProofs** (the refinement and the splitting of timers, on
top of it), **BurningProofs**, **CheckpointProofs**, **MonstersProofs**,
**ShopBillProofs** and **OccupationProofs** have the theorems.
**MCTimerQueue**, **MCBurning**, **MCCheckpoint**, **MCMonsters**, **MCShopBill** and
**MCOccupation** give constants for TLC.

## 3. The runs

| run | shows |
|---|---|
| goods | a stack of two candles, a lamp or the candelabrum, owned or for sale, alone or with a potion of oil or one more candle, two levels: all the records agree, nothing is overdue when the hero acts, the fuel clock is implemented |
| prayer | timers suspended for the two turns of a prayer and late by as many, of the candelabrum, or of a magic lamp that loses its djinni while lit, with a stack of candles or oil that is split: lit is burning, and the timers settle |
| levels | two timers of two objects, two levels, save and restore loop by loop: nothing lost, duplicated, or used as an id; the queue in order in every intermediate state, calls in order, splits exact; refinement of TimerSet; the game resumes |
| checkpoint | three processes one after another, killed anywhere, and recover, saves, the option on and off: the disk is the last checkpoint or save and comes back whole, nothing is lost or doubled (unless something was killed where files do not agree), no two processes play at once, every operation ends |
| twogames | a process whose files were taken by another, both alive, each doing file operations in any order: until both write a file that they have open at the same time, no game shows things of the other |
| monsters | a pony that can be ridden and leashed, a fire vortex that glows and engulfs, what they become, and a third identity for clones and replacements, on two levels: each monster is on one list, the map and the hero's pointers agree with it, lights follow, leashes are let go, `movemon` never loses its next monster, no `impossible` or `panic` |
| shop | a stack of two, a bill of two entries, gold, temper, robbery, monsters that take things: bill, flags and objects agree; gold is conserved; whoever is outside has no open bill; no command leaves the hero richer; `dopay` takes exactly what it strikes off |
| occupations | two corpses, or a ration and a tin, or a spellbook, at three addresses, on two squares of two levels: meals, tins and studies that are interrupted and resumed while the object is stolen, renamed, split, merged, dropped, burned, rots or is left behind: the pointers to the meal, the book and what is wielded are good (not the one to the tin, and until the program has crashed, section 6), and no interruption gives eaten food back |
| unpaid_genie, hangup, decline, holder | the findings of section 6, by counterexample |

**Bounds.**  Fuel times are scaled down, keeping their order: lamps pause at 2
(for 150, 100, 50, 25), candles at 1 (75, 15), a lamp takes oil up to 3 and holds
4 (1000, 1500), seven candles become two.  Three or more turns then take a lamp
through a pause, a relight and its end.  `MaxTime` bounds `monstermoves`: 6 in
`goods`, so that a candle of age 3 burns down, is left behind and expires late; 3
in `prayer`, when a prayer of two turns is over.  Two or three objects are enough for a stack,
its split-off part and a candelabrum or a lamp; two levels for leaving, returning
and migration.  In TimerQueue two timers of two objects on two levels meet every
pair of ranges (local and not, this level and that); delays -1, 0 and 2 are
overdue, due and to come (`start_corpse_timeout` may compute a time that has
passed); that order holds for any number of timers is proved (section 4).
`MaxTimers` bounds `timer_id`; the counters never reset, as in the code.
In Checkpoint three processes are a game, one that restores it, and one that
restores what the second left; two levels are the one in memory and one in a
file.  One thing is enough to be lost, doubled or mixed.  In `twogames` the constraint
`NoClash` ends the search when two processes have written a file that both had open:
`OneGame` says nothing of what follows, and `clash` is never reset, so that no state is
left out of which it says anything.  The specification may
stop, when all processes have ended, so that deadlock is not checked there.

In Monsters an action costs 1 for 12 and a monster keeps at most 2, so that the
vortex acts twice in a turn; two monsters alive are enough to follow and be left,
to swallow and be swallowed, to arrive where another one is; the third identity
is the `monst2` of `replmon` or the clone; three squares leave one to go to.
In ShopBill the stack of two is split, partly used, partly put back and merged
again, on a bill of two entries that these fill; list price 2 and cost 1 make the
offers 0 and 1, the till starts empty and gets what is paid; the purse of 2 buys
the stack and no more, or appeases the keeper (1000); a robbery of 1 may be left from
before; accounts are cut at 2.  The assumption on prices (a list price is at most twice the cost)
excludes a charisma above 18 with an odd price (section 6).  When the keeper is
dead the specification stops, so that deadlock is not checked there.

In Occupation a piece has 2 or 3 units of nutrition and takes 2 or 5 turns: `nmod` is
then negative (a unit or more each turn) or positive (a unit every few turns), half of a
rotten piece is 1, and a begun piece is interrupted before, at and after its last
bite.  Three addresses are a stack, what is taken off it, and the new object of a
renaming.  A tin takes 1 or 3 turns and is given up after 1 (50), a book takes 2, so
that either may be interrupted and resumed, or not.  The game stops when it has
crashed; deadlock is not checked there.

**Fairness.**  The specifications assume weak fairness of the loops only
(`Machine`; `RunTimer` and `RunTimersDone`; `Proceeds` and `RecoverProceeds`): the
program has one thread, and once in a loop it goes on.  No command, turn or save ever has to happen.
Monsters, ShopBill and Occupation have no liveness property: each function of them is one step.

## 4. What is proved

For all sets of objects, levels and functions, all integer delays and all bounds:

- `TypeCorrect`: `Spec => []TypeOK`.  More than ranges: a file holds nothing but
  timers marked with `needs_fixup`, which is what `relink_timers` relies on.
- `QueueSorted`: `Spec => []Sorted`.
- `CallsInOrder`: `Spec => FiresInOrder`.

- `NoDanglingIds`: `Spec => []NoPanic`.
- `OneLevelInMemory`: `Spec => []MemoryHoldsOneLevel`.
- `QueueImplementsTimerSet`: `Spec => ImplementsTimerSet`, if `~MayHangup`.  With a
  hangup it is false, as the run `hangup` shows.
- `SplitCopiesEach`: `Spec => SplitCopies`, if `~MayHangup`.

For the first three the invariant is `TypeOK /\ Sorted`, which is inductive.  The argument:
`Position`, insert_timer's search, is a least element of a set of indices
(`LeastNumber`, from the library's theorem that inclusion of finite sets is
well-founded, not by induction), so that all before it are sooner and all from it on are not
(`PositionFacts`); insertion there keeps order (`InsertTimerFacts`), removal
anywhere does (`RemoveAtOrdered`), and rewriting arguments and marks does not
touch times (`RewriteFacts`).  `StepTypeOK` has one step per action.  From order,
the head of the queue is the least, which is all `RunTimers` looks at
(`FirstFacts`), and `CallsInOrder` follows.  The assumptions are those of module
TimerQueue: delays are integers, `WithHero` is no level, and there is an object
and a level.

`NoPanic` and `MemoryHoldsOneLevel` are not inductive: that nothing with an id for a
pointer is in the queue when `save_timers` walks it, and that it finds one level's
timers, depends on what happened to the level that was in memory before.
`Housed` has it.  `Control` says which loop returns where, `Marks` that ids are in
the queue only while a file is read, `HeroOnly` that a level has left memory before
the next is read, `Filed` that each file has the timers of its own level, and
`Idle` that the hero's level is not copied a second time.  It holds with a hangup
too, which ends the functions it interrupts but never a loop over files.

For the refinement, `Parts` takes the pending timers apart into what is in memory,
in level files and in the save file, as sets of timers without marks.  A timer may
be in two of these at a time (a level that is copied is in its file and in memory;
what `dorecover` has read is still in the save file), so it is not enough that each
step leaves the union alone; the steps that remove a copy need to know that another
one is left.  `Kept` has that: `Ids` (an id is a timer's), `Lists` (no list has a timer
twice, and the list a timer is taken to does not have it), `Saves` (a level's file is
deleted when the save file has its timers, and memory is empty in the end) and
`Restores` (what is read again is in the save file until it is in memory or in a
level file).  There is a lemma for each action; the game's own steps become steps of
TimerSet (`Started`, `Stopped`, `RunStep`, ...), and each step of saving, restoring
or changing levels is `Quiet`, which `Travel` allows.  Order comes in once: the timer
that `RunTimers` takes must be the first of the hero's world, which is `Sorted`.

For `SplitCopies` the invariant is `Walking`: the walk of `obj_split_timers` is at a
place `k` of the queue, all copies are behind it, and they are paired (as many, with
the same times and functions) with the old object's timers behind it.  A copy has the
time of the timer that the walk is at, so `insert_timer` stops there at the latest:
the copy is never ahead of the walk, which goes on with the timer that was next
(`WalkCopies`).  The walk is remembered by the id of its timer, as the code
remembers a pointer, so the argument needs ids to be distinct; `Kept` has that, and
this is why the theorem has the assumption of the refinement.

For any number of processes, levels and things in Checkpoint, with processes and
the utility killed anywhere (`CrashIn` is any set), and whatever the player answers
(`Answers` is any set):

- `CheckpointTypes`: `Spec => []TypeOK`.
- `GamesKeepApart`: `Spec /\ [](recover = "idle") => []OneGame`.

and under the assumption `Answers = {}`, that nobody says the game of a live process is
to be destroyed:

- `OneProgram`: `Spec => []SoleGame`.
- `FilesKeepTheCommitted`: `Spec => []KeptIsCommitted`.
- `RestoredIsCommitted`: `Spec => ResumesCommitted`.
- `NothingLostOrDoubled`: `Spec => []Conserved`.

None of these is inductive.  The argument has layers.  `Orderly` holds for any answers:
recover runs when nobody does and has the files it reads, the save file that a
process restores has all that is still to be read of it (`HasFile`), although other
processes may unlink it or write to it, and one that a process has written is of its
one save (`HasSaved`).  The types rest on it (`StepTypeOK`, `StepOrderly`), since a
save file or a lock that is gone would be read as `None`.

On `Orderly` rests `OneGameEach`, from which `GamesKeepApart` follows.  There is a tag
for each process, the process whose new game it plays: its own from `NewGame` on, or,
once it has restored, that of the save file; it never changes from then on.  Whatever
has the name of a process in it has things of that tag only: its memory, every level
file with its pid, and its save file in the directory or still open elsewhere
(`LevelsOf`, `SavesOf`, `GameOf`).  That is enough because `getlev` checks the pid of
every level it reads.  All of it is said for the time before `clash` only, which
stays once it is set (`StaysClash`): up to then whatever is in a file was written by
one process whose pid it has (`OneWriter`), and a save file that two processes have
created is empty until one of them writes (`FileOf`), which is a clash.  The hypothesis
is needed: a file that two processes write at a time may have a pid of one and things
of both (section 6), and with `~clash` dropped TLC finds such a game.  A process that has
not begun has no file, so the tag it gets disturbs nothing (`Untouched`, `NewTag`).
The utility is left out by the
theorem's hypothesis and not by the model: it takes whatever level files there are,
without looking at their pids, and TLC finds that after two live games on the same
files it puts levels of both into one save file (section 6).  In run `twogames` it never
starts, so the theorem says for any number of processes all that the run says for two.
TLC confirms `~clash => OneGameEach` with two processes, crashes anywhere and all answers,
as long as the utility is idle.

`Separate`, for the other theorems, also has that who runs has its pid in the lock, and
that a process that reads a save file reads the one in the directory.  Every later step
needs that, because while one process runs the others rest (`OthersRest`), and only what is
about that process has to be shown (`StepOf`).  `Agree` says, for each place in
the code, how far the files are from agreeing: which level files are written
(`HasLevels`), which levels are still to be copied and where each is meanwhile
(`CopiesOut`, `CopiesIn`, `Recovers`), and how the committed world is put together
from them.  It holds until something is killed where files do not agree (`torn`),
and gives `FilesAgree` at each place where they do.  `IInv` is types, `Separate`
and `~torn => Agree`; TLC confirms it too, and `StepAgree` has a lemma for each group of
actions.  `Once`, on top of it, says that the committed world and the world of a
game have each thing in one place; a restored game gets it from the committed world
(`RecoveredAgrees`), so that no history of saves is needed.

For any objects, levels, stock, fuel and prayer times in Burning, if no magic lamp is
in the game or nothing is ever for sale (`NoGenieForSale`):

- `BurningTypes`: `Spec => []TypeOK`.
- `CountsAreRight`: `Spec => []TimedCountsTimers`.
- `NothingDangles`: `Spec => []TimersFollowObjects`.
- `LitMeansBurning`: `Spec => []LitIffBurning`.
- `NoCheckFires`: `Spec => []NoImpossible`.
- `TimersAreRunInTime`: `Spec => []NothingOverdue`.
- `FuelIsKept`: `Spec => ImplementsFuelClock`, if nobody prays (`PrayerTurns = 0`).

The assumption is needed, and for the first six is the only one: a lit unpaid magic
lamp that is used up breaks `NoImpossible` (run `unpaid_genie`, section 6).  The runs `goods` and
`prayer` meet it, and between them have goods for sale and a magic lamp.

None of the six invariants is inductive, and no two of them together are.  Whether `end_burn`
finds a timer depends on the flag of the object, whether its timers are looked for
when it is freed depends on the count, and whether `del_light_source` finds a light
depends on where the object is.  The invariant `IInv` joins them per object: its
struct, the timers that point at it and the number of its light sources `Agree`,
where these are kept in memory (`InMem`) or in the file of its level (`InFile`), and
no other file has anything of it (`NotFiled`).  `Balanced` says what agreeing is: at
most one timer of a kind, a burn timer exactly if it burns fuel, a timer for rotting
only if it is buried, the count right, and nothing of what is freed or on the bill
lit.  Two facts go beyond the properties: fuel is never below zero unless a prayer
may suspend timers (else a burn could pause in the past, and `NothingOverdue` would
fail), and what is unpaid was for sale.  TLC confirms `IInv` on the instances of
these runs.

Since the code's functions are operators from world to world, most of the proof is
about these.  `Kept` says that a function changes one object only (`Rest`) and leaves
that one's account in order; there is a lemma for each function (`BurnKept`,
`EndKept`, `FreeKept`, `PutKept`, `PaidKept`, `PortionKept`, `MergedGood`,
`BurnObjectKept`, ...), with every branch of it, and an action follows by composing
them in the order of the code.  Inside a function the account may be out of balance
by the timer in hand: after `stop_timer` in `end_burn` and before the callback in
`run_timers` the object is lit without a timer (`Spent`).  A level change moves the
accounts of all objects at once (`GoesTo`): for each of them `GoesWell` finds it in
memory on the new level or in the file of the old one.

`FuelIsKept` needs on top of `IInv` only that a candelabrum which burns has candles
in it (`Wicks`).  A second lemma for each function says what it leaves of the fuel of
its object (`FuelIn`, computed from the struct and from the timers that point at it,
wherever they are) and of its kind: a part that is split off is `Like` its stack,
`begin_burn` and `end_burn` leave what there was, `merged` what is `From` the two,
`burn_object` leaves the object burning as before or gone (`Settled`).  The objects
that a function does not touch keep their timers and so their fuel.  Each command is
then a `Handle` of the clock, a new turn a `Pass`, and everything in `run_timers`,
travelling and saving a `CatchUp`; for a level change the timers of an object are the
same before and after, in memory and files together.  A prayer makes it false, as TLC
shows when the property is added to `prayer` with three turns of prayer and five in
all: while `run_timers` is held up a candle's
pause becomes overdue, and attached to the candelabrum it brings the fuel it
was to have had then, of which nothing is left.  Of its numbers the proof needs that a lamp that
may still be filled holds no more than its cap (`LampFull`, `LampCap`: 1000 and 1500,
potion.c:2086), and of the stock that no candelabrum has a negative number of candles.

For any monsters, levels, squares, forms, speeds and bounds in Monsters, under the
assumption `Oversights = {}`:

- `MonstersTypes`: `Spec => []TypeOK`.
- `EveryMonsterOnOneList`: `Spec => []OnOneList`.
- `TheMapIsRight`: `Spec => []MapAgrees`.
- `HeroPointersHold`: `Spec => []HeroAgrees`.
- `LightsFollowMonsters`: `Spec => []LightIffGlowing`.
- `LeashesAreNear`: `Spec => []LeashedIsNear`.
- `NoMonsterPanics`: `Spec => []NoImpossible`.
- `TheWalkIsSafe`: `Spec => OnlyTheMoverLeaves`.

The assumption leaves out the five sequences of section 6 and nothing else.  It is
needed: on the instance of the run `monsters` (with a vortex for an animal in the
case of "plucked"), each of the five alone breaks
`HeroAgrees`, each but "rise" `MapAgrees` too, and "rise" `NoImpossible` (run
`holder`).  The other properties hold there with any one of them, but the
proof does not show that, since all eight come from one invariant.  The other
assumptions are those of the module: more identities and more squares than
living monsters, and levels that are made with distinct monsters.

`IInv` has three parts.  `Good`, of a world, keeps the books of every monster
(`Apart`: it is in one place; `Accounted`: if it is on no list it is freed, if it is
leashed it is alive on this level, if it migrates it is nowhere on the map, and its
light source is where it is), counts the dead, bounds the living, and relates the
map, the hero and the lists (`Mapped`, `Rides`, `Held`, `Clear`).  `Files` says that no
two level files have a monster in common, that those of one file are on different
squares (else `getlev` would put two on one square) and that their light
sources are with them.  `Loop` says what `moveloop` has seen to at each phase: that
the hero can pay for the next command, that `dmonsfree` has run before a new
turn, that a trip is only pending while monsters move, and that `walk` is on `fmon`.
What goes beyond the properties is the square of monsters in files, that nobody is
engulfed while riding, and that outside of the walk the listed are few enough
for a new struct to be had (`replmon`, `clone_mon`).  TLC confirms `IInv` on the
instance of `monsters`.

Every function is a lemma from world to world, for worlds that need not be `Good`: in
the middle of `gulpmm` two monsters share a square, after `keepdogs` some are on no
list (`H`, the monsters in hand), while `losedogs` puts them back one by one.  So
the lemmas say which monsters are on the map before and after (`TakenOff`, `PutOn`,
`MovedTo`, `Unmounted`, `OneGulped`), and only the actions close the circle.  The
loops over lists (`relmon`, `keepdogs`, `getlev`, `losedogs`) are recursive functions
over 0..n; `LoopRuns` and `CountingUp` in ListTheorems give an induction along them
that takes a set for each step in place of an operator: the worlds that the loop
may be in after that many monsters.

For every price, amount and world of ShopBill:

- `SurchargeUndone`: what `rile_shk` adds, a third rounded up, `pacify_shk` takes
  off, a quarter rounded up, exactly; so a keeper who is angered and soothed asks
  the same price, which `PricesFollowTemper` (part of `BillAgrees`) rests on.
- `PayIsExact`: `pay`, for an amount that gold and credit cover, conserves gold,
  leaves no balance below zero and takes exactly that amount.
- `LoanStaysInDebit`: taking gold, giving it back, paying the debit and closing
  the accounts each keep the loan within the debit.

And for any goods, kinds, prices, purses, tills and size of the bill, under the
assumption `Oversights = {}`:

- `TypeCorrect`: `Spec => []TypeOK`.
- `BillsAgree`: `Spec => []BillAgrees`.
- `GoldIsConserved`: `Spec => []GoldConserved`.
- `OutsideIsSettled`: `Spec => []SettledOutside`.

The assumption leaves out "flee", the keeper who leaves his shop through `m_move`
while the bill is open, and nothing else; it is needed, since with it `dopay` comes to
its `impossible` (section 6).  What the module assumes of its constants is what the
code gives: prices and quantities are positive, the list price is at most twice
the cost, and no object starts unpaid or used up.

`IInv` is one predicate of a world, `Fine`, and one conjunct of its own.  `Books`
reads the bill as a set of entries, no two of one object, and says of each object that
it is unpaid exactly if an entry that is not used up names it (`Due`), and on
billobjs exactly if one that is used up does (`UsedUp`); of each entry, that it has
at least the quantity of its object and today's price.  `Sound` is the balance of the
gold and the loan within the debit.  `Closed` is what the properties do not say: while
anything is owed or billed, the keeper is at home; without it he could
come back to a bill that `u_entered_shop` does not expect.  The conjunct is that of
`SettledOutside`, strengthened to nothing owed at all while the hero is outside.  TLC
confirms `IInv` on the instance of the run `shop`.

Every function of the bill is a lemma from a fine world to a fine world.  Those
that touch few objects cite `BooksMade`: it is enough to look at the objects and
entries that change.  Of the bill itself they only need what appending, amending and
striking off an entry do to the set of entries (`Listed`, `Amended`, `Unlisted`).
The loops (`addupbill`, the two passes of `dopay`, the goods that `shopdig` grabs) are
recursive functions over 0..n, with `LoopRuns` as for Monsters.  The proof of `Go` found
that its CASE had two guards that could both hold, so that which one TLC took was its
own choice; it is an IF now.

For any memory, levels, squares, kinds of food and delays in Occupation:

- `OccupationPointersLive`: `Spec => []PointersLive`.

The assumption on memory, `StockAssumption`, is that one address is free when the
program starts: naming an object allocates the new one before it frees the old
(`realloc_obj`), and TLC's instances of memory are small where the code's is not.

`PointersLive` is not inductive for two reasons.  The first is that `Malloc` has to find
something: if it took an address that is in use, a named or split object would
overwrite what a pointer is kept to.  The second is hidden in `do_reset_eat`, which
calls `touchfood` again: a piece that has since been merged with its like is once
more a stack, and is set apart again, on any interruption, with no command of the
hero's that could be refused for want of memory.  `Safe` is therefore a bound as
well: with what the level files will need set aside (`Cap`), one address is left, and
two are while the piece is a stack (`Apart`).  It is inductive because a merge
frees the address that a later split needs, which is `MergedSafe`: the piece only
becomes a stack where something was freed.  TLC confirms `IInv` on the
instance of the run `occupations`.

Again the functions of the code are lemmas from safe to safe, of any record of memory
and pointers: `ObFreeSafe`, `UseUpSafe`, `ReallocSafe`, `MergedSafe`, `TouchFoodSafe`,
`ConsumeSafe`, ... up to `EatFoodSafe`, `StartEatingSafe` and `NewMealSafe`, with `Eats`,
that there is a piece, where a function takes it for granted (`bite` and
`consume_oeaten` do not look).  `GotoLevelSafe` counts: what stays behind leaves as
many addresses as its level file then needs (`FilesAfter`, `MemoryAfter`).

Only model-checked: liveness (`GameResumes`, `TimersSettle`, `Finishes`), which is
out of the prover's reach; and the action properties `NoFreeLunch` and
`PaysWhatIsBilled` of ShopBill and `NoRefill` of Occupation, which compare sums over
the bill, the goods and the food: a sum is defined by recursion, and what a
recursive definition computes takes an induction that the prover cannot do.

## 5. Plan

Next, in this order:

1. **Bones**: ghostly restore, ids, the adjustment of timers.
2. Picking of locks and delayed armour, as further occupations of Occupation.
3. The record file, regions, worms, vault guard, ball and chain: one small module
   each.

## 6. Findings

- **unpaid_genie**: a lit unpaid magic lamp that is used up keeps its light source
  on the bill (shk.c:2139 looks at timers only), and saving meets an object in
  state `OBJ_ONBILL` in `obj_is_local`, which panics.
- **hangup**: a hangup that saves from within a timer's function, called by
  `goto_level`, saves without that timer.
- **decline**: the answer "no" to "Destroy old game?" (unixunix.c:159) unlocks and
  falls through to `gotlock`: the old game's lock is truncated (unixunix.c:182), and
  at its next checkpoint it is declared void and its levels are deleted.
- **holder**: a monster that holds the hero and leaves the level by itself goes
  through `migrate_to_level`, which takes it off `fmon` (dog.c:641) and leaves
  `u.ustuck` pointing at it.  Saving writes its id (save.c:351) and restoring
  panics, "Cannot find the monster ustuck." (restore.c:480).

Seen while modelling, without a run of their own.

In Burning: a prayer suspends the timers, and a lamp that is put out when it
should have been dark gets a negative `age` (timeout.c:186 and 1165, against
begin_burn's comment, timeout.c:1022).  Attaching a burning candle to a candelabrum
copies its `age` (apply.c:986), which is what it will have at its next
pause, so that the fuel up to there is lost.

In Checkpoint: `goto_level` overwrites a level file of the last checkpoint long
before it writes the state that goes with it (do.c:1080, 1404).  Killed in
between, the recovered game has lost, or has twice, what the hero picked up or
dropped on that level; include/config.h:203 promises a game "resumed from the
point of the last level change". It is one of the windows marked `torn`, of which
`KeptIsCommitted` and `ResumesCommitted` say nothing.

Two live processes may write one level file at a time, after "Destroy old game?"
(unixunix.c:159) was answered with y or the old lock was three days old: `creat` does not
unlink (files.c:462), each then writes on at its own offset in several blocks
(`bwrite`, save.c:769), and the "sanity checks" of `getlev` (restore.c:752) look at the
pid and the level number at the head of the file and at nothing after them.  The file may
then have the pid of one game and things of the other, or of both, and is played on with.
TLC shows it when `~clash` is dropped from `OneGame` and `NoClash` from `twogames`: the
old process is writing the level it leaves (`Leave`) when the new one creates the same file, and
one of the two comes back to a level with things of both.

And
recover copies every level file into the save file without looking at the pid in it
(util/recover.c:299; "ignored here", line 216): when the old game was said to be
destroyed while its process still ran, and that process has left a level since, the
recovered game of the new process has that level.

In Monsters, each a member of `Oversights`: a riding hero who falls down the
stairs onto a monster has his steed put on top of it ("fall", do.c:1209); an
engulfer that swallows the one that holds the hero ("nested", mhitm.c:492); a
riding hero who steps back from a pinned pet, or is engulfed and stays mounted,
and whose steed stays where it was put ("stray", hack.c:1285); an animal that engulfs
a riding hero and vanishes from `level.monsters` ("plucked", mhitu.c:1793).  In the last,
`gulpmu` puts the engulfer on the hero's square and sets `u.ustuck`, and then
`dismount_steed` puts the steed on the same square (steed.c:545); since `u.ustuck` is set it
goes on to `rloc_to`, which takes the steed off again with `remove_monster`
(teleport.c:948), or to `killed`, and either leaves the square empty.  TLC finds that this
breaks `MapAgrees` and `HeroAgrees`, and none of the other properties: the engulfer is
where `u.ustuck` says but `m_at` finds nobody, until the hero is expelled.

In ShopBill: gold given to a robbed keeper clears `robbed` whatever the amount, since
`robbed -= (offer < 0)` subtracts a comparison (shk.c:2623); goods that a shop
does not deal in cost nothing to take out of its stock by throwing
(`stolen_value`); `make_angry_shk` adds debit and loan, of which one is part of
the other; `setpaid` clears the flag of every unpaid object, those of another
keeper too; with a charisma above 18 the cost of an odd price can be less than
half of it rounded, and below what the keeper offers; an angry keeper who
follows and flees leaves the shop through `m_move` while the bill is open, and
`dopay` then meets an `impossible` (`Oversights` "flee").  `bill_dummy_object` marks
what the hero keeps `no_charge` (mkobj.c:350), which is "not meaningful for invent"
(invent.c:367) and "only applies to objects outside invent" (pickup.c:1450): such a
thing, dropped, is the hero's although it was never paid for (`NoChargeOutsideOnly`,
which `NoFreeLunch` presupposes, is false).

In Occupation, each a step to "crashed": a wielded corpse that rots away while it is
being eaten and its meal is at the last turn is freed by `stop_occupation`
(dig.c:1437, through `done_eating`) and once more by `rot_organic`; a book burned
by a monster's attack while it is studied leaves `learn` with a null pointer
(spell.c:361), since `destroy_item` stops no occupation; a tin that is eaten by a
metallivore after the hero was teleported off it is looked at once more (eat.c:1039;
"probably we should use tinoid", says the comment there).  And
`food_substitution`'s comment (eat.c:371) is about meals; a tin that is resumed
starts again in any case (`start_tin`).  `xlock.box` (lock.c) has neither of the two
functions: a box that is renamed or left behind by a level teleport is looked at
again when the lock is picked further.

Of the objects and files: `mergable` compares `age` of
burning candles, which is what their timers will leave, so that candles whose fuel
is not close are stacked (invent.c:2638 says "allow candle merging only if their
ages are close").  And, killed between the last two
unlinks of `dosave0`, a game has a whole save file and a lock with a state in it;
recover then truncates the save file before it notices that the level of the lock
is gone (recover.c:267-279).  Starting the game instead restores the save.

## 7. Not modelled

Radii of light and what it shows; weights, worn objects, containers in
containers, corpses; in Monsters the wizard's branch of `keepdogs`, worms, where on
a level one arrives, and what monsters want; in ShopBill containers, gold other than
on the floor, several shops and keepers at once, damage to the shop, the Kops, and
what happens to the bill when the hero dies; ball and chain, regions, the vault guard and
bones; of the occupations picking locks, digging, and putting on armour, and meals that
are no food (section 5); the order of timers with equal times in Burning (it is in
TimerQueue); writes that fail, levels discarded on entering the endgame, numbered
locks and compressed save files; kinds of timers other than of objects (none is ever started); the
format of files.  Level generation, display, combat, magic, text, options,
window ports and the network features are random decision tables, geometry or
input and output: a model would repeat their code.  Artifact light (Sunsword)
behaves as a magic lamp.
