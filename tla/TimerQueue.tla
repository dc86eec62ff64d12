----------------------------- MODULE TimerQueue -----------------------------
(***************************************************************************)
(* The timer queue of src/src/timeout.c, an ordered list that is walked    *)
(* while it changes, and its way through level files and the save file     *)
(* (goto_level, dosave0, dorecover), where it is taken apart and put       *)
(* together again while object pointers are replaced by object ids.        *)
(*                                                                         *)
(* A step is one turn of a loop of the code, so that every intermediate    *)
(* list is a state.  What a timer's function does is left to its caller,   *)
(* who may start and stop timers meanwhile: module Burning has the burn    *)
(* timers' functions.                                                      *)
(***************************************************************************)
EXTENDS Integers, FiniteSets, Sequences, SequencesExt

CONSTANTS
    Func,           \* indices of timeout_funcs
    Final,          \* those whose function starts no overdue timer: ROT_CORPSE
    Arg,            \* objects
    Level,          \* dungeon levels
    WithHero,       \* the place of what the hero carries and what migrates
    Delays,         \* the delays timers are started with
    MaxTimers,      \* bound on timer_id
    MaxTime,        \* bound on monstermoves
    MayHangup       \* may a hangup arrive while timers run in goto_level?

ASSUME FinalAssumption == Final \subseteq Func
ASSUME DelaysAssumption == Delays \subseteq Int
ASSUME PlacesAssumption == Arg # {} /\ Level # {} /\ WithHero \notin Level
ASSUME BoundsAssumption == MaxTimers \in Nat /\ MaxTime \in Nat

Timer == [timeout : Int, func : Func, arg : Arg, tid : Nat, needs_fixup : BOOLEAN]
Written == {t \in Timer : t.needs_fixup}     \* in a file, with ids for pointers
Files == {"levelfile", "savefile", "savestate"}
Pc    == {"play", "run", "call", "split", "stop", "save", "read", "panic",
          "enter", "savegame", "copyout", "putsave", "copied", "saved",
          "restgamestate", "restlevelfile", "copyin", "recovered"}

VARIABLES
    monstermoves,   \* turn counter
    timer_base,     \* the queue
    timer_id,       \* the next timer's id
    place,          \* place[a]: the level a is on, or WithHero
    here,           \* the hero's level (u.uz)
    mem,            \* the level in memory: another one while files are copied
    levelfile,      \* levelfile[l]: the timers in l's file
    savefile,       \* timers of each level, of the game state, and the clock
    pc,             \* what the program is doing
    then,           \* and what it does next
    curr,           \* the timers whose function runs: one, or none
    walk,           \* obj_split_timers, obj_stop_timers: src, dest, next timer
    out,            \* save_timers: the file written to
    reading,        \* restore_timers: what is still to be read
    todo            \* the levels still to be copied

vars == <<monstermoves, timer_base, timer_id, place, here, mem, levelfile,
          savefile, pc, then, curr, walk, out, reading, todo>>

world == <<monstermoves, timer_id, place, here, mem, levelfile, savefile>>
loops == <<then, curr, walk, out, reading, todo>>

(***************************************************************************)
(* The list operations.                                                    *)
(***************************************************************************)
Elements(q) == {q[i] : i \in 1 .. Len(q)}
Least(I)    == CHOOSE i \in I : \A j \in I : i <= j

\* Mutant: new timers go to the end.
PositionLast(q, t) == Len(q) + 1

\* insert_timer's search: before the first timer that is not sooner.
Position(q, t) == Least({i \in 1 .. Len(q) + 1 : i <= Len(q) => q[i].timeout >= t.timeout})

InsertTimer(q, t) == InsertAt(q, Position(q, t), t)

\* remove_timer and the removal from a walk: the first timer with a mark.
Matches(q, func, a) == {i \in 1 .. Len(q) : q[i].func = func /\ q[i].arg = a}
Of(q, a)            == {i \in 1 .. Len(q) : q[i].arg = a}

NewTimer(when, func, a) ==
    [timeout |-> monstermoves + when, func |-> func, arg |-> a, tid |-> timer_id,
     needs_fixup |-> FALSE]

Retarget(q, src, dest) ==
    [i \in 1 .. Len(q) |-> IF q[i].arg = src THEN [q[i] EXCEPT !.arg = dest] ELSE q[i]]

\* Mutant: ids are left in the queue.
LinkedNot(q) == q
Linked(q)    == [i \in 1 .. Len(q) |-> [q[i] EXCEPT !.needs_fixup = FALSE]]

\* Mutant: the id is written but not marked as one.
MarkedNot(t) == t
\* write_timer: an id is written for the pointer.
Marked(t)    == [t EXCEPT !.needs_fixup = TRUE]

\* timer_is_local: does the timer stay on the level?
IsLocal(t) == place[t.arg] \in Level

(***************************************************************************)
(* Starting and stopping timers, by the game or by a timer's function.  A  *)
(* timer's function may start a timer that is overdue: revive_mon, when    *)
(* the corpse is old, starts its rotting so.                               *)
(***************************************************************************)
Free == pc \in {"play", "call"}
Back == IF curr = {} THEN "play" ELSE "call"

StartTimer(when, func, a) ==
    /\ Free /\ timer_id <= MaxTimers
    /\ place[a] \in {here, WithHero}
    /\ pc = "call" => \/ when > 0
                      \/ (func \in Final /\ \A t \in curr : t.func \notin Final)
    /\ timer_base' = InsertTimer(timer_base, NewTimer(when, func, a))
    /\ timer_id' = timer_id + 1
    /\ UNCHANGED <<monstermoves, place, here, mem, levelfile, savefile, pc, loops>>

StopTimer(func, a) ==
    /\ Free /\ Matches(timer_base, func, a) # {}
    /\ timer_base' = RemoveAt(timer_base, Least(Matches(timer_base, func, a)))
    /\ UNCHANGED <<world, pc, loops>>

ObjMoveTimers(src, dest) ==
    /\ Free /\ src # dest /\ Of(timer_base, src) # {}
    /\ place[dest] = place[src]
    /\ timer_base' = Retarget(timer_base, src, dest)
    /\ UNCHANGED <<world, pc, loops>>

NoArg  == CHOOSE a \in Arg : TRUE
NoTid  == -1                        \* the null pointer
NoWalk == [src |-> NoArg, dest |-> NoArg, next |-> NoTid]

ObjStopTimers(a) ==
    /\ Free /\ Of(timer_base, a) # {}
    /\ pc' = "stop" /\ walk' = [walk EXCEPT !.src = a]
    /\ UNCHANGED <<world, timer_base, then, curr, out, reading, todo>>

StopStep ==
    /\ pc = "stop"
    /\ LET I == Of(timer_base, walk.src)
       IN  \/ /\ I = {} /\ pc' = Back /\ walk' = NoWalk
              /\ UNCHANGED timer_base
           \/ /\ I # {}
              /\ timer_base' = RemoveAt(timer_base, Least(I))
              /\ UNCHANGED <<pc, walk>>
    /\ UNCHANGED <<world, then, curr, out, reading, todo>>

\* The walk of obj_split_timers: next is the id of the timer it is at, or none.
TidAt(q, i) == IF i \in 1 .. Len(q) THEN q[i].tid ELSE NoTid

ObjSplitTimers(src, dest) ==
    /\ Free /\ src # dest
    /\ Of(timer_base, src) # {} /\ Of(timer_base, dest) = {}
    /\ place[dest] = place[src]
    /\ timer_id + Len(timer_base) <= MaxTimers + 1
    /\ pc' = "split"
    /\ walk' = [src |-> src, dest |-> dest, next |-> TidAt(timer_base, 1)]
    /\ UNCHANGED <<world, timer_base, then, curr, out, reading, todo>>

\* Mutant: the copy is started with the timeout for a delay.
CopyTimerLate(t) == [NewTimer(t.timeout, t.func, walk.dest) EXCEPT !.tid = timer_id]
CopyTimer(t)     == NewTimer(t.timeout - monstermoves, t.func, walk.dest)

SplitStep ==
    /\ pc = "split"
    /\ \/ /\ walk.next = NoTid /\ pc' = Back /\ walk' = NoWalk
          /\ UNCHANGED <<timer_base, timer_id>>
       \/ \E i \in 1 .. Len(timer_base) :
             LET t == timer_base[i]
             IN  /\ t.tid = walk.next
                 /\ walk' = [walk EXCEPT !.next = TidAt(timer_base, i + 1)]
                 /\ \/ /\ t.arg # walk.src
                       /\ UNCHANGED <<timer_base, timer_id>>
                    \/ /\ t.arg = walk.src
                       /\ timer_base' = InsertTimer(timer_base, CopyTimer(t))
                       /\ timer_id' = timer_id + 1
                 /\ UNCHANGED pc
    /\ UNCHANGED <<monstermoves, place, here, mem, levelfile, savefile,
                   then, curr, out, reading, todo>>

\* Objects are picked up, dropped, fall to another level or arrive from one.
MoveObj(a, p) ==
    /\ Free /\ p # place[a]
    /\ {place[a], p} = {here, WithHero}
    /\ place' = [place EXCEPT ![a] = p]
    /\ UNCHANGED <<monstermoves, timer_base, timer_id, here, mem, levelfile, savefile,
                   pc, loops>>

(***************************************************************************)
(* run_timers: called every turn, and when a level or a game is read.      *)
(***************************************************************************)
NewTurn ==
    /\ pc = "play" /\ monstermoves < MaxTime
    /\ monstermoves' = monstermoves + 1
    /\ pc' = "run" /\ then' = "play"
    /\ UNCHANGED <<timer_base, timer_id, place, here, mem, levelfile, savefile,
                   curr, walk, out, reading, todo>>

IsDue(t) == t.timeout <= monstermoves

RunTimers ==
    /\ pc = "run"
    /\ \/ /\ timer_base # <<>> /\ IsDue(Head(timer_base))
          /\ curr' = {Head(timer_base)}
          /\ timer_base' = Tail(timer_base)
          /\ pc' = "call"
       \/ /\ timer_base # <<>> => ~IsDue(Head(timer_base))
          /\ pc' = "play"
          /\ UNCHANGED <<timer_base, curr>>
    /\ UNCHANGED <<world, then, walk, out, reading, todo>>

Return ==
    /\ pc = "call"
    /\ curr' = {} /\ pc' = "run"
    /\ UNCHANGED <<world, timer_base, then, walk, out, reading, todo>>

(***************************************************************************)
(* save_timers: the timers of a range are written and released.            *)
(***************************************************************************)
\* Mutant: the ranges are confused.
InRangeNot(t) == IF out = "savestate" THEN IsLocal(t) ELSE ~IsLocal(t)
InRange(t)    == IF out = "savestate" THEN ~IsLocal(t) ELSE IsLocal(t)

\* Mutant: the predecessors of what is unlinked are lost.
UnlinkPrefix(q, i) == SubSeq(q, i + 1, Len(q))
Unlink(q, i)       == RemoveAt(q, i)

Write(t) ==
    \/ /\ out = "levelfile"
       /\ levelfile' = [levelfile EXCEPT ![mem] = Append(@, t)]
       /\ UNCHANGED savefile
    \/ /\ out = "savefile"
       /\ savefile' = [savefile EXCEPT !.local[mem] = Append(@, t)]
       /\ UNCHANGED levelfile
    \/ /\ out = "savestate"
       /\ savefile' = [savefile EXCEPT !.global = Append(@, t)]
       /\ UNCHANGED levelfile

SaveStep ==
    /\ pc = "save"
    /\ LET I == {i \in 1 .. Len(timer_base) : InRange(timer_base[i])}
       IN  \/ /\ \E i \in 1 .. Len(timer_base) : timer_base[i].needs_fixup
              /\ pc' = "panic"             \* an id is taken for a pointer
              /\ UNCHANGED <<timer_base, levelfile, savefile>>
           \/ /\ \A i \in 1 .. Len(timer_base) : ~timer_base[i].needs_fixup
              /\ I = {} /\ pc' = then
              /\ UNCHANGED <<timer_base, levelfile, savefile>>
           \/ /\ \A i \in 1 .. Len(timer_base) : ~timer_base[i].needs_fixup
              /\ I # {}
              /\ Write(Marked(timer_base[Least(I)]))
              /\ timer_base' = Unlink(timer_base, Least(I))
              /\ UNCHANGED pc
    /\ UNCHANGED <<monstermoves, timer_id, place, here, mem, loops>>

(***************************************************************************)
(* restore_timers and, once the objects have been read, relink_timers.     *)
(***************************************************************************)
RestoreTimer ==
    /\ pc = "read" /\ reading # <<>>
    /\ timer_base' = InsertTimer(timer_base, Head(reading))
    /\ reading' = Tail(reading)
    /\ UNCHANGED <<world, pc, then, curr, walk, out, todo>>

\* The objects in memory, for find_oid.
Found(a) == place[a] \in {mem, WithHero}

RelinkTimers ==
    /\ pc = "read" /\ reading = <<>>
    /\ IF \A i \in 1 .. Len(timer_base) :
             timer_base[i].needs_fixup => Found(timer_base[i].arg)
       THEN timer_base' = Linked(timer_base) /\ pc' = then
       ELSE pc' = "panic" /\ UNCHANGED timer_base
    /\ UNCHANGED <<world, loops>>

Read(l, q, next) == /\ mem' = l /\ reading' = q
                    /\ pc' = "read" /\ then' = next

(***************************************************************************)
(* goto_level.                                                             *)
(***************************************************************************)
GotoLevel(l) ==
    /\ pc = "play" /\ l # here
    /\ levelfile' = [levelfile EXCEPT ![here] = <<>>]
    /\ todo' = {l}
    /\ pc' = "save" /\ out' = "levelfile" /\ then' = "enter"
    /\ UNCHANGED <<monstermoves, timer_base, timer_id, place, here, mem, savefile,
                   curr, walk, reading>>

Enter ==
    /\ pc = "enter"
    /\ \E l \in todo : here' = l /\ Read(l, levelfile[l], "run")
    /\ todo' = {}
    /\ UNCHANGED <<monstermoves, timer_base, timer_id, place, levelfile,
                   savefile, curr, walk, out>>

(***************************************************************************)
(* dosave0: the level in memory, the game state, and the other levels by   *)
(* way of memory.  A hangup calls it too: while a command is carried out,  *)
(* and that may be while goto_level runs timers.                           *)
(***************************************************************************)
NoSave == [local |-> [l \in Level |-> <<>>], global |-> <<>>, timer_id |-> 1,
           monstermoves |-> 1]

DoSave ==
    /\ \/ pc = "play"
       \/ MayHangup /\ pc \in {"run", "call"} /\ then = "run"
    /\ savefile' = NoSave
    /\ curr' = {}
    /\ pc' = "save" /\ out' = "savefile" /\ then' = "savegame"
    /\ UNCHANGED <<monstermoves, timer_base, timer_id, place, here, mem, levelfile,
                   walk, reading, todo>>

SaveGameState ==
    /\ pc = "savegame"
    /\ savefile' = [savefile EXCEPT !.timer_id = timer_id, !.monstermoves = monstermoves]
    /\ todo' = Level \ {here}
    /\ pc' = "save" /\ out' = "savestate" /\ then' = "copyout"
    /\ UNCHANGED <<monstermoves, timer_base, timer_id, place, here, mem, levelfile,
                   curr, walk, reading>>

\* Mutant: the level is copied again and again.
CopiedNot(l) == todo
Copied(l)    == todo \ {l}

CopyOut(l) ==
    /\ pc = "copyout" /\ l \in todo
    /\ todo' = Copied(l)
    /\ Read(l, levelfile[l], "putsave")
    /\ UNCHANGED <<monstermoves, timer_base, timer_id, place, here, levelfile,
                   savefile, curr, walk, out>>

PutSave ==
    /\ pc = "putsave"
    /\ pc' = "save" /\ out' = "savefile" /\ then' = "copied"
    /\ UNCHANGED <<world, timer_base, curr, walk, reading, todo>>

\* delete_levelfile, and the process ends after the last one.
DeleteLevelFile ==
    /\ \/ pc = "copied" /\ pc' = "copyout"
       \/ pc = "copyout" /\ todo = {} /\ pc' = "saved"
    /\ levelfile' = [levelfile EXCEPT ![IF pc = "copied" THEN mem ELSE here] = <<>>]
    /\ UNCHANGED <<monstermoves, timer_base, timer_id, place, here, mem, savefile, loops>>

(***************************************************************************)
(* dorecover: the hero's level and the game state are read; the levels are *)
(* copied to level files, the hero's first; the hero's is read again.      *)
(***************************************************************************)
DoRecover ==
    /\ pc = "saved"
    /\ timer_base' = <<>> /\ timer_id' = 1 /\ monstermoves' = 0
    /\ todo' = Level \ {here}
    /\ Read(here, savefile.local[here], "restgamestate")
    /\ UNCHANGED <<place, here, levelfile, savefile, curr, walk, out>>

RestGameState ==
    /\ pc = "restgamestate"
    /\ timer_id' = savefile.timer_id /\ monstermoves' = savefile.monstermoves
    /\ Read(here, savefile.global, "restlevelfile")
    /\ UNCHANGED <<timer_base, place, here, levelfile, savefile, curr, walk, out, todo>>

RestLevelFile ==
    /\ pc = "restlevelfile"
    /\ levelfile' = [levelfile EXCEPT ![mem] = <<>>]
    /\ pc' = "save" /\ out' = "levelfile" /\ then' = "copyin"
    /\ UNCHANGED <<monstermoves, timer_base, timer_id, place, here, mem, savefile,
                   curr, walk, reading, todo>>

CopyIn ==
    /\ pc = "copyin"
    /\ \/ \E l \in todo : /\ todo' = todo \ {l}
                          /\ Read(l, savefile.local[l], "restlevelfile")
       \/ /\ todo = {} /\ UNCHANGED todo
          /\ Read(here, savefile.local[here], "recovered")
    /\ UNCHANGED <<monstermoves, timer_base, timer_id, place, here, levelfile,
                   savefile, curr, walk, out>>

\* The save file is deleted.
Recovered ==
    /\ pc = "recovered"
    /\ savefile' = NoSave
    /\ pc' = "run" /\ then' = "play"
    /\ UNCHANGED <<monstermoves, timer_base, timer_id, place, here, mem, levelfile,
                   curr, walk, out, reading, todo>>

-----------------------------------------------------------------------------
FirstLevel == CHOOSE l \in Level : TRUE

Init ==
    /\ monstermoves = 1 /\ timer_base = <<>> /\ timer_id = 1
    /\ here = FirstLevel /\ mem = here
    /\ place \in [Arg -> {here, WithHero}]
    /\ levelfile = [l \in Level |-> <<>>] /\ savefile = NoSave
    /\ pc = "play" /\ then = "play" /\ curr = {}
    /\ walk = NoWalk
    /\ out = "levelfile" /\ reading = <<>> /\ todo = {}

Machine ==
    \/ StopStep \/ SplitStep \/ RunTimers \/ Return
    \/ SaveStep \/ RestoreTimer \/ RelinkTimers
    \/ Enter \/ SaveGameState \/ \E l \in Level : CopyOut(l)
    \/ PutSave \/ DeleteLevelFile
    \/ RestGameState \/ RestLevelFile \/ CopyIn \/ Recovered

Next ==
    \/ \E when \in Delays, func \in Func, a \in Arg : StartTimer(when, func, a)
    \/ \E func \in Func, a \in Arg : StopTimer(func, a)
    \/ \E a \in Arg : ObjStopTimers(a)
    \/ \E src, dest \in Arg : ObjMoveTimers(src, dest) \/ ObjSplitTimers(src, dest)
    \/ \E a \in Arg, p \in Level \cup {WithHero} : MoveObj(a, p)
    \/ NewTurn
    \/ \E l \in Level : GotoLevel(l)
    \/ DoSave
    \/ DoRecover
    \/ Machine

\* Loops go on until they are done, and timers' functions return.
Fairness == WF_vars(Machine)

Spec == Init /\ [][Next]_vars /\ Fairness

-----------------------------------------------------------------------------
(***************************************************************************)
(* Properties.                                                             *)
(***************************************************************************)

\* Types and ranges of the state.
TypeOK ==
    /\ monstermoves \in Nat /\ timer_id \in Nat
    /\ timer_base \in Seq(Timer) /\ curr \subseteq Timer
    /\ reading \in Seq(Written) /\ levelfile \in [Level -> Seq(Written)]
    /\ savefile \in [local : [Level -> Seq(Written)], global : Seq(Written),
                     timer_id : Nat, monstermoves : Nat]
    /\ place \in [Arg -> Level \cup {WithHero}] /\ here \in Level /\ mem \in Level
    /\ pc \in Pc /\ then \in Pc /\ out \in Files
    /\ walk \in [src : Arg, dest : Arg, next : Int] /\ todo \subseteq Level

Ordered(q) == \A i, j \in 1 .. Len(q) : i <= j => q[i].timeout <= q[j].timeout

\* The queue is ordered "sooner" to "later" (timeout.c's interface comment) at
\* every moment, while it is walked, split, taken apart and read back as well:
\* run_timers looks at nothing but the first timer.
Sorted == Ordered(timer_base)

\* timer_is_local never looks through a pointer that is still an id, and
\* relink_timers finds every object (save_timers between getlev and
\* relink_timers while files are copied).
NoPanic == pc # "panic"

\* A timer in memory belongs to the hero or to the level in memory, so that
\* save_timers' two ranges are this level's file and the game state.
MemoryHoldsOneLevel ==
    \A i \in 1 .. Len(timer_base) : place[timer_base[i].arg] \in {WithHero, mem}

\* When a timer's function is called no timer in the queue has an earlier
\* time: a late level's timers are taken up in their order with the hero's.
FiresInOrder ==
    [][\A t \in curr' \ curr : /\ t.timeout <= monstermoves
                               /\ \A u \in Elements(timer_base) : t.timeout <= u.timeout]_vars

\* obj_split_timers ends with the new object having each timer of the old one
\* once, though the copies were put into the list that was walked.
SplitCopies ==
    [][pc = "split" /\ pc' # "split" =>
          LET Alarms(a) == {<<timer_base[i].timeout, timer_base[i].func>> :
                                i \in Of(timer_base, a)}
          IN  /\ Cardinality(Of(timer_base, walk.src)) = Cardinality(Of(timer_base, walk.dest))
              /\ Alarms(walk.src) = Alarms(walk.dest)]_vars

\* Saving, changing levels, restoring and running timers come to an end.
GameResumes == pc # "play" ~> pc \in {"play", "saved"}

(***************************************************************************)
(* Every timer has one place of authority: the queue, the hands of         *)
(* run_timers, the file of a level the hero is not on, or the save file.   *)
(***************************************************************************)
Away == {l \in Level : l # here \/ then = "enter"}

Stored ==
    Elements(timer_base) \cup Elements(reading)
    \cup (UNION {Elements(levelfile[l]) : l \in Away})
    \cup (UNION {Elements(savefile.local[l]) : l \in Level}) \cup Elements(savefile.global)

Bare(T) == {[timeout |-> t.timeout, func |-> t.func, arg |-> t.arg, tid |-> t.tid] : t \in T}

Set == INSTANCE TimerSet
          WITH playing      <- pc \in {"play", "run", "call", "split", "stop"},
               monstermoves <- IF then = "restgamestate" THEN savefile.monstermoves
                               ELSE monstermoves,
               pending      <- Bare(Stored),
               calling      <- Bare(curr)

\* No timer is lost, called twice or called halfway, wherever the hero goes
\* and however often the game is saved and restored.
ImplementsTimerSet == Set!Spec
=============================================================================
