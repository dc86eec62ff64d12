----------------------------- MODULE Checkpoint -----------------------------
(***************************************************************************)
(* The files a game lives in: a file for each level that is not in memory, *)
(* level 0's file, which is the lock and the last checkpoint of the game   *)
(* state (INSURANCE), and the save file.  goto_level, save_currentstate,   *)
(* dosave0, dorecover, getlock and the utility recover, one file operation *)
(* a step, with several processes of one player and with crashes.          *)
(*                                                                         *)
(* A level's content is the set of things on it; a thing carries the name  *)
(* of the process whose new game it came with, so that things of different *)
(* games can be told apart.                                                *)
(***************************************************************************)
EXTENDS Integers, FiniteSets

CONSTANTS
    Level,          \* dungeon levels but level 0
    Item,           \* things that can be carried
    Proc,           \* process ids, each used for one run of the program
    None,           \* no file, no state, no level
    Garbage,        \* what is read from a file that is not written out
    CrashIn,        \* where processes may be killed: values of pc, "recover"
    Answers         \* ways past another game's lock: "y", "n", "old"

ASSUME LevelAssumption == Level # {} /\ IsFiniteSet(Level)
Thing   == Proc \X Item
State   == [here : Level, inv : SUBSET Thing, exists : SUBSET Level, ins_chkpt : BOOLEAN]
Content == (SUBSET Thing) \cup {Garbage}
Pc      == {"idle", "gotlock", "begin", "play", "dead", "tricked",
            "leave", "enter", "checkpoint", "rewrite", "lock", "writelock",
            "savelevel", "savestate", "copyout", "deletelevel", "deletehere",
            "deletelock", "reading", "copyin", "copywrite"}
Memory  == [here : Level, inv : SUBSET Thing, exists : SUBSET Level, cur : SUBSET Thing,
            ins_chkpt : BOOLEAN, havestate : BOOLEAN]
LevelFile == [pid : Proc, data : Content, writers : SUBSET Proc]
LockFile  == [pid : Proc, data : State \cup {None, Garbage}, writers : SUBSET Proc]
             \cup [pid : {None}, data : {None}, writers : SUBSET Proc]
SaveFile  == [writers : SUBSET Proc, readable : BOOLEAN, first : Content \cup {None},
              state : State \cup {None, Garbage}, lev : [Level -> Content \cup {None}]]
Worlds    == [here : Level, inv : SUBSET Thing, lev : [Level -> Content \cup {None}]]

ASSUME ValuesAssumption ==
    /\ None # Garbage /\ None \notin Proc \cup Level
    /\ None \notin LevelFile /\ None \notin LockFile /\ None \notin SaveFile
    /\ None \notin State /\ Garbage \notin State /\ None \notin Worlds
    /\ \A c \in SUBSET Thing : c \notin {None, Garbage}

VARIABLES
    levelfile,      \* levelfile[l]: whose it is and what is on the level
    lock,           \* level 0's file: whose, and the game state
    save,           \* the save file
    pc,             \* what each process is doing
    game,           \* the game in each process's memory
    dest,           \* the level it goes to or copies
    todo,           \* the levels still to be copied
    recover,        \* what the utility recover is doing
    opened,         \* the save file each has opened to restore
    committed,      \* the world as of the last checkpoint or save
    torn,           \* was anything killed where files do not agree?
    clash           \* was a file written by two that had it open at a time?

vars == <<levelfile, lock, save, pc, game, dest, todo, recover, opened,
          committed, torn, clash>>

files == <<levelfile, lock, save>>
ghosts == <<committed, torn, clash>>
FirstLevel == CHOOSE l \in Level : TRUE

\* Who is between creat() and close() of the file of a level, of the lock, or of
\* a save file.
WritingLevel(l) == {q \in Proc : \/ pc[q] \in {"leave", "rewrite"} /\ game[q].here = l
                                 \/ pc[q] = "copywrite" /\ dest[q] = l}
WritingLock     == {q \in Proc : pc[q] \in {"gotlock", "writelock"}}
WritingSave     == {q \in Proc : pc[q] \in {"savelevel", "savestate", "copyout", "deletelevel"}}

\* creat() does not unlink: whoever has the file f open goes on writing it.  Its
\* writers are all that had it open since it was last created by one alone.
Writers(p, f, writing) == {p} \cup (IF f = None THEN {} ELSE f.writers \cap writing)

\* p has truncated f and has not written it yet.
Truncated(p, f, writing) == [pid |-> p, data |-> Garbage, writers |-> Writers(p, f, writing)]
\* Mutant: a file without a pid.
WrittenByNobody(p, d) == [pid |-> None, data |-> d, writers |-> {p}]
WrittenBy(p, d) == [pid |-> p, data |-> d, writers |-> {p}]

\* Two write f, each from the start and at its own offset.
Clashes(p, f) == f # None /\ p \in f.writers /\ f.writers # {p}

\* p writes d and closes what it has created: f, unless that was unlinked since.
\* After a clash the blocks of f are those of one writer or another, and what it reads
\* as is among spliced, the contents that can be put together.
Writes(p, f, d, spliced) ==
    IF f = None \/ p \notin f.writers THEN {f}
    ELSE IF ~Clashes(p, f) THEN {WrittenBy(p, d)}
    ELSE [pid : f.writers, data : {f.data, d, Garbage} \cup spliced, writers : {f.writers}]

Things(c)         == IF c \in {None, Garbage} THEN {} ELSE c
SplicedLevel(c, d) == SUBSET (Things(c) \cup Things(d))
SplicedState(s, t) ==
    LET S == {s, t} \ {None, Garbage}
    IN  [here : {x.here : x \in S}, inv : SUBSET UNION {x.inv : x \in S},
         exists : {x.exists : x \in S}, ins_chkpt : {x.ins_chkpt : x \in S}]

\* What can be read of a file's first word and of the rest.
PidIn(f)  == IF f = None \/ f.data = Garbage THEN None ELSE f.pid
DataIn(f) == IF f = None THEN None ELSE f.data

EmptySave(w) == [writers |-> w, readable |-> TRUE, first |-> None, state |-> None,
                 lev |-> [l \in Level |-> None]]

Legible(s)   == s.first # Garbage /\ s.state \notin {None, Garbage}
WholeSave(s) == s # None /\ Legible(s)

\* The save files there are: the one in the directory, and those that processes
\* have opened to restore and that may have been unlinked since.
SaveFiles == ({save} \cup {opened[q] : q \in Proc}) \ {None}

\* The save file p has created, or None if it is gone and nobody reads it.
Created(p) == LET mine == {f \in SaveFiles : p \in f.writers}
              IN  IF mine = {} THEN {None} ELSE mine

\* What p makes of f by appending what it would make into g; after a clash, that
\* may be lost, be spliced with what is there, or spoil it.
Appended(p, f, g, spliced) ==
    IF f = None THEN {None}
    ELSE IF ~Clashes(p, f) THEN {g}
    ELSE {f, g, [f EXCEPT !.first = Garbage]} \cup spliced

\* The file f is seen as g from now on, by whoever has opened it as well.
Becomes(f, g) ==
    /\ save' = IF save = f THEN g ELSE save
    /\ opened' = [q \in Proc |-> IF opened[q] = f THEN g ELSE opened[q]]

AppendTo(p, f, g, spliced) == /\ \E h \in Appended(p, f, g, spliced) : Becomes(f, h)
                              /\ clash' = (clash \/ Clashes(p, f))

StateOf(p) == [here |-> game[p].here, inv |-> game[p].inv, exists |-> game[p].exists,
               ins_chkpt |-> game[p].ins_chkpt]

\* The world of a game state and the contents c of levels.
World(s, c) == [here |-> s.here, inv |-> s.inv,
                lev |-> [l \in Level |-> IF l \in s.exists \cup {s.here} THEN c[l] ELSE None]]
OnDisk == [l \in Level |-> DataIn(levelfile[l])]
WorldOf(p) == World(StateOf(p), [OnDisk EXCEPT ![game[p].here] = game[p].cur])

Goto(p, where) == pc' = [pc EXCEPT ![p] = where]
Ended(p) == pc[p] = "dead"

NoMemory == [here |-> FirstLevel, inv |-> {}, exists |-> {}, cur |-> {},
             ins_chkpt |-> FALSE, havestate |-> TRUE]

\* The process ends.  Where the hero was may still be read from its lock.
Ends(p) ==
    /\ Goto(p, "dead")
    /\ game' = [game EXCEPT ![p] = [NoMemory EXCEPT !.here = game[p].here]]
    /\ dest' = [dest EXCEPT ![p] = FirstLevel]
    /\ todo' = [todo EXCEPT ![p] = {}]
    /\ opened' = [opened EXCEPT ![p] = None]

-----------------------------------------------------------------------------
(***************************************************************************)
(* Starting: getlock, and restore_saved_game or newgame.                   *)
(***************************************************************************)
\* Mutant: any lock is taken for that of a process that has ended.
VeryOldAlways == TRUE
\* The lock's process is gone, or nothing was written for three days.
VeryOld == \/ PidIn(lock) \in Proc /\ Ended(PidIn(lock))
           \/ "old" \in Answers

\* creat() of the lock: an empty file.
EmptyLock(p, f) == [pid |-> None, data |-> None, writers |-> Writers(p, f, WritingLock)]

GetLock(p) ==
    /\ pc[p] = "idle" /\ recover = "idle"
    /\ \/ lock = None /\ lock' = EmptyLock(p, None) /\ UNCHANGED levelfile
       \/ /\ lock # None /\ (VeryOld \/ "y" \in Answers)
          /\ levelfile' = [l \in Level |-> None]       \* eraseoldlocks
          /\ lock' = EmptyLock(p, None)
       \/ /\ lock # None /\ ~VeryOld /\ "n" \in Answers
          /\ lock' = EmptyLock(p, lock) /\ UNCHANGED levelfile
    /\ Goto(p, "gotlock")
    /\ committed' = IF lock # None /\ ~WholeSave(save) THEN None ELSE committed
    /\ UNCHANGED <<save, game, dest, todo, recover, opened, torn, clash>>

WriteLockFile(p, d) ==
    /\ lock' \in Writes(p, lock, d, SplicedState(lock.data, d))
    /\ clash' = (clash \/ Clashes(p, lock))

\* HLOCK is released before the pid is written.
WritePid(p) ==
    /\ pc[p] = "gotlock"
    /\ WriteLockFile(p, None)
    /\ Goto(p, "begin")
    /\ UNCHANGED <<levelfile, save, game, dest, todo, recover, opened, committed, torn>>

UpToDate == save.first # None       \* has a version number at least

RestoreSavedGame(p) ==
    /\ pc[p] = "begin" /\ save # None /\ save.readable /\ UpToDate
    /\ save' = [save EXCEPT !.readable = FALSE]         \* disallow parallel restores
    /\ opened' = [opened EXCEPT ![p] = save']
    /\ Goto(p, "reading")
    /\ UNCHANGED <<levelfile, lock, game, dest, todo, recover, ghosts>>

NewGame(p) ==
    /\ pc[p] = "begin"
    /\ \/ save = None /\ UNCHANGED save
       \/ save # None /\ ~save.readable /\ UNCHANGED save
       \/ save # None /\ save.readable /\ ~UpToDate /\ save' = None
    /\ \E on \in BOOLEAN :
          game' = [game EXCEPT ![p] = [here |-> FirstLevel, inv |-> {}, exists |-> {},
                                       cur |-> {p} \X Item, ins_chkpt |-> on,
                                       havestate |-> TRUE]]
    /\ Goto(p, "checkpoint")
    /\ UNCHANGED <<levelfile, lock, dest, todo, recover, opened, ghosts>>

(***************************************************************************)
(* Playing.                                                                *)
(***************************************************************************)
Pickup(p) ==
    /\ pc[p] = "play"
    /\ \E t \in game[p].cur :
          game' = [game EXCEPT ![p].cur = @ \ {t}, ![p].inv = @ \cup {t}]
    /\ UNCHANGED <<files, pc, dest, todo, recover, opened, ghosts>>

Drop(p) ==
    /\ pc[p] = "play"
    /\ \E t \in game[p].inv :
          game' = [game EXCEPT ![p].inv = @ \ {t}, ![p].cur = @ \cup {t}]
    /\ UNCHANGED <<files, pc, dest, todo, recover, opened, ghosts>>

SetCheckpointOption(p) ==
    /\ pc[p] = "play"
    /\ game' = [game EXCEPT ![p].ins_chkpt = ~@]
    /\ UNCHANGED <<files, pc, dest, todo, recover, opened, ghosts>>

\* The hero dies or quits: clearlocks.
Cleared(p) ==
    /\ levelfile' = [l \in Level |-> IF l \in game[p].exists THEN None ELSE levelfile[l]]
    /\ lock' = None
    /\ Ends(p)

Done(p) ==
    /\ pc[p] = "play" /\ Cleared(p)
    /\ committed' = None
    /\ UNCHANGED <<save, recover, torn, clash>>

\* The game is void: done(TRICKED).
Tricked(p) ==
    /\ pc[p] = "tricked" /\ Cleared(p)
    /\ UNCHANGED <<save, recover, ghosts>>

(***************************************************************************)
(* goto_level: the level that is left is written, the other one is made or *)
(* read, and then written as well, for the checkpoint.                     *)
(***************************************************************************)
\* create_levelfile, which notes that there is one.
CreateLevelFile(p, l) ==
    levelfile' = [levelfile EXCEPT ![l] = Truncated(p, levelfile[l], WritingLevel(l))]
Noted(p, l) == [game EXCEPT ![p].exists = @ \cup {l}]

WriteLevel(p, l, d) ==
    LET old == levelfile[l]
    IN  /\ \E f \in Writes(p, old, d, SplicedLevel(old.data, d)) :
              levelfile' = [levelfile EXCEPT ![l] = f]
        /\ clash' = (clash \/ Clashes(p, old))

GotoLevel(p, l) ==
    /\ pc[p] = "play" /\ l # game[p].here
    /\ CreateLevelFile(p, game[p].here)
    /\ game' = Noted(p, game[p].here)
    /\ dest' = [dest EXCEPT ![p] = l]
    /\ Goto(p, "leave")
    /\ UNCHANGED <<lock, save, todo, recover, opened, ghosts>>

\* Mutant: the hero's things are left behind as well.
LeftBehindAll(p) == game[p].cur \cup game[p].inv
LeftBehind(p)    == game[p].cur

Leave(p) ==
    /\ pc[p] = "leave"
    /\ WriteLevel(p, game[p].here, LeftBehind(p))
    /\ Goto(p, "enter")
    /\ UNCHANGED <<lock, save, game, dest, todo, recover, opened, committed, torn>>

\* Mutant: getlev does not look at the pid.
OwnLevelAny(p, l) == levelfile[l] # None /\ levelfile[l].data # Garbage
OwnLevel(p, l)    == levelfile[l] # None /\ PidIn(levelfile[l]) = p

Enter(p) ==
    /\ pc[p] = "enter"
    /\ LET l == dest[p]
           Arrive(c) == game' = [game EXCEPT ![p].here = l, ![p].cur = c]
       IN  \/ l \notin game[p].exists /\ Arrive({}) /\ Goto(p, "checkpoint")
           \/ /\ l \in game[p].exists /\ OwnLevel(p, l)
              /\ Arrive(levelfile[l].data) /\ Goto(p, "checkpoint")
           \/ /\ l \in game[p].exists /\ ~OwnLevel(p, l)
              /\ Goto(p, "tricked") /\ UNCHANGED game
    /\ UNCHANGED <<files, dest, todo, recover, opened, ghosts>>

\* save_currentstate: the level, if checkpoints are on.
Checkpoint(p) ==
    /\ pc[p] = "checkpoint"
    /\ \/ /\ game[p].ins_chkpt
          /\ CreateLevelFile(p, game[p].here)
          /\ game' = Noted(p, game[p].here)
          /\ Goto(p, "rewrite")
       \/ /\ ~game[p].ins_chkpt
          /\ Goto(p, "lock")
          /\ UNCHANGED <<levelfile, game>>
    /\ UNCHANGED <<lock, save, dest, todo, recover, opened, ghosts>>

Rewrite(p) ==
    /\ pc[p] = "rewrite"
    /\ WriteLevel(p, game[p].here, game[p].cur)
    /\ Goto(p, "lock")
    /\ UNCHANGED <<lock, save, game, dest, todo, recover, opened, committed, torn>>

\* savestateinlock, also of a game that is being restored.
Restoring(p) == todo[p] # {}
AfterLock(p) == IF Restoring(p) THEN "copyin" ELSE "play"

\* Mutant: what was written before checkpoints were switched off stays.
NeedsRewritingOn(p) == game[p].ins_chkpt
NeedsRewriting(p)   == game[p].ins_chkpt \/ game[p].havestate

SaveStateInLock(p) ==
    /\ pc[p] = "lock"
    /\ \/ /\ ~NeedsRewriting(p)
          /\ Goto(p, AfterLock(p))
          /\ UNCHANGED lock
       \/ /\ NeedsRewriting(p) /\ PidIn(lock) # p
          /\ Goto(p, "tricked")
          /\ UNCHANGED lock
       \/ /\ NeedsRewriting(p) /\ PidIn(lock) = p
          /\ lock' = Truncated(p, lock, WritingLock)
          /\ Goto(p, "writelock")
    /\ UNCHANGED <<levelfile, save, game, dest, todo, recover, opened, ghosts>>

Checkpointed(p) == IF game[p].ins_chkpt THEN WorldOf(p) ELSE None

WriteLock(p) ==
    /\ pc[p] = "writelock"
    /\ WriteLockFile(p, IF game[p].ins_chkpt THEN StateOf(p) ELSE None)
    /\ game' = [game EXCEPT ![p].havestate = game[p].ins_chkpt]
    /\ committed' = IF Restoring(p) THEN committed ELSE Checkpointed(p)
    /\ Goto(p, AfterLock(p))
    /\ UNCHANGED <<levelfile, save, dest, todo, recover, opened, torn>>

(***************************************************************************)
(* dosave0: the level, the state, then the other levels, each deleted when *)
(* it is copied, and at last the hero's level and the lock.                *)
(***************************************************************************)
CanCreateSave == save # None => save.readable

DoSave(p) ==
    /\ pc[p] = "play"
    /\ \/ /\ CanCreateSave           \* overwriting, if the hero agrees
          /\ save' = EmptySave(Writers(p, save, WritingSave))
          /\ Goto(p, "savelevel")
       \/ /\ ~CanCreateSave
          /\ save' = None             \* delete_savefile
          /\ UNCHANGED pc
    /\ UNCHANGED <<levelfile, lock, game, dest, todo, recover, opened, ghosts>>

SaveLevel(p) ==
    /\ pc[p] = "savelevel"
    /\ \E f \in Created(p) :
           AppendTo(p, f, [f EXCEPT !.first = game[p].cur],
                    {[f EXCEPT !.first = c] : c \in SplicedLevel(f.first, game[p].cur)})
    /\ Goto(p, "savestate")
    /\ UNCHANGED <<levelfile, lock, game, dest, todo, recover, committed, torn>>

SaveGameState(p) ==
    /\ pc[p] = "savestate"
    /\ \E f \in Created(p) :
           AppendTo(p, f, [f EXCEPT !.state = StateOf(p)],
                    {[f EXCEPT !.state = s] : s \in SplicedState(f.state, StateOf(p))})
    /\ todo' = [todo EXCEPT ![p] = game[p].exists \ {game[p].here}]
    /\ Goto(p, "copyout")
    /\ committed' = WorldOf(p)
    /\ UNCHANGED <<levelfile, lock, game, dest, recover, torn>>

CopyOut(p, l) ==
    /\ pc[p] = "copyout" /\ l \in todo[p]
    /\ \/ /\ OwnLevel(p, l)
          /\ LET c == levelfile[l].data
             IN  \E f \in Created(p) :
                    AppendTo(p, f, [f EXCEPT !.lev[l] = c],
                             {[f EXCEPT !.lev[l] = x] : x \in SplicedLevel(f.lev[l], c)})
          /\ dest' = [dest EXCEPT ![p] = l]
          /\ Goto(p, "deletelevel")
       \/ /\ ~OwnLevel(p, l)
          /\ save' = IF levelfile[l] = None THEN None ELSE save  \* delete_savefile
          /\ Goto(p, "tricked")
          /\ UNCHANGED <<dest, opened, clash>>
    /\ UNCHANGED <<levelfile, lock, game, todo, recover, committed, torn>>

\* Mutant: the level is copied again and again.
CopiedNot(p) == todo
Copied(p)    == [todo EXCEPT ![p] = @ \ {dest[p]}]

\* delete_levelfile, if there is one to p's knowledge.
DeleteLevelFile(p, l) ==
    /\ levelfile' = [levelfile EXCEPT ![l] = IF l \in game[p].exists THEN None ELSE @]
    /\ game' = [game EXCEPT ![p].exists = @ \ {l}]

DeleteLevel(p) ==
    /\ pc[p] = "deletelevel"
    /\ DeleteLevelFile(p, dest[p])
    /\ todo' = Copied(p)
    /\ Goto(p, "copyout")
    /\ UNCHANGED <<lock, save, dest, recover, opened, ghosts>>

CloseSave(p) ==
    /\ pc[p] = "copyout" /\ todo[p] = {}
    /\ Goto(p, "deletehere")
    /\ UNCHANGED <<files, game, dest, todo, recover, opened, ghosts>>

DeleteHere(p) ==
    /\ pc[p] = "deletehere"
    /\ DeleteLevelFile(p, game[p].here)
    /\ Goto(p, "deletelock")
    /\ UNCHANGED <<lock, save, dest, todo, recover, opened, ghosts>>

DeleteLock(p) ==
    /\ pc[p] = "deletelock"
    /\ lock' = None
    /\ Ends(p)
    /\ UNCHANGED <<levelfile, save, recover, ghosts>>

(***************************************************************************)
(* dorecover: level, state, lock, and then level files, the hero's first.  *)
(***************************************************************************)
\* mread fails: the save file is deleted and the program ends.
RestoreFails(p) == save' = None /\ Ends(p)

\* Mutant: the other levels are left in the save file.
InSaveHere(s) == {s.state.here}
InSave(s)     == {s.state.here} \cup {l \in Level : s.lev[l] # None}
FromSave(p, l) == IF l = game[p].here THEN opened[p].first ELSE opened[p].lev[l]

DoRecover(p) ==
    /\ pc[p] = "reading"
    /\ LET s == opened[p]
       IN  \/ /\ Legible(s)
              /\ game' = [game EXCEPT ![p] = [here |-> s.state.here, inv |-> s.state.inv,
                                              exists |-> s.state.exists, cur |-> s.first,
                                              ins_chkpt |-> s.state.ins_chkpt,
                                              havestate |-> TRUE]]
              /\ todo' = [todo EXCEPT ![p] = InSave(s)]
              /\ Goto(p, "lock")
              /\ UNCHANGED <<save, dest, opened>>
           \/ ~Legible(s) /\ RestoreFails(p)
    /\ UNCHANGED <<levelfile, lock, recover, ghosts>>

CopyIn(p, l) ==
    /\ pc[p] = "copyin" /\ l \in todo[p]
    /\ game[p].here \in todo[p] => l = game[p].here
    /\ \/ /\ FromSave(p, l) # Garbage
          /\ CreateLevelFile(p, l) /\ game' = Noted(p, l)
          /\ dest' = [dest EXCEPT ![p] = l]
          /\ Goto(p, "copywrite")
          /\ UNCHANGED <<save, todo, opened>>
       \/ /\ FromSave(p, l) = Garbage
          /\ RestoreFails(p)
          /\ UNCHANGED levelfile
    /\ UNCHANGED <<lock, recover, ghosts>>

CopyWrite(p) ==
    /\ pc[p] = "copywrite"
    /\ WriteLevel(p, dest[p], FromSave(p, dest[p]))
    /\ todo' = Copied(p)
    /\ Goto(p, "copyin")
    /\ UNCHANGED <<lock, save, game, dest, recover, opened, committed, torn>>

\* All is copied: delete_savefile.
Recovered(p) ==
    /\ pc[p] = "copyin" /\ todo[p] = {}
    /\ save' = None
    /\ opened' = [opened EXCEPT ![p] = None]
    /\ committed' = Checkpointed(p)
    /\ Goto(p, "play")
    /\ UNCHANGED <<levelfile, lock, game, dest, todo, recover, torn, clash>>

(***************************************************************************)
(* The utility recover, run when no game is: it makes a save file of the   *)
(* checkpoint and appends whatever level files there are.                  *)
(***************************************************************************)
NoGame == \A p \in Proc : pc[p] \in {"idle", "dead"}
\* The level number follows the pid in the lock.
LevelInLock == IF lock.data = Garbage THEN game[lock.pid].here ELSE lock.data.here

RecoverStart ==
    /\ recover = "idle" /\ NoGame
    /\ lock # None /\ lock.data # None         \* checkpointing was in effect
    /\ CanCreateSave
    /\ save' = EmptySave({})
    /\ recover' = "level"
    /\ UNCHANGED <<levelfile, lock, pc, game, dest, todo, opened, ghosts>>

RecoverLevel ==
    /\ recover = "level"
    /\ LET l == LevelInLock
       IN  \/ /\ levelfile[l] = None            \* gives up
              /\ recover' = "idle"
              /\ UNCHANGED <<save, levelfile>>
           \/ /\ levelfile[l] # None
              /\ save' = [save EXCEPT !.first = levelfile[l].data]
              /\ levelfile' = [levelfile EXCEPT ![l] = None]
              /\ recover' = "state"
    /\ UNCHANGED <<lock, pc, game, dest, todo, opened, ghosts>>

RecoverState ==
    /\ recover = "state"
    /\ save' = [save EXCEPT !.state = lock.data]
    /\ lock' = None
    /\ recover' = "others"
    /\ UNCHANGED <<levelfile, pc, game, dest, todo, opened, ghosts>>

RecoverOther(l) ==
    /\ recover = "others" /\ levelfile[l] # None
    /\ save' = [save EXCEPT !.lev[l] = levelfile[l].data]
    /\ levelfile' = [levelfile EXCEPT ![l] = None]
    /\ UNCHANGED <<lock, pc, game, dest, todo, recover, opened, ghosts>>

RecoverDone ==
    /\ recover = "others" /\ \A l \in Level : levelfile[l] = None
    /\ recover' = "idle"
    /\ UNCHANGED <<files, pc, game, dest, todo, opened, ghosts>>

\* Between level changes, and in dosave0 until it copies the first level.
Harmless == {"gotlock", "begin", "play", "savelevel", "savestate"}

Crash(p) ==
    /\ pc[p] \in CrashIn
    /\ Ends(p)
    /\ torn' = (torn \/ pc[p] \notin Harmless)
    /\ UNCHANGED <<files, recover, committed, clash>>

RecoverCrash ==
    /\ recover # "idle" /\ "recover" \in CrashIn
    /\ recover' = "idle"
    /\ torn' = TRUE
    /\ UNCHANGED <<files, pc, game, dest, todo, opened, committed, clash>>

-----------------------------------------------------------------------------
Init ==
    /\ levelfile = [l \in Level |-> None]
    /\ lock = None /\ save = None
    /\ pc = [p \in Proc |-> "idle"]
    /\ game = [p \in Proc |-> NoMemory]
    /\ dest = [p \in Proc |-> FirstLevel]
    /\ todo = [p \in Proc |-> {}]
    /\ recover = "idle"
    /\ opened = [p \in Proc |-> None]
    /\ committed = None /\ torn = FALSE /\ clash = FALSE

Plays(p) ==
    \/ Pickup(p) \/ Drop(p) \/ SetCheckpointOption(p) \/ Done(p) \/ DoSave(p)
    \/ \E l \in Level : GotoLevel(p, l)

Proceeds(p) ==
    \/ WritePid(p) \/ RestoreSavedGame(p) \/ NewGame(p) \/ Tricked(p)
    \/ Leave(p) \/ Enter(p) \/ Checkpoint(p) \/ Rewrite(p)
    \/ SaveStateInLock(p) \/ WriteLock(p)
    \/ SaveLevel(p) \/ SaveGameState(p) \/ (\E l \in Level : CopyOut(p, l))
    \/ DeleteLevel(p) \/ CloseSave(p) \/ DeleteHere(p) \/ DeleteLock(p)
    \/ DoRecover(p) \/ (\E l \in Level : CopyIn(p, l)) \/ CopyWrite(p) \/ Recovered(p)

RecoverProceeds ==
    RecoverLevel \/ RecoverState \/ (\E l \in Level : RecoverOther(l)) \/ RecoverDone

Next ==
    \/ \E p \in Proc : GetLock(p) \/ Plays(p) \/ Proceeds(p) \/ Crash(p)
    \/ RecoverStart \/ RecoverProceeds \/ RecoverCrash

\* Whoever has started a file operation goes on with it.
Fairness == (\A p \in Proc : WF_vars(Proceeds(p))) /\ WF_vars(RecoverProceeds)

Spec == Init /\ [][Next]_vars /\ Fairness

-----------------------------------------------------------------------------
WorldOfSave(s) == World(s.state, [s.lev EXCEPT ![s.state.here] = s.first])

\* The world that restoring, after recover if there is a lock, would give.
Kept == IF WholeSave(save) THEN WorldOfSave(save)
        ELSE IF lock = None \/ lock.data \in {None, Garbage} THEN None
        ELSE World(lock.data, OnDisk)

\* Type correctness of the files and of each process's memory.
TypeOK ==
    /\ levelfile \in [Level -> LevelFile \cup {None}]
    /\ lock \in LockFile \cup {None}
    /\ save \in SaveFile \cup {None}
    /\ pc \in [Proc -> Pc]
    /\ game \in [Proc -> Memory]
    /\ dest \in [Proc -> Level]
    /\ todo \in [Proc -> SUBSET Level]
    /\ recover \in {"idle", "level", "state", "others"}
    /\ opened \in [Proc -> SaveFile \cup {None}]
    /\ committed \in Worlds \cup {None} /\ torn \in BOOLEAN /\ clash \in BOOLEAN

\* Between level changes, all through a restore, and in dosave0 until it copies
\* the first level, also after a crash there, the files hold exactly the world
\* of the last checkpoint or save, with nothing of what was done since then and
\* nothing of an older one: the levels and the state that save_currentstate,
\* dosave0, dorecover and recover leave agree.
Settled == /\ recover = "idle"
           /\ \A p \in Proc : \/ pc[p] \in Harmless \cup {"idle", "dead"}
                              \/ pc[p] \in {"reading", "copyin", "copywrite"}
                              \/ pc[p] \in {"lock", "writelock"} /\ Restoring(p)
KeptIsCommitted == Settled /\ ~torn => Kept = committed

\* While a game is played everything that came with it is in one place: on the
\* hero, on the level in memory, or in the file of a level that was left.
\* goto_level and the two ways through the save file lose and double nothing.
Elsewhere(p) == game[p].exists \ {game[p].here}
Holders(p, t) ==
    {l \in Elsewhere(p) : t \in levelfile[l].data}
        \cup (IF t \in game[p].inv THEN {None} ELSE {})
        \cup (IF t \in game[p].cur THEN {game[p].here} ELSE {})
Conserved ==
    \A p \in Proc : pc[p] = "play" /\ ~torn =>
        \E g \in Proc : \A i \in Item : Cardinality(Holders(p, <<g, i>>)) = 1

\* No two processes are in a game at once, as long as nobody answers that the
\* old game is to be destroyed: getlock takes over from dead processes only.
Running(p) == pc[p] \notin {"idle", "dead"}
SoleGame == \A p, q \in Proc : Running(p) /\ Running(q) => p = q

\* A restored game starts in the world of the last checkpoint or save: with a
\* crash between level changes and recover before that, or without.
Resumes(p) == pc[p] = "copyin" /\ pc'[p] = "play"
ResumesCommitted ==
    [][\A p \in Proc : Resumes(p) /\ ~torn => WorldOf(p)' = committed]_vars

\* A game shows nothing of another one.
Pure(p) == \A s, t \in game[p].inv \cup game[p].cur : s[1] = t[1]

\* Two processes whose files have the same names never mix their games, unless they
\* have had one file open for writing at a time: the pid in each level file is checked
\* before the level is used, so a game whose files were taken is void before it shows
\* anything of the other.
OneGame == ~clash => \A p \in Proc : pc[p] = "play" => Pure(p)

\* Every start, level change, save and restore ends, in play or with the
\* program, and so does the utility recover.
Finishes == /\ \A p \in Proc : pc[p] \notin {"idle", "play", "dead"} ~> pc[p] \in {"play", "dead"}
            /\ recover # "idle" ~> recover = "idle"

\* What the question "Destroy old game?" says: answered with no, the old game
\* is not destroyed, so no game is ever found void.
DeclinedIsNotDestroyed == \A p \in Proc : pc[p] # "tricked"
=============================================================================
