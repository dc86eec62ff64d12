-------------------------- MODULE CheckpointProofs --------------------------
(***************************************************************************)
(* Proofs about module Checkpoint, for any number of processes, levels and *)
(* things and for crashes anywhere.  The types, and that two games are     *)
(* never mixed, hold whatever the player answers; what is on disk is what  *)
(* was last saved as long as nobody destroys the game of a process that is *)
(* alive (Answers = {}).                                                   *)
(***************************************************************************)
EXTENDS Checkpoint, FiniteSetTheorems, TLAPS

(***************************************************************************)
(* The inductive invariant: first what keeps two programs apart, and the   *)
(* types, which rest on it.                                                *)
(***************************************************************************)
\* A process that runs has its pid in the lock, once it has written it, and nobody
\* else writes the lock; and recover runs alone.
HoldsLock(p) == /\ lock # None /\ lock.writers = {p}
                /\ lock.pid = IF pc[p] = "gotlock" THEN None ELSE p
OwnsLock == \A p \in Proc : Running(p) => HoldsLock(p)
OwnLock(p)   == lock # None /\ lock.writers = {p} /\ lock.pid = p
RunsAlone == recover # "idle" => NoGame

\* recover has a save file to append to, and a lock with a state in it.
RecoverHasFiles ==
    /\ recover # "idle" => save # None
    /\ recover \in {"level", "state"} => lock # None /\ lock.data # None

\* p reads a save file.
Reads(p) == \/ pc[p] \in {"copyin", "copywrite"}
            \/ pc[p] \in {"lock", "writelock"} /\ Restoring(p)

NothingToCopy == {"idle", "gotlock", "begin", "reading", "play", "leave", "enter", "checkpoint", "rewrite"}

\* The save file that p has opened has what p wants of it.
Finds(p, l) == l = game[p].here \/ opened[p].lev[l] # None
HasFile(p) ==
    /\ pc[p] = "reading" \/ Reads(p) => opened[p] # None /\ opened[p].first # None
    /\ Reads(p) => \A l \in todo[p] : Finds(p, l)
    /\ pc[p] = "copywrite" => Finds(p, dest[p])
    /\ pc[p] \in NothingToCopy => todo[p] = {}
    /\ opened[p] # None => pc[p] \in {"reading", "tricked"} \/ Reads(p)

\* A save file that p writes or has written is of the one time that p saves.
SavingPcs == {"copyout", "deletelevel", "deletehere", "deletelock"}
HasSaved(p) ==
    \A f \in SaveFiles : p \in f.writers =>
        pc[p] \in {"savelevel", "savestate", "tricked", "dead"} \cup SavingPcs

\* So much holds whatever the player answers.
Orderly == /\ RunsAlone /\ RecoverHasFiles
           /\ \A p \in Proc : HasFile(p) /\ HasSaved(p)

\* The file that p has opened is still there, and whole.
HasOpened(p) ==
    /\ pc[p] = "reading" \/ Reads(p) => opened[p] = save
    /\ Reads(p) => /\ Legible(save) /\ game[p].here = save.state.here
                   /\ todo[p] \subseteq InSave(save)
    /\ pc[p] = "copywrite" => dest[p] \in InSave(save)

Separate == OwnsLock /\ Orderly /\ \A p \in Proc : HasOpened(p)

(***************************************************************************)
(* Then what the files hold, as long as nothing was torn.                  *)
(***************************************************************************)
LevelGood(l)  == levelfile[l] # None /\ levelfile[l].data # Garbage
OwnGood(p, l) == LevelGood(l) /\ levelfile[l].pid = p
Around(s)     == s.exists \cup {s.here}
BeingWritten(p) == [pid |-> p, data |-> Garbage, writers |-> {p}]
LockHasState  == lock # None /\ lock.data # None

\* The save file has each level of its state, and is the committed world.
SaveComplete(todoing) ==
    /\ Legible(save) /\ save.first # None
    /\ \A l \in Level \ ({save.state.here} \cup todoing) :
          IF l \in save.state.exists THEN save.lev[l] \notin {None, Garbage}
          ELSE save.lev[l] = None
SaveAgrees == save # None /\ SaveComplete({}) /\ committed = WorldOfSave(save)

\* The level files are those of the state in the lock, and the committed world.
LockAgrees ==
    /\ lock.data # Garbage
    /\ \A l \in Level : IF l \in Around(lock.data) THEN LevelGood(l) ELSE levelfile[l] = None
    /\ committed = World(lock.data, OnDisk)

FilesAgree ==
    /\ IF WholeSave(save) THEN SaveAgrees /\ ~LockHasState
       ELSE IF LockHasState THEN LockAgrees
       ELSE committed = None
    /\ lock = None => \A l \in Level : levelfile[l] = None
    /\ save # None => save.readable

Calm == recover = "idle" /\ \A p \in Proc : pc[p] \in Harmless \cup {"idle", "dead"}

\* p has the lock and has not begun to write levels.
Starting(p) ==
    pc[p] \in {"gotlock", "begin", "reading"} =>
        /\ lock.data = None
        /\ \A l \in Level : levelfile[l] = None
        /\ pc[p] = "reading" => IF Legible(save) THEN SaveAgrees ELSE committed = None

\* p copies the levels of the save file.
CopiesIn(p) ==
    Reads(p) =>
        /\ SaveAgrees
        /\ game[p].inv = save.state.inv /\ game[p].cur = save.first
        /\ game[p].ins_chkpt = save.state.ins_chkpt
        /\ \A l \in Level \ InSave(save) : levelfile[l] = None
        /\ pc[p] \in {"lock", "writelock"} =>
              /\ game[p].exists = save.state.exists /\ game[p].havestate
              /\ todo[p] = InSave(save)
              /\ IF pc[p] = "lock" THEN lock.data = None ELSE lock = BeingWritten(p)
        /\ pc[p] \in {"copyin", "copywrite"} =>
              /\ lock = WrittenBy(p, IF game[p].ins_chkpt THEN save.state ELSE None)
              /\ game[p].havestate = game[p].ins_chkpt
              /\ save.state.exists \subseteq game[p].exists
              /\ game[p].exists \subseteq InSave(save)
              /\ \A l \in InSave(save) \ todo[p] :
                    l \in game[p].exists /\ levelfile[l] = WrittenBy(p, FromSave(p, l))
              /\ pc[p] = "copywrite" =>
                    dest[p] \in game[p].exists /\ levelfile[dest[p]] = BeingWritten(p)

\* p plays, changes levels, or has begun to save.
InGame(p) == \/ pc[p] \in {"play", "leave", "enter", "checkpoint", "rewrite",
                           "savelevel", "savestate"}
             \/ pc[p] \in {"lock", "writelock"} /\ ~Restoring(p)
Writing(p, l) == pc[p] \in {"leave", "rewrite"} /\ l = game[p].here
HasLevels(p) ==
    InGame(p) =>
        /\ \A l \in Level : IF l \notin game[p].exists THEN levelfile[l] = None
                            ELSE Writing(p, l) \/ OwnGood(p, l)
        /\ pc[p] \in {"leave", "rewrite"} =>
              game[p].here \in game[p].exists /\ levelfile[game[p].here] = BeingWritten(p)
        /\ pc[p] \in {"lock", "writelock"} /\ game[p].ins_chkpt =>
              game[p].here \in game[p].exists /\ levelfile[game[p].here].data = game[p].cur
        /\ IF pc[p] = "writelock" THEN lock = BeingWritten(p)
           ELSE /\ lock.data # Garbage
                /\ ~game[p].havestate => lock.data = None /\ committed = None
        /\ IF pc[p] \in {"savelevel", "savestate"}
           THEN /\ save # None /\ save.writers = {p} /\ save.readable /\ save.state = None
                /\ save.lev = [l \in Level |-> None]
                /\ pc[p] = "savestate" => save.first = game[p].cur
           ELSE save = None

\* p copies the levels to the save file, and deletes them.
CopiesOut(p) ==
    pc[p] \in {"copyout", "deletelevel", "deletehere", "deletelock"} =>
        /\ save # None /\ save.writers = {p} /\ save.readable
        /\ save.state # None /\ SaveComplete(todo[p])
        /\ game[p].here = save.state.here
        /\ todo[p] \subseteq save.state.exists \ {game[p].here}
        /\ todo[p] \subseteq game[p].exists
        /\ \A l \in todo[p] : OwnGood(p, l)
        /\ \A l \in Level \ (todo[p] \cup {game[p].here}) : levelfile[l] = None
        /\ levelfile[game[p].here] # None => game[p].here \in game[p].exists
        /\ committed = World(save.state, [l \in Level |->
                IF l = save.state.here THEN save.first
                ELSE IF l \in todo[p] THEN levelfile[l].data ELSE save.lev[l]])
        /\ pc[p] = "deletelevel" =>
              dest[p] \in todo[p] /\ save.lev[dest[p]] = levelfile[dest[p]].data
        /\ pc[p] \in {"deletehere", "deletelock"} => todo[p] = {}
        /\ pc[p] = "deletelock" => \A l \in Level : levelfile[l] = None

\* The utility moves the levels to the save file, the hero's first.
Recovers ==
    /\ recover # "idle" => save.readable
    /\ recover = "level" => save = EmptySave({}) /\ LockAgrees
    /\ recover = "state" =>
          /\ lock.data # Garbage
          /\ save.first \notin {None, Garbage} /\ save.lev = [l \in Level |-> None]
          /\ levelfile[lock.data.here] = None
          /\ \A l \in Level \ {lock.data.here} :
                IF l \in lock.data.exists THEN LevelGood(l) ELSE levelfile[l] = None
          /\ committed = World(lock.data, [OnDisk EXCEPT ![lock.data.here] = save.first])
    /\ recover = "others" =>
          /\ lock = None /\ Legible(save) /\ save.first # None
          /\ levelfile[save.state.here] = None
          /\ \A l \in Level \ {save.state.here} :
                IF l \in save.state.exists
                THEN LevelGood(l) \/ (levelfile[l] = None /\ save.lev[l] \notin {None, Garbage})
                ELSE levelfile[l] = None /\ save.lev[l] = None
          /\ committed = World(save.state, [l \in Level |->
                IF l = save.state.here THEN save.first
                ELSE IF levelfile[l] # None THEN levelfile[l].data ELSE save.lev[l]])

Phase(p) == /\ Starting(p) /\ CopiesIn(p) /\ HasLevels(p) /\ CopiesOut(p)
            /\ pc[p] # "tricked"

Agree == /\ Calm => FilesAgree
         /\ Recovers
         /\ \A p \in Proc : Phase(p)

IInv == TypeOK /\ Separate /\ (~torn => Agree)

-----------------------------------------------------------------------------
(***************************************************************************)
(* Types.                                                                  *)
(***************************************************************************)
\* The constants and the memory of a process that has ended are what they should be.
LEMMA NoMemoryType == FirstLevel \in Level /\ NoMemory \in Memory
<1>1. FirstLevel \in Level
  BY LevelAssumption DEF FirstLevel
<1> QED BY <1>1 DEF NoMemory, Memory

\* A state put together of two is a state.
LEMMA SplicedStateType ==
    ASSUME NEW s \in State \cup {None, Garbage}, NEW t \in State \cup {None, Garbage}
    PROVE  SplicedState(s, t) \subseteq State
<1> DEFINE S == {s, t} \ {None, Garbage}
<1>1. S \subseteq State
  OBVIOUS
<1>2. /\ {x.here : x \in S} \subseteq Level /\ {x.exists : x \in S} \subseteq SUBSET Level
      /\ {x.ins_chkpt : x \in S} \subseteq BOOLEAN /\ SUBSET UNION {x.inv : x \in S} \subseteq SUBSET Thing
  BY <1>1 DEF State
<1>3. SplicedState(s, t) = [here : {x.here : x \in S}, inv : SUBSET UNION {x.inv : x \in S},
          exists : {x.exists : x \in S}, ins_chkpt : {x.ins_chkpt : x \in S}]
  BY DEF SplicedState
<1> HIDE DEF S
<1> QED BY <1>2, <1>3 DEF State

\* What may become of a file that p creates and writes is such a file.
LEMMA WritesType ==
    ASSUME NEW p \in Proc
    PROVE  /\ \A f \in LevelFile \cup {None}, d \in Content :
                 Writes(p, f, d, SplicedLevel(f.data, d)) \subseteq LevelFile \cup {None}
           /\ \A f \in LockFile \cup {None}, d \in State \cup {None, Garbage} :
                 Writes(p, f, d, SplicedState(f.data, d)) \subseteq LockFile \cup {None}
           /\ \A f \in LevelFile \cup {None} : \A W : Truncated(p, f, W) \in LevelFile
           /\ \A f \in LockFile \cup {None} : \A W :
                 Truncated(p, f, W) \in LockFile /\ EmptyLock(p, f) \in LockFile
<1>1. ASSUME NEW f \in LevelFile \cup {None}, NEW d \in Content
      PROVE  Writes(p, f, d, SplicedLevel(f.data, d)) \subseteq LevelFile \cup {None}
  <2>1. WrittenBy(p, d) \in LevelFile
    BY DEF WrittenBy, LevelFile
  <2>2. ASSUME f # None
        PROVE  {f.data, d, Garbage} \cup SplicedLevel(f.data, d) \subseteq Content
               /\ f.writers \in SUBSET Proc
    BY <2>2 DEF LevelFile, Content, SplicedLevel, Things
  <2>3. ASSUME f # None
        PROVE  [pid : f.writers, data : {f.data, d, Garbage} \cup SplicedLevel(f.data, d),
                writers : {f.writers}] \subseteq LevelFile
    BY <2>2, <2>3 DEF LevelFile
  <2> QED BY <2>1, <2>3 DEF Writes
<1>2. ASSUME NEW f \in LockFile \cup {None}, NEW d \in State \cup {None, Garbage}
      PROVE  Writes(p, f, d, SplicedState(f.data, d)) \subseteq LockFile \cup {None}
  <2>1. WrittenBy(p, d) \in LockFile
    BY DEF WrittenBy, LockFile
  <2>2. ASSUME f # None
        PROVE  {f.data, d, Garbage} \cup SplicedState(f.data, d) \subseteq State \cup {None, Garbage}
               /\ f.writers \in SUBSET Proc
    <3>1. f.data \in State \cup {None, Garbage} /\ f.writers \in SUBSET Proc
      BY <2>2 DEF LockFile
    <3> QED BY <3>1, SplicedStateType
  <2>3. ASSUME f # None
        PROVE  [pid : f.writers, data : {f.data, d, Garbage} \cup SplicedState(f.data, d),
                writers : {f.writers}] \subseteq LockFile
    BY <2>2, <2>3 DEF LockFile
  <2> QED BY <2>1, <2>3 DEF Writes
<1>3. \A f \in LevelFile \cup LockFile \cup {None} : \A W : Writers(p, f, W) \in SUBSET Proc
  BY DEF Writers, LevelFile, LockFile
<1>4. \A f \in LevelFile \cup {None} : \A W : Truncated(p, f, W) \in LevelFile
  BY <1>3 DEF Truncated, LevelFile, Content
<1>5. \A f \in LockFile \cup {None} : \A W : Truncated(p, f, W) \in LockFile
  BY <1>3 DEF Truncated, LockFile
<1>6. \A f \in LockFile \cup {None} : EmptyLock(p, f) \in LockFile
  BY <1>3 DEF EmptyLock, LockFile
<1> QED BY <1>1, <1>2, <1>4, <1>5, <1>6

\* A file that is written to is one of those there are.
LEMMA CreatedIs ==
    ASSUME TypeOK, NEW p \in Proc, NEW f \in Created(p)
    PROVE  f # None => f \in SaveFiles /\ f \in SaveFile /\ p \in f.writers
BY DEF TypeOK, SaveFiles, Created

\* What is appended to is still a save file.
LEMMA AppendedType ==
    ASSUME TypeOK, NEW p \in Proc, NEW f \in Created(p), NEW g, NEW spliced,
           f # None => g \in SaveFile /\ spliced \subseteq SaveFile,
           AppendTo(p, f, g, spliced)
    PROVE  /\ save' \in SaveFile \cup {None} /\ opened' \in [Proc -> SaveFile \cup {None}]
           /\ clash' \in BOOLEAN
<1>1. ASSUME f # None PROVE f \in SaveFile /\ [f EXCEPT !.first = Garbage] \in SaveFile
  BY <1>1, CreatedIs DEF SaveFile, Content
<1>2. Appended(p, f, g, spliced) \subseteq SaveFile \cup {None}
  BY <1>1 DEF Appended
<1>3. PICK h \in Appended(p, f, g, spliced) : Becomes(f, h)
  BY DEF AppendTo
<1>4. clash' \in BOOLEAN
  BY DEF AppendTo, TypeOK
<1> QED BY <1>2, <1>3, <1>4 DEF Becomes, TypeOK

\* A save file that is created is one.
LEMMA EmptySaveType == \A W \in SUBSET Proc : EmptySave(W) \in SaveFile
BY DEF EmptySave, SaveFile

\* The state that is written is one.
LEMMA StateOfType ==
    ASSUME TypeOK, NEW p \in Proc
    PROVE  StateOf(p) \in State /\ WorldOf(p) \in Worlds
<1>1. StateOf(p) \in State
  BY DEF TypeOK, StateOf, State, Memory
<1>2. OnDisk \in [Level -> Content \cup {None}]
  BY DEF TypeOK, OnDisk, DataIn, LevelFile
<1>3. game[p].cur \in Content /\ game[p].here \in Level
  BY DEF TypeOK, Memory, Content
<1>4. [OnDisk EXCEPT ![game[p].here] = game[p].cur] \in [Level -> Content \cup {None}]
  BY <1>2, <1>3
<1>5. \A s \in State, c \in [Level -> Content \cup {None}] : World(s, c) \in Worlds
  BY DEF State, World, Worlds
<1> QED BY <1>1, <1>4, <1>5 DEF WorldOf

\* The process ends: what it had in memory is gone.
LEMMA EndsType ==
    ASSUME TypeOK, NEW p \in Proc, Ends(p)
    PROVE  /\ pc' \in [Proc -> Pc] /\ game' \in [Proc -> Memory] /\ dest' \in [Proc -> Level]
           /\ todo' \in [Proc -> SUBSET Level] /\ opened' \in [Proc -> SaveFile \cup {None}]
BY NoMemoryType DEF TypeOK, Ends, Goto, Memory, Pc

-----------------------------------------------------------------------------
(***************************************************************************)
(* Programs keep apart.                                                    *)
(***************************************************************************)
\* Whoever may take the lock is alone.
LEMMA LockIsFree ==
    ASSUME Answers = {}, TypeOK, Separate, NEW p \in Proc, GetLock(p)
    PROVE  NoGame /\ recover = "idle"
<1>1. ASSUME NEW q \in Proc, Running(q) PROVE FALSE
  <2>1. lock # None /\ lock.pid \in {None, q} /\ ~Ended(q)
    BY <1>1 DEF Separate, OwnsLock, HoldsLock, Running, Ended
  <2>2. PidIn(lock) \in {None, q}
    BY <2>1 DEF PidIn
  <2> QED BY <2>1, <2>2, ValuesAssumption DEF GetLock, VeryOld
<1> QED BY <1>1 DEF GetLock, NoGame, Running

\* While one runs the others do not.
LEMMA OthersRest ==
    ASSUME Separate, NEW p \in Proc, Running(p)
    PROVE  recover = "idle" /\ \A q \in Proc \ {p} : pc[q] \in {"idle", "dead"}
<1>1. recover = "idle"
  BY DEF Separate, Orderly, RunsAlone, NoGame, Running
<1>2. ASSUME NEW q \in Proc \ {p}, Running(q) PROVE FALSE
  BY <1>2 DEF Separate, OwnsLock, HoldsLock
<1> QED BY <1>1, <1>2 DEF Running

\* A level file that is created or written is one.
LEMMA LevelFileType ==
    ASSUME TypeOK, NEW p \in Proc, NEW l \in Level
    PROVE  /\ CreateLevelFile(p, l) => levelfile' \in [Level -> LevelFile \cup {None}]
           /\ Noted(p, l) \in [Proc -> Memory]
           /\ \A d \in Content : WriteLevel(p, l, d)
                                    => /\ levelfile' \in [Level -> LevelFile \cup {None}]
                                       /\ clash' \in BOOLEAN
<1>1. Noted(p, l) \in [Proc -> Memory]
  BY DEF TypeOK, Noted, Memory
<1>2. CreateLevelFile(p, l) => levelfile' \in [Level -> LevelFile \cup {None}]
  <2>1. \A W : Truncated(p, levelfile[l], W) \in LevelFile
    BY WritesType DEF TypeOK
  <2> QED BY <2>1 DEF TypeOK, CreateLevelFile
<1>3. ASSUME NEW d \in Content, WriteLevel(p, l, d)
      PROVE  levelfile' \in [Level -> LevelFile \cup {None}] /\ clash' \in BOOLEAN
  <2>1. levelfile[l] \in LevelFile \cup {None}
    BY DEF TypeOK
  <2>2. /\ \E f \in Writes(p, levelfile[l], d, SplicedLevel(levelfile[l].data, d)) :
               levelfile' = [levelfile EXCEPT ![l] = f]
        /\ clash' \in BOOLEAN
    BY <1>3 DEF WriteLevel, TypeOK
  <2>3. Writes(p, levelfile[l], d, SplicedLevel(levelfile[l].data, d)) \subseteq LevelFile \cup {None}
    BY <2>1, WritesType
  <2> QED BY <2>2, <2>3 DEF TypeOK
<1> QED BY <1>1, <1>2, <1>3

\* So is the lock.
LEMMA LockFileType ==
    ASSUME TypeOK, NEW p \in Proc, NEW d \in State \cup {None, Garbage}, WriteLockFile(p, d)
    PROVE  lock' \in LockFile \cup {None} /\ clash' \in BOOLEAN
<1>1. Writes(p, lock, d, SplicedState(lock.data, d)) \subseteq LockFile \cup {None}
  BY WritesType DEF TypeOK
<1> QED BY <1>1 DEF WriteLockFile, TypeOK

\* The save file that is read is the one in the directory.
LEMMA OpenedIsSave ==
    ASSUME Separate, NEW p \in Proc, pc[p] = "reading" \/ Reads(p)
    PROVE  save # None /\ opened[p] = save /\ save.first # None
BY DEF Separate, Orderly, HasOpened, HasFile

\* What is copied from the save file is the content of a level.
LEMMA FromSaveType ==
    ASSUME TypeOK, NEW p \in Proc, HasFile(p), Reads(p), NEW l \in Level, Finds(p, l)
    PROVE  FromSave(p, l) \in Content
<1>1. opened[p] \in SaveFile /\ opened[p].first # None
  BY DEF TypeOK, HasFile
<1> QED BY <1>1 DEF FromSave, Finds, SaveFile

\* Whatever recover writes, it leaves a save file.
LEMMA RecoverSaveType ==
    ASSUME TypeOK, RecoverHasFiles,
           RecoverStart \/ RecoverLevel \/ RecoverState \/ \E l \in Level : RecoverOther(l)
    PROVE  save' \in SaveFile
<1>1. ASSUME recover # "idle" PROVE save \in SaveFile
  BY <1>1 DEF TypeOK, RecoverHasFiles
<1>2. ASSUME recover \in {"level", "state"}
      PROVE  lock \in LockFile /\ lock.data # None
  BY <1>2 DEF TypeOK, RecoverHasFiles
<1>3. CASE RecoverStart
  <2>1. EmptySave({}) \in SaveFile
    BY EmptySaveType
  <2> QED BY <1>3, <2>1 DEF RecoverStart
<1>4. CASE RecoverLevel
  <2>1. save \in SaveFile
    BY <1>1, <1>4 DEF RecoverLevel
  <2>2. ASSUME NEW l \in Level, levelfile[l] # None
        PROVE  [save EXCEPT !.first = levelfile[l].data] \in SaveFile
    BY <2>1, <2>2 DEF TypeOK, SaveFile, LevelFile
  <2>3. LevelInLock \in Level
    BY <1>2, <1>4, ValuesAssumption DEF RecoverLevel, LevelInLock, LockFile, State, Memory, TypeOK
  <2> QED BY <1>4, <2>1, <2>2, <2>3 DEF RecoverLevel
<1>5. CASE RecoverState
  <2>1. save \in SaveFile /\ lock \in LockFile
    BY <1>1, <1>2, <1>5 DEF RecoverState
  <2>2. [save EXCEPT !.state = lock.data] \in SaveFile
    BY <2>1 DEF SaveFile, LockFile
  <2> QED BY <1>5, <2>2 DEF RecoverState
<1>6. ASSUME NEW l \in Level, RecoverOther(l) PROVE save' \in SaveFile
  <2>1. save \in SaveFile /\ levelfile[l] \in LevelFile
    BY <1>1, <1>6 DEF RecoverOther, TypeOK
  <2>2. [save EXCEPT !.lev[l] = levelfile[l].data] \in SaveFile
    BY <2>1 DEF SaveFile, LevelFile
  <2> QED BY <1>6, <2>2 DEF RecoverOther
<1> QED BY <1>3, <1>4, <1>5, <1>6

\* Every step keeps the types.
LEMMA StepTypeOK ==
    ASSUME TypeOK, Orderly, [Next]_vars
    PROVE  TypeOK'
<1> USE DEF TypeOK, Orderly
<1>1. ASSUME NEW p \in Proc, GetLock(p) PROVE TypeOK'
  <2>1. EmptyLock(p, None) \in LockFile /\ EmptyLock(p, lock) \in LockFile
    BY WritesType
  <2>2. /\ lock' \in LockFile \cup {None}
        /\ levelfile' \in [Level -> LevelFile \cup {None}]
    BY <1>1, <2>1 DEF GetLock
  <2>3. pc' \in [Proc -> Pc] /\ committed' \in Worlds \cup {None}
    BY <1>1 DEF GetLock, Goto, Pc
  <2> QED BY <1>1, <2>2, <2>3 DEF GetLock
<1>33. ASSUME NEW p \in Proc, WritePid(p) PROVE TypeOK'
  <2>1. lock' \in LockFile \cup {None} /\ clash' \in BOOLEAN
    BY <1>33, LockFileType DEF WritePid
  <2> QED BY <1>33, <2>1 DEF WritePid, Goto, Pc
<1>2. ASSUME NEW p \in Proc, RestoreSavedGame(p) PROVE TypeOK'
  <2>1. save' \in SaveFile
    BY <1>2 DEF RestoreSavedGame, SaveFile
  <2>2. pc' \in [Proc -> Pc] /\ opened' \in [Proc -> SaveFile \cup {None}]
    BY <1>2, <2>1 DEF RestoreSavedGame, Goto, Pc
  <2> QED BY <1>2, <2>1, <2>2 DEF RestoreSavedGame, ghosts
<1>3. ASSUME NEW p \in Proc, NewGame(p) PROVE TypeOK'
  <2>1. ASSUME NEW on \in BOOLEAN
        PROVE  [here |-> FirstLevel, inv |-> {}, exists |-> {}, cur |-> {p} \X Item,
                ins_chkpt |-> on, havestate |-> TRUE] \in Memory
    BY <2>1, NoMemoryType DEF Memory, Thing
  <2>2. game' \in [Proc -> Memory]
    BY <1>3, <2>1 DEF NewGame
  <2>3. pc' \in [Proc -> Pc] /\ save' \in SaveFile \cup {None}
    BY <1>3 DEF NewGame, Goto, Pc
  <2> QED BY <1>3, <2>2, <2>3 DEF NewGame, ghosts
<1>4. ASSUME NEW p \in Proc, Pickup(p) PROVE TypeOK'
  <2>1. PICK t \in game[p].cur :
            game' = [game EXCEPT ![p].cur = @ \ {t}, ![p].inv = @ \cup {t}]
    BY <1>4 DEF Pickup
  <2>2. game[p] \in Memory /\ t \in Thing
    BY <2>1 DEF Memory
  <2>3. game' \in [Proc -> Memory]
    BY <2>1, <2>2 DEF Memory
  <2> QED BY <1>4, <2>3 DEF Pickup, files, ghosts
<1>5. ASSUME NEW p \in Proc, Drop(p) PROVE TypeOK'
  <2>1. PICK t \in game[p].inv :
            game' = [game EXCEPT ![p].inv = @ \ {t}, ![p].cur = @ \cup {t}]
    BY <1>5 DEF Drop
  <2>2. game[p] \in Memory /\ t \in Thing
    BY <2>1 DEF Memory
  <2>3. game' \in [Proc -> Memory]
    BY <2>1, <2>2 DEF Memory
  <2> QED BY <1>5, <2>3 DEF Drop, files, ghosts
<1>6. ASSUME NEW p \in Proc, SetCheckpointOption(p) PROVE TypeOK'
  BY <1>6 DEF SetCheckpointOption, files, ghosts, Memory
<1>7. ASSUME NEW p \in Proc, Cleared(p), UNCHANGED <<save, recover, torn, clash>>,
             committed' \in {committed, None}
      PROVE  TypeOK'
  BY <1>7, EndsType DEF Cleared
<1>8. ASSUME NEW p \in Proc, NEW l \in Level, GotoLevel(p, l) PROVE TypeOK'
  <2>1. game[p].here \in Level
    BY DEF Memory
  <2> QED BY <1>8, <2>1, LevelFileType DEF GotoLevel, Goto, Pc, ghosts
<1>9. ASSUME NEW p \in Proc, Leave(p) \/ Rewrite(p) PROVE TypeOK'
  <2>1. game[p].here \in Level /\ game[p].cur \in Content
    BY DEF Memory, Content
  <2> QED BY <1>9, <2>1, LevelFileType DEF Leave, Rewrite, LeftBehind, Goto, Pc, ghosts
<1>10. ASSUME NEW p \in Proc, Enter(p) PROVE TypeOK'
  <2>1. OwnLevel(p, dest[p]) => levelfile[dest[p]].data \in SUBSET Thing
    BY ValuesAssumption DEF OwnLevel, PidIn, LevelFile, Content
  <2>2. ASSUME NEW c \in SUBSET Thing
        PROVE  [game EXCEPT ![p].here = dest[p], ![p].cur = c] \in [Proc -> Memory]
    BY <2>2 DEF Memory
  <2>3. game' \in [Proc -> Memory]
    <3>1. CASE UNCHANGED game
      BY <3>1
    <3>2. CASE game' = [game EXCEPT ![p].here = dest[p], ![p].cur = {}]
      BY <3>2, <2>2
    <3>3. CASE /\ OwnLevel(p, dest[p])
               /\ game' = [game EXCEPT ![p].here = dest[p], ![p].cur = levelfile[dest[p]].data]
      BY <3>3, <2>1, <2>2
    <3> QED BY <1>10, <3>1, <3>2, <3>3 DEF Enter
  <2>4. pc' \in [Proc -> Pc]
    BY <1>10 DEF Enter, Goto, Pc
  <2> QED BY <1>10, <2>3, <2>4 DEF Enter, files, ghosts
<1>11. ASSUME NEW p \in Proc, Checkpoint(p) PROVE TypeOK'
  <2>1. game[p].here \in Level
    BY DEF Memory
  <2>2. pc' \in [Proc -> Pc]
    BY <1>11 DEF Checkpoint, Goto, Pc
  <2>3. game' \in [Proc -> Memory] /\ levelfile' \in [Level -> LevelFile \cup {None}]
    BY <1>11, <2>1, LevelFileType DEF Checkpoint
  <2> QED BY <1>11, <2>2, <2>3 DEF Checkpoint, ghosts
<1>12. ASSUME NEW p \in Proc, SaveStateInLock(p) PROVE TypeOK'
  BY <1>12, WritesType DEF SaveStateInLock, Goto, Pc, ghosts, AfterLock
<1>13. ASSUME NEW p \in Proc, WriteLock(p) PROVE TypeOK'
  <2>1. (IF game[p].ins_chkpt THEN StateOf(p) ELSE None) \in State \cup {None, Garbage}
    BY StateOfType
  <2>2. lock' \in LockFile \cup {None} /\ clash' \in BOOLEAN
    BY <1>13, <2>1, LockFileType DEF WriteLock
  <2>3. game' \in [Proc -> Memory]
    BY <1>13 DEF WriteLock, Memory
  <2>4. Checkpointed(p) \in Worlds \cup {None}
    BY StateOfType DEF Checkpointed
  <2> QED BY <1>13, <2>2, <2>3, <2>4 DEF WriteLock, Goto, Pc, AfterLock
<1>14. ASSUME NEW p \in Proc, DoSave(p) PROVE TypeOK'
  <2>1. Writers(p, save, WritingSave) \in SUBSET Proc
    BY DEF Writers, SaveFile
  <2>2. EmptySave(Writers(p, save, WritingSave)) \in SaveFile
    BY <2>1, EmptySaveType
  <2> QED BY <1>14, <2>2 DEF DoSave, Goto, Pc, ghosts
<1>15. ASSUME NEW p \in Proc, SaveLevel(p) PROVE TypeOK'
  <2>1. PICK f \in Created(p) :
            AppendTo(p, f, [f EXCEPT !.first = game[p].cur],
                     {[f EXCEPT !.first = c] : c \in SplicedLevel(f.first, game[p].cur)})
    BY <1>15 DEF SaveLevel
  <2>2. ASSUME f # None
        PROVE  /\ [f EXCEPT !.first = game[p].cur] \in SaveFile
               /\ {[f EXCEPT !.first = c] : c \in SplicedLevel(f.first, game[p].cur)} \subseteq SaveFile
    <3>1. f \in SaveFile /\ game[p].cur \in SUBSET Thing
      BY <2>2, CreatedIs DEF Memory
    <3>2. SplicedLevel(f.first, game[p].cur) \subseteq SUBSET Thing
      BY <3>1 DEF SplicedLevel, Things, SaveFile, Content
    <3>3. \A c \in SUBSET Thing : [f EXCEPT !.first = c] \in SaveFile
      BY <3>1 DEF SaveFile, Content
    <3> QED BY <3>1, <3>2, <3>3
  <2>3. /\ save' \in SaveFile \cup {None} /\ opened' \in [Proc -> SaveFile \cup {None}]
        /\ clash' \in BOOLEAN
    BY <2>1, <2>2, AppendedType
  <2> QED BY <1>15, <2>3 DEF SaveLevel, Goto, Pc
<1>16. ASSUME NEW p \in Proc, SaveGameState(p) PROVE TypeOK'
  <2>1. PICK f \in Created(p) :
            AppendTo(p, f, [f EXCEPT !.state = StateOf(p)],
                     {[f EXCEPT !.state = s] : s \in SplicedState(f.state, StateOf(p))})
    BY <1>16 DEF SaveGameState
  <2>2. ASSUME f # None
        PROVE  /\ [f EXCEPT !.state = StateOf(p)] \in SaveFile
               /\ {[f EXCEPT !.state = s] : s \in SplicedState(f.state, StateOf(p))} \subseteq SaveFile
    <3>1. f \in SaveFile /\ StateOf(p) \in State
      BY <2>2, CreatedIs, StateOfType
    <3>2. SplicedState(f.state, StateOf(p)) \subseteq State
      BY <3>1, SplicedStateType DEF SaveFile
    <3>3. \A s \in State : [f EXCEPT !.state = s] \in SaveFile
      BY <3>1 DEF SaveFile
    <3> QED BY <3>1, <3>2, <3>3
  <2>3. /\ save' \in SaveFile \cup {None} /\ opened' \in [Proc -> SaveFile \cup {None}]
        /\ clash' \in BOOLEAN
    BY <2>1, <2>2, AppendedType
  <2>4. game[p].exists \subseteq Level
    BY DEF Memory
  <2> QED BY <1>16, <2>3, <2>4, StateOfType DEF SaveGameState, Goto, Pc
<1>17. ASSUME NEW p \in Proc, NEW l \in Level, CopyOut(p, l) PROVE TypeOK'
  <2>1. CASE OwnLevel(p, l)
    <3> DEFINE c == levelfile[l].data
    <3>1. PICK f \in Created(p) :
              AppendTo(p, f, [f EXCEPT !.lev[l] = c],
                       {[f EXCEPT !.lev[l] = x] : x \in SplicedLevel(f.lev[l], c)})
      BY <1>17, <2>1 DEF CopyOut
    <3>2. ASSUME f # None
          PROVE  /\ [f EXCEPT !.lev[l] = c] \in SaveFile
                 /\ {[f EXCEPT !.lev[l] = x] : x \in SplicedLevel(f.lev[l], c)} \subseteq SaveFile
      <4>1. f \in SaveFile /\ c \in Content
        BY <2>1, <3>2, CreatedIs DEF OwnLevel, LevelFile
      <4>2. SplicedLevel(f.lev[l], c) \subseteq Content
        BY <4>1 DEF SplicedLevel, Things, SaveFile, Content
      <4>3. \A x \in Content : [f EXCEPT !.lev[l] = x] \in SaveFile
        BY <4>1 DEF SaveFile
      <4> HIDE DEF c
      <4> QED BY <4>1, <4>2, <4>3
    <3> HIDE DEF c
    <3>3. /\ save' \in SaveFile \cup {None} /\ opened' \in [Proc -> SaveFile \cup {None}]
          /\ clash' \in BOOLEAN
      BY <3>1, <3>2, AppendedType
    <3> QED BY <1>17, <2>1, <3>3 DEF CopyOut, Goto, Pc
  <2>2. CASE ~OwnLevel(p, l)
    BY <1>17, <2>2 DEF CopyOut, Goto, Pc
  <2> QED BY <2>1, <2>2
<1>18. ASSUME NEW p \in Proc, DeleteLevel(p) \/ DeleteHere(p) PROVE TypeOK'
  <2>1. ASSUME NEW l \in Level, DeleteLevelFile(p, l)
        PROVE  /\ levelfile' \in [Level -> LevelFile \cup {None}]
               /\ game' \in [Proc -> Memory]
    BY <2>1 DEF DeleteLevelFile, Memory
  <2>2. game[p].here \in Level
    BY DEF Memory
  <2> QED BY <1>18, <2>1, <2>2 DEF DeleteLevel, DeleteHere, Copied, Goto, Pc, ghosts
<1>19. ASSUME NEW p \in Proc, CloseSave(p) PROVE TypeOK'
  BY <1>19 DEF CloseSave, Goto, Pc, files, ghosts
<1>20. ASSUME NEW p \in Proc, DeleteLock(p) PROVE TypeOK'
  BY <1>20, EndsType DEF DeleteLock, ghosts
<1>21. ASSUME NEW p \in Proc, DoRecover(p) PROVE TypeOK'
  <2>1. opened[p] \in SaveFile /\ opened[p].first # None
    BY <1>21 DEF DoRecover, HasFile
  <2>2. CASE Legible(opened[p])
    <3>1. opened[p].state \in State /\ opened[p].first \in SUBSET Thing /\ InSave(opened[p]) \subseteq Level
      BY <2>1, <2>2 DEF Legible, SaveFile, Content, InSave, State
    <3>2. game' \in [Proc -> Memory]
      <4> DEFINE m == [here |-> opened[p].state.here, inv |-> opened[p].state.inv,
                       exists |-> opened[p].state.exists, cur |-> opened[p].first,
                       ins_chkpt |-> opened[p].state.ins_chkpt, havestate |-> TRUE]
      <4>1. m \in Memory
        BY <3>1 DEF Memory, State
      <4>2. game' = [game EXCEPT ![p] = m]
        BY <1>21, <2>1, <2>2 DEF DoRecover
      <4> QED BY <4>1, <4>2
    <3>3. pc' \in [Proc -> Pc] /\ todo' \in [Proc -> SUBSET Level]
      BY <1>21, <2>1, <2>2, <3>1 DEF DoRecover, Goto, Pc
    <3> QED BY <1>21, <2>1, <2>2, <3>2, <3>3 DEF DoRecover, ghosts
  <2>3. CASE ~Legible(opened[p])
    BY <1>21, <2>1, <2>3, EndsType DEF DoRecover, RestoreFails, ghosts
  <2> QED BY <2>2, <2>3
<1>22. ASSUME NEW p \in Proc, NEW l \in Level, CopyIn(p, l) PROVE TypeOK'
  <2>1. CASE FromSave(p, l) # Garbage
    <3>1. pc' \in [Proc -> Pc] /\ dest' \in [Proc -> Level]
      BY <1>22, <2>1 DEF CopyIn, Goto, Pc
    <3>2. game' \in [Proc -> Memory] /\ levelfile' \in [Level -> LevelFile \cup {None}]
      BY <1>22, <2>1, LevelFileType DEF CopyIn
    <3> QED BY <1>22, <2>1, <3>1, <3>2 DEF CopyIn, ghosts
  <2>2. CASE FromSave(p, l) = Garbage
    BY <1>22, <2>2, EndsType DEF CopyIn, RestoreFails, ghosts
  <2> QED BY <2>1, <2>2
<1>23. ASSUME NEW p \in Proc, CopyWrite(p) PROVE TypeOK'
  <2>1. FromSave(p, dest[p]) \in Content
    BY <1>23, FromSaveType DEF CopyWrite, HasFile, Reads
  <2> QED BY <1>23, <2>1, LevelFileType DEF CopyWrite, Copied, Goto, Pc, ghosts
<1>24. ASSUME NEW p \in Proc, Recovered(p) PROVE TypeOK'
  <2>1. Checkpointed(p) \in Worlds \cup {None}
    BY StateOfType DEF Checkpointed
  <2> QED BY <1>24, <2>1 DEF Recovered, Goto, Pc
<1>25. ASSUME NEW p \in Proc, Crash(p) PROVE TypeOK'
  BY <1>25, EndsType DEF Crash, files
<1>26. CASE RecoverStart
  BY <1>26, RecoverSaveType DEF RecoverStart, ghosts
<1>27. CASE RecoverLevel
  BY <1>27, RecoverSaveType DEF RecoverLevel, ghosts
<1>28. CASE RecoverState
  BY <1>28, RecoverSaveType DEF RecoverState, ghosts
<1>29. ASSUME NEW l \in Level, RecoverOther(l) PROVE TypeOK'
  BY <1>29, RecoverSaveType DEF RecoverOther, ghosts
<1>30. CASE RecoverDone
  BY <1>30 DEF RecoverDone, files, ghosts
<1>31. CASE RecoverCrash
  BY <1>31 DEF RecoverCrash, files
<1>32. CASE UNCHANGED vars
  BY <1>32 DEF vars
<1> QED
  BY <1>1, <1>2, <1>3, <1>4, <1>5, <1>6, <1>7, <1>8, <1>9, <1>10, <1>11, <1>12, <1>13, <1>14,
     <1>15, <1>16, <1>17, <1>18, <1>19, <1>20, <1>21, <1>22, <1>23, <1>24, <1>25, <1>26, <1>27,
     <1>28, <1>29, <1>30, <1>31, <1>32, <1>33
     DEF Next, Plays, Proceeds, RecoverProceeds, Done, Tricked, ghosts

-----------------------------------------------------------------------------
(***************************************************************************)
(* Files in order, whatever the player answers.                            *)
(***************************************************************************)
\* recover still runs alone, and has its files.
LEMMA StepAlone ==
    ASSUME TypeOK, Orderly, [Next]_vars
    PROVE  RunsAlone' /\ RecoverHasFiles'
<1> USE DEF Goto
<1>1. ASSUME NEW p \in Proc, GetLock(p) \/ Plays(p) \/ Proceeds(p)
      PROVE  recover = "idle" /\ recover' = "idle"
  <2>1. Running(p) => recover = "idle"
    BY DEF Orderly, RunsAlone, NoGame, Running
  <2>2. CASE GetLock(p)
    BY <2>2 DEF GetLock
  <2>3. CASE Plays(p)
    BY <2>1, <2>3 DEF Plays, Pickup, Drop, SetCheckpointOption, Done, DoSave, GotoLevel, Running
  <2>4. CASE Proceeds(p)
    BY <2>1, <2>4 DEF Proceeds, WritePid, RestoreSavedGame, NewGame, Tricked, Leave, Enter, Checkpoint,
       Rewrite, SaveStateInLock, WriteLock, SaveLevel, SaveGameState, CopyOut, DeleteLevel,
       CloseSave, DeleteHere, DeleteLock, DoRecover, CopyIn, CopyWrite, Recovered, Running
  <2> QED BY <1>1, <2>2, <2>3, <2>4
<1>2. ASSUME NEW p \in Proc, Crash(p) PROVE RunsAlone' /\ RecoverHasFiles'
  BY <1>2 DEF Crash, Ends, TypeOK, Orderly, RunsAlone, NoGame, RecoverHasFiles, files
<1>3. ASSUME pc' = pc, NoGame, RecoverHasFiles' PROVE RunsAlone' /\ RecoverHasFiles'
  BY <1>3 DEF RunsAlone, NoGame
<1>4. CASE RecoverStart
  <2>1. save' # None
    BY <1>4, RecoverSaveType, ValuesAssumption DEF Orderly
  <2>2. RecoverHasFiles' /\ pc' = pc /\ NoGame
    BY <1>4, <2>1 DEF RecoverStart, RecoverHasFiles
  <2> QED BY <1>3, <2>2
<1>5. CASE RecoverLevel
  <2>1. lock # None /\ lock.data # None /\ NoGame
    BY <1>5 DEF RecoverLevel, Orderly, RecoverHasFiles, RunsAlone
  <2>2. save' # None
    BY <1>5, RecoverSaveType, ValuesAssumption DEF Orderly
  <2> QED BY <1>3, <1>5, <2>1, <2>2 DEF RecoverLevel, RecoverHasFiles
<1>6. CASE RecoverState \/ \E l \in Level : RecoverOther(l)
  <2>1. NoGame
    BY <1>6 DEF RecoverState, RecoverOther, Orderly, RunsAlone
  <2>2. save' # None
    BY <1>6, RecoverSaveType, ValuesAssumption DEF Orderly
  <2>3. recover' = "others" /\ pc' = pc
    BY <1>6 DEF RecoverState, RecoverOther
  <2>4. RecoverHasFiles'
    BY <2>2, <2>3 DEF RecoverHasFiles
  <2> QED BY <1>3, <2>1, <2>3, <2>4
<1>7. CASE RecoverDone \/ RecoverCrash
  BY <1>3, <1>7 DEF RecoverDone, RecoverCrash, Orderly, RunsAlone, RecoverHasFiles
<1>8. CASE UNCHANGED vars
  BY <1>8 DEF vars, Orderly, RunsAlone, NoGame, RecoverHasFiles
<1>9. ASSUME recover' = "idle" PROVE RunsAlone' /\ RecoverHasFiles'
  BY <1>9 DEF RunsAlone, RecoverHasFiles
<1> QED BY <1>1, <1>2, <1>4, <1>5, <1>6, <1>7, <1>8, <1>9 DEF Next, RecoverProceeds

\* g is what became of the file f by appending.
More(f, g) ==
    f = g \/ /\ f # None /\ g # None
             /\ (f.first # None => g.first # None)
             /\ \A l \in Level : f.lev[l] # None => g.lev[l] # None

\* Whoever makes no step has its file, as long as it is only appended to.
LEMMA StillHasFile ==
    ASSUME TypeOK, Orderly, NEW q \in Proc, pc'[q] = pc[q], todo'[q] = todo[q],
           game'[q].here = game[q].here, dest'[q] = dest[q], More(opened[q], opened'[q])
    PROVE  HasFile(q)'
<1>1. HasFile(q) /\ Reads(q)' = Reads(q) /\ (pc[q] = "copywrite" => Reads(q))
  BY DEF Orderly, Reads, Restoring
<1>2. opened'[q] # None => opened[q] # None
  BY DEF More
<1>3. opened[q] # None /\ opened[q].first # None => opened'[q] # None /\ opened'[q].first # None
  BY DEF More
<1>4. ASSUME NEW l \in Level, Finds(q, l), opened[q] # None PROVE Finds(q, l)'
  BY <1>4 DEF More, Finds
<1> QED BY <1>1, <1>2, <1>3, <1>4 DEF HasFile, TypeOK

\* No save file is written by q that was not.
KeepsSaves(q) == (\E g \in SaveFiles' : q \in g.writers) => \E f \in SaveFiles : q \in f.writers

LEMMA StillHasSaved ==
    ASSUME Orderly, NEW q \in Proc, KeepsSaves(q),
           \/ pc'[q] = pc[q]
           \/ pc'[q] \in {"savelevel", "savestate", "tricked", "dead"} \cup SavingPcs
           \/ pc[q] \notin {"savelevel", "savestate", "tricked", "dead"} \cup SavingPcs
    PROVE  HasSaved(q)'
BY DEF Orderly, HasSaved, KeepsSaves

\* When no save file is written to, those there are were there before.
LEMMA SavesKept ==
    ASSUME TypeOK, save' = save \/ save' = None,
           \A q \in Proc : opened'[q] = opened[q] \/ opened'[q] = None
    PROVE  \A q \in Proc : KeepsSaves(q)
<1>1. SaveFiles' \subseteq SaveFiles
  BY DEF SaveFiles
<1> QED BY <1>1 DEF KeepsSaves

\* What appending does to the files there are: g and those of spliced are what it
\* may make of f.
LEMMA AppendKeeps ==
    ASSUME TypeOK, NEW p \in Proc, NEW f \in Created(p), NEW g, NEW spliced,
           f # None => \A h \in {g} \cup spliced : More(f, h) /\ h.writers = f.writers,
           AppendTo(p, f, g, spliced)
    PROVE  \A q \in Proc : More(opened[q], opened'[q]) /\ KeepsSaves(q)
<1>1. PICK h \in Appended(p, f, g, spliced) : Becomes(f, h)
  BY DEF AppendTo
<1>2. f # None => f \in SaveFile /\ f \in SaveFiles
  BY CreatedIs
<1>3. ASSUME f # None, h = [f EXCEPT !.first = Garbage]
      PROVE  More(f, h) /\ h.writers = f.writers
  <2>1. h \in SaveFile /\ h.first = Garbage /\ h.lev = f.lev /\ h.writers = f.writers
    BY <1>2, <1>3 DEF SaveFile, Content
  <2> QED BY <1>3, <2>1, ValuesAssumption DEF More
<1>4. ASSUME f # None PROVE More(f, h) /\ h.writers = f.writers
  <2>1. h \in {f, [f EXCEPT !.first = Garbage]} \cup ({g} \cup spliced)
    BY <1>1, <1>4 DEF Appended
  <2>2. CASE h = f
    BY <2>2 DEF More
  <2>3. CASE h = [f EXCEPT !.first = Garbage]
    BY <1>3, <1>4, <2>3
  <2> QED BY <1>4, <2>1, <2>2, <2>3
<1>5. f = None => h = None
  BY <1>1 DEF Appended
<1>6. /\ save' = IF save = f THEN h ELSE save
      /\ \A q \in Proc : opened'[q] = IF opened[q] = f THEN h ELSE opened[q]
  BY <1>1 DEF Becomes
<1>7. \A q \in Proc : More(opened[q], opened'[q])
  BY <1>4, <1>5, <1>6 DEF More
<1>8. ASSUME NEW x \in SaveFiles' PROVE x \in SaveFiles \/ (f # None /\ x = h)
  BY <1>5, <1>6, <1>8 DEF SaveFiles
<1>9. \A q \in Proc : KeepsSaves(q)
  BY <1>2, <1>4, <1>8 DEF KeepsSaves
<1> QED BY <1>7, <1>9

\* Every step keeps the files in order.
LEMMA StepOrderly ==
    ASSUME TypeOK, Orderly, [Next]_vars
    PROVE  Orderly'
<1> USE DEF Goto
<1> DEFINE Kept2(q) == HasFile(q)' /\ HasSaved(q)'
           Same(q) == /\ pc'[q] = pc[q] /\ todo'[q] = todo[q] /\ game'[q] = game[q]
                      /\ dest'[q] = dest[q]
<1>1. ASSUME NEW q \in Proc, Same(q), More(opened[q], opened'[q]), KeepsSaves(q)
      PROVE  Kept2(q)
  BY <1>1, StillHasFile, StillHasSaved
<1>2. ASSUME NEW p \in Proc, \A q \in Proc \ {p} : Same(q) /\ opened'[q] = opened[q],
             save' = save \/ save' = None, opened'[p] = opened[p] \/ opened'[p] = None,
             HasFile(p)',
             \/ pc'[p] = pc[p]
             \/ pc'[p] \in {"savelevel", "savestate", "tricked", "dead"} \cup SavingPcs
             \/ pc[p] \notin {"savelevel", "savestate", "tricked", "dead"} \cup SavingPcs
      PROVE  \A q \in Proc : Kept2(q)
  <2>1. \A q \in Proc : KeepsSaves(q)
    BY <1>2, SavesKept
  <2>2. \A q \in Proc \ {p} : More(opened[q], opened'[q])
    BY <1>2 DEF More
  <2>3. HasSaved(p)'
    BY <1>2, <2>1, StillHasSaved
  <2> QED BY <1>1, <1>2, <2>1, <2>2, <2>3
<1>3. ASSUME NEW p \in Proc, Ends(p), save' = save \/ save' = None
      PROVE  \A q \in Proc : Kept2(q)
  <2>1. /\ \A q \in Proc \ {p} : Same(q) /\ opened'[q] = opened[q]
        /\ opened'[p] = None /\ pc'[p] = "dead"
    BY <1>3 DEF Ends, TypeOK
  <2>2. HasFile(p)'
    BY <2>1 DEF HasFile, Reads, NothingToCopy
  <2> QED BY <1>2, <1>3, <2>1, <2>2
<1>4. ASSUME NEW p \in Proc,
             \/ GetLock(p) \/ WritePid(p) \/ NewGame(p) \/ Pickup(p) \/ Drop(p)
             \/ SetCheckpointOption(p) \/ Leave(p) \/ Enter(p) \/ Checkpoint(p) \/ Rewrite(p)
             \/ \E l \in Level : GotoLevel(p, l)
      PROVE  \A q \in Proc : Kept2(q)
  <2>1. pc[p] \in NothingToCopy \ {"reading"} /\ todo' = todo /\ opened' = opened
    BY <1>4 DEF GetLock, WritePid, NewGame, Pickup, Drop, SetCheckpointOption, Leave, Enter, Checkpoint,
                Rewrite, GotoLevel, NothingToCopy
  <2>2. todo[p] = {} /\ opened[p] = None
    BY <2>1 DEF Orderly, HasFile, Reads, Restoring, NothingToCopy
  <2>3. /\ pc'[p] \in (NothingToCopy \ {"reading"}) \cup {"lock", "tricked"}
        /\ save' = save \/ save' = None
    BY <1>4, <2>1 DEF GetLock, WritePid, NewGame, Pickup, Drop, SetCheckpointOption, Leave, Enter,
                      Checkpoint, Rewrite, GotoLevel, TypeOK, NothingToCopy, files
  <2>4. HasFile(p)'
    BY <2>1, <2>2, <2>3 DEF HasFile, Reads, Restoring, NothingToCopy
  <2>5. \A q \in Proc \ {p} : pc'[q] = pc[q] /\ game'[q] = game[q] /\ dest'[q] = dest[q]
    BY <1>4 DEF GetLock, WritePid, NewGame, Pickup, Drop, SetCheckpointOption, Leave, Enter, Checkpoint,
                Rewrite, GotoLevel, TypeOK, Noted
  <2>6. pc[p] \notin {"savelevel", "savestate", "tricked", "dead"} \cup SavingPcs
    BY <2>1 DEF NothingToCopy, SavingPcs
  <2> QED BY <1>2, <2>1, <2>3, <2>4, <2>5, <2>6
<1>5. ASSUME NEW p \in Proc, RestoreSavedGame(p) PROVE \A q \in Proc : Kept2(q)
  <2>1. /\ pc[p] = "begin" /\ pc'[p] = "reading" /\ todo[p] = {} /\ todo' = todo
        /\ \A q \in Proc \ {p} : Same(q) /\ opened'[q] = opened[q]
    BY <1>5 DEF RestoreSavedGame, Orderly, HasFile, NothingToCopy, TypeOK
  <2>2. /\ save \in SaveFile /\ save # None /\ save' = [save EXCEPT !.readable = FALSE]
        /\ opened'[p] = save' /\ save.first # None
    BY <1>5 DEF RestoreSavedGame, UpToDate, TypeOK
  <2>3. /\ save' \in SaveFile /\ save'.first = save.first /\ save'.writers = save.writers
    BY <2>2 DEF SaveFile
  <2>4. save' # None
    BY <2>3, ValuesAssumption
  <2>5. HasFile(p)'
    BY <2>1, <2>2, <2>3, <2>4 DEF HasFile, Reads, NothingToCopy
  <2>6. \A q \in Proc : KeepsSaves(q)
    <3>1. ASSUME NEW x \in SaveFiles' PROVE x = save' \/ x \in SaveFiles
      BY <2>1, <2>2 DEF SaveFiles
    <3>2. save \in SaveFiles
      BY <2>2 DEF SaveFiles
    <3> QED BY <2>3, <3>1, <3>2 DEF KeepsSaves
  <2>7. \A q \in Proc \ {p} : More(opened[q], opened'[q])
    BY <2>1 DEF More
  <2>8. HasSaved(p)'
    BY <2>1, <2>6, StillHasSaved DEF SavingPcs
  <2> QED BY <1>1, <2>1, <2>5, <2>6, <2>7, <2>8
<1>6. ASSUME NEW p \in Proc, DoSave(p) PROVE \A q \in Proc : Kept2(q)
  <2>1. /\ pc[p] = "play" /\ todo[p] = {} /\ opened[p] = None
        /\ todo' = todo /\ opened' = opened /\ dest' = dest /\ game' = game
        /\ \A q \in Proc \ {p} : Same(q)
    BY <1>6 DEF DoSave, Orderly, HasFile, Reads, NothingToCopy, TypeOK
  <2>2. pc'[p] \in {"play", "savelevel"}
    BY <1>6, <2>1 DEF DoSave, TypeOK
  <2>3. HasFile(p)'
    BY <2>1, <2>2 DEF HasFile, Reads, NothingToCopy
  <2>4. CASE save' = None
    BY <1>2, <2>1, <2>3, <2>4 DEF SavingPcs
  <2>5. CASE save' = EmptySave(Writers(p, save, WritingSave)) /\ pc'[p] = "savelevel"
    <3>1. ASSUME NEW x \in SaveFiles' PROVE x = save' \/ x \in SaveFiles
      BY <2>1 DEF SaveFiles
    <3>2. ASSUME NEW q \in Proc \ {p}, q \in save'.writers PROVE save \in SaveFiles /\ q \in save.writers
      BY <2>5, <3>2 DEF EmptySave, Writers, SaveFiles
    <3>3. HasSaved(p)'
      BY <2>5 DEF HasSaved
    <3>4. \A q \in Proc \ {p} : KeepsSaves(q)
      BY <3>1, <3>2 DEF KeepsSaves
    <3>5. \A q \in Proc \ {p} : More(opened[q], opened'[q])
      BY <2>1 DEF More
    <3> QED BY <1>1, <2>1, <2>3, <3>3, <3>4, <3>5
  <2> QED BY <1>6, <2>4, <2>5 DEF DoSave, TypeOK
<1>7. ASSUME NEW p \in Proc, SaveStateInLock(p) \/ WriteLock(p) PROVE \A q \in Proc : Kept2(q)
  <2>1. /\ pc[p] \in {"lock", "writelock"} /\ todo' = todo /\ opened' = opened /\ dest' = dest
        /\ save' = save
        /\ \A q \in Proc \ {p} : pc'[q] = pc[q] /\ game'[q] = game[q]
        /\ game'[p].here = game[p].here
    BY <1>7 DEF SaveStateInLock, WriteLock, TypeOK, Memory
  <2>2. \/ pc'[p] \in {"tricked", "writelock"}
        \/ pc'[p] = "copyin" /\ todo[p] # {}
        \/ pc'[p] = "play" /\ todo[p] = {}
    BY <1>7 DEF SaveStateInLock, WriteLock, TypeOK, AfterLock, Restoring
  <2>3. HasFile(p) /\ (Reads(p)' => Reads(p))
    BY <2>1, <2>2 DEF Orderly, Reads, Restoring
  <2>4. HasFile(p)'
    BY <2>1, <2>2, <2>3 DEF HasFile, Finds, Reads, Restoring, NothingToCopy
  <2> QED BY <1>2, <2>1, <2>2, <2>4 DEF SavingPcs
<1>8. ASSUME NEW p \in Proc, DeleteLevel(p) \/ CloseSave(p) \/ DeleteHere(p)
      PROVE  \A q \in Proc : Kept2(q)
  <2>1. /\ pc[p] \in SavingPcs /\ pc'[p] \in SavingPcs /\ opened' = opened /\ save' = save
        /\ \A q \in Proc \ {p} : Same(q)
    BY <1>8 DEF DeleteLevel, CloseSave, DeleteHere, DeleteLevelFile, Copied, SavingPcs, TypeOK, files
  <2>2. HasFile(p)'
    BY <2>1 DEF HasFile, Reads, NothingToCopy, SavingPcs, Orderly
  <2> QED BY <1>2, <2>1, <2>2
<1>9. ASSUME NEW p \in Proc, SaveLevel(p) PROVE \A q \in Proc : Kept2(q)
  <2>1. PICK f \in Created(p) :
            AppendTo(p, f, [f EXCEPT !.first = game[p].cur],
                     {[f EXCEPT !.first = c] : c \in SplicedLevel(f.first, game[p].cur)})
    BY <1>9 DEF SaveLevel
  <2>2. /\ pc[p] = "savelevel" /\ pc'[p] = "savestate"
        /\ \A q \in Proc \ {p} : Same(q)
    BY <1>9 DEF SaveLevel, TypeOK
  <2>3. ASSUME f # None, NEW c \in SUBSET Thing
        PROVE  More(f, [f EXCEPT !.first = c]) /\ [f EXCEPT !.first = c].writers = f.writers
    <3>1. f \in SaveFile /\ c # None
      BY <2>3, CreatedIs, ValuesAssumption
    <3>2. /\ [f EXCEPT !.first = c] \in SaveFile /\ [f EXCEPT !.first = c].first = c
          /\ [f EXCEPT !.first = c].lev = f.lev /\ [f EXCEPT !.first = c].writers = f.writers
      BY <3>1 DEF SaveFile, Content
    <3> QED BY <2>3, <3>1, <3>2, ValuesAssumption DEF More
  <2>4. f # None => SplicedLevel(f.first, game[p].cur) \subseteq SUBSET Thing /\ game[p].cur \in SUBSET Thing
    BY CreatedIs DEF SplicedLevel, Things, SaveFile, Content, TypeOK, Memory
  <2>5. \A q \in Proc : More(opened[q], opened'[q]) /\ KeepsSaves(q)
    <3> DEFINE g == [f EXCEPT !.first = game[p].cur]
               S == {[f EXCEPT !.first = c] : c \in SplicedLevel(f.first, game[p].cur)}
    <3>1. ASSUME f # None, NEW h \in {g} \cup S PROVE More(f, h) /\ h.writers = f.writers
      <4>1. CASE h = g
        BY <2>3, <2>4, <3>1, <4>1
      <4>2. CASE h \in S
        <5>1. PICK c \in SplicedLevel(f.first, game[p].cur) : h = [f EXCEPT !.first = c]
          BY <4>2
        <5> QED BY <2>3, <2>4, <3>1, <5>1
      <4> QED BY <3>1, <4>1, <4>2
    <3>2. AppendTo(p, f, g, S)
      BY <2>1
    <3> HIDE DEF g, S
    <3> QED BY <3>1, <3>2, AppendKeeps
  <2>6. HasFile(p)' /\ HasSaved(p)'
    <3>1. opened[p] = None
      BY <2>2 DEF Orderly, HasFile, Reads
    <3>2. opened'[p] = None
      BY <2>5, <3>1 DEF More
    <3> QED BY <2>2, <2>5, <3>2, StillHasSaved DEF HasFile, Reads, NothingToCopy
  <2> QED BY <1>1, <2>2, <2>5, <2>6
<1>10. ASSUME NEW p \in Proc, SaveGameState(p) PROVE \A q \in Proc : Kept2(q)
  <2>1. PICK f \in Created(p) :
            AppendTo(p, f, [f EXCEPT !.state = StateOf(p)],
                     {[f EXCEPT !.state = s] : s \in SplicedState(f.state, StateOf(p))})
    BY <1>10 DEF SaveGameState
  <2>2. /\ pc[p] = "savestate" /\ pc'[p] = "copyout"
        /\ \A q \in Proc \ {p} : Same(q)
    BY <1>10 DEF SaveGameState, TypeOK
  <2>3. ASSUME f # None, NEW s \in State
        PROVE  More(f, [f EXCEPT !.state = s]) /\ [f EXCEPT !.state = s].writers = f.writers
    <3>1. f \in SaveFile
      BY <2>3, CreatedIs
    <3>2. /\ [f EXCEPT !.state = s] \in SaveFile /\ [f EXCEPT !.state = s].first = f.first
          /\ [f EXCEPT !.state = s].lev = f.lev /\ [f EXCEPT !.state = s].writers = f.writers
      BY <3>1 DEF SaveFile
    <3> QED BY <2>3, <3>1, <3>2, ValuesAssumption DEF More
  <2>4. f # None => SplicedState(f.state, StateOf(p)) \subseteq State /\ StateOf(p) \in State
    BY CreatedIs, SplicedStateType, StateOfType DEF SaveFile
  <2>5. \A q \in Proc : More(opened[q], opened'[q]) /\ KeepsSaves(q)
    <3> DEFINE g == [f EXCEPT !.state = StateOf(p)]
               S == {[f EXCEPT !.state = s] : s \in SplicedState(f.state, StateOf(p))}
    <3>1. ASSUME f # None, NEW h \in {g} \cup S PROVE More(f, h) /\ h.writers = f.writers
      <4>1. CASE h = g
        BY <2>3, <2>4, <3>1, <4>1
      <4>2. CASE h \in S
        <5>1. PICK s \in SplicedState(f.state, StateOf(p)) : h = [f EXCEPT !.state = s]
          BY <4>2
        <5> QED BY <2>3, <2>4, <3>1, <5>1
      <4> QED BY <3>1, <4>1, <4>2
    <3>2. AppendTo(p, f, g, S)
      BY <2>1
    <3> HIDE DEF g, S
    <3> QED BY <3>1, <3>2, AppendKeeps
  <2>6. HasFile(p)' /\ HasSaved(p)'
    <3>1. opened[p] = None
      BY <2>2 DEF Orderly, HasFile, Reads
    <3>2. opened'[p] = None
      BY <2>5, <3>1 DEF More
    <3> QED BY <2>2, <2>5, <3>2, StillHasSaved DEF HasFile, Reads, NothingToCopy, SavingPcs
  <2> QED BY <1>1, <2>2, <2>5, <2>6
<1>11. ASSUME NEW p \in Proc, NEW l \in Level, CopyOut(p, l) PROVE \A q \in Proc : Kept2(q)
  <2>1. /\ pc[p] = "copyout" /\ pc'[p] \in {"deletelevel", "tricked"} /\ opened[p] = None
        /\ \A q \in Proc \ {p} : Same(q)
    BY <1>11 DEF CopyOut, TypeOK, Orderly, HasFile, Reads
  <2>2. CASE ~OwnLevel(p, l)
    <3>1. opened' = opened /\ (save' = save \/ save' = None)
      BY <1>11, <2>2 DEF CopyOut
    <3>2. HasFile(p)'
      BY <2>1, <3>1 DEF HasFile, Reads, NothingToCopy
    <3> QED BY <1>2, <2>1, <3>1, <3>2 DEF SavingPcs
  <2>3. CASE OwnLevel(p, l)
    <3> DEFINE c == levelfile[l].data
    <3>1. PICK f \in Created(p) :
              AppendTo(p, f, [f EXCEPT !.lev[l] = c],
                       {[f EXCEPT !.lev[l] = x] : x \in SplicedLevel(f.lev[l], c)})
      BY <1>11, <2>3 DEF CopyOut
    <3>2. ASSUME f # None, NEW x \in Content
          PROVE  More(f, [f EXCEPT !.lev[l] = x]) /\ [f EXCEPT !.lev[l] = x].writers = f.writers
      <4>1. f \in SaveFile /\ x # None
        BY <3>2, CreatedIs, ValuesAssumption DEF Content
      <4>2. /\ [f EXCEPT !.lev[l] = x] \in SaveFile /\ [f EXCEPT !.lev[l] = x].first = f.first
            /\ [f EXCEPT !.lev[l] = x].lev = [f.lev EXCEPT ![l] = x]
            /\ [f EXCEPT !.lev[l] = x].writers = f.writers
        BY <4>1 DEF SaveFile
      <4>3. \A k \in Level : f.lev[k] # None => [f.lev EXCEPT ![l] = x][k] # None
        BY <4>1 DEF SaveFile
      <4> QED BY <3>2, <4>2, <4>3, ValuesAssumption DEF More
    <3>3. f # None => SplicedLevel(f.lev[l], c) \subseteq Content /\ c \in Content
      BY <2>3, CreatedIs DEF SplicedLevel, Things, SaveFile, Content, OwnLevel, TypeOK, LevelFile
    <3>4. \A q \in Proc : More(opened[q], opened'[q]) /\ KeepsSaves(q)
      <4> HIDE DEF c
      <4> DEFINE g == [f EXCEPT !.lev[l] = c]
                 S == {[f EXCEPT !.lev[l] = x] : x \in SplicedLevel(f.lev[l], c)}
      <4>1. ASSUME f # None, NEW h \in {g} \cup S PROVE More(f, h) /\ h.writers = f.writers
        <5>1. CASE h = g
          BY <3>2, <3>3, <4>1, <5>1
        <5>2. CASE h \in S
          <6>1. PICK x \in SplicedLevel(f.lev[l], c) : h = [f EXCEPT !.lev[l] = x]
            BY <5>2
          <6> QED BY <3>2, <3>3, <4>1, <6>1
        <5> QED BY <4>1, <5>1, <5>2
      <4>2. AppendTo(p, f, g, S)
        BY <3>1
      <4> HIDE DEF g, S
      <4> QED BY <4>1, <4>2, AppendKeeps
    <3>5. pc'[p] = "deletelevel"
      BY <1>11, <2>3 DEF CopyOut, TypeOK
    <3>6. HasFile(p)' /\ HasSaved(p)'
      <4>1. opened'[p] = None
        BY <2>1, <3>4 DEF More
      <4> QED BY <3>4, <3>5, <4>1, StillHasSaved DEF HasFile, Reads, NothingToCopy, SavingPcs
    <3> QED BY <1>1, <2>1, <3>4, <3>6
  <2> QED BY <2>2, <2>3
<1>12. ASSUME NEW p \in Proc, DoRecover(p) PROVE \A q \in Proc : Kept2(q)
  <2>1. /\ pc[p] = "reading" /\ opened[p] # None /\ opened[p].first # None
        /\ opened[p] \in SaveFile
    BY <1>12 DEF DoRecover, Orderly, HasFile, TypeOK
  <2>2. CASE Legible(opened[p])
    <3>1. /\ pc'[p] = "lock" /\ todo'[p] = InSave(opened[p]) /\ opened' = opened /\ save' = save
          /\ game'[p].here = opened[p].state.here
          /\ \A q \in Proc \ {p} : Same(q)
      BY <1>12, <2>2 DEF DoRecover, TypeOK
    <3>2. HasFile(p)'
      BY <2>1, <2>2, <3>1 DEF HasFile, Finds, Reads, Restoring, Legible, InSave, NothingToCopy
    <3> QED BY <1>2, <2>1, <3>1, <3>2 DEF SavingPcs
  <2>3. CASE ~Legible(opened[p])
    BY <1>3, <1>12, <2>3 DEF DoRecover, RestoreFails
  <2> QED BY <2>2, <2>3
<1>13. ASSUME NEW p \in Proc, NEW l \in Level, CopyIn(p, l) PROVE \A q \in Proc : Kept2(q)
  <2>1. pc[p] = "copyin" /\ Reads(p) /\ HasFile(p) /\ l \in todo[p]
    BY <1>13 DEF CopyIn, Reads, Orderly
  <2>2. CASE FromSave(p, l) # Garbage
    <3>1. /\ pc'[p] = "copywrite" /\ dest'[p] = l /\ todo' = todo /\ save' = save
          /\ opened' = opened /\ game'[p].here = game[p].here
          /\ \A q \in Proc \ {p} : Same(q)
      BY <1>13, <2>2 DEF CopyIn, TypeOK, Noted, Memory
    <3>2. HasFile(p)'
      BY <2>1, <3>1 DEF HasFile, Finds, Reads, NothingToCopy
    <3> QED BY <1>2, <2>1, <3>1, <3>2 DEF SavingPcs
  <2>3. CASE FromSave(p, l) = Garbage
    BY <1>3, <1>13, <2>3 DEF CopyIn, RestoreFails
  <2> QED BY <2>2, <2>3
<1>14. ASSUME NEW p \in Proc, CopyWrite(p) PROVE \A q \in Proc : Kept2(q)
  <2>1. /\ pc[p] = "copywrite" /\ Reads(p) /\ HasFile(p)
        /\ pc'[p] = "copyin" /\ todo'[p] \subseteq todo[p] /\ save' = save
        /\ opened' = opened /\ game' = game
        /\ \A q \in Proc \ {p} : Same(q)
    BY <1>14 DEF CopyWrite, Copied, TypeOK, Reads, Orderly
  <2>2. HasFile(p)'
    BY <2>1 DEF HasFile, Finds, Reads, NothingToCopy
  <2> QED BY <1>2, <2>1, <2>2 DEF SavingPcs
<1>15. ASSUME NEW p \in Proc, Recovered(p) PROVE \A q \in Proc : Kept2(q)
  <2>1. /\ pc[p] = "copyin" /\ pc'[p] = "play" /\ todo'[p] = {} /\ save' = None
        /\ opened'[p] = None /\ \A q \in Proc \ {p} : Same(q) /\ opened'[q] = opened[q]
    BY <1>15 DEF Recovered, TypeOK
  <2>2. HasFile(p)'
    BY <2>1 DEF HasFile, Reads, NothingToCopy
  <2> QED BY <1>2, <2>1, <2>2 DEF SavingPcs
<1>16. ASSUME NEW p \in Proc, Done(p) \/ Tricked(p) \/ DeleteLock(p) \/ Crash(p)
       PROVE  \A q \in Proc : Kept2(q)
  BY <1>3, <1>16 DEF Done, Tricked, Cleared, DeleteLock, Crash, files
<1>17. ASSUME pc' = pc, todo' = todo, game' = game, dest' = dest, opened' = opened,
              save' = save \/ (NoGame /\ \A p \in Proc : p \in save'.writers => save # None /\ p \in save.writers)
       PROVE  \A q \in Proc : Kept2(q)
  <2>1. ASSUME NEW q \in Proc PROVE HasFile(q)'
    BY <1>17, StillHasFile DEF More
  <2>2. CASE save' = save
    BY <1>17, <2>1, <2>2, SavesKept, StillHasSaved
  <2>3. CASE save' # save
    <3>1. ASSUME NEW x \in SaveFiles' PROVE x = save' \/ x \in SaveFiles
      BY <1>17 DEF SaveFiles
    <3>2. ASSUME NEW q \in Proc, NEW x \in SaveFiles', q \in x.writers
          PROVE  pc[q] = "dead"
      <4>1. PICK f \in SaveFiles : q \in f.writers
        BY <1>17, <2>3, <3>1, <3>2 DEF SaveFiles
      <4>2. pc[q] \in {"savelevel", "savestate", "tricked", "dead"} \cup SavingPcs
        BY <4>1 DEF Orderly, HasSaved
      <4> QED BY <1>17, <2>3, <4>2 DEF NoGame, SavingPcs
    <3> QED BY <1>17, <2>1, <3>2 DEF HasSaved
  <2> QED BY <2>2, <2>3
<1> HIDE DEF Kept2
<1>18. ASSUME RecoverStart PROVE \A q \in Proc : Kept2(q)
  <2>1. \A p \in Proc : p \notin save'.writers
    BY <1>18 DEF RecoverStart, EmptySave
  <2>2. /\ pc' = pc /\ todo' = todo /\ game' = game /\ dest' = dest /\ opened' = opened /\ NoGame
    BY <1>18 DEF RecoverStart
  <2> QED BY <1>17, <2>1, <2>2
<1>19. ASSUME RecoverLevel \/ RecoverState \/ \E l \in Level : RecoverOther(l)
       PROVE  \A q \in Proc : Kept2(q)
  <2>1. NoGame /\ save # None /\ save \in SaveFile
    BY <1>19 DEF RecoverLevel, RecoverState, RecoverOther, Orderly, RunsAlone, RecoverHasFiles,
                 TypeOK
  <2>2. save'.writers = save.writers
    BY <1>19, <2>1 DEF RecoverLevel, RecoverState, RecoverOther, SaveFile
  <2> QED BY <1>17, <1>19, <2>1, <2>2 DEF RecoverLevel, RecoverState, RecoverOther
<1>20. ASSUME RecoverDone \/ RecoverCrash \/ UNCHANGED vars PROVE \A q \in Proc : Kept2(q)
  <2>1. /\ pc' = pc /\ todo' = todo /\ game' = game /\ dest' = dest /\ opened' = opened
        /\ save' = save
    BY <1>20 DEF RecoverDone, RecoverCrash, files, vars
  <2> QED BY <1>17, <2>1
<1>21. \A q \in Proc : Kept2(q)
  BY <1>4, <1>5, <1>6, <1>7, <1>8, <1>9, <1>10, <1>11, <1>12, <1>13, <1>14, <1>15, <1>16, <1>18,
     <1>19, <1>20 DEF Next, Plays, Proceeds, RecoverProceeds
<1> QED BY <1>21, StepAlone DEF Orderly, Kept2

-----------------------------------------------------------------------------
(***************************************************************************)
(* Programs that nobody destroys keep apart.                               *)
(***************************************************************************)
\* What a step of p has to keep: it ends, or it still has its lock and its save file.
LEMMA KeepsApart ==
    ASSUME TypeOK, Separate, Orderly', NEW p \in Proc,
           Running(p) \/ (NoGame /\ recover = "idle"),
           recover' = recover,
           \A q \in Proc \ {p} : pc'[q] = pc[q] /\ todo'[q] = todo[q],
           pc'[p] = "dead" \/ (HoldsLock(p)' /\ HasOpened(p)')
    PROVE  Separate'
<1>1. recover = "idle" /\ \A q \in Proc \ {p} : pc[q] \in {"idle", "dead"}
  BY OthersRest DEF NoGame
<1>2. OwnsLock'
  BY <1>1 DEF OwnsLock, Running, Separate
<1>3. ASSUME NEW q \in Proc \ {p} PROVE HasOpened(q)'
  BY <1>1 DEF HasOpened, Reads
<1>4. HasOpened(p)'
  BY DEF HasOpened, Reads
<1> QED BY <1>2, <1>3, <1>4 DEF Separate

\* dosave0 writes to the save file in the directory, which nobody has opened and
\* nobody else writes.
LEMMA AppendsAlone ==
    ASSUME TypeOK, Separate, NEW p \in Proc, pc[p] \in {"savelevel", "savestate", "copyout"},
           save # None, save.writers = {p}, NEW f \in Created(p)
    PROVE  /\ f = save
           /\ \A g, spliced : AppendTo(p, f, g, spliced) => save' = g /\ opened' = opened
<1>1. \A q \in Proc : opened[q] = None
  BY OthersRest DEF Running, Separate, Orderly, HasFile, Reads
<1>2. SaveFiles = {save}
  BY <1>1 DEF SaveFiles
<1>3. f = save
  BY <1>2 DEF Created
<1>4. \A g : Becomes(f, g) => save' = g /\ opened' = opened
  BY <1>1, <1>3 DEF Becomes, TypeOK
<1>5. \A g, spliced : Appended(p, f, g, spliced) = {g}
  BY <1>3 DEF Appended, Clashes
<1> QED BY <1>3, <1>4, <1>5 DEF AppendTo

\* Every step keeps programs apart.
LEMMA StepSeparate ==
    ASSUME Answers = {}, TypeOK, Separate, [Next]_vars
    PROVE  Separate'
<1> USE DEF Goto
<1>0. Orderly'
  BY StepOrderly DEF Separate
<1>1. ASSUME NEW p \in Proc, GetLock(p) PROVE Separate'
  <2>0. NoGame /\ recover = "idle"
    BY <1>1, LockIsFree
  <2>1. HoldsLock(p)'
    <3>1. lock' = EmptyLock(p, None)
      BY <1>1 DEF GetLock
    <3>2. EmptyLock(p, None) \in LockFile
      BY WritesType
    <3>3. pc'[p] = "gotlock"
      BY <1>1 DEF GetLock, TypeOK
    <3> QED BY <3>1, <3>2, <3>3, ValuesAssumption DEF HoldsLock, EmptyLock, Writers
  <2>2. HasOpened(p)' /\ \A q \in Proc \ {p} : pc'[q] = pc[q] /\ todo'[q] = todo[q]
    BY <1>1 DEF GetLock, TypeOK, Separate, Orderly, HasOpened, HasFile, Reads, NothingToCopy
  <2>3. recover' = recover
    BY <1>1 DEF GetLock
  <2> QED BY <2>0, <2>1, <2>2, <2>3, <1>0, KeepsApart DEF HoldsLock, OwnLock
<1>15. ASSUME NEW p \in Proc, WritePid(p) PROVE Separate'
  <2>1. /\ Running(p) /\ lock # None /\ lock.writers = {p} /\ todo[p] = {} /\ pc'[p] = "begin"
        /\ recover' = recover /\ todo' = todo
        /\ \A q \in Proc \ {p} : pc'[q] = pc[q]
    BY <1>15 DEF WritePid, Running, Separate, OwnsLock, HoldsLock, Orderly, HasFile, NothingToCopy, TypeOK
  <2>2. lock' = WrittenBy(p, None)
    BY <1>15, <2>1 DEF WritePid, WriteLockFile, Writes, Clashes
  <2>3. WrittenBy(p, None) \in LockFile
    BY DEF WrittenBy, LockFile
  <2>4. HoldsLock(p)'
    BY <2>1, <2>2, <2>3, ValuesAssumption DEF HoldsLock, WrittenBy
  <2>5. HasOpened(p)'
    BY <2>1 DEF HasOpened, Reads
  <2> QED BY <2>1, <2>4, <2>5, <1>0, KeepsApart DEF HoldsLock, OwnLock
<1>2. ASSUME NEW p \in Proc, RestoreSavedGame(p) PROVE Separate'
  <2>1. Running(p) /\ todo[p] = {} /\ lock' = lock /\ OwnLock(p)
    BY <1>2 DEF RestoreSavedGame, Running, Separate, OwnsLock, HoldsLock, OwnLock, Orderly, HasOpened, HasFile, NothingToCopy
  <2>2. save' # None /\ opened'[p] = save' /\ save'.first # None
    BY <1>2, ValuesAssumption DEF RestoreSavedGame, UpToDate, TypeOK, SaveFile
  <2>3. /\ HasOpened(p)' /\ pc'[p] = "reading"
        /\ \A q \in Proc \ {p} : pc'[q] = pc[q] /\ todo'[q] = todo[q]
    BY <1>2, <2>1, <2>2 DEF RestoreSavedGame, TypeOK, Orderly, HasOpened, HasFile, Reads
  <2>4. recover' = recover
    BY <1>2 DEF RestoreSavedGame
  <2> QED BY <2>1, <2>3, <2>4, <1>0, KeepsApart DEF HoldsLock, OwnLock
<1>3. ASSUME NEW p \in Proc,
             \/ NewGame(p) \/ Pickup(p) \/ Drop(p) \/ SetCheckpointOption(p) \/ Leave(p)
             \/ Enter(p) \/ Checkpoint(p) \/ Rewrite(p) \/ DoSave(p)
             \/ \E l \in Level : GotoLevel(p, l)
      PROVE  Separate'
  <2>1. /\ Running(p) /\ pc[p] \in NothingToCopy \ {"reading"} /\ todo[p] = {}
        /\ OwnLock(p)
    BY <1>3 DEF NewGame, Pickup, Drop, SetCheckpointOption, Leave, Enter, Checkpoint, Rewrite,
                DoSave, GotoLevel, Running, Separate, OwnsLock, HoldsLock, OwnLock, Orderly, HasOpened, HasFile, NothingToCopy
  <2>2. lock' = lock /\ todo' = todo /\ recover' = recover
    BY <1>3 DEF NewGame, Pickup, Drop, SetCheckpointOption, Leave, Enter, Checkpoint, Rewrite,
                DoSave, GotoLevel, files
  <2>3. /\ pc'[p] \in (NothingToCopy \ {"reading"}) \cup {"lock", "tricked", "savelevel"}
        /\ pc'[p] # "gotlock" /\ \A q \in Proc \ {p} : pc'[q] = pc[q]
    BY <1>3, <2>1 DEF NewGame, Pickup, Drop, SetCheckpointOption, Leave, Enter, Checkpoint,
                Rewrite, DoSave, GotoLevel, TypeOK, NothingToCopy
  <2>4. HasOpened(p)'
    BY <2>1, <2>2, <2>3 DEF Orderly, HasOpened, HasFile, Reads, Restoring, NothingToCopy
  <2> QED BY <2>1, <2>2, <2>3, <2>4, <1>0, KeepsApart DEF HoldsLock, OwnLock
<1>4. ASSUME NEW p \in Proc, Cleared(p) \/ DeleteLock(p) \/ Crash(p) \/ RestoreFails(p),
             recover' = recover, Running(p) \/ Crash(p)
      PROVE  Separate'
  <2>1. Ends(p)
    BY <1>4 DEF Cleared, DeleteLock, Crash, RestoreFails
  <2>2. /\ pc'[p] = "dead"
        /\ \A q \in Proc \ {p} : pc'[q] = pc[q] /\ todo'[q] = todo[q]
    BY <2>1 DEF Ends, TypeOK
  <2>3. CASE Running(p)
    BY <1>4, <2>2, <2>3, <1>0, KeepsApart DEF HoldsLock, OwnLock
  <2>4. CASE ~Running(p)
    <3>1. lock' = lock /\ save' = save
      BY <1>4, <2>4 DEF Crash, files
    <3>2. OwnsLock'
      BY <1>4, <2>2, <2>4, <3>1 DEF Separate, OwnsLock, HoldsLock, Running
    <3>3. ASSUME NEW q \in Proc \ {p} PROVE HasOpened(q)'
      <4>1. /\ pc'[q] = pc[q] /\ todo'[q] = todo[q] /\ opened'[q] = opened[q]
            /\ game'[q] = game[q] /\ dest'[q] = dest[q] /\ HasOpened(q)
        BY <2>1 DEF Ends, TypeOK, Separate
      <4> QED BY <3>1, <4>1 DEF Orderly, HasOpened, HasFile, Reads, Restoring, Legible, InSave
    <3>4. HasOpened(p)'
      BY <2>2 DEF Orderly, HasOpened, HasFile, Reads, NothingToCopy
    <3> QED BY <1>0, <3>2, <3>3, <3>4 DEF Separate
  <2> QED BY <2>3, <2>4
<1>5. ASSUME NEW p \in Proc, SaveStateInLock(p) PROVE Separate'
  <2>1. Running(p) /\ OwnLock(p) /\ HasOpened(p)
    BY <1>5 DEF SaveStateInLock, Running, Separate, OwnsLock, HoldsLock, OwnLock
  <2>2. OwnLock(p)'
    <3>1. CASE lock' = Truncated(p, lock, WritingLock)
      <4>1. Truncated(p, lock, WritingLock) \in LockFile
        BY WritesType DEF TypeOK
      <4> QED BY <2>1, <3>1, <4>1, ValuesAssumption DEF OwnLock, Truncated, Writers
    <3> QED BY <1>5, <2>1, <3>1 DEF SaveStateInLock, OwnLock
  <2>3. /\ \A q \in Proc \ {p} : pc'[q] = pc[q] /\ todo'[q] = todo[q]
        /\ recover' = recover
    BY <1>5 DEF SaveStateInLock, TypeOK
  <2>4. /\ pc'[p] \in {"copyin", "play", "tricked", "writelock"}
        /\ pc'[p] = "play" => ~Restoring(p)
        /\ pc'[p] = "copyin" => Restoring(p)
    BY <1>5 DEF SaveStateInLock, TypeOK, AfterLock
  <2>5. /\ save' = save /\ opened' = opened /\ game' = game /\ todo' = todo /\ dest' = dest
        /\ pc[p] = "lock"
    BY <1>5 DEF SaveStateInLock
  <2>6. HasOpened(p)'
    BY <2>1, <2>4, <2>5 DEF Orderly, HasOpened, HasFile, Reads, Restoring, Legible, InSave, NothingToCopy
  <2> QED BY <2>1, <2>2, <2>3, <2>4, <2>6, <1>0, KeepsApart DEF HoldsLock, OwnLock
<1>6. ASSUME NEW p \in Proc, WriteLock(p) PROVE Separate'
  <2>1. Running(p) /\ OwnLock(p) /\ HasOpened(p)
    BY <1>6 DEF WriteLock, Running, Separate, OwnsLock, HoldsLock, OwnLock
  <2>2. OwnLock(p)'
    <3> DEFINE d == IF game[p].ins_chkpt THEN StateOf(p) ELSE None
    <3>1. lock' = WrittenBy(p, d)
      BY <1>6, <2>1 DEF WriteLock, WriteLockFile, Writes, Clashes, OwnLock
    <3>2. WrittenBy(p, d) \in LockFile
      BY StateOfType DEF WrittenBy, LockFile
    <3> QED BY <3>1, <3>2, ValuesAssumption DEF OwnLock, WrittenBy
  <2>3. /\ \A q \in Proc \ {p} : pc'[q] = pc[q] /\ todo'[q] = todo[q]
        /\ recover' = recover
    BY <1>6 DEF WriteLock, TypeOK
  <2>4. /\ pc'[p] = AfterLock(p) /\ game'[p].here = game[p].here
        /\ save' = save /\ opened' = opened /\ todo' = todo /\ dest' = dest
        /\ pc[p] = "writelock"
    BY <1>6 DEF WriteLock, TypeOK, Memory
  <2>5. HasOpened(p)'
    BY <2>1, <2>4 DEF Orderly, HasOpened, HasFile, Reads, AfterLock, Restoring, Legible, InSave, NothingToCopy
  <2> QED BY <2>1, <2>2, <2>3, <2>4, <2>5, <1>0, KeepsApart DEF HoldsLock, OwnLock, AfterLock
<1>7. ASSUME NEW p \in Proc,
             \/ SaveLevel(p) \/ SaveGameState(p) \/ DeleteLevel(p) \/ CloseSave(p)
             \/ DeleteHere(p) \/ \E l \in Level : CopyOut(p, l)
      PROVE  Separate'
  <2>1. Running(p) /\ OwnLock(p)
    BY <1>7 DEF SaveLevel, SaveGameState, DeleteLevel, CloseSave, DeleteHere, CopyOut, Running,
                Separate, OwnsLock, HoldsLock, OwnLock
  <2>2. lock' = lock /\ recover' = recover /\ \A q \in Proc \ {p} : todo'[q] = todo[q]
    BY <1>7 DEF SaveLevel, SaveGameState, DeleteLevel, CloseSave, DeleteHere, CopyOut, Copied,
                TypeOK, files
  <2>3. /\ pc'[p] \in {"savestate", "copyout", "deletelevel", "deletehere", "deletelock",
                       "tricked"}
        /\ \A q \in Proc \ {p} : pc'[q] = pc[q]
    BY <1>7 DEF SaveLevel, SaveGameState, DeleteLevel, CloseSave, DeleteHere, CopyOut, TypeOK
  <2>4. HasOpened(p)'
    BY <2>3 DEF Orderly, HasOpened, HasFile, Reads, NothingToCopy
  <2> QED BY <2>1, <2>2, <2>3, <2>4, <1>0, KeepsApart DEF HoldsLock, OwnLock
<1>8. ASSUME NEW p \in Proc, DoRecover(p) PROVE Separate'
  <2>1. /\ Running(p) /\ OwnLock(p)
        /\ opened[p] = save /\ save # None /\ save.first # None /\ opened[p] = save
    BY <1>8, OpenedIsSave DEF DoRecover, Running, Separate, OwnsLock, HoldsLock, OwnLock, Orderly, HasOpened, HasFile
  <2>2. CASE Legible(save)
    <3>1. /\ pc'[p] = "lock" /\ todo'[p] = InSave(save) /\ game'[p].here = save.state.here
          /\ \A q \in Proc \ {p} : pc'[q] = pc[q] /\ todo'[q] = todo[q]
      BY <1>8, <2>1, <2>2 DEF DoRecover, TypeOK
    <3>2. save' = save /\ opened' = opened /\ lock' = lock /\ recover' = recover
      BY <1>8, <2>1, <2>2 DEF DoRecover
    <3>3. HasOpened(p)'
      BY <2>1, <2>2, <3>1, <3>2 DEF Orderly, HasOpened, HasFile, Reads, Legible, InSave, NothingToCopy
    <3> QED BY <2>1, <3>1, <3>2, <3>3, <1>0, KeepsApart DEF HoldsLock, OwnLock
  <2>3. CASE ~Legible(save)
    BY <1>4, <1>8, <2>1, <2>3 DEF DoRecover
  <2> QED BY <2>2, <2>3
<1>9. ASSUME NEW p \in Proc, NEW l \in Level, CopyIn(p, l) PROVE Separate'
  <2>1. /\ Running(p) /\ OwnLock(p) /\ Reads(p) /\ HasOpened(p)
        /\ l \in todo[p] /\ recover' = recover /\ lock' = lock
    BY <1>9 DEF CopyIn, Running, Reads, Separate, OwnsLock, HoldsLock, OwnLock
  <2>2. CASE FromSave(p, l) # Garbage
    <3>1. /\ pc'[p] = "copywrite" /\ dest'[p] = l /\ todo' = todo /\ save' = save
          /\ opened' = opened /\ game'[p].here = game[p].here
          /\ \A q \in Proc \ {p} : pc'[q] = pc[q]
      BY <1>9, <2>2 DEF CopyIn, TypeOK, Noted, Memory
    <3>2. HasOpened(p)'
      BY <2>1, <3>1 DEF Orderly, HasOpened, HasFile, Reads, Legible, InSave, NothingToCopy
    <3> QED BY <2>1, <3>1, <3>2, <1>0, KeepsApart DEF HoldsLock, OwnLock
  <2>3. CASE FromSave(p, l) = Garbage
    BY <1>4, <1>9, <2>1, <2>3 DEF CopyIn
  <2> QED BY <2>2, <2>3
<1>10. ASSUME NEW p \in Proc, CopyWrite(p) \/ Recovered(p) PROVE Separate'
  <2>1. /\ Running(p) /\ OwnLock(p) /\ Reads(p) /\ HasOpened(p)
        /\ recover' = recover /\ lock' = lock /\ game' = game
    BY <1>10 DEF CopyWrite, Recovered, Running, Reads, Separate, OwnsLock, HoldsLock, OwnLock
  <2>2. CASE CopyWrite(p)
    <3>1. /\ pc'[p] = "copyin" /\ todo'[p] \subseteq todo[p] /\ save' = save
          /\ opened' = opened
          /\ \A q \in Proc \ {p} : pc'[q] = pc[q] /\ todo'[q] = todo[q]
      BY <2>2 DEF CopyWrite, Copied, TypeOK
    <3>2. HasOpened(p)'
      BY <2>1, <3>1 DEF Orderly, HasOpened, HasFile, Reads, Legible, InSave, NothingToCopy
    <3> QED BY <2>1, <3>1, <3>2, <1>0, KeepsApart DEF HoldsLock, OwnLock
  <2>3. CASE Recovered(p)
    <3>1. /\ pc'[p] = "play" /\ todo' = todo /\ todo[p] = {}
          /\ \A q \in Proc \ {p} : pc'[q] = pc[q]
      BY <2>3 DEF Recovered, TypeOK
    <3>2. HasOpened(p)'
      BY <3>1 DEF Orderly, HasOpened, HasFile, Reads
    <3> QED BY <2>1, <3>1, <3>2, <1>0, KeepsApart DEF HoldsLock, OwnLock
  <2> QED BY <1>10, <2>2, <2>3
<1>11. ASSUME pc' = pc, todo' = todo, game' = game, dest' = dest, opened' = opened, NoGame \/ save' = save,
              lock' = lock \/ NoGame
       PROVE  Separate'
  <2>1. OwnsLock'
    BY <1>11 DEF Separate, OwnsLock, HoldsLock, Running, NoGame
  <2>2. ASSUME NEW p \in Proc PROVE HasOpened(p)'
    BY <1>11 DEF Separate, HasOpened, Reads, Restoring, NoGame, Legible, InSave
  <2> QED BY <1>0, <2>1, <2>2 DEF Separate
<1>12. CASE RecoverStart
  BY <1>11, <1>12 DEF RecoverStart
<1>13. ASSUME RecoverLevel \/ RecoverState \/ \E l \in Level : RecoverOther(l) PROVE Separate'
  <2>1. NoGame
    BY <1>13 DEF RecoverLevel, RecoverState, RecoverOther, Separate, Orderly, RunsAlone
  <2>2. pc' = pc /\ todo' = todo /\ game' = game /\ dest' = dest /\ opened' = opened
    BY <1>13 DEF RecoverLevel, RecoverState, RecoverOther
  <2> QED BY <1>11, <2>1, <2>2
<1>14. CASE RecoverDone \/ RecoverCrash \/ UNCHANGED vars
  <2>1. /\ pc' = pc /\ todo' = todo /\ game' = game /\ dest' = dest /\ opened' = opened /\ save' = save
        /\ lock' = lock
    BY <1>14 DEF RecoverDone, RecoverCrash, files, vars
  <2> QED BY <1>11, <2>1
<1>17. ASSUME NEW p \in Proc, Done(p) \/ Tricked(p) \/ DeleteLock(p) \/ Crash(p) PROVE Separate'
  BY <1>4, <1>17 DEF Done, Tricked, DeleteLock, Crash, Running
<1> QED
  BY <1>1, <1>2, <1>3, <1>5, <1>15, <1>6, <1>7, <1>8, <1>9, <1>10, <1>12, <1>13, <1>14, <1>17
     DEF Next, Plays, Proceeds, RecoverProceeds

\* It starts with no file and no program.
LEMMA InitSeparate == Init => TypeOK /\ Separate
<1> SUFFICES ASSUME Init PROVE TypeOK /\ Separate
  OBVIOUS
<1>1. TypeOK
  BY NoMemoryType DEF Init, TypeOK, Pc
<1>2. OwnsLock /\ RunsAlone /\ RecoverHasFiles
  BY DEF Init, OwnsLock, RunsAlone, RecoverHasFiles, Running
<1>3. ASSUME NEW p \in Proc PROVE HasOpened(p) /\ HasFile(p) /\ HasSaved(p)
  BY DEF Init, HasOpened, HasFile, HasSaved, SaveFiles, Reads, NothingToCopy
<1> QED BY <1>1, <1>2, <1>3 DEF Separate, Orderly

\* The types and Separate hold always, while nobody destroys a live game.
LEMMA Apart ==
    ASSUME Answers = {}
    PROVE  Spec => [](TypeOK /\ Separate)
<1>1. TypeOK /\ Separate /\ [Next]_vars => (TypeOK /\ Separate)'
  BY StepTypeOK, StepSeparate DEF Separate
<1> QED BY <1>1, InitSeparate, PTL DEF Spec

\* The files of a game, the save files and the memory of every process always have
\* their types, even while two processes work on the same files: no level that
\* dorecover copies is missing from the save file it has opened, and the utility
\* reads no level number from a lock that has none.
THEOREM CheckpointTypes == Spec => []TypeOK
<1>1. TypeOK /\ Orderly /\ [Next]_vars => (TypeOK /\ Orderly)'
  BY StepTypeOK, StepOrderly
<1>2. Init => TypeOK /\ Orderly
  BY InitSeparate DEF Separate
<1> QED BY <1>1, <1>2, PTL DEF Spec

\* No two programs are in a game at once: getlock takes the files over only from
\* a process that has ended.
THEOREM OneProgram ==
    ASSUME Answers = {}
    PROVE  Spec => []SoleGame
<1>1. Separate => SoleGame
  BY DEF Separate, OwnsLock, HoldsLock, SoleGame
<1> QED BY <1>1, Apart, PTL

-----------------------------------------------------------------------------
(***************************************************************************)
(* The files agree.                                                        *)
(***************************************************************************)
\* They do as long as nothing is written.
LEMMA FilesStay ==
    ASSUME FilesAgree, levelfile' = levelfile, lock' = lock, save' = save,
           committed' = committed
    PROVE  FilesAgree'
BY DEF FilesAgree, WholeSave, Legible, SaveAgrees, SaveComplete, WorldOfSave, World,
       LockHasState, LockAgrees, Around, LevelGood, OnDisk, DataIn

\* Whoever creates a file while the others rest is the only one that writes it.
LEMMA CreatesAlone ==
    ASSUME Separate, NEW p \in Proc, Running(p)
    PROVE  /\ \A f : \A l \in Level : Truncated(p, f, WritingLevel(l)) = BeingWritten(p)
           /\ \A f : Truncated(p, f, WritingLock) = BeingWritten(p)
           /\ \A f : Writers(p, f, WritingSave) = {p}
<1>1. \A q \in Proc \ {p} : pc[q] \in {"idle", "dead"}
  BY OthersRest
<1>2. ASSUME NEW f, NEW W, W \subseteq {p} PROVE Writers(p, f, W) = {p}
  BY <1>2 DEF Writers
<1>3. \A l \in Level : WritingLevel(l) \subseteq {p}
  BY <1>1 DEF WritingLevel
<1>4. WritingLock \subseteq {p}
  BY <1>1 DEF WritingLock
<1>5. WritingSave \subseteq {p}
  BY <1>1 DEF WritingSave
<1> QED BY <1>2, <1>3, <1>4, <1>5 DEF Truncated, BeingWritten

\* The lock that p alone writes.
LEMMA LockWritten ==
    ASSUME NEW p \in Proc, NEW d, WriteLockFile(p, d), lock # None, lock.writers = {p}
    PROVE  lock' = WrittenBy(p, d)
BY DEF WriteLockFile, Writes, Clashes

\* What a step of p has to keep, as the others rest.
LEMMA StepOf ==
    ASSUME Separate, NEW p \in Proc, Running(p) \/ (NoGame /\ recover = "idle"),
           recover' = recover, \A q \in Proc \ {p} : pc'[q] = pc[q],
           Phase(p)', pc'[p] \in Harmless \cup {"idle", "dead"} => FilesAgree'
    PROVE  Agree'
<1>1. recover = "idle" /\ \A q \in Proc \ {p} : pc[q] \in {"idle", "dead"}
  BY OthersRest DEF NoGame
<1>2. ASSUME NEW q \in Proc \ {p} PROVE Phase(q)'
  BY <1>1 DEF Phase, Starting, CopiesIn, Reads, HasLevels, InGame, CopiesOut
<1>3. Calm' => FilesAgree'
  BY DEF Calm
<1>4. Recovers'
  BY <1>1 DEF Recovers
<1> QED BY <1>2, <1>3, <1>4 DEF Agree

\* Between level changes, and when nothing runs, the files agree.
LEMMA CalmFiles ==
    ASSUME Separate, Agree,
           \/ NoGame /\ recover = "idle"
           \/ \E p \in Proc : pc[p] \in Harmless
    PROVE  FilesAgree
BY OthersRest DEF Agree, Calm, NoGame, Running, Harmless

\* A step at the end of which p has ended leaves nothing to p.
LEMMA EndedPhase ==
    ASSUME NEW p \in Proc, pc'[p] \in {"idle", "dead"}
    PROVE  Phase(p)'
BY DEF Phase, Starting, CopiesIn, Reads, HasLevels, InGame, CopiesOut

\* Starting a game, or a restore.
LEMMA StartAgrees ==
    ASSUME Answers = {}, TypeOK, Separate, Agree, NEW p \in Proc,
           GetLock(p) \/ WritePid(p) \/ RestoreSavedGame(p) \/ NewGame(p)
    PROVE  Agree'
<1> USE DEF Goto
<1>1. CASE GetLock(p)
  <2>1. NoGame /\ recover = "idle" /\ FilesAgree
    BY <1>1, LockIsFree, CalmFiles
  <2>2. lock' # None /\ lock'.data = None /\ save' = save
    <3>1. lock' = EmptyLock(p, None)
      BY <1>1 DEF GetLock
    <3>2. EmptyLock(p, None) \in LockFile /\ EmptyLock(p, None).data = None
      BY WritesType DEF EmptyLock
    <3> QED BY <1>1, <3>1, <3>2, ValuesAssumption DEF GetLock
  <2>3. \A l \in Level : levelfile'[l] = None
    BY <1>1, <2>1 DEF GetLock, FilesAgree
  <2>4. pc'[p] = "gotlock" /\ \A q \in Proc \ {p} : pc'[q] = pc[q]
    BY <1>1 DEF GetLock, TypeOK
  <2>5. committed' = IF lock # None /\ ~WholeSave(save) THEN None ELSE committed
    BY <1>1 DEF GetLock
  <2>6. Phase(p)'
    BY <2>2, <2>3, <2>4 DEF Phase, Starting, CopiesIn, Reads, HasLevels, InGame, CopiesOut
  <2>7. FilesAgree'
    <3>1. lock'.data = None
      BY <2>2
    <3>2. CASE WholeSave(save)
      BY <2>1, <2>2, <2>5, <3>1, <3>2 DEF FilesAgree, SaveAgrees, SaveComplete, LockHasState,
                                      WholeSave, Legible, WorldOfSave, World
    <3>3. CASE ~WholeSave(save)
      BY <2>1, <2>2, <2>5, <3>1, <3>3 DEF FilesAgree, LockHasState, WholeSave, Legible
    <3> QED BY <3>2, <3>3
  <2>8. recover' = recover
    BY <1>1 DEF GetLock
  <2> QED BY <2>1, <2>4, <2>6, <2>7, <2>8, StepOf
<1>2. CASE RestoreSavedGame(p)
  <2>1. Running(p) /\ Starting(p) /\ FilesAgree /\ pc[p] = "begin"
    BY <1>2, CalmFiles DEF RestoreSavedGame, Running, Agree, Phase, Harmless
  <2>2. pc'[p] = "reading" /\ \A q \in Proc \ {p} : pc'[q] = pc[q]
    BY <1>2 DEF RestoreSavedGame, TypeOK
  <2>3. /\ lock' = lock /\ levelfile' = levelfile /\ committed' = committed
        /\ recover' = recover /\ save # None
    BY <1>2 DEF RestoreSavedGame, ghosts
  <2>4. /\ save'.first = save.first /\ save'.state = save.state /\ save'.lev = save.lev
        /\ save' # None
    BY <1>2, ValuesAssumption DEF RestoreSavedGame, TypeOK, SaveFile
  <2>5. IF Legible(save') THEN SaveAgrees' ELSE committed' = None
    BY <2>1, <2>3, <2>4 DEF FilesAgree, SaveAgrees, SaveComplete, LockHasState, Starting,
                            WholeSave, Legible, WorldOfSave, World
  <2>6. Starting(p)'
    BY <2>1, <2>3, <2>5 DEF Starting
  <2>7. Phase(p)'
    BY <2>2, <2>6 DEF Phase, CopiesIn, Reads, HasLevels, InGame, CopiesOut
  <2> QED BY <2>1, <2>2, <2>3, <2>7, StepOf DEF Harmless
<1>3. CASE NewGame(p)
  <2>1. Running(p) /\ Starting(p) /\ FilesAgree /\ pc[p] = "begin" /\ todo[p] = {}
    BY <1>3, CalmFiles DEF NewGame, Running, Agree, Phase, Harmless, Separate, Orderly, HasOpened, HasFile,
                           NothingToCopy
  <2>2. pc'[p] = "checkpoint" /\ \A q \in Proc \ {p} : pc'[q] = pc[q]
    BY <1>3 DEF NewGame, TypeOK
  <2>3. save' = None
    BY <1>3, <2>1 DEF NewGame, FilesAgree
  <2>4. lock' = lock /\ levelfile' = levelfile /\ recover' = recover /\ todo' = todo
    BY <1>3 DEF NewGame
  <2>5. game'[p].exists = {} /\ game'[p].havestate = TRUE
    BY <1>3 DEF NewGame, TypeOK
  <2>6. HasLevels(p)'
    BY <2>1, <2>2, <2>3, <2>4, <2>5, ValuesAssumption DEF HasLevels, Starting
  <2>7. Phase(p)'
    BY <2>2, <2>6 DEF Phase, Starting, CopiesIn, Reads, CopiesOut
  <2> QED BY <2>1, <2>2, <2>4, <2>7, StepOf DEF Harmless
<1>4. CASE WritePid(p)
  <2>1. /\ Running(p) /\ Starting(p) /\ FilesAgree /\ pc[p] = "gotlock"
        /\ lock # None /\ lock.writers = {p}
    BY <1>4, CalmFiles DEF WritePid, Running, Agree, Phase, Harmless, Separate, OwnsLock, HoldsLock
  <2>2. lock' = WrittenBy(p, None)
    BY <1>4, <2>1, LockWritten DEF WritePid
  <2>3. lock' # None /\ lock'.data = None
    <3>1. WrittenBy(p, None) \in LockFile /\ WrittenBy(p, None).data = None
      BY DEF WrittenBy, LockFile
    <3> QED BY <2>2, <3>1, ValuesAssumption
  <2>4. /\ pc'[p] = "begin" /\ \A q \in Proc \ {p} : pc'[q] = pc[q]
        /\ levelfile' = levelfile /\ save' = save /\ committed' = committed /\ recover' = recover
    BY <1>4 DEF WritePid, TypeOK
  <2>5. \A l \in Level : levelfile[l] = None
    BY <2>1 DEF Starting
  <2>6. Phase(p)'
    BY <2>3, <2>4, <2>5 DEF Phase, Starting, CopiesIn, Reads, HasLevels, InGame, CopiesOut
  <2>7. FilesAgree'
    BY <2>1, <2>3, <2>4, <2>5 DEF FilesAgree, SaveAgrees, SaveComplete, LockHasState, Starting,
                                  WholeSave, Legible, WorldOfSave, World
  <2> QED BY <2>1, <2>4, <2>6, <2>7, StepOf
<1> QED BY <1>1, <1>2, <1>3, <1>4

\* What HasLevels says of the files, when p has no level being written.
LEMMA PlaysHas ==
    ASSUME Separate, Agree, NEW p \in Proc, InGame(p)
    PROVE  /\ Running(p) /\ HasLevels(p) /\ OwnLock(p)
           /\ pc[p] \in NothingToCopy => todo[p] = {}
BY DEF Separate, OwnsLock, HoldsLock, OwnLock, Orderly, HasOpened, HasFile, NothingToCopy, Running, InGame, Agree, Phase

\* In a game, only HasLevels is about p.
LEMMA InGamePhase ==
    ASSUME NEW p \in Proc, InGame(p)', HasLevels(p)'
    PROVE  Phase(p)'
BY DEF InGame, Phase, Starting, CopiesIn, Reads, CopiesOut

\* Playing.
LEMMA PlayAgrees ==
    ASSUME TypeOK, Separate, Agree, NEW p \in Proc, Plays(p)
    PROVE  Agree'
<1> USE DEF Goto
<1>1. /\ pc[p] = "play" /\ Running(p) /\ InGame(p) /\ FilesAgree
      /\ recover' = recover
  BY CalmFiles DEF Plays, Pickup, Drop, SetCheckpointOption, Done, DoSave, GotoLevel, Running,
                   InGame, Harmless
<1>2. HasLevels(p) /\ OwnLock(p) /\ todo[p] = {}
  BY <1>1, PlaysHas DEF NothingToCopy
<1>3. \A q \in Proc \ {p} : pc'[q] = pc[q]
  BY DEF Plays, Pickup, Drop, SetCheckpointOption, Done, Cleared, Ends, DoSave, GotoLevel, TypeOK
<1>4. CASE Pickup(p) \/ Drop(p) \/ SetCheckpointOption(p)
  <2>1. /\ levelfile' = levelfile /\ lock' = lock /\ save' = save /\ committed' = committed
        /\ pc' = pc /\ todo' = todo
    BY <1>4 DEF Pickup, Drop, SetCheckpointOption, files, ghosts
  <2>2. game'[p].exists = game[p].exists /\ game'[p].havestate = game[p].havestate
    <3>1. ASSUME NEW t \in Thing
          PROVE  /\ [game EXCEPT ![p].cur = @ \ {t}, ![p].inv = @ \cup {t}][p].exists
                       = game[p].exists
                 /\ [game EXCEPT ![p].cur = @ \ {t}, ![p].inv = @ \cup {t}][p].havestate
                       = game[p].havestate
                 /\ [game EXCEPT ![p].inv = @ \ {t}, ![p].cur = @ \cup {t}][p].exists
                       = game[p].exists
                 /\ [game EXCEPT ![p].inv = @ \ {t}, ![p].cur = @ \cup {t}][p].havestate
                       = game[p].havestate
      BY DEF TypeOK, Memory
    <3>2. game[p].cur \subseteq Thing /\ game[p].inv \subseteq Thing
      BY DEF TypeOK, Memory
    <3>3. CASE Pickup(p)
      BY <3>1, <3>2, <3>3 DEF Pickup
    <3>4. CASE Drop(p)
      <4>1. PICK t \in game[p].inv :
                game' = [game EXCEPT ![p].inv = @ \ {t}, ![p].cur = @ \cup {t}]
        BY <3>4 DEF Drop
      <4>2. t \in Thing
        BY <3>2
      <4> QED BY <3>1, <4>1, <4>2
    <3>5. CASE SetCheckpointOption(p)
      BY <3>5 DEF SetCheckpointOption, TypeOK, Memory
    <3> QED BY <1>4, <3>3, <3>4, <3>5
  <2>3. HasLevels(p)'
    BY <1>1, <1>2, <2>1, <2>2 DEF HasLevels, InGame, Writing, OwnGood, LevelGood
  <2>4. InGame(p)'
    BY <1>1, <2>1 DEF InGame
  <2> QED BY <1>1, <1>3, <2>1, <2>3, <2>4, InGamePhase, FilesStay, StepOf
<1>5. CASE Done(p)
  <2>1. lock' = None /\ committed' = None /\ save' = None /\ pc'[p] = "dead"
    BY <1>1, <1>2, <1>5 DEF Done, Cleared, Ends, HasLevels, InGame, TypeOK
  <2>2. \A l \in Level : levelfile'[l] = None
    BY <1>1, <1>2, <1>5 DEF Done, Cleared, HasLevels, InGame
  <2>3. FilesAgree'
    BY <2>1, <2>2 DEF FilesAgree, WholeSave, LockHasState
  <2> QED BY <1>1, <1>3, <2>1, <2>3, EndedPhase, StepOf
<1>6. CASE DoSave(p)
  <2>1. /\ save' = EmptySave({p}) /\ pc'[p] = "savelevel" /\ levelfile' = levelfile
        /\ lock' = lock /\ committed' = committed /\ game' = game
    BY <1>1, <1>2, <1>6, CreatesAlone DEF DoSave, CanCreateSave, HasLevels, InGame, TypeOK, ghosts
  <2>2. save' # None /\ ~WholeSave(save')
    BY <2>1, EmptySaveType, ValuesAssumption DEF WholeSave, Legible, EmptySave
  <2>3. FilesAgree'
    BY <1>1, <1>2, <2>1, <2>2 DEF FilesAgree, WholeSave, LockHasState, LockAgrees, LevelGood,
                                  World, OnDisk, DataIn, Around, EmptySave, HasLevels, InGame
  <2>4. HasLevels(p)'
    BY <1>1, <1>2, <2>1, <2>2 DEF HasLevels, InGame, Writing, OwnGood, LevelGood, EmptySave
  <2>5. InGame(p)'
    BY <2>1 DEF InGame
  <2> QED BY <1>1, <1>3, <2>3, <2>4, <2>5, InGamePhase, StepOf
<1>7. ASSUME NEW l \in Level, GotoLevel(p, l) PROVE Agree'
  <2>1. /\ levelfile' = [levelfile EXCEPT ![game[p].here] = BeingWritten(p)]
        /\ lock' = lock /\ save' = save /\ pc'[p] = "leave"
        /\ game[p].here \in Level
    <3>1. game[p].here \in Level
      BY DEF TypeOK, Memory
    <3> QED BY <1>1, <1>7, <3>1, CreatesAlone DEF GotoLevel, CreateLevelFile, TypeOK
  <2>2. /\ game'[p].exists = game[p].exists \cup {game[p].here}
        /\ game'[p].here = game[p].here /\ game'[p].havestate = game[p].havestate
    BY <1>7 DEF GotoLevel, Noted, TypeOK, Memory
  <2>3. HasLevels(p)'
    <3>1. \A k \in Level : IF k \notin game[p].exists THEN levelfile[k] = None
                           ELSE OwnGood(p, k)
      BY <1>1, <1>2 DEF HasLevels, InGame, Writing
    <3>2. ASSUME NEW k \in Level \ {game[p].here}
          PROVE  levelfile'[k] = levelfile[k] /\ (k \in game'[p].exists <=> k \in game[p].exists)
      BY <2>1, <2>2 DEF TypeOK
    <3>3. levelfile'[game[p].here] = BeingWritten(p)
      BY <2>1 DEF TypeOK
    <3>4. \A k \in Level : IF k \notin game'[p].exists THEN levelfile'[k] = None
                           ELSE k = game'[p].here \/ OwnGood(p, k)'
      BY <2>2, <3>1, <3>2 DEF OwnGood, LevelGood
    <3>5. /\ save' = None /\ lock'.data # Garbage
          /\ ~game'[p].havestate => lock'.data = None /\ committed' = None
      BY <1>1, <1>2, <1>7, <2>1, <2>2 DEF HasLevels, InGame, GotoLevel, ghosts
    <3> QED BY <2>1, <2>2, <3>3, <3>4, <3>5 DEF HasLevels, Writing
  <2>4. InGame(p)'
    BY <2>1 DEF InGame
  <2> QED BY <1>1, <1>3, <2>1, <2>3, <2>4, InGamePhase, StepOf DEF Harmless
<1> QED BY <1>4, <1>5, <1>6, <1>7 DEF Plays

\* The files of a level that is written out.
LEMMA Written ==
    ASSUME TypeOK, NEW p \in Proc, NEW l \in Level, NEW d, WriteLevel(p, l, d),
           levelfile[l] = BeingWritten(p)
    PROVE  levelfile' = [levelfile EXCEPT ![l] = WrittenBy(p, d)]
<1>1. BeingWritten(p) # None /\ BeingWritten(p).writers = {p}
  <2>1. BeingWritten(p) \in LevelFile
    BY DEF BeingWritten, LevelFile, Content
  <2> QED BY <2>1, ValuesAssumption DEF BeingWritten
<1> QED BY <1>1 DEF WriteLevel, Writes, Clashes

\* Changing levels.
LEMMA ChangeAgrees ==
    ASSUME TypeOK, Separate, Agree, NEW p \in Proc,
           Leave(p) \/ Enter(p) \/ Checkpoint(p) \/ Rewrite(p)
    PROVE  Agree'
<1> USE DEF Goto
<1>1. /\ pc[p] \in {"leave", "enter", "checkpoint", "rewrite"} /\ InGame(p)
      /\ recover' = recover /\ lock' = lock /\ save' = save /\ todo' = todo
  BY DEF Leave, Enter, Checkpoint, Rewrite, InGame, files
<1>2. /\ HasLevels(p) /\ OwnLock(p) /\ todo[p] = {} /\ Running(p)
      /\ game[p] \in Memory /\ game[p].here \in Level
  BY <1>1, PlaysHas DEF TypeOK, Memory, NothingToCopy
<1>3. \A q \in Proc \ {p} : pc'[q] = pc[q]
  BY DEF Leave, Enter, Checkpoint, Rewrite, TypeOK
<1>4. /\ save = None /\ lock.data # Garbage
      /\ ~game[p].havestate => lock.data = None /\ committed = None
      /\ committed' = committed
  BY <1>1, <1>2 DEF HasLevels, Leave, Enter, Checkpoint, Rewrite, ghosts
<1>5. ASSUME pc'[p] \in {"leave", "enter", "checkpoint", "rewrite", "lock"}, HasLevels(p)'
      PROVE  Agree'
  <2>1. InGame(p)'
    BY <1>1, <1>2, <1>5 DEF InGame, Restoring
  <2> QED BY <1>1, <1>2, <1>3, <1>5, <2>1, InGamePhase, StepOf DEF Harmless
<1>6. CASE Leave(p) \/ Rewrite(p)
  <2>1. levelfile' = [levelfile EXCEPT ![game[p].here] = WrittenBy(p, game[p].cur)]
    BY <1>1, <1>2, <1>6, Written DEF Leave, Rewrite, HasLevels, LeftBehind
  <2>2. game' = game /\ pc'[p] \in {"enter", "lock"} /\ pc[p] \in {"leave", "rewrite"}
    BY <1>6 DEF Leave, Rewrite, TypeOK
  <2>3. /\ WrittenBy(p, game[p].cur) # None /\ WrittenBy(p, game[p].cur).data # Garbage
        /\ WrittenBy(p, game[p].cur).pid = p /\ WrittenBy(p, game[p].cur).data = game[p].cur
    <3>1. game[p].cur \in SUBSET Thing
      BY <1>2 DEF Memory
    <3>2. WrittenBy(p, game[p].cur) \in LevelFile
      BY <3>1 DEF WrittenBy, LevelFile, Content
    <3> QED BY <3>1, <3>2, ValuesAssumption DEF WrittenBy
  <2>4. HasLevels(p)'
    BY <1>1, <1>2, <1>4, <2>1, <2>2, <2>3
       DEF HasLevels, Writing, OwnGood, LevelGood, TypeOK
  <2> QED BY <1>5, <2>2, <2>4
<1>7. CASE Enter(p)
  <2>1. pc[p] = "enter" /\ levelfile' = levelfile
    BY <1>7 DEF Enter, files
  <2>2. \A l \in Level : IF l \notin game[p].exists THEN levelfile[l] = None ELSE OwnGood(p, l)
    BY <1>1, <1>2, <2>1 DEF HasLevels, Writing
  <2>3. dest[p] \in game[p].exists => OwnLevel(p, dest[p])
    BY <2>2 DEF OwnGood, LevelGood, OwnLevel, PidIn, TypeOK
  <2>4. /\ pc'[p] = "checkpoint"
        /\ game'[p].exists = game[p].exists /\ game'[p].havestate = game[p].havestate
    BY <1>7, <2>3 DEF Enter, TypeOK, Memory
  <2>5. HasLevels(p)'
    BY <1>1, <1>4, <2>1, <2>2, <2>4 DEF HasLevels, Writing, OwnGood, LevelGood
  <2> QED BY <1>5, <2>4, <2>5
<1>8. CASE Checkpoint(p)
  <2>1. \A l \in Level : IF l \notin game[p].exists THEN levelfile[l] = None ELSE OwnGood(p, l)
    BY <1>1, <1>2, <1>8 DEF HasLevels, Writing, Checkpoint
  <2>2. CASE game[p].ins_chkpt
    <3>1. /\ pc'[p] = "rewrite"
          /\ levelfile' = [levelfile EXCEPT ![game[p].here] = BeingWritten(p)]
      BY <1>2, <1>8, <2>2, CreatesAlone DEF Checkpoint, CreateLevelFile, TypeOK
    <3>2. /\ game'[p].exists = game[p].exists \cup {game[p].here}
          /\ game'[p].here = game[p].here /\ game'[p].havestate = game[p].havestate
      BY <1>8, <2>2 DEF Checkpoint, Noted, TypeOK, Memory
    <3>3. HasLevels(p)'
      BY <1>1, <1>2, <1>4, <2>1, <3>1, <3>2
         DEF HasLevels, Writing, OwnGood, LevelGood, TypeOK
    <3> QED BY <1>5, <3>1, <3>3
  <2>3. CASE ~game[p].ins_chkpt
    <3>1. pc'[p] = "lock" /\ levelfile' = levelfile /\ game' = game
      BY <1>8, <2>3 DEF Checkpoint, TypeOK
    <3>2. HasLevels(p)'
      BY <1>1, <1>4, <2>1, <2>3, <3>1 DEF HasLevels, Writing, OwnGood, LevelGood
    <3> QED BY <1>5, <3>1, <3>2
  <2> QED BY <2>2, <2>3
<1> QED BY <1>6, <1>7, <1>8

\* What p reads of a whole save file: the content of each level of its state.
LEMMA SavedLevels ==
    ASSUME TypeOK, Separate, Agree, NEW p \in Proc, Reads(p)
    PROVE  /\ Running(p) /\ CopiesIn(p) /\ OwnLock(p)
           /\ save \in SaveFile /\ save # None /\ opened[p] = save /\ SaveAgrees
           /\ save.state \in State /\ game[p].here = save.state.here
           /\ Around(save.state) = InSave(save) /\ InSave(save) \subseteq Level
           /\ \A l \in InSave(save) : FromSave(p, l) \notin {None, Garbage}
           /\ todo[p] \subseteq InSave(save)
<1>1. /\ Running(p) /\ CopiesIn(p) /\ OwnLock(p)
      /\ save \in SaveFile /\ save # None /\ opened[p] = save /\ SaveAgrees
      /\ game[p].here = save.state.here /\ todo[p] \subseteq InSave(save)
  <2>1. Running(p) /\ CopiesIn(p) /\ HasOpened(p) /\ pc[p] # "gotlock"
    BY DEF Reads, Running, Agree, Phase, Separate
  <2>2. OwnLock(p)
    BY <2>1 DEF Separate, OwnsLock, HoldsLock, OwnLock, Reads, Running
  <2> QED BY <2>1, <2>2, OpenedIsSave DEF CopiesIn, TypeOK, Separate, Orderly, HasOpened, HasFile
<1>2. save.state \in State /\ save.first \notin {None, Garbage}
  BY <1>1 DEF SaveAgrees, SaveComplete, Legible, SaveFile
<1>3. /\ save.state.here \in Level /\ save.state.exists \subseteq Level
      /\ save.lev \in [Level -> Content \cup {None}]
  BY <1>1, <1>2 DEF State, SaveFile
<1>4. \A l \in Level \ {save.state.here} :
          IF l \in save.state.exists THEN save.lev[l] \notin {None, Garbage}
          ELSE save.lev[l] = None
  BY <1>1 DEF SaveAgrees, SaveComplete
<1>5. Around(save.state) = InSave(save) /\ InSave(save) \subseteq Level
  BY <1>3, <1>4 DEF Around, InSave
<1>6. \A l \in InSave(save) : FromSave(p, l) \notin {None, Garbage}
  BY <1>1, <1>2, <1>3, <1>4 DEF FromSave, InSave
<1> QED BY <1>1, <1>2, <1>5, <1>6

\* While p copies levels from the save file, only CopiesIn is about it.
LEMMA ReadsPhase ==
    ASSUME NEW p \in Proc, Reads(p)', CopiesIn(p)'
    PROVE  Phase(p)'
BY DEF Reads, Phase, Starting, HasLevels, InGame, CopiesOut

\* The state p writes in the lock of a game that was restored is that of the save file.
LEMMA RestoredState ==
    ASSUME TypeOK, NEW p \in Proc, save \in SaveFile, save.state \in State,
           game[p].here = save.state.here, game[p].inv = save.state.inv,
           game[p].exists = save.state.exists, game[p].ins_chkpt = save.state.ins_chkpt
    PROVE  StateOf(p) = save.state
BY DEF StateOf, State

\* The lock of a game that is played, and of one that is being restored.
LEMMA LockAgreesWith ==
    ASSUME TypeOK, Separate, Agree, NEW p \in Proc, SaveStateInLock(p) \/ WriteLock(p)
    PROVE  Agree'
<1> USE DEF Goto
<1>1. /\ pc[p] \in {"lock", "writelock"} /\ Running(p)
      /\ recover' = recover /\ save' = save /\ todo' = todo /\ levelfile' = levelfile
      /\ opened' = opened
      /\ game[p] \in Memory
  BY DEF SaveStateInLock, WriteLock, Running, TypeOK
<1>2. \A q \in Proc \ {p} : pc'[q] = pc[q]
  BY DEF SaveStateInLock, WriteLock, TypeOK
<1>3. OwnLock(p)
  BY <1>1 DEF Separate, OwnsLock, HoldsLock, OwnLock
<1>4. CASE Restoring(p)
  <2>1. Reads(p)
    BY <1>1, <1>4 DEF Reads
  <2>2. /\ CopiesIn(p) /\ SaveAgrees /\ save \in SaveFile /\ save.state \in State
        /\ game[p].here = save.state.here /\ Around(save.state) = InSave(save)
    BY <2>1, SavedLevels
  <2>3. /\ game[p].exists = save.state.exists /\ game[p].havestate
        /\ game[p].inv = save.state.inv /\ game[p].cur = save.first
        /\ game[p].ins_chkpt = save.state.ins_chkpt
        /\ todo[p] = InSave(save) /\ \A l \in Level \ InSave(save) : levelfile[l] = None
        /\ IF pc[p] = "lock" THEN lock.data = None ELSE lock = BeingWritten(p)
    BY <1>1, <2>1, <2>2 DEF CopiesIn
  <2>4. CASE SaveStateInLock(p)
    <3>1. PidIn(lock) = p /\ NeedsRewriting(p) /\ pc[p] = "lock"
      BY <1>3, <2>3, <2>4, ValuesAssumption DEF SaveStateInLock, PidIn, NeedsRewriting, OwnLock
    <3>2. lock' = BeingWritten(p) /\ pc'[p] = "writelock" /\ game' = game /\ committed' = committed
      BY <1>1, <2>4, <3>1, CreatesAlone DEF SaveStateInLock, TypeOK, ghosts
    <3>3. CopiesIn(p)'
      BY <1>1, <2>2, <2>3, <3>2
         DEF CopiesIn, SaveAgrees, SaveComplete, Legible, WorldOfSave, World, InSave
    <3>4. Reads(p)'
      BY <1>1, <1>4, <3>2 DEF Reads, Restoring
    <3> QED BY <1>1, <1>2, <3>2, <3>3, <3>4, ReadsPhase, StepOf DEF Harmless
  <2>5. CASE WriteLock(p)
    <3>1. StateOf(p) = save.state
      BY <2>2, <2>3, RestoredState
    <3>2. lock' = WrittenBy(p, IF game[p].ins_chkpt THEN save.state ELSE None)
      BY <1>3, <2>3, <2>5, <3>1, LockWritten DEF WriteLock, OwnLock
    <3>3. pc'[p] = "copyin" /\ committed' = committed
      BY <1>1, <1>4, <2>5 DEF WriteLock, AfterLock, TypeOK
    <3>4. /\ game'[p].here = game[p].here /\ game'[p].inv = game[p].inv
          /\ game'[p].cur = game[p].cur /\ game'[p].exists = game[p].exists
          /\ game'[p].ins_chkpt = game[p].ins_chkpt
          /\ game'[p].havestate = game[p].ins_chkpt
      BY <1>1, <2>5 DEF WriteLock, TypeOK, Memory
    <3>5. CopiesIn(p)'
      BY <1>1, <2>2, <2>3, <3>2, <3>3, <3>4
         DEF CopiesIn, SaveAgrees, SaveComplete, Legible, WorldOfSave, World, InSave, Around
    <3>6. Reads(p)'
      BY <3>3 DEF Reads
    <3> QED BY <1>1, <1>2, <3>3, <3>5, <3>6, ReadsPhase, StepOf DEF Harmless
  <2> QED BY <2>4, <2>5
<1>5. CASE ~Restoring(p)
  <2>1. InGame(p) /\ HasLevels(p)
    BY <1>1, <1>5, PlaysHas DEF InGame
  <2>2. /\ \A l \in Level : IF l \notin game[p].exists THEN levelfile[l] = None
                            ELSE OwnGood(p, l)
        /\ game[p].ins_chkpt =>
              game[p].here \in game[p].exists /\ levelfile[game[p].here].data = game[p].cur
        /\ save = None
    BY <1>1, <2>1 DEF HasLevels, Writing
  <2>3. CASE SaveStateInLock(p)
    <3>1. /\ pc[p] = "lock" /\ game' = game /\ committed' = committed
          /\ lock.data # Garbage /\ PidIn(lock) = p
          /\ ~game[p].havestate => lock.data = None /\ committed = None
      BY <1>3, <2>1, <2>3 DEF SaveStateInLock, HasLevels, PidIn, OwnLock, ghosts
    <3>2. CASE NeedsRewriting(p)
      <4>1. lock' = BeingWritten(p) /\ pc'[p] = "writelock"
        BY <1>1, <2>3, <3>1, <3>2, CreatesAlone DEF SaveStateInLock, TypeOK
      <4>2. HasLevels(p)'
        BY <1>1, <2>2, <3>1, <4>1 DEF HasLevels, Writing, OwnGood, LevelGood
      <4>3. InGame(p)'
        BY <1>1, <1>5, <4>1 DEF InGame, Restoring
      <4> QED BY <1>1, <1>2, <4>1, <4>2, <4>3, InGamePhase, StepOf DEF Harmless
    <3>3. CASE ~NeedsRewriting(p)
      <4>1. lock' = lock /\ pc'[p] = "play" /\ ~game[p].havestate
        BY <1>5, <2>3, <3>3 DEF SaveStateInLock, TypeOK, AfterLock, NeedsRewriting
      <4>2. HasLevels(p)'
        BY <1>1, <2>2, <3>1, <4>1 DEF HasLevels, Writing, OwnGood, LevelGood
      <4>3. InGame(p)'
        BY <4>1 DEF InGame
      <4>4. FilesAgree'
        BY <1>1, <1>3, <2>2, <3>1, <4>1 DEF FilesAgree, WholeSave, LockHasState, OwnLock
      <4> QED BY <1>1, <1>2, <4>2, <4>3, <4>4, InGamePhase, StepOf
    <3> QED BY <3>2, <3>3
  <2>4. CASE WriteLock(p)
    <3>1. pc[p] = "writelock" /\ lock = BeingWritten(p)
      BY <2>1, <2>4 DEF WriteLock, HasLevels
    <3>2. lock' = WrittenBy(p, IF game[p].ins_chkpt THEN StateOf(p) ELSE None)
      BY <1>3, <2>4, <3>1, LockWritten DEF WriteLock, OwnLock
    <3>3. pc'[p] = "play" /\ committed' = IF game[p].ins_chkpt THEN WorldOf(p) ELSE None
      BY <1>5, <2>4 DEF WriteLock, AfterLock, TypeOK, Checkpointed
    <3>4. game'[p].exists = game[p].exists /\ game'[p].havestate = game[p].ins_chkpt
      BY <1>1, <2>4 DEF WriteLock, TypeOK, Memory
    <3>5. StateOf(p) \in State /\ StateOf(p) # None /\ StateOf(p) # Garbage
      BY StateOfType, ValuesAssumption
    <3>6. lock' # None
      <4>1. WrittenBy(p, IF game[p].ins_chkpt THEN StateOf(p) ELSE None) \in LockFile
        BY <3>5 DEF WrittenBy, LockFile
      <4> QED BY <3>2, <4>1, ValuesAssumption
    <3>7. lock'.data = IF game[p].ins_chkpt THEN StateOf(p) ELSE None
      BY <3>2 DEF WrittenBy
    <3>8. HasLevels(p)'
      BY <1>1, <2>2, <3>3, <3>4, <3>5, <3>7, ValuesAssumption
         DEF HasLevels, Writing, OwnGood, LevelGood
    <3>9. InGame(p)'
      BY <3>3 DEF InGame
    <3>10. FilesAgree'
      <4>1. CASE ~game[p].ins_chkpt
        BY <1>1, <2>2, <3>3, <3>6, <3>7, <4>1 DEF FilesAgree, WholeSave, LockHasState
      <4>2. CASE game[p].ins_chkpt
        <5>1. /\ Around(StateOf(p)) = game[p].exists /\ StateOf(p).here = game[p].here
              /\ StateOf(p).exists = game[p].exists
          BY <2>2, <4>2 DEF Around, StateOf
        <5>2. OnDisk[game[p].here] = game[p].cur /\ game[p].here \in Level
          BY <1>1, <2>2, <4>2 DEF OnDisk, DataIn, OwnGood, LevelGood, Memory
        <5>3. [OnDisk EXCEPT ![game[p].here] = game[p].cur] = OnDisk
          BY <5>2 DEF OnDisk
        <5>4. committed' = World(StateOf(p), OnDisk)
          BY <3>3, <4>2, <5>3 DEF WorldOf
        <5>5. OnDisk' = OnDisk
          BY <1>1 DEF OnDisk, DataIn
        <5>6. World(lock'.data, OnDisk') = World(StateOf(p), OnDisk)
          BY <3>7, <4>2, <5>5 DEF World
        <5>7. LockAgrees'
          BY <1>1, <2>2, <3>5, <3>7, <4>2, <5>1, <5>4, <5>6
             DEF LockAgrees, OwnGood, LevelGood, Around
        <5> QED BY <1>1, <2>2, <3>5, <3>6, <3>7, <4>2, <5>7
                DEF FilesAgree, WholeSave, LockHasState
      <4> QED BY <4>1, <4>2
    <3> QED BY <1>1, <1>2, <3>8, <3>9, <3>10, InGamePhase, StepOf
  <2> QED BY <2>3, <2>4
<1> QED BY <1>4, <1>5

\* While p copies levels to the save file, only CopiesOut is about it.
LEMMA SavingPhase ==
    ASSUME NEW p \in Proc, pc'[p] \in SavingPcs, CopiesOut(p)'
    PROVE  Phase(p)'
BY DEF SavingPcs, Phase, Starting, CopiesIn, Reads, HasLevels, InGame

\* dosave0, until it has written the state.
LEMMA SaveBeginsAgree ==
    ASSUME TypeOK, Separate, Agree, NEW p \in Proc, SaveLevel(p) \/ SaveGameState(p)
    PROVE  Agree'
<1> USE DEF Goto
<1>1. /\ pc[p] \in {"savelevel", "savestate"} /\ InGame(p) /\ FilesAgree
      /\ recover' = recover /\ levelfile' = levelfile /\ lock' = lock /\ game' = game
  BY CalmFiles DEF SaveLevel, SaveGameState, InGame, Harmless
<1>2. \A q \in Proc \ {p} : pc'[q] = pc[q]
  BY DEF SaveLevel, SaveGameState, TypeOK
<1>3. /\ HasLevels(p) /\ Running(p)
      /\ game[p] \in Memory /\ game[p].here \in Level /\ game[p].cur \notin {None, Garbage}
  BY <1>1, PlaysHas, ValuesAssumption DEF TypeOK, Memory
<1>4. /\ \A l \in Level : IF l \notin game[p].exists THEN levelfile[l] = None ELSE OwnGood(p, l)
      /\ save \in SaveFile /\ save.writers = {p} /\ save.readable /\ save.state = None
      /\ save.lev = [l \in Level |-> None]
      /\ pc[p] = "savestate" => save.first = game[p].cur
      /\ lock.data # Garbage /\ save # None
      /\ ~game[p].havestate => lock.data = None /\ committed = None
  BY <1>1, <1>3 DEF HasLevels, Writing, TypeOK
<1>5. CASE SaveLevel(p)
  <2>1. save' = [save EXCEPT !.first = game[p].cur]
    <3>1. PICK f \in Created(p) :
              AppendTo(p, f, [f EXCEPT !.first = game[p].cur],
                       {[f EXCEPT !.first = c] : c \in SplicedLevel(f.first, game[p].cur)})
      BY <1>5 DEF SaveLevel
    <3>2. f = save /\ \A g, spliced : AppendTo(p, f, g, spliced) => save' = g
      BY <1>1, <1>4, AppendsAlone
    <3> QED BY <3>1, <3>2
  <2>2. save' \in SaveFile
    BY <1>3, <1>4, <2>1 DEF SaveFile, Memory, Content
  <2>3. /\ save'.first = game[p].cur /\ save'.writers = {p} /\ save'.readable /\ save'.state = None
        /\ save'.lev = save.lev /\ save' # None
    BY <1>4, <2>1, <2>2, ValuesAssumption DEF SaveFile
  <2>4. pc'[p] = "savestate" /\ committed' = committed
    BY <1>5 DEF SaveLevel, TypeOK, ghosts
  <2>5. HasLevels(p)'
    BY <1>1, <1>4, <2>3, <2>4 DEF HasLevels, Writing, OwnGood, LevelGood
  <2>6. ~WholeSave(save) /\ ~WholeSave(save')
    BY <1>4, <2>3 DEF WholeSave, Legible
  <2>7. FilesAgree'
    BY <1>1, <2>3, <2>4, <2>6 DEF FilesAgree, LockHasState, LockAgrees, LevelGood, World,
                                  OnDisk, DataIn, Around
  <2>8. InGame(p)'
    BY <2>4 DEF InGame
  <2> QED BY <1>1, <1>2, <1>3, <2>5, <2>7, <2>8, InGamePhase, StepOf
<1>6. CASE SaveGameState(p)
  <2>1. save' = [save EXCEPT !.state = StateOf(p)] /\ pc[p] = "savestate"
    <3>1. PICK f \in Created(p) :
              AppendTo(p, f, [f EXCEPT !.state = StateOf(p)],
                       {[f EXCEPT !.state = s] : s \in SplicedState(f.state, StateOf(p))})
      BY <1>6 DEF SaveGameState
    <3>2. f = save /\ \A g, spliced : AppendTo(p, f, g, spliced) => save' = g
      BY <1>1, <1>4, AppendsAlone
    <3> QED BY <1>6, <3>1, <3>2 DEF SaveGameState
  <2>2. StateOf(p) \in State /\ StateOf(p) \notin {None, Garbage}
    BY StateOfType, ValuesAssumption
  <2>3. save' \in SaveFile
    BY <1>4, <2>1, <2>2 DEF SaveFile
  <2>4. /\ save'.first = game[p].cur /\ save'.writers = {p} /\ save'.readable
        /\ save'.state = StateOf(p) /\ save'.lev = [l \in Level |-> None] /\ save' # None
    BY <1>4, <2>1, <2>3, ValuesAssumption DEF SaveFile
  <2>5. /\ pc'[p] = "copyout" /\ todo'[p] = game[p].exists \ {game[p].here}
        /\ committed' = WorldOf(p)
    BY <1>6 DEF SaveGameState, TypeOK
  <2>6. StateOf(p).here = game[p].here /\ StateOf(p).exists = game[p].exists
    BY DEF StateOf
  <2>7. SaveComplete(todo[p])'
    BY <1>3, <2>2, <2>4, <2>5, <2>6 DEF SaveComplete, Legible
  <2>8. committed' = World(save'.state, [l \in Level |->
                IF l = save'.state.here THEN save'.first
                ELSE IF l \in todo'[p] THEN levelfile'[l].data ELSE save'.lev[l]])
    <3>1. ASSUME NEW l \in game[p].exists \cup {game[p].here}
          PROVE  [OnDisk EXCEPT ![game[p].here] = game[p].cur][l]
                   = IF l = game[p].here THEN game[p].cur ELSE levelfile[l].data
      BY <1>3, <1>4 DEF OnDisk, DataIn, OwnGood, LevelGood, Memory
    <3> QED BY <1>1, <1>3, <2>4, <2>5, <2>6, <3>1 DEF WorldOf, World, Memory
  <2>9. CopiesOut(p)'
    BY <1>1, <1>3, <1>4, <2>2, <2>4, <2>5, <2>6, <2>7, <2>8
       DEF CopiesOut, OwnGood, LevelGood, Memory
  <2> QED BY <1>1, <1>2, <1>3, <2>5, <2>9, SavingPhase, StepOf DEF SavingPcs, Harmless
<1> QED BY <1>5, <1>6

\* dosave0, when it copies the levels and deletes them.
LEMMA SaveAgreesOn ==
    ASSUME TypeOK, Separate, Agree, NEW p \in Proc,
           \/ DeleteLevel(p) \/ CloseSave(p) \/ DeleteHere(p) \/ DeleteLock(p)
           \/ \E l \in Level : CopyOut(p, l)
    PROVE  Agree'
<1> USE DEF Goto
<1>1. pc[p] \in SavingPcs /\ Running(p) /\ CopiesOut(p) /\ recover' = recover
  BY DEF DeleteLevel, CloseSave, DeleteHere, DeleteLock, CopyOut, SavingPcs, Running, Agree, Phase
<1>2. \A q \in Proc \ {p} : pc'[q] = pc[q]
  BY DEF DeleteLevel, CloseSave, DeleteHere, DeleteLock, Ends, CopyOut, TypeOK
<1>3. /\ save # None /\ save.writers = {p} /\ save.readable /\ save \in SaveFile
      /\ save.state # None /\ SaveComplete(todo[p])
      /\ game[p].here = save.state.here
      /\ todo[p] \subseteq save.state.exists \ {game[p].here}
      /\ todo[p] \subseteq game[p].exists
      /\ \A l \in todo[p] : OwnGood(p, l)
      /\ \A l \in Level \ (todo[p] \cup {game[p].here}) : levelfile[l] = None
      /\ levelfile[game[p].here] # None => game[p].here \in game[p].exists
      /\ committed = World(save.state, [l \in Level |->
              IF l = save.state.here THEN save.first
              ELSE IF l \in todo[p] THEN levelfile[l].data ELSE save.lev[l]])
      /\ pc[p] = "deletelevel" =>
            dest[p] \in todo[p] /\ save.lev[dest[p]] = levelfile[dest[p]].data
      /\ pc[p] \in {"deletehere", "deletelock"} => todo[p] = {}
      /\ pc[p] = "deletelock" => \A l \in Level : levelfile[l] = None
  BY <1>1 DEF CopiesOut, SavingPcs, TypeOK
<1>4. /\ Legible(save) /\ save.first # None /\ save.state \in State
      /\ game[p] \in Memory /\ game[p].here \in Level /\ todo[p] \subseteq Level
  BY <1>3 DEF SaveComplete, Legible, SaveFile, TypeOK, Memory
<1>5. ASSUME pc'[p] \in SavingPcs \ {"deletelevel"}, save' = save, committed' = committed,
             game'[p].here = game[p].here, todo'[p] \subseteq todo[p],
             todo'[p] \subseteq game'[p].exists,
             \A l \in Level : levelfile'[l] = levelfile[l] \/ levelfile'[l] = None,
             \A l \in todo'[p] : levelfile'[l] = levelfile[l],
             \A l \in todo[p] \ todo'[p] :
                 levelfile'[l] = None /\ save.lev[l] = levelfile[l].data,
             levelfile'[game[p].here] # None => game[p].here \in game'[p].exists,
             pc'[p] \in {"deletehere", "deletelock"} => todo'[p] = {},
             pc'[p] = "deletelock" => levelfile'[game[p].here] = None
      PROVE  Agree'
  <2>1. SaveComplete(todo[p])'
    <3>1. \A l \in todo[p] \ todo'[p] : save.lev[l] \notin {None, Garbage}
      <4>1. \A l \in todo[p] : levelfile[l].data \in Content /\ levelfile[l].data # Garbage
        BY <1>3, <1>4 DEF OwnGood, LevelGood, TypeOK, LevelFile
      <4>2. None \notin Content
        BY ValuesAssumption DEF Content
      <4> QED BY <1>5, <4>1, <4>2
    <3> QED BY <1>3, <1>5, <3>1 DEF SaveComplete, Legible
  <2>2. committed' = World(save'.state, [l \in Level |->
                IF l = save'.state.here THEN save'.first
                ELSE IF l \in todo'[p] THEN levelfile'[l].data ELSE save'.lev[l]])
    <3>1. [l \in Level |-> IF l = save.state.here THEN save.first
                           ELSE IF l \in todo[p] THEN levelfile[l].data ELSE save.lev[l]]
            = [l \in Level |-> IF l = save'.state.here THEN save'.first
                           ELSE IF l \in todo'[p] THEN levelfile'[l].data ELSE save'.lev[l]]
      BY <1>5
    <3> QED BY <1>3, <1>5, <3>1 DEF World
  <2>3. CopiesOut(p)'
    BY <1>3, <1>5, <2>1, <2>2 DEF CopiesOut, SavingPcs, OwnGood, LevelGood
  <2> QED BY <1>1, <1>2, <1>5, <2>3, SavingPhase, StepOf DEF SavingPcs, Harmless
<1>6. ASSUME NEW k \in Level, CopyOut(p, k) PROVE Agree'
  <2>1. OwnLevel(p, k) /\ pc[p] = "copyout" /\ k \in todo[p]
    BY <1>3, <1>6 DEF CopyOut, OwnLevel, OwnGood, LevelGood, PidIn
  <2>2. save' = [save EXCEPT !.lev[k] = levelfile[k].data]
    <3> DEFINE c == levelfile[k].data
    <3>1. PICK f \in Created(p) :
              AppendTo(p, f, [f EXCEPT !.lev[k] = c],
                       {[f EXCEPT !.lev[k] = x] : x \in SplicedLevel(f.lev[k], c)})
      BY <1>6, <2>1 DEF CopyOut
    <3>2. f = save /\ \A g, spliced : AppendTo(p, f, g, spliced) => save' = g
      BY <1>3, <2>1, AppendsAlone
    <3> QED BY <3>1, <3>2
  <2>3. levelfile[k].data \in Content
    BY <2>1 DEF OwnLevel, TypeOK, LevelFile
  <2>4. save' \in SaveFile
    BY <1>3, <2>2, <2>3 DEF SaveFile
  <2>5. /\ save' # None /\ save'.writers = {p} /\ save'.readable /\ save'.first = save.first
        /\ save'.state = save.state /\ save'.lev = [save.lev EXCEPT ![k] = levelfile[k].data]
    BY <1>3, <2>2, <2>4, ValuesAssumption DEF SaveFile
  <2>6. /\ pc'[p] = "deletelevel" /\ dest'[p] = k /\ committed' = committed
        /\ levelfile' = levelfile /\ game' = game /\ todo' = todo
    BY <1>6, <2>1 DEF CopyOut, TypeOK, ghosts
  <2>7. save'.lev[k] = levelfile[k].data /\ \A l \in Level \ {k} : save'.lev[l] = save.lev[l]
    BY <1>3, <2>5 DEF SaveFile
  <2>8. SaveComplete(todo[p])'
    BY <1>3, <2>1, <2>5, <2>6, <2>7 DEF SaveComplete, Legible
  <2>9. committed' = World(save'.state, [l \in Level |->
                IF l = save'.state.here THEN save'.first
                ELSE IF l \in todo'[p] THEN levelfile'[l].data ELSE save'.lev[l]])
    <3>1. [l \in Level |-> IF l = save.state.here THEN save.first
                           ELSE IF l \in todo[p] THEN levelfile[l].data ELSE save.lev[l]]
            = [l \in Level |-> IF l = save'.state.here THEN save'.first
                           ELSE IF l \in todo'[p] THEN levelfile'[l].data ELSE save'.lev[l]]
      BY <2>1, <2>5, <2>6, <2>7
    <3> QED BY <1>3, <2>5, <2>6, <3>1 DEF World
  <2>10. CopiesOut(p)'
    BY <1>3, <2>1, <2>5, <2>6, <2>7, <2>8, <2>9 DEF CopiesOut, OwnGood, LevelGood
  <2> QED BY <1>1, <1>2, <2>6, <2>10, SavingPhase, StepOf DEF SavingPcs, Harmless
<1>7. CASE DeleteLevel(p)
  <2>1. dest[p] \in todo[p] /\ save.lev[dest[p]] = levelfile[dest[p]].data
    BY <1>3, <1>7 DEF DeleteLevel
  <2>2. /\ pc'[p] = "copyout" /\ todo'[p] = todo[p] \ {dest[p]} /\ save' = save
        /\ committed' = committed /\ levelfile' = [levelfile EXCEPT ![dest[p]] = None]
    BY <1>3, <1>7, <2>1 DEF DeleteLevel, DeleteLevelFile, Copied, TypeOK, ghosts
  <2>3. game'[p].here = game[p].here /\ game'[p].exists = game[p].exists \ {dest[p]}
    BY <1>7 DEF DeleteLevel, DeleteLevelFile, TypeOK, Memory
  <2> QED BY <1>3, <1>4, <1>5, <2>1, <2>2, <2>3 DEF SavingPcs, TypeOK
<1>8. CASE CloseSave(p)
  <2>1. /\ pc'[p] = "deletehere" /\ todo' = todo /\ todo[p] = {} /\ save' = save
        /\ committed' = committed /\ levelfile' = levelfile /\ game' = game
    BY <1>8 DEF CloseSave, TypeOK, files, ghosts
  <2> QED BY <1>3, <1>5, <2>1 DEF SavingPcs
<1>9. CASE DeleteHere(p)
  <2>1. /\ pc'[p] = "deletelock" /\ todo' = todo /\ todo[p] = {} /\ save' = save
        /\ committed' = committed
        /\ levelfile' = [levelfile EXCEPT ![game[p].here] =
                             IF game[p].here \in game[p].exists THEN None ELSE @]
    BY <1>3, <1>9 DEF DeleteHere, DeleteLevelFile, TypeOK, ghosts
  <2>2. game'[p].here = game[p].here /\ levelfile'[game[p].here] = None
    BY <1>3, <1>4, <1>9, <2>1 DEF DeleteHere, DeleteLevelFile, TypeOK, Memory
  <2> QED BY <1>3, <1>4, <1>5, <2>1, <2>2 DEF SavingPcs, TypeOK
<1>10. CASE DeleteLock(p)
  <2>1. /\ pc'[p] = "dead" /\ todo[p] = {} /\ save' = save /\ committed' = committed
        /\ levelfile' = levelfile /\ lock' = None /\ \A l \in Level : levelfile[l] = None
    BY <1>3, <1>10 DEF DeleteLock, Ends, TypeOK, ghosts
  <2>2. WholeSave(save')
    BY <1>3, <1>4, <2>1 DEF WholeSave, Legible
  <2>3. committed = WorldOfSave(save)
    <3>1. [l \in Level |-> IF l = save.state.here THEN save.first
                           ELSE IF l \in todo[p] THEN levelfile[l].data ELSE save.lev[l]]
            = [save.lev EXCEPT ![save.state.here] = save.first]
      BY <1>3, <2>1 DEF SaveFile
    <3> QED BY <1>3, <3>1 DEF WorldOfSave
  <2>4. SaveAgrees'
    BY <1>3, <2>1, <2>3 DEF SaveAgrees, SaveComplete, Legible, WorldOfSave, World
  <2>5. FilesAgree'
    BY <1>3, <2>1, <2>2, <2>4 DEF FilesAgree, LockHasState
  <2> QED BY <1>1, <1>2, <2>1, <2>5, EndedPhase, StepOf
<1> QED BY <1>6, <1>7, <1>8, <1>9, <1>10

\* dorecover, until it has read level and state.
LEMMA RestoreBeginsAgree ==
    ASSUME TypeOK, Separate, Agree, NEW p \in Proc, DoRecover(p)
    PROVE  Agree'
<1> USE DEF Goto
<1>1. /\ pc[p] = "reading" /\ Running(p) /\ recover' = recover /\ Starting(p)
      /\ lock' = lock /\ levelfile' = levelfile /\ committed' = committed
  BY DEF DoRecover, Running, Agree, Phase, ghosts
<1>2. opened[p] = save /\ save # None /\ save \in SaveFile /\ lock # None
  BY <1>1, OpenedIsSave DEF TypeOK, Separate, OwnsLock, HoldsLock
<1>3. /\ lock.data = None /\ \A l \in Level : levelfile[l] = None
      /\ IF Legible(save) THEN SaveAgrees ELSE committed = None
  BY <1>1 DEF Starting
<1>4. \A q \in Proc \ {p} : pc'[q] = pc[q]
  BY DEF DoRecover, RestoreFails, Ends, TypeOK
<1>5. CASE Legible(save)
  <2>1. /\ pc'[p] = "lock" /\ todo'[p] = InSave(save) /\ save' = save
        /\ game'[p] = [here |-> save.state.here, inv |-> save.state.inv,
                       exists |-> save.state.exists, cur |-> save.first,
                       ins_chkpt |-> save.state.ins_chkpt, havestate |-> TRUE]
    BY <1>2, <1>5 DEF DoRecover, TypeOK
  <2>2. SaveAgrees'
    BY <1>1, <1>3, <1>5, <2>1 DEF SaveAgrees, SaveComplete, Legible, WorldOfSave, World
  <2>3. CopiesIn(p)'
    BY <1>1, <1>3, <2>1, <2>2 DEF CopiesIn, InSave
  <2>4. Reads(p)'
    BY <2>1 DEF Reads, Restoring, InSave
  <2> QED BY <1>1, <1>4, <2>1, <2>3, <2>4, ReadsPhase, StepOf DEF Harmless
<1>6. CASE ~Legible(save)
  <2>1. save' = None /\ pc'[p] = "dead" /\ committed = None
    BY <1>2, <1>3, <1>6 DEF DoRecover, RestoreFails, Ends, TypeOK
  <2>2. FilesAgree'
    BY <1>1, <1>2, <1>3, <2>1 DEF FilesAgree, WholeSave, LockHasState
  <2> QED BY <1>1, <1>4, <2>1, <2>2, EndedPhase, StepOf
<1> QED BY <1>5, <1>6

\* dorecover, when it makes the level files.
LEMMA CopyInAgrees ==
    ASSUME TypeOK, Separate, Agree, NEW p \in Proc,
           CopyWrite(p) \/ \E l \in Level : CopyIn(p, l)
    PROVE  Agree'
<1> USE DEF Goto
<1>1. /\ pc[p] \in {"copyin", "copywrite"} /\ Reads(p) /\ recover' = recover /\ lock' = lock
      /\ committed' = committed
  BY DEF CopyWrite, CopyIn, Reads, ghosts
<1>2. /\ Running(p) /\ CopiesIn(p) /\ save \in SaveFile /\ save # None /\ opened[p] = save
      /\ SaveAgrees /\ save.state \in State /\ game[p].here = save.state.here
      /\ InSave(save) \subseteq Level /\ todo[p] \subseteq InSave(save)
      /\ \A l \in InSave(save) : FromSave(p, l) \notin {None, Garbage}
  BY <1>1, SavedLevels
<1>3. /\ game[p].inv = save.state.inv /\ game[p].cur = save.first
      /\ game[p].ins_chkpt = save.state.ins_chkpt
      /\ \A l \in Level \ InSave(save) : levelfile[l] = None
      /\ lock = WrittenBy(p, IF game[p].ins_chkpt THEN save.state ELSE None)
      /\ game[p].havestate = game[p].ins_chkpt
      /\ save.state.exists \subseteq game[p].exists /\ game[p].exists \subseteq InSave(save)
      /\ \A l \in InSave(save) \ todo[p] :
            l \in game[p].exists /\ levelfile[l] = WrittenBy(p, FromSave(p, l))
      /\ pc[p] = "copywrite" =>
            dest[p] \in game[p].exists /\ levelfile[dest[p]] = BeingWritten(p)
  BY <1>1, <1>2 DEF CopiesIn
<1>4. \A q \in Proc \ {p} : pc'[q] = pc[q]
  BY DEF CopyWrite, CopyIn, RestoreFails, Ends, TypeOK
<1>5. ASSUME save' = save, opened' = opened, game'[p].here = game[p].here
      PROVE  SaveAgrees' /\ \A l \in InSave(save) : FromSave(p, l)' = FromSave(p, l)
  BY <1>1, <1>2, <1>5 DEF SaveAgrees, SaveComplete, Legible, WorldOfSave, World, FromSave
<1>6. ASSUME NEW k \in Level, CopyIn(p, k) PROVE Agree'
  <2>1. k \in InSave(save) /\ FromSave(p, k) # Garbage /\ k \in todo[p]
    BY <1>2, <1>6 DEF CopyIn
  <2>2. /\ pc'[p] = "copywrite" /\ dest'[p] = k /\ todo' = todo /\ save' = save
        /\ opened' = opened /\ levelfile' = [levelfile EXCEPT ![k] = BeingWritten(p)]
    BY <1>2, <1>6, <2>1, CreatesAlone DEF CopyIn, CreateLevelFile, TypeOK
  <2>3. /\ game'[p].here = game[p].here /\ game'[p].inv = game[p].inv
        /\ game'[p].cur = game[p].cur /\ game'[p].exists = game[p].exists \cup {k}
        /\ game'[p].ins_chkpt = game[p].ins_chkpt /\ game'[p].havestate = game[p].havestate
    BY <1>6, <2>1 DEF CopyIn, Noted, TypeOK, Memory
  <2>4. SaveAgrees' /\ \A l \in InSave(save) : FromSave(p, l)' = FromSave(p, l)
    BY <1>5, <2>2, <2>3
  <2>5. levelfile'[k] = BeingWritten(p) /\ \A l \in Level \ {k} : levelfile'[l] = levelfile[l]
    BY <2>2 DEF TypeOK
  <2>6. CopiesIn(p)'
    BY <1>1, <1>2, <1>3, <2>1, <2>2, <2>3, <2>4, <2>5 DEF CopiesIn, InSave
  <2>7. Reads(p)'
    BY <2>2 DEF Reads
  <2> QED BY <1>1, <1>2, <1>4, <2>2, <2>6, <2>7, ReadsPhase, StepOf DEF Harmless
<1>7. CASE CopyWrite(p)
  <2>1. pc[p] = "copywrite" /\ dest[p] \in InSave(save) /\ dest[p] \in Level
    BY <1>2, <1>3, <1>7 DEF CopyWrite
  <2>2. levelfile' = [levelfile EXCEPT ![dest[p]] = WrittenBy(p, FromSave(p, dest[p]))]
    BY <1>3, <1>7, <2>1, Written DEF CopyWrite
  <2>3. /\ pc'[p] = "copyin" /\ todo'[p] = todo[p] \ {dest[p]} /\ save' = save
        /\ opened' = opened /\ game' = game
    BY <1>7 DEF CopyWrite, Copied, TypeOK
  <2>4. SaveAgrees' /\ \A l \in InSave(save) : FromSave(p, l)' = FromSave(p, l)
    BY <1>5, <2>3
  <2>5. /\ levelfile'[dest[p]] = WrittenBy(p, FromSave(p, dest[p]))
        /\ \A l \in Level \ {dest[p]} : levelfile'[l] = levelfile[l]
    BY <2>1, <2>2 DEF TypeOK
  <2>6. CopiesIn(p)'
    BY <1>1, <1>2, <1>3, <2>1, <2>3, <2>4, <2>5 DEF CopiesIn, InSave
  <2>7. Reads(p)'
    BY <2>3 DEF Reads
  <2> QED BY <1>1, <1>2, <1>4, <2>3, <2>6, <2>7, ReadsPhase, StepOf DEF Harmless
<1> QED BY <1>6, <1>7

\* What a game that was restored starts with: the world of the save file, and
\* with checkpoints on the level files and the state of it.
LEMMA RecoveredAgrees ==
    ASSUME TypeOK, Separate, Agree, NEW p \in Proc, Recovered(p)
    PROVE  /\ Agree' /\ WorldOf(p)' = committed
           /\ WorldOf(p) = committed /\ \A l \in game[p].exists : LevelGood(l)
<1> USE DEF Goto
<1>1. /\ pc[p] = "copyin" /\ Reads(p) /\ recover' = recover /\ lock' = lock /\ todo[p] = {}
      /\ todo' = todo /\ save' = None /\ levelfile' = levelfile /\ game' = game
      /\ committed' = IF game[p].ins_chkpt THEN WorldOf(p) ELSE None
      /\ pc'[p] = "play"
  BY DEF Recovered, Reads, Checkpointed, TypeOK
<1>2. /\ Running(p) /\ CopiesIn(p) /\ OwnLock(p)
      /\ save \in SaveFile /\ opened[p] = save /\ SaveAgrees
      /\ save.state \in State /\ game[p].here = save.state.here
      /\ Around(save.state) = InSave(save) /\ InSave(save) \subseteq Level
      /\ \A l \in InSave(save) : FromSave(p, l) \notin {None, Garbage}
  BY <1>1, SavedLevels
<1>3. /\ game[p].inv = save.state.inv /\ game[p].cur = save.first
      /\ \A l \in Level \ InSave(save) : levelfile[l] = None
      /\ lock = WrittenBy(p, IF game[p].ins_chkpt THEN save.state ELSE None)
      /\ game[p].havestate = game[p].ins_chkpt
      /\ game[p].exists \subseteq InSave(save)
      /\ \A l \in InSave(save) :
            l \in game[p].exists /\ levelfile[l] = WrittenBy(p, FromSave(p, l))
  BY <1>1, <1>2 DEF CopiesIn
<1>4. game[p].exists = InSave(save) /\ game[p].here \in InSave(save)
      /\ save.state.exists \cup {save.state.here} = InSave(save)
  BY <1>2, <1>3 DEF InSave, Around
<1>5. lock.data = IF game[p].ins_chkpt THEN save.state ELSE None
  BY <1>3 DEF WrittenBy
<1>6. \A l \in InSave(save) : /\ levelfile[l] # None /\ levelfile[l].pid = p
                              /\ levelfile[l].data = FromSave(p, l)
  <2>1. ASSUME NEW l \in InSave(save) PROVE levelfile[l] # None
    <3>1. FromSave(p, l) \in Content
      <4>1. HasFile(p) /\ Finds(p, l) /\ l \in Level
        BY <1>1, <1>2 DEF Separate, Orderly, Finds, InSave
      <4> QED BY <1>1, <4>1, FromSaveType
    <3>2. WrittenBy(p, FromSave(p, l)) \in LevelFile
      BY <3>1 DEF WrittenBy, LevelFile
    <3> QED BY <1>3, <3>2, ValuesAssumption
  <2>2. ASSUME NEW l \in InSave(save)
        PROVE  levelfile[l].pid = p /\ levelfile[l].data = FromSave(p, l)
    <3>1. levelfile[l] = WrittenBy(p, FromSave(p, l))
      BY <1>3
    <3> QED BY <3>1 DEF WrittenBy
  <2> QED BY <2>1, <2>2
<1>7. \A l \in InSave(save) :
          /\ OnDisk[l] = [save.lev EXCEPT ![save.state.here] = save.first][l]
          /\ [OnDisk EXCEPT ![game[p].here] = game[p].cur][l] = OnDisk[l]
  BY <1>2, <1>3, <1>6 DEF OnDisk, DataIn, FromSave, SaveFile
<1>8. WorldOf(p) = committed
  <2>1. /\ StateOf(p).here = save.state.here /\ StateOf(p).inv = save.state.inv
        /\ StateOf(p).exists = game[p].exists
    BY <1>2, <1>3 DEF StateOf
  <2>2. committed = World(save.state, [save.lev EXCEPT ![save.state.here] = save.first])
    BY <1>2 DEF SaveAgrees, WorldOfSave
  <2>3. StateOf(p).exists \cup {StateOf(p).here} = InSave(save)
    BY <1>2, <1>4, <2>1
  <2> QED BY <1>2, <1>4, <1>7, <2>1, <2>2, <2>3 DEF WorldOf, World
<1>9. WorldOf(p)' = committed
  BY <1>1, <1>8 DEF WorldOf, StateOf, World, OnDisk, DataIn
<1>10. HasLevels(p)'
  BY <1>1, <1>2, <1>3, <1>4, <1>5, <1>6, ValuesAssumption
     DEF HasLevels, Writing, OwnGood, LevelGood
<1>11. FilesAgree'
  <2>1. CASE ~game[p].ins_chkpt
    BY <1>1, <1>2, <1>5, <2>1 DEF FilesAgree, WholeSave, LockHasState, OwnLock
  <2>2. CASE game[p].ins_chkpt
    <3>1. World(save.state, OnDisk) = committed
      BY <1>2, <1>4, <1>7 DEF SaveAgrees, WorldOfSave, World
    <3>2. lock'.data = save.state /\ lock'.data \notin {None, Garbage}
      BY <1>1, <1>2, <1>5, <2>2, ValuesAssumption
    <3>3. World(lock'.data, OnDisk') = World(save.state, OnDisk)
      BY <1>1, <3>2 DEF World, OnDisk, DataIn
    <3>4. LockAgrees'
      BY <1>1, <1>2, <1>3, <1>6, <1>8, <2>2, <3>1, <3>2, <3>3 DEF LockAgrees, LevelGood, Around
    <3> QED BY <1>1, <1>2, <3>2, <3>4 DEF FilesAgree, WholeSave, LockHasState, OwnLock
  <2> QED BY <2>1, <2>2
<1>12. InGame(p)' /\ \A q \in Proc \ {p} : pc'[q] = pc[q]
  BY <1>1 DEF InGame, Recovered, TypeOK
<1>13. \A l \in game[p].exists : LevelGood(l)
  BY <1>2, <1>4, <1>6 DEF LevelGood
<1> QED BY <1>1, <1>2, <1>8, <1>9, <1>10, <1>11, <1>12, <1>13, InGamePhase, StepOf

\* What recover does has no part in what is about a process.
LEMMA NoGamePhases ==
    ASSUME NoGame, pc' = pc
    PROVE  \A p \in Proc : Phase(p)'
<1> SUFFICES ASSUME NEW p \in Proc PROVE Phase(p)'
  OBVIOUS
<1>1. pc'[p] \in {"idle", "dead"}
  BY DEF NoGame
<1> QED BY <1>1, EndedPhase

\* The utility recover.
LEMMA RecoverAgrees ==
    ASSUME TypeOK, Separate, Agree,
           \/ RecoverStart \/ RecoverLevel \/ RecoverState \/ RecoverDone
           \/ \E l \in Level : RecoverOther(l)
    PROVE  Agree'
<1>1. /\ NoGame /\ Recovers /\ pc' = pc /\ committed' = committed
  BY DEF Agree, Separate, Orderly, RunsAlone, RecoverStart, RecoverLevel, RecoverState, RecoverDone,
         RecoverOther, ghosts
<1>2. ASSUME recover' # "idle", Recovers' PROVE Agree'
  BY <1>1, <1>2, NoGamePhases DEF Agree, Calm
<1>3. recover # "idle" => save \in SaveFile /\ save # None /\ save.readable
  BY <1>1 DEF Separate, Orderly, RecoverHasFiles, Recovers, TypeOK
<1>4. CASE RecoverStart
  <2>1. FilesAgree /\ ~WholeSave(save) /\ LockHasState /\ LockAgrees
    BY <1>1, <1>4, CalmFiles DEF RecoverStart, FilesAgree, LockHasState
  <2>2. /\ save' = EmptySave({}) /\ recover' = "level" /\ lock' = lock
        /\ levelfile' = levelfile
    BY <1>4 DEF RecoverStart
  <2>3. LockAgrees'
    BY <1>1, <2>1, <2>2 DEF LockAgrees, LevelGood, World, OnDisk, DataIn, Around
  <2>4. Recovers'
    BY <2>2, <2>3 DEF Recovers, EmptySave
  <2> QED BY <1>2, <2>2, <2>4
<1>5. CASE RecoverLevel
  <2>1. /\ save = EmptySave({}) /\ LockAgrees /\ lock # None /\ lock.data # None
        /\ save \in SaveFile
    BY <1>1, <1>3, <1>5 DEF RecoverLevel, Recovers, Separate, Orderly, RecoverHasFiles
  <2>2. /\ lock.data \in State /\ lock.data.here \in Level
        /\ LevelInLock = lock.data.here /\ LevelGood(lock.data.here)
    BY <2>1 DEF LevelInLock, LockAgrees, TypeOK, LockFile, State, Around
  <2>3. /\ save' = [save EXCEPT !.first = levelfile[lock.data.here].data]
        /\ levelfile' = [levelfile EXCEPT ![lock.data.here] = None]
        /\ recover' = "state" /\ lock' = lock
    BY <1>5, <2>2 DEF RecoverLevel, LevelGood
  <2>4. /\ save'.first = levelfile[lock.data.here].data /\ save'.readable
        /\ save'.lev = [l \in Level |-> None]
    BY <2>1, <2>3 DEF EmptySave
  <2>5. levelfile[lock.data.here].data \notin {None, Garbage}
    <3>1. levelfile[lock.data.here].data \in Content
      BY <2>2 DEF LevelGood, TypeOK, LevelFile
    <3> QED BY <2>2, <3>1, ValuesAssumption DEF LevelGood, Content
  <2>6. /\ levelfile'[lock.data.here] = None
        /\ \A l \in Level \ {lock.data.here} : levelfile'[l] = levelfile[l]
    BY <2>2, <2>3 DEF TypeOK
  <2>7. OnDisk = [OnDisk' EXCEPT ![lock.data.here] = save'.first]
    BY <2>2, <2>4, <2>6 DEF OnDisk, DataIn, LevelGood
  <2>8. committed' = World(lock'.data, [OnDisk' EXCEPT ![lock'.data.here] = save'.first])
    BY <1>1, <2>1, <2>3, <2>7 DEF LockAgrees
  <2>9. Recovers'
    BY <2>1, <2>2, <2>3, <2>4, <2>5, <2>6, <2>8 DEF Recovers, LockAgrees, LevelGood, Around
  <2> QED BY <1>2, <2>3, <2>9
<1>6. CASE RecoverState
  <2>1. /\ lock.data # Garbage /\ lock # None /\ lock.data # None /\ save \in SaveFile
        /\ save.first \notin {None, Garbage} /\ save.lev = [l \in Level |-> None]
        /\ levelfile[lock.data.here] = None /\ save.readable
        /\ \A l \in Level \ {lock.data.here} :
              IF l \in lock.data.exists THEN LevelGood(l) ELSE levelfile[l] = None
        /\ committed = World(lock.data, [OnDisk EXCEPT ![lock.data.here] = save.first])
    BY <1>1, <1>3, <1>6 DEF RecoverState, Recovers, Separate, Orderly, RecoverHasFiles
  <2>2. lock.data \in State /\ lock.data.here \in Level
    BY <2>1 DEF TypeOK, LockFile, State
  <2>3. /\ save' = [save EXCEPT !.state = lock.data] /\ lock' = None /\ recover' = "others"
        /\ levelfile' = levelfile
    BY <1>6 DEF RecoverState
  <2>4. /\ save'.first = save.first /\ save'.state = lock.data /\ save'.lev = save.lev
        /\ save'.readable
    BY <2>1, <2>3 DEF SaveFile
  <2>5. committed' = World(save'.state, [l \in Level |->
                IF l = save'.state.here THEN save'.first
                ELSE IF levelfile'[l] # None THEN levelfile'[l].data ELSE save'.lev[l]])
    <3>1. [OnDisk EXCEPT ![lock.data.here] = save.first]
            = [l \in Level |-> IF l = save'.state.here THEN save'.first
                ELSE IF levelfile'[l] # None THEN levelfile'[l].data ELSE save'.lev[l]]
      BY <2>1, <2>2, <2>3, <2>4 DEF OnDisk, DataIn
    <3> QED BY <1>1, <2>1, <2>4, <3>1
  <2>6. Recovers'
    BY <2>1, <2>2, <2>3, <2>4, <2>5 DEF Recovers, Legible, LevelGood
  <2> QED BY <1>2, <2>3, <2>6
<1>7. ASSUME recover = "others"
      PROVE  /\ lock = None /\ Legible(save) /\ save.first # None /\ save \in SaveFile
             /\ save.readable /\ save # None
             /\ levelfile[save.state.here] = None
             /\ \A l \in Level \ {save.state.here} :
                   IF l \in save.state.exists
                   THEN \/ LevelGood(l)
                        \/ (levelfile[l] = None /\ save.lev[l] \notin {None, Garbage})
                   ELSE levelfile[l] = None /\ save.lev[l] = None
             /\ committed = World(save.state, [l \in Level |->
                   IF l = save.state.here THEN save.first
                   ELSE IF levelfile[l] # None THEN levelfile[l].data ELSE save.lev[l]])
  BY <1>1, <1>3, <1>7 DEF Recovers
<1>8. ASSUME NEW k \in Level, RecoverOther(k) PROVE Agree'
  <2>1. /\ recover = "others" /\ recover' = "others" /\ lock' = lock /\ levelfile[k] # None
        /\ save' = [save EXCEPT !.lev[k] = levelfile[k].data]
        /\ levelfile' = [levelfile EXCEPT ![k] = None]
    BY <1>8 DEF RecoverOther
  <2>2. k # save.state.here /\ k \in save.state.exists /\ LevelGood(k)
    BY <1>7, <2>1
  <2>3. levelfile[k].data \notin {None, Garbage}
    <3>1. levelfile[k].data \in Content
      BY <2>2 DEF LevelGood, TypeOK, LevelFile
    <3> QED BY <2>2, <3>1, ValuesAssumption DEF LevelGood, Content
  <2>4. /\ save'.first = save.first /\ save'.state = save.state /\ save'.readable
        /\ save'.lev[k] = levelfile[k].data
        /\ \A l \in Level \ {k} : save'.lev[l] = save.lev[l]
    BY <1>7, <2>1 DEF SaveFile
  <2>5. levelfile'[k] = None /\ \A l \in Level \ {k} : levelfile'[l] = levelfile[l]
    BY <2>1 DEF TypeOK
  <2>6. committed' = World(save'.state, [l \in Level |->
                IF l = save'.state.here THEN save'.first
                ELSE IF levelfile'[l] # None THEN levelfile'[l].data ELSE save'.lev[l]])
    <3>1. [l \in Level |-> IF l = save.state.here THEN save.first
                ELSE IF levelfile[l] # None THEN levelfile[l].data ELSE save.lev[l]]
            = [l \in Level |-> IF l = save'.state.here THEN save'.first
                ELSE IF levelfile'[l] # None THEN levelfile'[l].data ELSE save'.lev[l]]
      BY <2>1, <2>2, <2>4, <2>5
    <3> QED BY <1>1, <1>7, <2>1, <2>4, <3>1
  <2>7. Recovers'
    BY <1>7, <2>1, <2>2, <2>3, <2>4, <2>5, <2>6 DEF Recovers, Legible, LevelGood
  <2> QED BY <1>2, <2>1, <2>7
<1>9. CASE RecoverDone
  <2>1. /\ recover = "others" /\ recover' = "idle" /\ \A l \in Level : levelfile[l] = None
        /\ levelfile' = levelfile /\ lock' = lock /\ save' = save
    BY <1>9 DEF RecoverDone, files
  <2>2. SaveComplete({})
    BY <1>7, <2>1 DEF SaveComplete, LevelGood
  <2>3. committed = WorldOfSave(save)
    <3>1. [l \in Level |-> IF l = save.state.here THEN save.first
                ELSE IF levelfile[l] # None THEN levelfile[l].data ELSE save.lev[l]]
            = [save.lev EXCEPT ![save.state.here] = save.first]
      BY <1>7, <2>1 DEF SaveFile
    <3> QED BY <1>7, <2>1, <3>1 DEF WorldOfSave
  <2>4. FilesAgree
    BY <1>7, <2>1, <2>2, <2>3 DEF FilesAgree, WholeSave, SaveAgrees, LockHasState
  <2>5. FilesAgree'
    BY <1>1, <2>1, <2>4, FilesStay
  <2>6. Recovers'
    BY <2>1 DEF Recovers
  <2> QED BY <1>1, <2>5, <2>6, NoGamePhases DEF Agree
<1> QED BY <1>4, <1>5, <1>6, <1>8, <1>9

\* A crash between level changes, or before dosave0 has written the state.
LEMMA CrashAgrees ==
    ASSUME TypeOK, Separate, Agree, NEW p \in Proc, Crash(p), ~torn'
    PROVE  Agree'
<1>1. pc[p] \in Harmless
  BY DEF Crash
<1>2. Running(p) /\ FilesAgree
  BY <1>1, CalmFiles DEF Running, Harmless
<1>3. pc'[p] = "dead" /\ \A q \in Proc \ {p} : pc'[q] = pc[q]
  BY DEF Crash, Ends, Goto, TypeOK
<1>4. FilesAgree'
  BY <1>2, FilesStay DEF Crash, files
<1>5. recover' = recover
  BY DEF Crash
<1> QED BY <1>2, <1>3, <1>4, <1>5, EndedPhase, StepOf

\* What was torn once stays so.
LEMMA StaysTorn ==
    ASSUME TypeOK, [Next]_vars, ~torn'
    PROVE  ~torn
BY DEF TypeOK, Next, vars, Plays, Proceeds, RecoverProceeds, GetLock, WritePid, RestoreSavedGame,
       NewGame, Pickup, Drop, SetCheckpointOption, Done, Tricked, GotoLevel, Leave, Enter,
       Checkpoint, Rewrite, SaveStateInLock, WriteLock, DoSave, SaveLevel, SaveGameState,
       CopyOut, DeleteLevel, CloseSave, DeleteHere, DeleteLock, DoRecover, CopyIn, CopyWrite,
       Recovered, RecoverStart, RecoverLevel, RecoverState, RecoverOther, RecoverDone, Crash,
       RecoverCrash, ghosts

\* Every step keeps the files in agreement, until something is torn.
LEMMA StepAgree ==
    ASSUME Answers = {}, IInv, [Next]_vars
    PROVE  ~torn' => Agree'
<1> SUFFICES ASSUME ~torn' PROVE Agree'
  OBVIOUS
<1>1. ~torn
  BY StaysTorn DEF IInv
<1>2. TypeOK /\ Separate /\ Agree
  BY <1>1 DEF IInv
<1>3. ASSUME NEW p \in Proc, Tricked(p) PROVE FALSE
  BY <1>2, <1>3 DEF Tricked, Agree, Phase
<1>4. ASSUME NEW p \in Proc, Proceeds(p) PROVE Agree'
  BY <1>2, <1>3, <1>4, StartAgrees, ChangeAgrees, LockAgreesWith, SaveBeginsAgree, SaveAgreesOn,
     RestoreBeginsAgree, CopyInAgrees, RecoveredAgrees DEF Proceeds
<1>5. CASE UNCHANGED vars
  <2>1. Agree = Agree'
    BY <1>5 DEF vars, Agree, Calm, FilesAgree, WholeSave, Legible, SaveAgrees, SaveComplete,
       WorldOfSave, World, LockHasState, LockAgrees, Around, LevelGood, OnDisk, DataIn,
       Recovers, Phase, Starting, CopiesIn, Reads, Restoring, InSave, FromSave,
       HasLevels, InGame, Writing, OwnGood, CopiesOut
  <2> QED BY <1>2, <2>1
<1>6. ~RecoverCrash
  BY DEF RecoverCrash
<1> QED
  BY <1>2, <1>4, <1>5, <1>6, StartAgrees, PlayAgrees, CrashAgrees, RecoverAgrees
     DEF Next, RecoverProceeds

\* The invariant is inductive.
LEMMA Inductive ==
    ASSUME Answers = {}
    PROVE  Spec => []IInv
<1>1. Init => IInv
  <2> SUFFICES ASSUME Init PROVE IInv
    OBVIOUS
  <2>1. FilesAgree
    BY DEF Init, FilesAgree, WholeSave, LockHasState
  <2>2. Recovers
    BY DEF Init, Recovers
  <2>3. \A p \in Proc : Phase(p)
    BY DEF Init, Phase, Starting, CopiesIn, Reads, HasLevels, InGame, CopiesOut
  <2> QED BY <2>1, <2>2, <2>3, InitSeparate DEF IInv, Agree
<1>2. IInv /\ [Next]_vars => IInv'
  BY StepTypeOK, StepSeparate, StepAgree DEF IInv, Separate
<1> QED BY <1>1, <1>2, PTL DEF Spec

\* Between level changes, all through a restore, and in dosave0 until it copies
\* the first level, the files hold exactly the world of the last checkpoint or
\* save, whatever crashed there before: what save_currentstate, dosave0,
\* dorecover and recover write agrees.
THEOREM FilesKeepTheCommitted ==
    ASSUME Answers = {}
    PROVE  Spec => []KeptIsCommitted
<1>1. ASSUME IInv PROVE KeptIsCommitted
  <2> SUFFICES ASSUME Settled, ~torn PROVE Kept = committed
    BY DEF KeptIsCommitted
  <2>1. TypeOK /\ Separate /\ Agree
    BY <1>1 DEF IInv
  <2>2. CASE Calm
    <3>1. FilesAgree
      BY <2>1, <2>2 DEF Agree
    <3> QED BY <3>1 DEF FilesAgree, SaveAgrees, LockHasState, LockAgrees, Kept
  <2>3. ASSUME NEW p \in Proc, pc[p] = "reading" PROVE Kept = committed
    <3>1. /\ save # None /\ lock.data = None
          /\ IF Legible(save) THEN SaveAgrees ELSE committed = None
      BY <2>1, <2>3, OpenedIsSave DEF Agree, Phase, Starting
    <3> QED BY <3>1 DEF Kept, WholeSave, SaveAgrees
  <2>4. ASSUME NEW p \in Proc, Reads(p) PROVE Kept = committed
    <3>1. SaveAgrees
      BY <2>1, <2>4, SavedLevels
    <3> QED BY <3>1 DEF Kept, WholeSave, SaveAgrees, SaveComplete
  <2> QED BY <2>2, <2>3, <2>4 DEF Settled, Calm, Reads
<1> QED BY <1>1, Inductive, PTL

\* Only Recovered lets p go on with a restored game.
LEMMA ResumesByRecovered ==
    ASSUME TypeOK, NEW p \in Proc, Resumes(p), [Next]_vars
    PROVE  Recovered(p)
<1> USE DEF Goto
<1>1. pc[p] = "copyin" /\ pc'[p] = "play"
  BY DEF Resumes
<1>2. pc' # pc
  BY <1>1
<1>3. ASSUME NEW q \in Proc, GetLock(q) \/ Plays(q) \/ Proceeds(q) \/ Crash(q)
      PROVE  q = p
  <2>1. pc' = pc \/ \E w \in Pc : pc' = [pc EXCEPT ![q] = w]
    BY <1>3 DEF GetLock, WritePid, Plays, Proceeds, Crash, RestoreSavedGame, NewGame, Pickup, Drop,
         SetCheckpointOption, Done, Tricked, Cleared, Ends, GotoLevel, Leave, Enter, Checkpoint,
         Rewrite, SaveStateInLock, AfterLock, WriteLock, DoSave, SaveLevel, SaveGameState,
         CopyOut, DeleteLevel, CloseSave, DeleteHere, DeleteLock, DoRecover, RestoreFails,
         CopyIn, CopyWrite, Recovered, Pc
  <2> QED BY <1>1, <2>1 DEF TypeOK
<1>4. ASSUME NEW q \in Proc, GetLock(q) \/ Plays(q) \/ Proceeds(q) \/ Crash(q)
      PROVE  Recovered(p)
  <2>1. GetLock(p) \/ Plays(p) \/ Proceeds(p) \/ Crash(p)
    BY <1>3, <1>4
  <2>2. ~GetLock(p) /\ ~Plays(p) /\ ~Crash(p)
    BY <1>1 DEF GetLock, Plays, Pickup, Drop, SetCheckpointOption, Done, GotoLevel, DoSave,
                Crash, Ends, TypeOK
  <2>3. Recovered(p) \/ \E l \in Level : CopyIn(p, l)
    BY <1>1, <2>1, <2>2 DEF Proceeds, WritePid, RestoreSavedGame, NewGame, Tricked, Leave, Enter,
         Checkpoint, Rewrite, SaveStateInLock, WriteLock, SaveLevel, SaveGameState, CopyOut,
         DeleteLevel, CloseSave, DeleteHere, DeleteLock, DoRecover, CopyWrite
  <2>4. ASSUME NEW l \in Level, CopyIn(p, l) PROVE FALSE
    BY <1>1, <2>4 DEF CopyIn, RestoreFails, Ends, TypeOK
  <2> QED BY <2>3, <2>4
<1>5. ~UNCHANGED vars /\ ~RecoverStart /\ ~RecoverProceeds /\ ~RecoverCrash
  BY <1>2 DEF vars, RecoverStart, RecoverProceeds, RecoverLevel, RecoverState, RecoverOther,
              RecoverDone, RecoverCrash
<1> QED BY <1>4, <1>5 DEF Next

\* A restored game starts in exactly the world of the last checkpoint or save.
THEOREM RestoredIsCommitted ==
    ASSUME Answers = {}
    PROVE  Spec => ResumesCommitted
<1>1. IInv /\ [Next]_vars =>
          [\A p \in Proc : Resumes(p) /\ ~torn => WorldOf(p)' = committed]_vars
  <2> SUFFICES ASSUME IInv, [Next]_vars, NEW p \in Proc, Resumes(p), ~torn
               PROVE  WorldOf(p)' = committed
    OBVIOUS
  <2>1. TypeOK /\ Separate /\ Agree
    BY DEF IInv
  <2> QED BY <2>1, ResumesByRecovered, RecoveredAgrees
<1> QED BY <1>1, Inductive, PTL DEF Spec, ResumesCommitted

-----------------------------------------------------------------------------
(***************************************************************************)
(* Nothing is lost or doubled.                                             *)
(***************************************************************************)
\* All that came with one new game is in one place each, for p and in a world.
AllOnce(p) == \E g \in Proc : \A i \in Item : \E h : Holders(p, <<g, i>>) = {h}
HoldersIn(w, t) ==
    {l \in Level \ {w.here} : w.lev[l] # None /\ t \in w.lev[l]}
        \cup (IF t \in w.inv THEN {None} ELSE {})
        \cup (IF t \in w.lev[w.here] THEN {w.here} ELSE {})
WholeWorld(w) == \E g \in Proc : \A i \in Item : \E h : HoldersIn(w, <<g, i>>) = {h}

\* When the hero has left a level its file has what was on it.
LeftAsItWas(p) == pc[p] = "enter" => /\ game[p].here \in game[p].exists
                                     /\ levelfile[game[p].here].data = game[p].cur
Once == /\ committed # None => WholeWorld(committed)
        /\ \A p \in Proc : InGame(p) => AllOnce(p) /\ LeftAsItWas(p)

\* What p holds and what its world holds is the same.
LEMMA WorldHolds ==
    ASSUME TypeOK, NEW p \in Proc, \A l \in Elsewhere(p) : LevelGood(l)
    PROVE  WholeWorld(WorldOf(p)) <=> AllOnce(p)
<1>1. game[p] \in Memory /\ game[p].here \in Level /\ game[p].exists \subseteq Level
  BY DEF TypeOK, Memory
<1>2. /\ WorldOf(p).here = game[p].here /\ WorldOf(p).inv = game[p].inv
      /\ WorldOf(p).lev[game[p].here] = game[p].cur
      /\ \A l \in Level \ {game[p].here} :
            WorldOf(p).lev[l] = IF l \in game[p].exists THEN DataIn(levelfile[l]) ELSE None
  BY <1>1 DEF WorldOf, World, StateOf, OnDisk
<1>3. \A l \in Elsewhere(p) : DataIn(levelfile[l]) = levelfile[l].data
                              /\ levelfile[l].data # None
  <2>1. \A l \in Elsewhere(p) : levelfile[l] \in LevelFile
    BY <1>1 DEF TypeOK, Elsewhere, LevelGood
  <2>2. None \notin Content
    BY ValuesAssumption DEF Content
  <2> QED BY <2>1, <2>2 DEF LevelFile, DataIn, LevelGood
<1>4. ASSUME NEW t PROVE HoldersIn(WorldOf(p), t) = Holders(p, t)
  <2>1. {l \in Level \ {game[p].here} : WorldOf(p).lev[l] # None /\ t \in WorldOf(p).lev[l]}
           = {l \in Elsewhere(p) : t \in levelfile[l].data}
    BY <1>1, <1>2, <1>3 DEF Elsewhere
  <2> QED BY <1>2, <2>1 DEF HoldersIn, Holders
<1> QED BY <1>4 DEF WholeWorld, AllOnce

\* A step of p after which p holds what it held, and whatever was committed is whole.
LEMMA HoldsOn ==
    ASSUME Separate, Once, NEW p \in Proc, Running(p), \A q \in Proc \ {p} : pc'[q] = pc[q],
           InGame(p)' => AllOnce(p)' /\ LeftAsItWas(p)',
           committed' = committed \/ committed' = None \/ WholeWorld(committed')
    PROVE  Once'
<1>1. ASSUME NEW q \in Proc \ {p} PROVE ~InGame(q)'
  BY OthersRest DEF InGame
<1>2. committed' # None => WholeWorld(committed')
  BY DEF Once
<1>3. (committed # None => WholeWorld(committed))'
  BY <1>2 DEF WholeWorld, HoldersIn
<1> QED BY <1>1, <1>3 DEF Once

\* As long as neither the things in memory nor the levels elsewhere change.
LEMMA HoldersStay ==
    ASSUME NEW p \in Proc, game'[p].inv = game[p].inv, game'[p].cur = game[p].cur,
           game'[p].here = game[p].here, Elsewhere(p)' = Elsewhere(p),
           \A l \in Elsewhere(p) : levelfile'[l] = levelfile[l], AllOnce(p)
    PROVE  AllOnce(p)'
<1>1. ASSUME NEW t PROVE Holders(p, t)' = Holders(p, t)
  BY DEF Holders
<1> QED BY <1>1 DEF AllOnce

\* Whoever moves a thing between hero and level leaves it in one place.
LEMMA MovedOnce ==
    ASSUME TypeOK, NEW p \in Proc, Pickup(p) \/ Drop(p), AllOnce(p)
    PROVE  AllOnce(p)'
<1>1. /\ game[p] \in Memory /\ game[p].here \in Level /\ None \notin Level
      /\ levelfile' = levelfile
  BY ValuesAssumption DEF TypeOK, Memory, Pickup, Drop, files
<1>2. PICK t : /\ game'[p].here = game[p].here /\ game'[p].exists = game[p].exists
               /\ \/ /\ t \in game[p].cur
                     /\ game'[p].cur = game[p].cur \ {t} /\ game'[p].inv = game[p].inv \cup {t}
                  \/ /\ t \in game[p].inv
                     /\ game'[p].inv = game[p].inv \ {t} /\ game'[p].cur = game[p].cur \cup {t}
  <2>1. CASE Pickup(p)
    <3>1. PICK t \in game[p].cur :
              game' = [game EXCEPT ![p].cur = @ \ {t}, ![p].inv = @ \cup {t}]
      BY <2>1 DEF Pickup
    <3> QED BY <1>1, <3>1 DEF TypeOK, Memory
  <2>2. CASE Drop(p)
    <3>1. PICK t \in game[p].inv :
              game' = [game EXCEPT ![p].inv = @ \ {t}, ![p].cur = @ \cup {t}]
      BY <2>2 DEF Drop
    <3> QED BY <1>1, <3>1 DEF TypeOK, Memory
  <2> QED BY <2>1, <2>2
<1>3. Elsewhere(p)' = Elsewhere(p) /\ game[p].here \notin Elsewhere(p)
      /\ None \notin Elsewhere(p)
  BY <1>1, <1>2 DEF Elsewhere, Memory
<1>4. ASSUME NEW x, NEW h, Holders(p, x) = {h}, x # t PROVE Holders(p, x)' = {h}
  BY <1>1, <1>2, <1>3, <1>4 DEF Holders
<1>5. ASSUME NEW h, Holders(p, t) = {h} PROVE \E k : Holders(p, t)' = {k}
  <2>1. {l \in Elsewhere(p) : t \in levelfile[l].data} = {}
    BY <1>1, <1>2, <1>3, <1>5 DEF Holders
  <2>2. {l \in Elsewhere(p)' : t \in levelfile'[l].data} = {}
    BY <1>1, <1>3, <2>1
  <2>3. CASE t \in game[p].cur /\ t \notin game[p].inv
    BY <1>2, <2>2, <2>3 DEF Holders
  <2>4. CASE t \notin game[p].cur /\ t \in game[p].inv
    BY <1>2, <2>2, <2>4 DEF Holders
  <2>5. ~(t \in game[p].cur /\ t \in game[p].inv)
    BY <1>1, <1>5 DEF Holders
  <2> QED BY <1>2, <2>3, <2>4, <2>5
<1>6. \A x : (\E h : Holders(p, x) = {h}) => \E h : Holders(p, x)' = {h}
  BY <1>4, <1>5
<1> QED BY <1>6 DEF AllOnce

\* A step of a game.
LEMMA GameOnce ==
    ASSUME TypeOK, Separate, Agree, Once, NEW p \in Proc, InGame(p),
           Plays(p) \/ Leave(p) \/ Enter(p) \/ Checkpoint(p) \/ Rewrite(p)
    PROVE  Once'
<1> USE DEF Goto
<1>1. /\ HasLevels(p) /\ Running(p) /\ AllOnce(p) /\ LeftAsItWas(p)
      /\ game[p] \in Memory /\ game[p].here \in Level /\ game[p].exists \subseteq Level
  BY PlaysHas DEF Once, TypeOK, Memory
<1>2. \A q \in Proc \ {p} : pc'[q] = pc[q]
  BY DEF Plays, Pickup, Drop, SetCheckpointOption, Done, Cleared, Ends, DoSave, GotoLevel, Leave,
         Enter, Checkpoint, Rewrite, TypeOK
<1>3. committed' = committed \/ committed' = None
  BY DEF Plays, Pickup, Drop, SetCheckpointOption, Done, DoSave, GotoLevel, Leave, Enter,
         Checkpoint, Rewrite, ghosts
<1>4. CASE Pickup(p) \/ Drop(p)
  <2>1. AllOnce(p)'
    BY <1>1, <1>4, MovedOnce
  <2>2. pc'[p] # "enter"
    BY <1>4 DEF Pickup, Drop
  <2> QED BY <1>1, <1>2, <1>3, <2>1, <2>2, HoldsOn DEF LeftAsItWas
<1>5. CASE Done(p)
  <2>1. ~InGame(p)'
    BY <1>5 DEF Done, Cleared, Ends, InGame, TypeOK
  <2> QED BY <1>1, <1>2, <1>3, <2>1, HoldsOn
<1>6. ASSUME game'[p].inv = game[p].inv, game'[p].cur = game[p].cur,
             game'[p].here = game[p].here, Elsewhere(p)' = Elsewhere(p),
             \A l \in Elsewhere(p) : levelfile'[l] = levelfile[l], LeftAsItWas(p)'
      PROVE  Once'
  BY <1>1, <1>2, <1>3, <1>6, HoldersStay, HoldsOn
<1>7. CASE SetCheckpointOption(p) \/ DoSave(p)
  <2>1. /\ game'[p].inv = game[p].inv /\ game'[p].cur = game[p].cur
        /\ game'[p].here = game[p].here /\ game'[p].exists = game[p].exists
        /\ levelfile' = levelfile /\ pc'[p] # "enter"
    BY <1>7 DEF SetCheckpointOption, DoSave, files, TypeOK, Memory
  <2> QED BY <1>6, <2>1 DEF LeftAsItWas, Elsewhere
<1>8. CASE (\E l \in Level : GotoLevel(p, l)) \/ (Checkpoint(p) /\ game[p].ins_chkpt)
  <2>1. /\ game'[p].inv = game[p].inv /\ game'[p].cur = game[p].cur
        /\ game'[p].here = game[p].here
        /\ game'[p].exists = game[p].exists \cup {game[p].here}
        /\ levelfile' = [levelfile EXCEPT ![game[p].here] = BeingWritten(p)] /\ pc'[p] # "enter"
    BY <1>1, <1>8, CreatesAlone DEF GotoLevel, Checkpoint, CreateLevelFile, Noted, TypeOK, Memory
  <2>2. Elsewhere(p)' = Elsewhere(p)
    BY <2>1 DEF Elsewhere
  <2>3. \A l \in Elsewhere(p) : levelfile'[l] = levelfile[l]
    BY <1>1, <2>1 DEF Elsewhere, TypeOK
  <2> QED BY <1>6, <2>1, <2>2, <2>3 DEF LeftAsItWas
<1>9. CASE Checkpoint(p) /\ ~game[p].ins_chkpt
  <2>1. game' = game /\ levelfile' = levelfile /\ pc'[p] # "enter"
    BY <1>9 DEF Checkpoint, TypeOK
  <2> QED BY <1>6, <2>1 DEF LeftAsItWas, Elsewhere
<1>10. CASE Leave(p) \/ Rewrite(p)
  <2>1. pc[p] \in {"leave", "rewrite"}
    BY <1>10 DEF Leave, Rewrite
  <2>2. game[p].here \in game[p].exists /\ levelfile[game[p].here] = BeingWritten(p)
    BY <1>1, <2>1 DEF HasLevels, InGame
  <2>3. levelfile' = [levelfile EXCEPT ![game[p].here] = WrittenBy(p, game[p].cur)]
    BY <1>1, <1>10, <2>2, Written DEF Leave, Rewrite, LeftBehind
  <2>4. game' = game
    BY <1>10 DEF Leave, Rewrite
  <2>5. levelfile'[game[p].here].data = game[p].cur
    BY <1>1, <2>3 DEF TypeOK, WrittenBy
  <2>6. \A l \in Elsewhere(p) : levelfile'[l] = levelfile[l]
    BY <1>1, <2>3 DEF Elsewhere, TypeOK
  <2> QED BY <1>6, <2>2, <2>4, <2>5, <2>6 DEF LeftAsItWas, Elsewhere
<1>11. CASE Enter(p)
  <2>1. /\ pc[p] = "enter" /\ levelfile' = levelfile /\ dest[p] \in Level
        /\ game[p].here \in game[p].exists /\ levelfile[game[p].here].data = game[p].cur
    BY <1>1, <1>11 DEF Enter, files, TypeOK, LeftAsItWas
  <2>2. dest[p] \in game[p].exists => OwnLevel(p, dest[p])
    BY <1>1, <2>1 DEF HasLevels, InGame, Writing, OwnGood, LevelGood, OwnLevel, PidIn
  <2>3. /\ game'[p].here = dest[p] /\ game'[p].exists = game[p].exists
        /\ game'[p].inv = game[p].inv /\ pc'[p] = "checkpoint"
        /\ game'[p].cur = IF dest[p] \in game[p].exists THEN levelfile[dest[p]].data ELSE {}
    <3>1. CASE dest[p] \in game[p].exists
      <4>1. /\ game' = [game EXCEPT ![p].here = dest[p], ![p].cur = levelfile[dest[p]].data]
            /\ pc' = [pc EXCEPT ![p] = "checkpoint"]
        BY <1>11, <2>2, <3>1 DEF Enter
      <4> QED BY <1>1, <3>1, <4>1 DEF TypeOK, Memory
    <3>2. CASE dest[p] \notin game[p].exists
      <4>1. /\ game' = [game EXCEPT ![p].here = dest[p], ![p].cur = {}]
            /\ pc' = [pc EXCEPT ![p] = "checkpoint"]
        BY <1>11, <3>2 DEF Enter
      <4> QED BY <1>1, <3>2, <4>1 DEF TypeOK, Memory
    <3> QED BY <3>1, <3>2
  <2>4. ASSUME NEW t PROVE Holders(p, t)' = Holders(p, t)
    <3> DEFINE On(l) == t \in levelfile[l].data
    <3>1. Holders(p, t) = {l \in game[p].exists : On(l)}
                             \cup (IF t \in game[p].inv THEN {None} ELSE {})
      BY <2>1 DEF Holders, Elsewhere
    <3>2. Holders(p, t)' = {l \in game[p].exists : On(l)}
                             \cup (IF t \in game[p].inv THEN {None} ELSE {})
      BY <2>1, <2>3 DEF Holders, Elsewhere
    <3> QED BY <3>1, <3>2
  <2>5. AllOnce(p)'
    BY <1>1, <2>4 DEF AllOnce
  <2> QED BY <1>1, <1>2, <1>3, <2>3, <2>5, HoldsOn DEF LeftAsItWas
<1> QED BY <1>4, <1>5, <1>7, <1>8, <1>9, <1>10, <1>11 DEF Plays

\* Writing the lock, and saving.
LEMMA CommitOnce ==
    ASSUME TypeOK, Separate, Agree, Once, NEW p \in Proc,
           SaveStateInLock(p) \/ WriteLock(p) \/ SaveLevel(p) \/ SaveGameState(p)
    PROVE  Once'
<1> USE DEF Goto
<1>1. /\ Running(p) /\ pc[p] \in {"lock", "writelock", "savelevel", "savestate"}
      /\ levelfile' = levelfile /\ \A q \in Proc \ {p} : pc'[q] = pc[q]
  BY DEF SaveStateInLock, WriteLock, SaveLevel, SaveGameState, Running, TypeOK
<1>2. /\ game'[p].inv = game[p].inv /\ game'[p].cur = game[p].cur
      /\ game'[p].here = game[p].here /\ game'[p].exists = game[p].exists
      /\ pc'[p] # "enter"
  BY DEF SaveStateInLock, AfterLock, WriteLock, SaveLevel, SaveGameState, TypeOK, Memory
<1>3. CASE InGame(p)
  <2>1. HasLevels(p) /\ AllOnce(p) /\ game[p].exists \subseteq Level
    BY <1>3, PlaysHas DEF Once, TypeOK, Memory
  <2>2. \A l \in Elsewhere(p) : LevelGood(l)
    BY <1>1, <1>3, <2>1 DEF HasLevels, Writing, OwnGood, Elsewhere
  <2>3. WholeWorld(WorldOf(p))
    BY <2>1, <2>2, WorldHolds
  <2>4. committed' = committed \/ committed' = None \/ WholeWorld(committed')
    BY <2>3 DEF SaveStateInLock, WriteLock, SaveLevel, SaveGameState, Checkpointed, ghosts
  <2>5. AllOnce(p)'
    BY <1>1, <1>2, <2>1, HoldersStay DEF Elsewhere
  <2> QED BY <1>1, <1>2, <2>4, <2>5, HoldsOn DEF LeftAsItWas
<1>4. CASE ~InGame(p)
  <2>1. Restoring(p) /\ pc[p] \in {"lock", "writelock"}
    BY <1>1, <1>4 DEF InGame
  <2>2. committed' = committed
    BY <2>1 DEF SaveStateInLock, WriteLock, SaveLevel, SaveGameState, ghosts
  <2>3. Reads(p) /\ ~Tricked(p)
    BY <2>1 DEF Reads, Tricked
  <2>4. pc'[p] \in {"copyin", "writelock", "tricked"} /\ todo' = todo
    BY <2>1 DEF SaveStateInLock, WriteLock, SaveLevel, SaveGameState, AfterLock, TypeOK
  <2>5. ~InGame(p)'
    BY <2>1, <2>4 DEF InGame, Restoring
  <2> QED BY <1>1, <2>2, <2>5, HoldsOn
<1> QED BY <1>3, <1>4

\* A game that is new, or restored.
LEMMA StartOnce ==
    ASSUME TypeOK, Separate, Agree, Once, NEW p \in Proc, NewGame(p) \/ Recovered(p)
    PROVE  Once'
<1> USE DEF Goto
<1>1. /\ Running(p) /\ \A q \in Proc \ {p} : pc'[q] = pc[q]
      /\ levelfile' = levelfile /\ pc'[p] # "enter"
  BY DEF NewGame, Recovered, Running, TypeOK
<1>2. CASE NewGame(p)
  <2>1. /\ game'[p].inv = {} /\ game'[p].exists = {} /\ game'[p].cur = {p} \X Item
        /\ committed' = committed
    BY <1>2 DEF NewGame, TypeOK, ghosts
  <2>2. ASSUME NEW i \in Item PROVE Holders(p, <<p, i>>)' = {game'[p].here}
    BY <2>1 DEF Holders, Elsewhere
  <2>3. AllOnce(p)'
    BY <2>2 DEF AllOnce
  <2> QED BY <1>1, <2>1, <2>3, HoldsOn DEF LeftAsItWas
<1>3. CASE Recovered(p)
  <2>1. WorldOf(p) = committed /\ \A l \in game[p].exists : LevelGood(l)
    BY <1>3, RecoveredAgrees
  <2>2. committed # None
    BY <2>1, StateOfType, ValuesAssumption
  <2>3. AllOnce(p) /\ WholeWorld(WorldOf(p))
    BY <2>1, <2>2, WorldHolds DEF Once, Elsewhere
  <2>4. game' = game /\ committed' \in {WorldOf(p), None}
    BY <1>3 DEF Recovered, Checkpointed
  <2>5. AllOnce(p)'
    BY <1>1, <2>3, <2>4, HoldersStay DEF Elsewhere
  <2> QED BY <1>1, <2>3, <2>4, <2>5, HoldsOn DEF LeftAsItWas
<1> QED BY <1>2, <1>3

\* Whatever leaves no game in play keeps Once.
LEMMA OutOfGame ==
    ASSUME Once, committed' = committed \/ committed' = None,
           \A p \in Proc : ~InGame(p)'
    PROVE  Once'
<1>1. committed' # None => WholeWorld(committed')
  BY DEF Once
<1>2. (committed # None => WholeWorld(committed))'
  BY <1>1 DEF WholeWorld, HoldersIn
<1> QED BY <1>2 DEF Once

\* Every step leaves everything in one place, until something is torn.
LEMMA StepOnce ==
    ASSUME Answers = {}, TypeOK, Separate, Agree, Once, [Next]_vars, ~torn'
    PROVE  Once'
<1> USE DEF Goto
<1>1. ASSUME NEW p \in Proc, GetLock(p) PROVE Once'
  <2>1. NoGame
    BY <1>1, LockIsFree
  <2>2. pc' = [pc EXCEPT ![p] = "gotlock"] /\ (committed' = committed \/ committed' = None)
    BY <1>1 DEF GetLock
  <2>3. \A q \in Proc : ~InGame(q)'
    BY <2>1, <2>2 DEF NoGame, InGame, TypeOK
  <2> QED BY <2>2, <2>3, OutOfGame
<1>2. ASSUME NEW p \in Proc,
             \/ WritePid(p) \/ RestoreSavedGame(p) \/ DeleteLevel(p) \/ CloseSave(p)
             \/ DeleteHere(p) \/ DeleteLock(p) \/ DoRecover(p) \/ CopyWrite(p)
             \/ \E l \in Level : CopyOut(p, l) \/ CopyIn(p, l)
      PROVE  Once'
  <2>1. /\ Running(p) /\ committed' = committed /\ \A q \in Proc \ {p} : pc'[q] = pc[q]
    BY <1>2 DEF WritePid, RestoreSavedGame, DeleteLevel, CloseSave, DeleteHere, DeleteLock, Ends,
                DoRecover, RestoreFails, CopyWrite, CopyOut, CopyIn, Running, TypeOK, ghosts
  <2>2. \/ pc'[p] \in {"begin", "reading", "copyout", "deletelevel", "deletehere", "deletelock", "dead",
                        "copyin", "copywrite", "tricked"}
        \/ pc'[p] = "lock" /\ todo'[p] = InSave(opened[p])
    BY <1>2 DEF WritePid, RestoreSavedGame, DeleteLevel, CloseSave, DeleteHere, DeleteLock, Ends,
                DoRecover, RestoreFails, CopyWrite, CopyOut, CopyIn, TypeOK
  <2>3. ~InGame(p)'
    BY <2>2 DEF InGame, Restoring, InSave
  <2> QED BY <2>1, <2>3, HoldsOn
<1>3. ASSUME NEW p \in Proc, Crash(p) PROVE Once'
  <2>1. Running(p) /\ pc'[p] = "dead" /\ committed' = committed
        /\ \A q \in Proc \ {p} : pc'[q] = pc[q]
    BY <1>3 DEF Crash, Ends, Harmless, Running, TypeOK
  <2>2. ~InGame(p)'
    BY <2>1 DEF InGame
  <2> QED BY <2>1, <2>2, HoldsOn
<1>4. CASE RecoverStart \/ RecoverProceeds
  <2>1. NoGame /\ pc' = pc /\ committed' = committed
    BY <1>4 DEF RecoverStart, RecoverProceeds, RecoverLevel, RecoverState, RecoverOther,
                RecoverDone, Separate, Orderly, RunsAlone, ghosts
  <2>2. \A q \in Proc : ~InGame(q)'
    BY <2>1 DEF NoGame, InGame
  <2> QED BY <2>1, <2>2, OutOfGame
<1>5. CASE UNCHANGED vars
  <2>1. Once = Once'
    BY <1>5 DEF vars, Once, WholeWorld, HoldersIn, InGame, Restoring, AllOnce, Holders,
                Elsewhere, LeftAsItWas
  <2> QED BY <2>1
<1>6. ~RecoverCrash /\ \A p \in Proc : ~Tricked(p)
  BY DEF RecoverCrash, Tricked, Agree, Phase
<1>7. ASSUME NEW p \in Proc,
             Plays(p) \/ Leave(p) \/ Enter(p) \/ Checkpoint(p) \/ Rewrite(p)
      PROVE  Once'
  <2>1. InGame(p)
    BY <1>7 DEF Plays, Pickup, Drop, SetCheckpointOption, Done, GotoLevel, DoSave, Leave, Enter,
                Checkpoint, Rewrite, InGame
  <2> QED BY <1>7, <2>1, GameOnce
<1> QED BY <1>1, <1>2, <1>3, <1>4, <1>5, <1>6, <1>7, CommitOnce, StartOnce DEF Next, Proceeds

\* While a game is played everything that came with it is in one place, on the
\* hero, on the level, or in the file of a level that was left, whatever saves,
\* crashes between level changes and recoveries it has been through.
THEOREM NothingLostOrDoubled ==
    ASSUME Answers = {}
    PROVE  Spec => []Conserved
<1>1. Init => (~torn => Once)
  BY DEF Init, Once, InGame
<1>2. IInv /\ (~torn => Once) /\ IInv' /\ [Next]_vars => (~torn => Once)'
  <2> SUFFICES ASSUME IInv, ~torn => Once, [Next]_vars, ~torn'
               PROVE  Once'
    OBVIOUS
  <2>1. ~torn
    BY StaysTorn DEF IInv
  <2> QED BY <2>1, StepOnce DEF IInv
<1>3. IInv /\ (~torn => Once) => Conserved
  <2> SUFFICES ASSUME Once, NEW p \in Proc, pc[p] = "play"
               PROVE  \E g \in Proc : \A i \in Item : Cardinality(Holders(p, <<g, i>>)) = 1
    BY DEF Conserved
  <2>1. AllOnce(p)
    BY DEF Once, InGame
  <2>2. PICK g \in Proc : \A i \in Item : \E h : Holders(p, <<g, i>>) = {h}
    BY <2>1 DEF AllOnce
  <2>3. ASSUME NEW i \in Item PROVE Cardinality(Holders(p, <<g, i>>)) = 1
    <3>1. PICK h : Holders(p, <<g, i>>) = {h}
      BY <2>2
    <3>2. Cardinality({h}) = 1
      BY FS_Singleton
    <3> QED BY <3>1, <3>2
  <2> QED BY <2>3
<1>4. Spec => []IInv
  BY Inductive
<1> QED BY <1>1, <1>2, <1>3, <1>4, PTL DEF Spec

-----------------------------------------------------------------------------
(***************************************************************************)
(* Games whose files have the same names, whatever the player answers and  *)
(* wherever processes crash: each process has the tag of the game it is    *)
(* in, the one it has begun or that of the process whose save file it has  *)
(* restored, and keeps it.  A tag says what may be in the memory of its    *)
(* process, in the level files with its pid, and in its save file.  So     *)
(* much holds until two write one file; a save file that two have opened   *)
(* to write is empty until then.                                           *)
(***************************************************************************)
Of(g) == {g} \X Item
OfGame(c, g) == c \in {None, Garbage} \/ c \subseteq Of(g)
SaveOf(f, g) == /\ OfGame(f.first, g)
                /\ f.state \notin {None, Garbage} => f.state.inv \subseteq Of(g)
                /\ \A l \in Level : OfGame(f.lev[l], g)

\* The level files, and the save files.
LevelsOf(tag) == \A l \in Level :
    levelfile[l] # None => OfGame(levelfile[l].data, tag[levelfile[l].pid])
OneWriter(f)  == \E w \in Proc : f.writers = {w}
FileOf(f, tag) == /\ f.first # None => OneWriter(f)
                  /\ \A w \in f.writers : SaveOf(f, tag[w])
SavesOf(tag)  == \A f \in SaveFiles : FileOf(f, tag)

\* The memory, and the file that p restores.
OpenedOf(tag, p) == opened[p] # None => /\ SaveOf(opened[p], tag[p])
                                        /\ \A w \in opened[p].writers : tag[w] = tag[p]
GameOf(tag, p) == game[p].inv \cup game[p].cur \subseteq Of(tag[p]) /\ OpenedOf(tag, p)

\* A process has no tag, and no file, before it is in a game.
Began(p)     == pc[p] \in {"idle", "gotlock", "begin", "reading"}
Untouched(p) == \A l \in Level : levelfile[l] # None => levelfile[l].pid # p

Tagged(tag) == /\ LevelsOf(tag) /\ SavesOf(tag)
               /\ \A p \in Proc : IF Began(p) THEN Untouched(p) ELSE GameOf(tag, p)
OneGameEach == \E tag \in [Proc -> Proc] : Tagged(tag)

\* What a step of p has to keep.
LEMMA StepTags ==
    ASSUME NEW tag, Tagged(tag), NEW p \in Proc,
           \A q \in Proc \ {p} : pc'[q] = pc[q] /\ game'[q] = game[q],
           LevelsOf(tag)', SavesOf(tag)',
           \A q \in Proc \ {p} : Untouched(q) => Untouched(q)',
           \A q \in Proc \ {p} : ~Began(q) => OpenedOf(tag, q)',
           IF Began(p)' THEN Untouched(p)' ELSE GameOf(tag, p)'
    PROVE  Tagged(tag)'
<1>1. ASSUME NEW q \in Proc \ {p} PROVE IF Began(q)' THEN Untouched(q)' ELSE GameOf(tag, q)'
  <2>1. IF Began(q) THEN Untouched(q) ELSE GameOf(tag, q)
    BY DEF Tagged
  <2> QED BY <1>1, <2>1 DEF Began, GameOf
<1> QED BY <1>1 DEF Tagged

\* Levels are deleted.
LEMMA LevelsDeleted ==
    ASSUME NEW tag, LevelsOf(tag),
           \A l \in Level : levelfile'[l] = levelfile[l] \/ levelfile'[l] = None
    PROVE  LevelsOf(tag)' /\ \A q \in Proc : Untouched(q) => Untouched(q)'
BY DEF LevelsOf, Untouched, OfGame

\* A level file is created or written, by one alone.
LEMMA LevelsWritten ==
    ASSUME TypeOK, NEW tag, LevelsOf(tag), NEW p \in Proc, NEW k \in Level,
           NEW d, OfGame(d, tag[p]),
           CreateLevelFile(p, k) \/ (WriteLevel(p, k, d) /\ ~clash')
    PROVE  LevelsOf(tag)' /\ \A q \in Proc \ {p} : Untouched(q) => Untouched(q)'
<1>1. PICK f : /\ levelfile' = [levelfile EXCEPT ![k] = f]
               /\ \/ \E W : f = Truncated(p, levelfile[k], W)
                  \/ f = WrittenBy(p, d) \/ f = levelfile[k]
  <2>1. CASE CreateLevelFile(p, k)
    BY <2>1 DEF CreateLevelFile
  <2>2. CASE WriteLevel(p, k, d) /\ ~clash'
    <3>1. PICK f \in Writes(p, levelfile[k], d, SplicedLevel(levelfile[k].data, d)) :
              levelfile' = [levelfile EXCEPT ![k] = f]
      BY <2>2 DEF WriteLevel
    <3>2. ~Clashes(p, levelfile[k])
      BY <2>2 DEF WriteLevel
    <3>3. f = levelfile[k] \/ f = WrittenBy(p, d)
      BY <3>1, <3>2 DEF Writes
    <3> QED BY <3>1, <3>3
  <2> QED BY <2>1, <2>2
<1>2. f # None => /\ OfGame(f.data, tag[f.pid])
                  /\ f.pid = p \/ (levelfile[k] # None /\ f.pid = levelfile[k].pid)
  <2>1. levelfile[k] # None => OfGame(levelfile[k].data, tag[levelfile[k].pid])
    BY DEF LevelsOf
  <2>2. ASSUME NEW W PROVE LET g == Truncated(p, levelfile[k], W)
                           IN  g.pid = p /\ OfGame(g.data, tag[p])
    BY DEF Truncated, OfGame
  <2>3. WrittenBy(p, d).pid = p /\ WrittenBy(p, d).data = d
    BY DEF WrittenBy
  <2> QED BY <1>1, <2>1, <2>2, <2>3
<1>3. \A l \in Level : levelfile'[l] = IF l = k THEN f ELSE levelfile[l]
  BY <1>1 DEF TypeOK
<1>4. LevelsOf(tag)'
  <2>1. ASSUME NEW l \in Level, levelfile'[l] # None
        PROVE  OfGame(levelfile'[l].data, tag[levelfile'[l].pid])
    BY <1>2, <1>3, <2>1 DEF LevelsOf
  <2> QED BY <2>1 DEF LevelsOf, OfGame, Of
<1>5. ASSUME NEW q \in Proc \ {p}, Untouched(q) PROVE Untouched(q)'
  BY <1>2, <1>3, <1>5 DEF Untouched
<1> QED BY <1>4, <1>5

\* No save file is written to.
LEMMA SavesStay ==
    ASSUME NEW tag, SavesOf(tag), save' = save \/ save' = None,
           \A q \in Proc : opened'[q] = opened[q] \/ opened'[q] = None
    PROVE  SavesOf(tag)' /\ \A q \in Proc : OpenedOf(tag, q) => OpenedOf(tag, q)'
<1>1. SaveFiles' \subseteq SaveFiles
  BY DEF SaveFiles
<1>2. SavesOf(tag)'
  BY <1>1 DEF SavesOf, FileOf, OneWriter, SaveOf, OfGame, Of
<1>3. ASSUME NEW q \in Proc, OpenedOf(tag, q) PROVE OpenedOf(tag, q)'
  BY <1>3 DEF OpenedOf, SaveOf, OfGame, Of
<1> QED BY <1>2, <1>3

\* p alone writes to its save file.
LEMMA SavesAppended ==
    ASSUME TypeOK, NEW tag, SavesOf(tag), NEW p \in Proc, NEW f \in Created(p), NEW g,
           f # None => g.writers = f.writers /\ (SaveOf(f, tag[p]) => SaveOf(g, tag[p])),
           NEW spliced, AppendTo(p, f, g, spliced), ~clash'
    PROVE  SavesOf(tag)' /\ \A q \in Proc : OpenedOf(tag, q) => OpenedOf(tag, q)'
<1>1. PICK h : h = (IF f = None THEN None ELSE g) /\ Becomes(f, h)
  <2>1. ~Clashes(p, f)
    BY DEF AppendTo
  <2> QED BY <2>1 DEF AppendTo, Appended
<1>2. f # None => f \in SaveFiles /\ f.writers = {p} /\ h.writers = {p}
  BY <1>1, CreatedIs DEF AppendTo, Clashes
<1>3. f # None => SaveOf(f, tag[p]) /\ SaveOf(h, tag[p]) /\ FileOf(h, tag)
  <2>1. SUFFICES ASSUME f # None PROVE SaveOf(f, tag[p]) /\ SaveOf(h, tag[p]) /\ FileOf(h, tag)
    OBVIOUS
  <2>2. SaveOf(f, tag[p])
    BY <1>2, <2>1 DEF SavesOf, FileOf
  <2>3. SaveOf(h, tag[p])
    BY <1>1, <2>1, <2>2
  <2> QED BY <1>2, <2>1, <2>2, <2>3 DEF FileOf, OneWriter
<1>4. /\ save' = (IF save = f THEN h ELSE save)
      /\ \A q \in Proc : opened'[q] = IF opened[q] = f THEN h ELSE opened[q]
  BY <1>1 DEF Becomes, TypeOK
<1>5. ASSUME NEW x \in SaveFiles' PROVE FileOf(x, tag)
  <2>1. x \in SaveFiles \/ (x = h /\ f # None)
    BY <1>1, <1>4 DEF SaveFiles
  <2> QED BY <1>3, <2>1 DEF SavesOf
<1>6. SavesOf(tag)'
  BY <1>5 DEF SavesOf, FileOf, OneWriter, SaveOf, OfGame, Of
<1>7. ASSUME NEW q \in Proc, OpenedOf(tag, q) PROVE OpenedOf(tag, q)'
  <2>1. CASE opened'[q] = opened[q]
    BY <1>7, <2>1 DEF OpenedOf, SaveOf, OfGame, Of
  <2>2. CASE opened[q] = f /\ opened'[q] = h /\ f # None
    <3>1. tag[p] = tag[q]
      BY <1>2, <1>7, <2>2 DEF OpenedOf
    <3>2. SaveOf(h, tag[q]) /\ \A w \in h.writers : tag[w] = tag[q]
      BY <1>2, <1>3, <2>2, <3>1
    <3> QED BY <2>2, <3>2 DEF OpenedOf, SaveOf, OfGame, Of
  <2> QED BY <1>1, <1>4, <2>1, <2>2
<1> QED BY <1>6, <1>7

\* A process gets its tag: nothing has it before.
LEMMA NewTag ==
    ASSUME TypeOK, Orderly, NEW tag \in [Proc -> Proc], Tagged(tag), NEW p \in Proc, Began(p),
           NEW g \in Proc,
           \A q \in Proc \ {p} : pc'[q] = pc[q] /\ game'[q] = game[q],
           levelfile' = levelfile, save' = save \/ save' = None, opened' = opened,
           ~Began(p)', game'[p].inv \cup game'[p].cur \subseteq Of(g),
           opened[p] # None => \E w \in Proc : opened[p].writers = {w} /\ tag[w] = g
    PROVE  OneGameEach'
<1> DEFINE new == [tag EXCEPT ![p] = g]
<1>1. new \in [Proc -> Proc] /\ new[p] = g /\ \A q \in Proc \ {p} : new[q] = tag[q]
  OBVIOUS
<1> HIDE DEF new
<1>2. \A x \in SaveFiles : p \notin x.writers /\ x \in SaveFile
  BY DEF TypeOK, SaveFiles, Orderly, HasSaved, Began, SavingPcs
<1>3. \A x \in SaveFiles : \A w \in x.writers : w \in Proc /\ new[w] = tag[w]
  BY <1>1, <1>2 DEF SaveFile
<1>4. \A q \in Proc : opened[q] # None => opened[q] \in SaveFiles
  BY DEF SaveFiles
<1>5. LevelsOf(new)
  <2>1. Untouched(p)
    BY DEF Tagged
  <2>2. \A l \in Level : levelfile[l] # None => levelfile[l].pid \in Proc \ {p}
    BY <2>1 DEF Untouched, TypeOK, LevelFile
  <2> QED BY <1>1, <2>2 DEF Tagged, LevelsOf
<1>6. SavesOf(new)
  BY <1>3 DEF Tagged, SavesOf, FileOf
<1>7. ASSUME NEW q \in Proc \ {p}, ~Began(q) PROVE GameOf(new, q)
  BY <1>1, <1>3, <1>4, <1>7 DEF Tagged, GameOf, OpenedOf
<1>8. OpenedOf(new, p)
  <2>1. CASE opened[p] # None
    <3>1. PICK w \in Proc : opened[p].writers = {w} /\ tag[w] = g
      BY <2>1
    <3>2. SaveOf(opened[p], g) /\ new[w] = g
      BY <1>3, <1>4, <2>1, <3>1 DEF Tagged, SavesOf, FileOf
    <3> QED BY <1>1, <2>1, <3>1, <3>2 DEF OpenedOf
  <2> QED BY <2>1 DEF OpenedOf
<1>9. SavesOf(new)' /\ \A q \in Proc : OpenedOf(new, q) => OpenedOf(new, q)'
  BY <1>6, SavesStay
<1>10. LevelsOf(new)' /\ \A q \in Proc : Untouched(q) => Untouched(q)'
  BY <1>5, LevelsDeleted
<1>11. ASSUME NEW q \in Proc PROVE IF Began(q)' THEN Untouched(q)' ELSE GameOf(new, q)'
  <2>1. CASE q = p
    BY <1>1, <1>8, <1>9, <2>1 DEF GameOf
  <2>2. CASE q # p
    BY <1>7, <1>9, <1>10, <2>2 DEF Tagged, GameOf, Began
  <2> QED BY <2>1, <2>2
<1>12. Tagged(new)'
  BY <1>9, <1>10, <1>11 DEF Tagged
<1> QED BY <1>1, <1>12 DEF OneGameEach

\* A file that two have written stays noted.
LEMMA StaysClash == clash /\ [Next]_vars => clash'
BY DEF Next, Plays, Proceeds, RecoverProceeds, vars, ghosts, GetLock, WriteLockFile, WritePid,
       RestoreSavedGame, NewGame, Pickup, Drop, SetCheckpointOption, Done, Tricked, WriteLevel,
       GotoLevel, Leave, Enter, Checkpoint, Rewrite, SaveStateInLock, WriteLock, DoSave, AppendTo,
       SaveLevel, SaveGameState, CopyOut, DeleteLevel, CloseSave, DeleteHere, DeleteLock,
       DoRecover, CopyIn, CopyWrite, Recovered, RecoverStart, RecoverLevel, RecoverState,
       RecoverOther, RecoverDone, Crash, RecoverCrash

\* Every step but those of recover keeps games apart.
LEMMA StepOneGame ==
    ASSUME TypeOK, Orderly, OneGameEach, [Next]_vars, recover = "idle", recover' = "idle",
           ~clash'
    PROVE  OneGameEach'
<1> USE DEF Goto
<1>1. PICK tag \in [Proc -> Proc] : Tagged(tag)
  BY DEF OneGameEach
<1>2. LevelsOf(tag) /\ SavesOf(tag) /\ \A q \in Proc : ~Began(q) => GameOf(tag, q)
  BY <1>1 DEF Tagged
<1>3. Tagged(tag)' => OneGameEach'
  BY <1>1 DEF OneGameEach
<1> DEFINE Others(p) == \A q \in Proc \ {p} : pc'[q] = pc[q] /\ game'[q] = game[q]
           Levels(p) == LevelsOf(tag)' /\ \A q \in Proc \ {p} : Untouched(q) => Untouched(q)'
           Saves     == SavesOf(tag)' /\ \A q \in Proc : OpenedOf(tag, q) => OpenedOf(tag, q)'
           Memory2(p) == game'[p].inv \cup game'[p].cur \subseteq Of(tag[p])
<1>4. ASSUME NEW p \in Proc, Others(p), Levels(p), Saves, ~Began(p), ~Began(p)', Memory2(p)
      PROVE  OneGameEach'
  <2>1. OpenedOf(tag, p)' /\ \A q \in Proc \ {p} : ~Began(q) => OpenedOf(tag, q)'
    BY <1>2, <1>4 DEF GameOf
  <2>2. GameOf(tag, p)'
    BY <1>4, <2>1 DEF GameOf, Of
  <2>3. Tagged(tag)'
    BY <1>1, <1>4, <2>1, <2>2, StepTags
  <2> QED BY <1>3, <2>3
<1>5. ASSUME levelfile' = levelfile PROVE \A p \in Proc : Levels(p)
  BY <1>2, <1>5, LevelsDeleted
<1>6. ASSUME save' = save \/ save' = None, opened' = opened PROVE Saves
  BY <1>2, <1>6, SavesStay
<1> HIDE DEF Levels, Saves
<1>7. ASSUME NEW p \in Proc, GetLock(p) \/ WritePid(p) PROVE OneGameEach'
  <2>1. /\ Began(p) /\ Began(p)' /\ Others(p) /\ save' = save /\ opened' = opened
        /\ \A l \in Level : levelfile'[l] = levelfile[l] \/ levelfile'[l] = None
    BY <1>7 DEF GetLock, WritePid, Began, TypeOK
  <2>2. LevelsOf(tag)' /\ \A q \in Proc : Untouched(q) => Untouched(q)'
    BY <1>2, <2>1, LevelsDeleted
  <2>3. Saves
    BY <1>6, <2>1
  <2>4. Untouched(p) /\ \A q \in Proc \ {p} : ~Began(q) => OpenedOf(tag, q)'
    BY <1>1, <1>2, <2>1, <2>3 DEF Tagged, GameOf, Saves
  <2> QED BY <1>1, <1>3, <2>1, <2>2, <2>3, <2>4, StepTags DEF Saves
<1>8. ASSUME NEW p \in Proc, RestoreSavedGame(p) PROVE OneGameEach'
  <2>1. /\ Began(p) /\ Began(p)' /\ Others(p) /\ levelfile' = levelfile
        /\ save \in SaveFile /\ save # None /\ save' = [save EXCEPT !.readable = FALSE]
        /\ opened'[p] = save' /\ \A q \in Proc \ {p} : opened'[q] = opened[q]
    BY <1>8 DEF RestoreSavedGame, Began, TypeOK
  <2>2. /\ save'.writers = save.writers /\ save'.first = save.first
        /\ save'.state = save.state /\ save'.lev = save.lev
    BY <2>1 DEF SaveFile
  <2>3. SavesOf(tag)'
    <3>1. ASSUME NEW x \in SaveFiles' PROVE x = save' \/ x \in SaveFiles
      BY <2>1 DEF SaveFiles
    <3>2. FileOf(save, tag)
      BY <1>2, <2>1 DEF SavesOf, SaveFiles
    <3>3. FileOf(save', tag)
      BY <2>2, <3>2 DEF FileOf, OneWriter, SaveOf
    <3>4. ASSUME NEW x \in SaveFiles' PROVE FileOf(x, tag)
      BY <1>2, <3>1, <3>3 DEF SavesOf
    <3> QED BY <3>4 DEF SavesOf, FileOf, OneWriter, SaveOf, OfGame, Of
  <2>4. \A q \in Proc \ {p} : ~Began(q) => OpenedOf(tag, q)'
    BY <1>2, <2>1 DEF GameOf, OpenedOf, SaveOf, OfGame, Of
  <2>5. LevelsOf(tag)' /\ \A q \in Proc : Untouched(q) => Untouched(q)'
    BY <1>2, <2>1, LevelsDeleted
  <2>6. Untouched(p)
    BY <1>1, <2>1 DEF Tagged
  <2> QED BY <1>1, <1>3, <2>1, <2>3, <2>4, <2>5, <2>6, StepTags
<1>9. ASSUME NEW p \in Proc, NewGame(p) PROVE OneGameEach'
  <2>1. /\ Began(p) /\ ~Began(p)' /\ Others(p) /\ levelfile' = levelfile
        /\ save' = save \/ save' = None
        /\ opened' = opened /\ game'[p].inv \cup game'[p].cur \subseteq Of(p)
    BY <1>9 DEF NewGame, Began, TypeOK, Of
  <2>2. opened[p] = None
    BY <1>9 DEF NewGame, Orderly, HasFile, Reads
  <2> QED BY <1>1, <2>1, <2>2, NewTag
<1>10. ASSUME NEW p \in Proc, Ends(p), save' = save \/ save' = None,
              \A l \in Level : levelfile'[l] = levelfile[l] \/ levelfile'[l] = None
       PROVE  OneGameEach'
  <2>1. /\ ~Began(p)' /\ Others(p) /\ game'[p].inv = {} /\ game'[p].cur = {}
        /\ opened'[p] = None /\ \A q \in Proc : opened'[q] = opened[q] \/ opened'[q] = None
    BY <1>10, NoMemoryType DEF Ends, TypeOK, Began, NoMemory, Memory
  <2>2. LevelsOf(tag)' /\ \A q \in Proc : Untouched(q) => Untouched(q)'
    BY <1>2, <1>10, LevelsDeleted
  <2>3. SavesOf(tag)' /\ \A q \in Proc : OpenedOf(tag, q) => OpenedOf(tag, q)'
    BY <1>2, <1>10, <2>1, SavesStay
  <2>4. GameOf(tag, p)'
    BY <2>1 DEF GameOf, OpenedOf, Of
  <2>5. \A q \in Proc \ {p} : ~Began(q) => OpenedOf(tag, q)'
    BY <1>2, <2>3 DEF GameOf
  <2> QED BY <1>1, <1>3, <2>1, <2>2, <2>3, <2>4, <2>5, StepTags
<1>11. ASSUME NEW p \in Proc, Done(p) \/ Tricked(p) \/ DeleteLock(p) \/ Crash(p)
       PROVE  OneGameEach'
  BY <1>10, <1>11 DEF Done, Tricked, Cleared, DeleteLock, Crash, files
<1>12. ASSUME NEW p \in Proc, Pickup(p) \/ Drop(p) \/ SetCheckpointOption(p) \/ CloseSave(p)
       PROVE  OneGameEach'
  <2>1. /\ ~Began(p) /\ ~Began(p)' /\ Others(p)
        /\ levelfile' = levelfile /\ save' = save /\ opened' = opened
    BY <1>12 DEF Pickup, Drop, SetCheckpointOption, CloseSave, Began, TypeOK, files
  <2>2. game'[p].inv \cup game'[p].cur = game[p].inv \cup game[p].cur
    <3>1. game[p] \in Memory
      BY DEF TypeOK
    <3>2. CASE Pickup(p)
      <4>1. PICK t \in game[p].cur :
                game' = [game EXCEPT ![p].cur = @ \ {t}, ![p].inv = @ \cup {t}]
        BY <3>2 DEF Pickup
      <4>2. game'[p].cur = game[p].cur \ {t} /\ game'[p].inv = game[p].inv \cup {t}
        BY <3>1, <4>1 DEF TypeOK, Memory
      <4> QED BY <4>2
    <3>3. CASE Drop(p)
      <4>1. PICK t \in game[p].inv :
                game' = [game EXCEPT ![p].inv = @ \ {t}, ![p].cur = @ \cup {t}]
        BY <3>3 DEF Drop
      <4>2. game'[p].inv = game[p].inv \ {t} /\ game'[p].cur = game[p].cur \cup {t}
        BY <3>1, <4>1 DEF TypeOK, Memory
      <4> QED BY <4>2
    <3>4. CASE SetCheckpointOption(p) \/ CloseSave(p)
      <4>1. game'[p].inv = game[p].inv /\ game'[p].cur = game[p].cur
        BY <3>1, <3>4 DEF SetCheckpointOption, CloseSave, TypeOK, Memory
      <4> QED BY <4>1
    <3> QED BY <1>12, <3>2, <3>3, <3>4
  <2>3. Memory2(p)
    BY <1>2, <2>1, <2>2 DEF GameOf
  <2> QED BY <1>4, <1>5, <1>6, <2>1, <2>3
<1>13. ASSUME NEW p \in Proc, SaveStateInLock(p) \/ WriteLock(p) PROVE OneGameEach'
  <2>1. /\ ~Began(p) /\ ~Began(p)' /\ Others(p)
        /\ levelfile' = levelfile /\ save' = save /\ opened' = opened
        /\ game'[p].inv = game[p].inv /\ game'[p].cur = game[p].cur
    BY <1>13 DEF SaveStateInLock, WriteLock, AfterLock, Began, TypeOK, Memory
  <2>2. Memory2(p)
    BY <1>2, <2>1 DEF GameOf
  <2> QED BY <1>4, <1>5, <1>6, <2>1, <2>2
<1>14. ASSUME NEW p \in Proc, NEW k \in Level, NEW d, OfGame(d, tag[p]),
              CreateLevelFile(p, k) \/ (WriteLevel(p, k, d) /\ ~clash')
       PROVE  Levels(p)
  BY <1>2, <1>14, LevelsWritten DEF Levels
<1>15. ASSUME NEW p \in Proc, NEW k \in Level, CreateLevelFile(p, k) PROVE Levels(p)
  BY <1>14, <1>15 DEF OfGame
<1>16. ASSUME NEW p \in Proc, Checkpoint(p) \/ \E l \in Level : GotoLevel(p, l)
       PROVE  OneGameEach'
  <2>1. /\ ~Began(p) /\ ~Began(p)' /\ Others(p) /\ save' = save /\ opened' = opened
        /\ game'[p].inv = game[p].inv /\ game'[p].cur = game[p].cur
        /\ levelfile' = levelfile \/ CreateLevelFile(p, game[p].here)
    BY <1>16 DEF Checkpoint, GotoLevel, Noted, Began, TypeOK, Memory
  <2>2. Memory2(p)
    BY <1>2, <2>1 DEF GameOf
  <2>3. game[p].here \in Level
    BY DEF TypeOK, Memory
  <2> QED BY <1>4, <1>5, <1>6, <1>15, <2>1, <2>2, <2>3
<1>17. ASSUME NEW p \in Proc, Leave(p) \/ Rewrite(p) PROVE OneGameEach'
  <2>1. /\ ~Began(p) /\ ~Began(p)' /\ Others(p) /\ save' = save /\ opened' = opened
        /\ game' = game /\ WriteLevel(p, game[p].here, game[p].cur)
    BY <1>17 DEF Leave, Rewrite, LeftBehind, Began, TypeOK
  <2>2. Memory2(p) /\ OfGame(game[p].cur, tag[p])
    BY <1>2, <2>1 DEF GameOf, OfGame
  <2>3. game[p].here \in Level
    BY DEF TypeOK, Memory
  <2> QED BY <1>4, <1>6, <1>14, <2>1, <2>2, <2>3
<1>18. ASSUME NEW p \in Proc, Enter(p) PROVE OneGameEach'
  <2>1. /\ ~Began(p) /\ ~Began(p)' /\ Others(p)
        /\ levelfile' = levelfile /\ save' = save /\ opened' = opened
    BY <1>18 DEF Enter, Began, TypeOK, files
  <2>2. /\ game'[p].inv = game[p].inv
        /\ \/ game'[p].cur \in {game[p].cur, {}}
           \/ OwnLevel(p, dest[p]) /\ game'[p].cur = levelfile[dest[p]].data
    BY <1>18 DEF Enter, TypeOK, Memory
  <2>3. OwnLevel(p, dest[p]) => levelfile[dest[p]].data \subseteq Of(tag[p])
    <3>1. SUFFICES ASSUME OwnLevel(p, dest[p]) PROVE levelfile[dest[p]].data \subseteq Of(tag[p])
      OBVIOUS
    <3>2. /\ levelfile[dest[p]] # None /\ levelfile[dest[p]].pid = p
          /\ levelfile[dest[p]].data \in SUBSET Thing
      BY <3>1, ValuesAssumption DEF OwnLevel, PidIn, TypeOK, LevelFile, Content
    <3>3. dest[p] \in Level
      BY DEF TypeOK
    <3> QED BY <1>2, <3>2, <3>3, ValuesAssumption DEF LevelsOf, OfGame
  <2>4. Memory2(p)
    BY <1>2, <2>1, <2>2, <2>3 DEF GameOf
  <2> QED BY <1>4, <1>5, <1>6, <2>1, <2>4
<1>19. ASSUME NEW p \in Proc, DoSave(p) PROVE OneGameEach'
  <2>1. /\ ~Began(p) /\ ~Began(p)' /\ Others(p) /\ levelfile' = levelfile
        /\ opened' = opened /\ game' = game
        /\ save' \in {None, EmptySave(Writers(p, save, WritingSave))}
    BY <1>19 DEF DoSave, Began, TypeOK
  <2>2. \A W : FileOf(EmptySave(W), tag)
    BY DEF EmptySave, FileOf, SaveOf, OfGame
  <2>3. SavesOf(tag)'
    <3>1. ASSUME NEW x \in SaveFiles' PROVE FileOf(x, tag)
      BY <1>2, <2>1, <2>2 DEF SaveFiles, SavesOf
    <3> QED BY <3>1 DEF SavesOf, FileOf, OneWriter, SaveOf, OfGame, Of
  <2>4. Saves
    BY <2>1, <2>3 DEF Saves, OpenedOf, SaveOf, OfGame, Of
  <2>5. Memory2(p)
    BY <1>2, <2>1 DEF GameOf
  <2> QED BY <1>4, <1>5, <2>1, <2>4, <2>5
<1>20. ASSUME NEW p \in Proc, NEW f \in Created(p), NEW g, NEW spliced,
              f # None => g.writers = f.writers /\ (SaveOf(f, tag[p]) => SaveOf(g, tag[p])),
              AppendTo(p, f, g, spliced)
       PROVE  Saves
  BY <1>2, <1>20, SavesAppended DEF Saves
<1>21. ASSUME NEW p \in Proc, SaveLevel(p) PROVE OneGameEach'
  <2>1. PICK f \in Created(p) :
            AppendTo(p, f, [f EXCEPT !.first = game[p].cur],
                     {[f EXCEPT !.first = c] : c \in SplicedLevel(f.first, game[p].cur)})
    BY <1>21 DEF SaveLevel
  <2>2. /\ ~Began(p) /\ ~Began(p)' /\ Others(p) /\ levelfile' = levelfile /\ game' = game
    BY <1>21 DEF SaveLevel, Began, TypeOK
  <2> DEFINE g == [f EXCEPT !.first = game[p].cur]
  <2>3. f # None => g.writers = f.writers /\ (SaveOf(f, tag[p]) => SaveOf(g, tag[p]))
    <3>1. f # None => /\ g.writers = f.writers /\ g.first = game[p].cur
                      /\ g.state = f.state /\ g.lev = f.lev
      BY CreatedIs DEF SaveFile
    <3>2. OfGame(game[p].cur, tag[p])
      BY <1>2, <2>2 DEF GameOf, OfGame
    <3> QED BY <3>1, <3>2 DEF SaveOf
  <2>4. \E spliced : AppendTo(p, f, g, spliced)
    BY <2>1
  <2> HIDE DEF g
  <2>5. Saves /\ Memory2(p)
    BY <1>2, <1>20, <2>2, <2>3, <2>4 DEF GameOf
  <2> QED BY <1>4, <1>5, <2>2, <2>5
<1>22. ASSUME NEW p \in Proc, SaveGameState(p) PROVE OneGameEach'
  <2>1. PICK f \in Created(p) :
            AppendTo(p, f, [f EXCEPT !.state = StateOf(p)],
                     {[f EXCEPT !.state = x] : x \in SplicedState(f.state, StateOf(p))})
    BY <1>22 DEF SaveGameState
  <2>2. /\ ~Began(p) /\ ~Began(p)' /\ Others(p) /\ levelfile' = levelfile /\ game' = game
    BY <1>22 DEF SaveGameState, Began, TypeOK
  <2> DEFINE g == [f EXCEPT !.state = StateOf(p)]
  <2>3. f # None => g.writers = f.writers /\ (SaveOf(f, tag[p]) => SaveOf(g, tag[p]))
    <3>1. f # None => /\ g.writers = f.writers /\ g.first = f.first
                      /\ g.state = StateOf(p) /\ g.lev = f.lev
      BY CreatedIs DEF SaveFile
    <3>2. StateOf(p).inv \subseteq Of(tag[p])
      BY <1>2, <2>2 DEF GameOf, StateOf
    <3> QED BY <3>1, <3>2 DEF SaveOf
  <2>4. \E spliced : AppendTo(p, f, g, spliced)
    BY <2>1
  <2> HIDE DEF g
  <2>5. Saves /\ Memory2(p)
    BY <1>2, <1>20, <2>2, <2>3, <2>4 DEF GameOf
  <2> QED BY <1>4, <1>5, <2>2, <2>5
<1>23. ASSUME NEW p \in Proc, NEW l \in Level, CopyOut(p, l) PROVE OneGameEach'
  <2>1. /\ ~Began(p) /\ ~Began(p)' /\ Others(p) /\ levelfile' = levelfile /\ game' = game
    BY <1>23 DEF CopyOut, Began, TypeOK
  <2>2. Memory2(p)
    BY <1>2, <2>1 DEF GameOf
  <2>3. CASE ~OwnLevel(p, l)
    <3>1. opened' = opened /\ (save' = save \/ save' = None)
      BY <1>23, <2>3 DEF CopyOut
    <3> QED BY <1>4, <1>5, <1>6, <2>1, <2>2, <3>1
  <2>4. CASE OwnLevel(p, l)
    <3>1. PICK f \in Created(p) :
              AppendTo(p, f, [f EXCEPT !.lev[l] = levelfile[l].data],
                       {[f EXCEPT !.lev[l] = x] :
                           x \in SplicedLevel(f.lev[l], levelfile[l].data)})
      BY <1>23, <2>4 DEF CopyOut
    <3> DEFINE g == [f EXCEPT !.lev[l] = levelfile[l].data]
    <3>2. f # None => g.writers = f.writers /\ (SaveOf(f, tag[p]) => SaveOf(g, tag[p]))
      <4>1. f # None => f \in SaveFile
        BY CreatedIs
      <4>2. f # None => /\ g.writers = f.writers /\ g.first = f.first /\ g.state = f.state
                        /\ \A k \in Level : g.lev[k] = IF k = l THEN levelfile[l].data ELSE f.lev[k]
        BY <4>1 DEF SaveFile
      <4>3. levelfile[l] # None /\ levelfile[l].pid = p
        BY <2>4, ValuesAssumption DEF OwnLevel, PidIn
      <4>4. OfGame(levelfile[l].data, tag[p])
        BY <1>2, <4>3 DEF LevelsOf
      <4> QED BY <4>2, <4>4 DEF SaveOf
    <3>3. \E spliced : AppendTo(p, f, g, spliced)
      BY <3>1
    <3> HIDE DEF g
    <3>4. Saves
      BY <1>20, <3>2, <3>3
    <3> QED BY <1>4, <1>5, <2>1, <2>2, <3>4
  <2> QED BY <2>3, <2>4
<1>24. ASSUME NEW p \in Proc, DeleteLevel(p) \/ DeleteHere(p) PROVE OneGameEach'
  <2>1. /\ ~Began(p) /\ ~Began(p)' /\ Others(p) /\ save' = save /\ opened' = opened
        /\ game'[p].inv = game[p].inv /\ game'[p].cur = game[p].cur
        /\ \A k \in Level : levelfile'[k] = levelfile[k] \/ levelfile'[k] = None
    BY <1>24 DEF DeleteLevel, DeleteHere, DeleteLevelFile, Began, TypeOK, Memory
  <2>2. Levels(p)
    BY <1>2, <2>1, LevelsDeleted DEF Levels
  <2>3. Memory2(p)
    BY <1>2, <2>1 DEF GameOf
  <2> QED BY <1>4, <1>6, <2>1, <2>2, <2>3
<1>25. ASSUME NEW p \in Proc, DoRecover(p) PROVE OneGameEach'
  <2>1. CASE Legible(opened[p])
    <3>1. /\ Began(p) /\ ~Began(p)' /\ Others(p) /\ levelfile' = levelfile /\ save' = save
          /\ opened' = opened /\ game'[p].inv = opened[p].state.inv
          /\ game'[p].cur = opened[p].first
      BY <1>25, <2>1 DEF DoRecover, Began, TypeOK
    <3>2. /\ opened[p] # None /\ opened[p].first # None /\ opened[p] \in SaveFile
          /\ opened[p] \in SaveFiles
      BY <1>25 DEF DoRecover, Orderly, HasFile, TypeOK, SaveFiles
    <3>3. PICK w \in Proc : opened[p].writers = {w} /\ SaveOf(opened[p], tag[w])
      BY <1>2, <3>2 DEF SavesOf, FileOf, OneWriter
    <3>4. opened[p].state.inv \cup opened[p].first \subseteq Of(tag[w])
      BY <2>1, <3>2, <3>3 DEF SaveOf, OfGame, Legible
    <3>5. tag[w] \in Proc
      BY <3>3
    <3> QED BY <1>1, <3>1, <3>3, <3>4, <3>5, NewTag
  <2>2. CASE ~Legible(opened[p])
    BY <1>10, <1>25, <2>2 DEF DoRecover, RestoreFails
  <2> QED BY <2>1, <2>2
<1>26. ASSUME NEW p \in Proc, NEW l \in Level, CopyIn(p, l) PROVE OneGameEach'
  <2>1. CASE FromSave(p, l) # Garbage
    <3>1. /\ ~Began(p) /\ ~Began(p)' /\ Others(p) /\ save' = save /\ opened' = opened
          /\ game'[p].inv = game[p].inv /\ game'[p].cur = game[p].cur
          /\ CreateLevelFile(p, l)
      BY <1>26, <2>1 DEF CopyIn, Noted, Began, TypeOK, Memory
    <3>2. Memory2(p)
      BY <1>2, <3>1 DEF GameOf
    <3> QED BY <1>4, <1>6, <1>15, <3>1, <3>2
  <2>2. CASE FromSave(p, l) = Garbage
    BY <1>10, <1>26, <2>2 DEF CopyIn, RestoreFails
  <2> QED BY <2>1, <2>2
<1>27. ASSUME NEW p \in Proc, CopyWrite(p) PROVE OneGameEach'
  <2>1. /\ ~Began(p) /\ ~Began(p)' /\ Others(p) /\ save' = save /\ opened' = opened
        /\ game' = game /\ WriteLevel(p, dest[p], FromSave(p, dest[p])) /\ dest[p] \in Level
    BY <1>27 DEF CopyWrite, Began, TypeOK
  <2>2. Memory2(p)
    BY <1>2, <2>1 DEF GameOf
  <2>3. OfGame(FromSave(p, dest[p]), tag[p])
    <3>1. opened[p] # None
      BY <1>27 DEF CopyWrite, Orderly, HasFile, Reads
    <3>2. SaveOf(opened[p], tag[p])
      BY <1>2, <2>1, <3>1 DEF GameOf, OpenedOf
    <3> QED BY <2>1, <3>2 DEF SaveOf, FromSave
  <2> QED BY <1>4, <1>6, <1>14, <2>1, <2>2, <2>3
<1>28. ASSUME NEW p \in Proc, Recovered(p) PROVE OneGameEach'
  <2>1. /\ ~Began(p) /\ ~Began(p)' /\ Others(p) /\ levelfile' = levelfile /\ game' = game
        /\ save' = None /\ \A q \in Proc : opened'[q] = opened[q] \/ opened'[q] = None
    BY <1>28 DEF Recovered, Began, TypeOK
  <2>2. Saves
    BY <1>2, <2>1, SavesStay DEF Saves
  <2>3. Memory2(p)
    BY <1>2, <2>1 DEF GameOf
  <2> QED BY <1>4, <1>5, <2>1, <2>2, <2>3
<1>29. CASE UNCHANGED vars
  <2>1. Tagged(tag)'
    BY <1>1, <1>29 DEF vars, Tagged, LevelsOf, SavesOf, FileOf, OneWriter, SaveFiles, GameOf, OpenedOf, Untouched,
                       Began, SaveOf, OfGame, Of
  <2> QED BY <1>3, <2>1
<1>30. ~RecoverStart /\ ~RecoverProceeds /\ ~RecoverCrash
  BY DEF RecoverStart, RecoverProceeds, RecoverLevel, RecoverState, RecoverOther, RecoverDone,
         RecoverCrash
<1> QED
  BY <1>7, <1>8, <1>9, <1>11, <1>12, <1>13, <1>16, <1>17, <1>18, <1>19, <1>21, <1>22, <1>23,
     <1>24, <1>25, <1>26, <1>27, <1>28, <1>29, <1>30 DEF Next, Plays, Proceeds

\* Two processes whose files have the same names never mix their games: in any
\* behaviour in which the utility recover is not run, which takes whatever level
\* files it finds, and whatever the player answers to getlock, everything on the
\* hero and on the level came with one game, until two processes have written one
\* file that both had open, as creat() lets them.
THEOREM GamesKeepApart == Spec /\ [](recover = "idle") => []OneGame
<1> DEFINE Idle == recover = "idle"
           KeepApart == ~clash => OneGameEach
<1>1. Init => TypeOK /\ Orderly
  BY InitSeparate DEF Separate
<1>2. Init => KeepApart
  <2>1. SUFFICES ASSUME Init PROVE OneGameEach
    OBVIOUS
  <2>2. Tagged([q \in Proc |-> q])
    BY <2>1 DEF Init, Tagged, LevelsOf, SavesOf, SaveFiles, Began, Untouched
  <2> QED BY <2>2 DEF OneGameEach
<1>3. TypeOK /\ Orderly /\ [Next]_vars => (TypeOK /\ Orderly)'
  BY StepTypeOK, StepOrderly
<1>4. TypeOK /\ Orderly /\ KeepApart /\ [Next]_vars /\ Idle /\ Idle' => KeepApart'
  BY StepOneGame, StaysClash
<1>5. KeepApart => OneGame
  <2>1. SUFFICES ASSUME OneGameEach, NEW p \in Proc, pc[p] = "play",
                        NEW s \in game[p].inv \cup game[p].cur,
                        NEW t \in game[p].inv \cup game[p].cur
                 PROVE  s[1] = t[1]
    BY DEF OneGame, Pure
  <2>2. PICK tag \in [Proc -> Proc] : Tagged(tag)
    BY <2>1 DEF OneGameEach
  <2>3. game[p].inv \cup game[p].cur \subseteq Of(tag[p])
    BY <2>1, <2>2 DEF Tagged, Began, GameOf
  <2> QED BY <2>1, <2>3 DEF Of
<1> HIDE DEF Idle, KeepApart
<1>6. Spec /\ []Idle => []OneGame
  BY <1>1, <1>2, <1>3, <1>4, <1>5, PTL DEF Spec
<1> QED BY <1>6 DEF Idle
=============================================================================
