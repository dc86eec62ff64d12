--------------------------- MODULE TimerSetProofs ---------------------------
(***************************************************************************)
(* Proof that the timer queue implements TimerSet when no hangup interrupts*)
(* a timer's function, for every set of timers and levels: no timer is     *)
(* lost, doubled or called twice on its way through the queue, the level   *)
(* files and the save file.  And that obj_split_timers copies each timer   *)
(* once, though it puts the copies into the list it walks.                 *)
(***************************************************************************)
EXTENDS TimerQueueProofs

(***************************************************************************)
(* A timer without its mark, and the timers of a list.                     *)
(***************************************************************************)
Strip(t)  == [timeout |-> t.timeout, func |-> t.func, arg |-> t.arg, tid |-> t.tid]
BareTimer == [timeout : Int, func : Func, arg : Arg, tid : Nat]
In(q)     == Bare(Elements(q))

\* No two timers of a list have the same id.
Distinct(q) == \A i, j \in 1 .. Len(q) : q[i].tid = q[j].tid => i = j

\* No timer of one list has the id of a timer of the other.
Apart(q, r) == \A t \in In(q), u \in In(r) : t.tid # u.tid

\* Bare takes the marks off.
LEMMA BareIs == \A T : Bare(T) = {Strip(t) : t \in T}
BY DEF Bare, Strip

\* A timer without its mark has its other fields.
LEMMA StripFacts ==
    ASSUME NEW t \in Timer
    PROVE  /\ Strip(t) \in BareTimer
           /\ Strip(t).timeout = t.timeout /\ Strip(t).func = t.func
           /\ Strip(t).arg = t.arg /\ Strip(t).tid = t.tid
           /\ Strip(Marked(t)) = Strip(t)
           /\ Strip([t EXCEPT !.needs_fixup = FALSE]) = Strip(t)
BY DEF Strip, Timer, BareTimer, Marked

\* The timers of a list are those at its places.
LEMMA InIs ==
    ASSUME NEW q \in Seq(Timer)
    PROVE  /\ In(q) = {Strip(q[i]) : i \in 1 .. Len(q)}
           /\ In(q) = {Strip(t) : t \in Elements(q)}
           /\ In(q) \subseteq BareTimer
           /\ \A i \in 1 .. Len(q) : q[i] \in Timer
<1>1. \A i \in 1 .. Len(q) : q[i] \in Timer
  BY ElementOfSeq
<1>2. In(q) = {Strip(t) : t \in Elements(q)}
  BY BareIs DEF In
<1> HIDE DEF In
<1>3. In(q) = {Strip(q[i]) : i \in 1 .. Len(q)}
  BY <1>2 DEF Elements
<1>4. In(q) \subseteq BareTimer
  BY <1>1, <1>3, StripFacts
<1> QED BY <1>1, <1>2, <1>3, <1>4

\* A file holds timers.
LEMMA FileSeq ==
    ASSUME NEW q \in Seq(Written)
    PROVE  q \in Seq(Timer)
<1>1. \A i \in 1 .. Len(q) : q[i] \in Timer
  BY ElementOfSeq DEF Written
<1>2. Len(q) \in Nat /\ q \in [1 .. Len(q) -> Written]
  BY LenProperties
<1>3. q \in [1 .. Len(q) -> Timer]
  BY <1>1, <1>2
<1> QED BY <1>2, <1>3

\* There is nothing in an empty list.
LEMMA EmptyIn == In(<<>>) = {} /\ Distinct(<<>>) /\ Elements(<<>>) = {}
<1>1. Elements(<<>>) = {}
  BY NoSaveEmpty
<1>2. In(<<>>) = {}
  BY <1>1, BareIs DEF In
<1>3. Distinct(<<>>)
  BY DEF Distinct
<1> QED BY <1>1, <1>2, <1>3

\* insert_timer.
LEMMA InsertIn ==
    ASSUME NEW q \in Seq(Timer), NEW t \in Timer
    PROVE  /\ In(InsertTimer(q, t)) = In(q) \cup {Strip(t)}
           /\ Distinct(q) /\ (\A u \in In(q) : u.tid # t.tid) => Distinct(InsertTimer(q, t))
<1> DEFINE p == Position(q, t)
           n == InsertTimer(q, t)
<1>1. Elements(n) = Elements(q) \cup {t} /\ n \in Seq(Timer)
  BY InsertElements, InsertTimerFacts
<1>2. In(n) = In(q) \cup {Strip(t)}
  BY <1>1, BareIs DEF In
<1>3. Len(q) \in Nat /\ p \in 1 .. Len(q) + 1
  BY LenProperties, PositionFacts
<1> HIDE DEF p
<1>4. /\ Len(n) = Len(q) + 1
      /\ \A k \in 1 .. Len(q) + 1 :
            n[k] = IF k < p THEN q[k] ELSE IF k = p THEN t ELSE q[k - 1]
  BY <1>3, InsertAtFacts DEF InsertTimer, p
<1> HIDE DEF n
<1>5. ASSUME Distinct(q), \A u \in In(q) : u.tid # t.tid,
             NEW i \in 1 .. Len(n), NEW j \in 1 .. Len(n), n[i].tid = n[j].tid
      PROVE  i = j
  <2>1. ASSUME NEW k \in 1 .. Len(q) PROVE q[k].tid # t.tid
    <3>1. q[k] \in Timer /\ Strip(q[k]) \in In(q)
      BY InIs
    <3> QED BY <1>5, <3>1, StripFacts
  <2>2. /\ i < p => i \in 1 .. Len(q)
        /\ i > p => i - 1 \in 1 .. Len(q)
        /\ j < p => j \in 1 .. Len(q)
        /\ j > p => j - 1 \in 1 .. Len(q)
    BY <1>3, <1>4
  <2>3. /\ i \in Nat /\ j \in Nat /\ p \in Nat
        /\ n[i] = IF i < p THEN q[i] ELSE IF i = p THEN t ELSE q[i - 1]
        /\ n[j] = IF j < p THEN q[j] ELSE IF j = p THEN t ELSE q[j - 1]
    BY <1>3, <1>4
  <2>4. CASE i = p \/ j = p
    BY <1>5, <2>1, <2>2, <2>3, <2>4
  <2>5. CASE i < p /\ j < p
    BY <1>5, <2>2, <2>3, <2>5 DEF Distinct
  <2>6. CASE i < p /\ j > p
    <3>1. i = j - 1
      BY <1>5, <2>2, <2>3, <2>6 DEF Distinct
    <3> QED BY <2>3, <2>6, <3>1
  <2>7. CASE i > p /\ j < p
    <3>1. i - 1 = j
      BY <1>5, <2>2, <2>3, <2>7 DEF Distinct
    <3> QED BY <2>3, <2>7, <3>1
  <2>8. CASE i > p /\ j > p
    <3>1. i - 1 = j - 1
      BY <1>5, <2>2, <2>3, <2>8 DEF Distinct
    <3> QED BY <2>3, <3>1
  <2> QED BY <2>3, <2>4, <2>5, <2>6, <2>7, <2>8
<1> QED BY <1>2, <1>5 DEF n, Distinct

\* Unlinking a timer.
LEMMA RemoveIn ==
    ASSUME NEW q \in Seq(Timer), NEW i \in 1 .. Len(q)
    PROVE  /\ In(RemoveAt(q, i)) \cup {Strip(q[i])} = In(q)
           /\ Distinct(q) => /\ Distinct(RemoveAt(q, i))
                             /\ \A u \in In(RemoveAt(q, i)) : u.tid # q[i].tid
<1> DEFINE n == RemoveAt(q, i)
<1>1. Elements(n) \cup {q[i]} = Elements(q) /\ n \in Seq(Timer)
  BY RemoveElements, RemoveAtOrdered
<1>2. In(n) \cup {Strip(q[i])} = In(q)
  BY <1>1, BareIs DEF In
<1>3. Len(q) \in Nat /\ i \in Nat
  BY LenProperties
<1>4. /\ Len(n) = Len(q) - 1
      /\ \A k \in 1 .. Len(q) - 1 : n[k] = IF k < i THEN q[k] ELSE q[k + 1]
  BY RemoveAtFacts
<1> HIDE DEF n
<1> DEFINE at(k) == IF k < i THEN k ELSE k + 1
<1>5. \A k \in 1 .. Len(n) : at(k) \in 1 .. Len(q) /\ at(k) # i /\ n[k] = q[at(k)]
  BY <1>3, <1>4
<1>6. \A k, m \in 1 .. Len(n) : at(k) = at(m) => k = m
  BY <1>3, <1>4
<1> HIDE DEF at
<1>7. ASSUME Distinct(q) PROVE Distinct(n) /\ \A k \in 1 .. Len(n) : n[k].tid # q[i].tid
  BY <1>5, <1>6, <1>7 DEF Distinct
<1>8. ASSUME Distinct(q), NEW u \in In(n) PROVE u.tid # q[i].tid
  <2>1. PICK k \in 1 .. Len(n) : u = Strip(n[k]) /\ n[k] \in Timer
    BY <1>1, InIs
  <2> QED BY <1>7, <1>8, <2>1, StripFacts
<1> QED BY <1>2, <1>7, <1>8 DEF n

\* write_timer.
LEMMA AppendIn ==
    ASSUME NEW q \in Seq(Timer), NEW t \in Timer
    PROVE  /\ In(Append(q, t)) = In(q) \cup {Strip(t)}
           /\ Distinct(q) /\ (\A u \in In(q) : u.tid # t.tid) => Distinct(Append(q, t))
<1>1. Elements(Append(q, t)) = Elements(q) \cup {t}
  BY AppendElements
<1>2. In(Append(q, t)) = In(q) \cup {Strip(t)}
  BY <1>1, BareIs DEF In
<1>3. Len(q) \in Nat
  BY LenProperties
<1>4. /\ Len(Append(q, t)) = Len(q) + 1
      /\ \A k \in 1 .. Len(q) : Append(q, t)[k] = q[k]
      /\ Append(q, t)[Len(q) + 1] = t
  BY AppendProperties
<1>5. ASSUME Distinct(q), \A u \in In(q) : u.tid # t.tid PROVE Distinct(Append(q, t))
  <2>1. ASSUME NEW k \in 1 .. Len(q) PROVE q[k].tid # t.tid
    <3>1. q[k] \in Timer /\ Strip(q[k]) \in In(q)
      BY InIs
    <3> QED BY <1>5, <3>1, StripFacts
  <2>2. \A k \in 1 .. Len(q) + 1 : k \in 1 .. Len(q) \/ k = Len(q) + 1
    BY <1>3
  <2> QED BY <1>4, <1>5, <2>1, <2>2 DEF Distinct
<1> QED BY <1>2, <1>5

\* Taking the first timer.
LEMMA HeadIn ==
    ASSUME NEW q \in Seq(Timer), q # <<>>
    PROVE  /\ Head(q) \in Timer /\ In(q) = {Strip(Head(q))} \cup In(Tail(q))
           /\ Distinct(q) => /\ Distinct(Tail(q))
                             /\ \A u \in In(Tail(q)) : u.tid # Head(q).tid
<1>1. Elements(q) = {Head(q)} \cup Elements(Tail(q))
  BY HeadElements
<1>2. In(q) = {Strip(Head(q))} \cup In(Tail(q))
  BY <1>1, BareIs DEF In
<1>3. /\ Len(Tail(q)) = Len(q) - 1 /\ Len(q) \in Nat \ {0} /\ Tail(q) \in Seq(Timer)
      /\ \A k \in 1 .. Len(Tail(q)) : Tail(q)[k] = q[k + 1]
      /\ Head(q) = q[1] /\ Head(q) \in Timer
  BY HeadTailProperties, EmptySeq
<1>4. \A k \in 1 .. Len(Tail(q)) : k + 1 \in 1 .. Len(q) /\ 1 \in 1 .. Len(q) /\ k + 1 # 1
  BY <1>3
<1>5. ASSUME Distinct(q)
      PROVE  Distinct(Tail(q)) /\ \A k \in 1 .. Len(Tail(q)) : Tail(q)[k].tid # Head(q).tid
  BY <1>3, <1>4, <1>5 DEF Distinct
<1>6. ASSUME Distinct(q), NEW u \in In(Tail(q)) PROVE u.tid # Head(q).tid
  <2> DEFINE r == Tail(q)
  <2>1. r \in Seq(Timer) /\ u \in In(r)
    BY <1>3, <1>6
  <2> HIDE DEF r
  <2>2. PICK k \in 1 .. Len(r) : u = Strip(r[k]) /\ r[k] \in Timer
    BY <2>1, InIs
  <2> QED BY <1>5, <1>6, <2>2, StripFacts DEF r
<1> QED BY <1>2, <1>3, <1>5, <1>6

\* relink_timers and obj_move_timers.
LEMMA RewriteIn ==
    ASSUME NEW q \in Seq(Timer), NEW src \in Arg, NEW dest \in Arg
    PROVE  /\ In(Linked(q)) = In(q) /\ (Distinct(q) => Distinct(Linked(q)))
           /\ In(Retarget(q, src, dest)) =
                  {IF t.arg = src THEN [t EXCEPT !.arg = dest] ELSE t : t \in In(q)}
           /\ Distinct(q) => Distinct(Retarget(q, src, dest))
<1>1. Len(q) \in Nat /\ \A i \in 1 .. Len(q) : q[i] \in Timer
  BY LenProperties, InIs
<1>2. Linked(q) \in Seq(Timer) /\ Retarget(q, src, dest) \in Seq(Timer)
  BY RewriteFacts
<1>3. /\ Len(Linked(q)) = Len(q)
      /\ \A i \in 1 .. Len(q) : Linked(q)[i] = [q[i] EXCEPT !.needs_fixup = FALSE]
  BY <1>1 DEF Linked
<1>4. /\ Len(Retarget(q, src, dest)) = Len(q)
      /\ \A i \in 1 .. Len(q) : Retarget(q, src, dest)[i] =
             IF q[i].arg = src THEN [q[i] EXCEPT !.arg = dest] ELSE q[i]
  BY <1>1 DEF Retarget
<1>5. In(Linked(q)) = In(q)
  <2>1. \A i \in 1 .. Len(q) : Strip(Linked(q)[i]) = Strip(q[i])
    BY <1>1, <1>3, StripFacts
  <2>2. In(Linked(q)) = {Strip(Linked(q)[i]) : i \in 1 .. Len(q)}
    BY <1>2, <1>3, InIs
  <2> QED BY <2>1, <2>2, InIs
<1> DEFINE R(t) == IF t.arg = src THEN [t EXCEPT !.arg = dest] ELSE t
<1>6. In(Retarget(q, src, dest)) = {R(t) : t \in In(q)}
  <2>1. \A i \in 1 .. Len(q) : Strip(Retarget(q, src, dest)[i]) = R(Strip(q[i]))
    <3> SUFFICES ASSUME NEW i \in 1 .. Len(q)
                 PROVE  Strip(Retarget(q, src, dest)[i]) = R(Strip(q[i]))
      OBVIOUS
    <3>1. q[i] \in Timer
      BY <1>1
    <3>2. Strip([q[i] EXCEPT !.arg = dest]) = [Strip(q[i]) EXCEPT !.arg = dest]
      BY <3>1 DEF Strip, Timer
    <3> QED BY <1>4, <3>1, <3>2, StripFacts
  <2>2. In(Retarget(q, src, dest)) = {Strip(Retarget(q, src, dest)[i]) : i \in 1 .. Len(q)}
    BY <1>2, <1>4, InIs
  <2> HIDE DEF R
  <2>3. In(q) = {Strip(q[i]) : i \in 1 .. Len(q)}
    BY InIs
  <2> QED BY <2>1, <2>2, <2>3
<1>7. /\ \A i \in 1 .. Len(q) : Linked(q)[i].tid = q[i].tid
      /\ \A i \in 1 .. Len(q) : Retarget(q, src, dest)[i].tid = q[i].tid
  BY <1>1, <1>3, <1>4 DEF Timer
<1> QED BY <1>3, <1>4, <1>5, <1>6, <1>7 DEF Distinct

(***************************************************************************)
(* Where the timers that wait are.                                         *)
(***************************************************************************)
Pending  == Bare(Stored)
Calling  == Bare(curr)
InMemory == In(timer_base) \cup In(reading)
Filled   == UNION {In(levelfile[l]) : l \in Away}
Saved    == (UNION {In(savefile.local[l]) : l \in Level}) \cup In(savefile.global)

Parts == Pending = InMemory \cup Filled \cup Saved

\* Housed, said of timers without marks.
Placed ==
    /\ Pending \subseteq BareTimer /\ Calling \subseteq BareTimer
    /\ \A t \in InMemory : place[t.arg] \in {WithHero, mem}
    /\ LevelGone => \A t \in In(timer_base) : place[t.arg] = WithHero
    /\ \A l \in Away : \A t \in In(levelfile[l]) : place[t.arg] = l
    /\ \A l \in Level : \A t \in In(savefile.local[l]) : place[t.arg] = l
    /\ \A t \in In(savefile.global) : place[t.arg] = WithHero

\* The timers that wait are in memory, in level files or in the save file.
LEMMA PendingParts == Parts
<1> DEFINE LF(l) == Elements(levelfile[l])
           SF(l) == Elements(savefile.local[l])
           inLF(l) == In(levelfile[l])
           inSF(l) == In(savefile.local[l])
           files == UNION {LF(l) : l \in Away}
           saves == UNION {SF(l) : l \in Level}
           inSaves == UNION {inSF(l) : l \in Level}
<1>1. Stored = ((((Elements(timer_base) \cup Elements(reading)) \cup files) \cup saves)
                   \cup Elements(savefile.global))
  BY DEF Stored
<1>2. Filled = UNION {inLF(l) : l \in Away}
  BY DEF Filled
<1>3. Saved = inSaves \cup In(savefile.global)
  BY DEF Saved
<1>4. /\ \A l : inLF(l) = {Strip(t) : t \in LF(l)}
      /\ \A l : inSF(l) = {Strip(t) : t \in SF(l)}
      /\ \A q : In(q) = {Strip(t) : t \in Elements(q)}
  BY BareIs DEF In
<1>5. Pending = {Strip(t) : t \in Stored}
  BY BareIs DEF Pending
<1> HIDE DEF LF, SF, inLF, inSF, Strip
<1>6. /\ \A t : t \in files <=> \E l \in Away : t \in LF(l)
      /\ \A t : t \in saves <=> \E l \in Level : t \in SF(l)
      /\ \A t : t \in inSaves <=> \E l \in Level : t \in inSF(l)
  OBVIOUS
<1> HIDE DEF files, saves, inSaves
<1>7. ASSUME NEW b
      PROVE  b \in Pending <=> b \in InMemory \cup Filled \cup Saved
  <2>1. b \in Pending <=> \E t \in Stored : b = Strip(t)
    BY <1>5
  <2>2. b \in Filled <=> \E l \in Away : \E t \in LF(l) : b = Strip(t)
    BY <1>1, <1>2, <1>3, <1>4
  <2>3. b \in InMemory <=> \/ \E t \in Elements(timer_base) : b = Strip(t)
                           \/ \E t \in Elements(reading) : b = Strip(t)
    BY <1>4 DEF InMemory
  <2>4. b \in Saved <=> \/ \E l \in Level : \E t \in SF(l) : b = Strip(t)
                        \/ \E t \in Elements(savefile.global) : b = Strip(t)
    BY <1>1, <1>2, <1>3, <1>4, <1>6
  <2>5. \A t : t \in Stored <=> \/ t \in Elements(timer_base) \/ t \in Elements(reading)
                                \/ \E l \in Away : t \in LF(l)
                                \/ \E l \in Level : t \in SF(l)
                                \/ t \in Elements(savefile.global)
    BY <1>1, <1>2, <1>3, <1>6
  <2> QED BY <2>1, <2>2, <2>3, <2>4, <2>5
<1> QED BY <1>7 DEF Parts

\* What is known of a list's timers is known of them without marks.
LEMMA InFrom ==
    ASSUME NEW q \in Seq(Timer), NEW S, \A t \in Elements(q) : place[t.arg] \in S
    PROVE  \A t \in In(q) : place[t.arg] \in S /\ t \in BareTimer
<1> SUFFICES ASSUME NEW b \in In(q) PROVE place[b.arg] \in S /\ b \in BareTimer
  OBVIOUS
<1>1. PICK t \in Elements(q) : b = Strip(t)
  BY InIs
<1>2. t \in Timer
  BY ElementsType
<1> QED BY <1>1, <1>2, StripFacts

\* Timers are where they belong, without marks too.
LEMMA HousedPlaced == TypeOK /\ Housed => Placed
<1> SUFFICES ASSUME TypeOK, Housed PROVE Placed
  OBVIOUS
<1>1. /\ timer_base \in Seq(Timer) /\ reading \in Seq(Timer)
      /\ savefile.global \in Seq(Timer)
      /\ \A l \in Level : levelfile[l] \in Seq(Timer) /\ savefile.local[l] \in Seq(Timer)
  <2>1. /\ reading \in Seq(Written) /\ savefile.global \in Seq(Written)
        /\ \A l \in Level : levelfile[l] \in Seq(Written)
                           /\ savefile.local[l] \in Seq(Written)
    BY DEF TypeOK
  <2> QED BY <2>1, FileSeq DEF TypeOK
<1>2. \A t \in In(timer_base) : place[t.arg] \in {WithHero, mem}
  BY <1>1, InFrom DEF Housed, Memory
<1>3. \A t \in In(reading) : place[t.arg] \in {WithHero, mem}
  BY <1>1, InFrom DEF Housed, Memory
<1>4. LevelGone => \A t \in In(timer_base) : place[t.arg] \in {WithHero}
  BY <1>1, InFrom DEF Housed, HeroOnly
<1>5. ASSUME NEW l \in Away PROVE \A t \in In(levelfile[l]) : place[t.arg] \in {l}
  <2>1. levelfile[l] \in Seq(Timer) /\ \A t \in Elements(levelfile[l]) : place[t.arg] \in {l}
    BY <1>1 DEF Away, Housed, Filed
  <2> QED BY <2>1, InFrom
<1>6. ASSUME NEW l \in Level PROVE \A t \in In(savefile.local[l]) : place[t.arg] \in {l}
  <2>1. /\ savefile.local[l] \in Seq(Timer)
        /\ \A t \in Elements(savefile.local[l]) : place[t.arg] \in {l}
    BY <1>1 DEF Housed, Filed
  <2> QED BY <2>1, InFrom
<1>7. \A t \in In(savefile.global) : place[t.arg] \in {WithHero}
  BY <1>1, InFrom DEF Housed, Filed
<1>8. Pending \subseteq BareTimer
  <2>1. \A l \in Away : In(levelfile[l]) \subseteq BareTimer
    BY <1>1, InIs DEF Away
  <2>2. \A l \in Level : In(savefile.local[l]) \subseteq BareTimer
    BY <1>1, InIs
  <2>3. InMemory \subseteq BareTimer /\ In(savefile.global) \subseteq BareTimer
    BY <1>1, InIs DEF InMemory
  <2>4. Filled \subseteq BareTimer
    BY <2>1 DEF Filled
  <2> DEFINE SF(l) == In(savefile.local[l])
  <2>5. /\ Saved = (UNION {SF(l) : l \in Level}) \cup In(savefile.global)
        /\ \A l \in Level : SF(l) \subseteq BareTimer
    BY <2>2 DEF Saved
  <2> HIDE DEF SF
  <2>6. UNION {SF(l) : l \in Level} \subseteq BareTimer
    BY <2>5
  <2>7. Saved \subseteq BareTimer
    BY <2>3, <2>5, <2>6
  <2> QED BY <2>3, <2>4, <2>7, PendingParts DEF Parts
<1>9. Calling \subseteq BareTimer
  BY BareIs, StripFacts DEF TypeOK, Calling
<1> QED BY <1>2, <1>3, <1>4, <1>5, <1>6, <1>7, <1>8, <1>9 DEF Placed, InMemory

(***************************************************************************)
(* How timers are kept.                                                    *)
(***************************************************************************)
Copying  == {"copyout", "putsave", "copied"}
Recovery == {"restgamestate", "restlevelfile", "copyin", "recovered"}
Globals  == pc = "save" /\ out = "savestate"

\* The next timer's id and the turn, which come from the save file after dorecover
\* has begun.
NextId == IF then = "restgamestate" THEN savefile.timer_id ELSE timer_id
Turn   == IF then = "restgamestate" THEN savefile.monstermoves ELSE monstermoves

\* An id is a timer's.
Ids ==
    /\ \A t \in Pending \cup Calling : t.tid < NextId
    /\ \A t, u \in Pending : t.tid = u.tid => t = u
    /\ \A t \in Calling, u \in Pending : t.tid # u.tid

\* The list save_timers appends to.
Target == IF out = "levelfile" THEN levelfile[mem]
          ELSE IF out = "savefile" THEN savefile.local[mem] ELSE savefile.global

\* A list has a timer once, and what is read or written is taken from elsewhere.
Lists ==
    /\ Distinct(timer_base) /\ Distinct(reading)
    /\ \A l \in Away : Distinct(levelfile[l])
    /\ \A l \in Level : Distinct(savefile.local[l])
    /\ Distinct(savefile.global)
    /\ Apart(timer_base, reading)
    /\ pc = "save" => Apart(timer_base, Target)

\* A function is called in run_timers.
Calls == pc \notin {"call", "split", "stop"} => curr = {}

\* dosave0: a level's timers are in its file or in the save file, a level's file is
\* removed when its timers are in the save file, and memory is empty in the end.
Saves ==
    /\ At = "savegame" => /\ savefile.global = <<>>
                          /\ \A l \in Level \ {here} : savefile.local[l] = <<>>
    /\ Globals => todo = Level \ {here}
    /\ At \in Copying => /\ \A l \in todo : savefile.local[l] = <<>>
                         /\ \A l \in Away : \/ l \in todo \/ levelfile[l] = <<>>
                                            \/ At # "copyout" /\ l = mem
                         /\ ~Globals => \A t \in InMemory : place[t.arg] # WithHero
    /\ At = "putsave" => savefile.local[mem] = <<>>
    /\ At \in {"putsave", "copied"} =>
           /\ mem # here /\ mem \notin todo
           /\ In(levelfile[mem]) \subseteq InMemory \cup In(savefile.local[mem])
    /\ pc = "saved" => InMemory = {} /\ \A l \in Away : levelfile[l] = <<>>
    /\ At \in Copying \cup {"saved"} => /\ savefile.timer_id = timer_id
                                        /\ savefile.monstermoves = monstermoves

\* dorecover: the save file has everything until memory and the level files do.
Restores ==
    At \in Recovery =>
        /\ InMemory \cup Filled \subseteq Saved
        /\ At = "restgamestate" => /\ todo = Level \ {here}
                                   /\ In(savefile.local[here]) \subseteq InMemory
                                   /\ \A t \in InMemory : place[t.arg] = here
        /\ At # "restgamestate" =>
               /\ In(savefile.global) \subseteq InMemory
               /\ \A l \in Level \ {here} :
                      \/ l \in todo
                      \/ In(savefile.local[l]) \subseteq In(levelfile[l]) \cup InMemory
        /\ At = "restlevelfile" => In(savefile.local[mem]) \subseteq InMemory
        /\ At = "recovered" => todo = {} /\ In(savefile.local[here]) \subseteq InMemory

Kept == Ids /\ Lists /\ Calls /\ Saves /\ Restores

(***************************************************************************)
(* Steps.                                                                  *)
(***************************************************************************)
Refines == [Set!Next]_(Set!timing)

\* What is known of the state before and after a step.
Known == /\ TypeOK /\ Sorted /\ Housed /\ Placed /\ Parts
         /\ TypeOK' /\ Housed' /\ Placed' /\ Parts'

\* Nothing happens to timers, and no function is interrupted.
Quiet == /\ Pending' = Pending /\ curr' = curr /\ NextId' = NextId /\ Turn' = Turn
         /\ \/ curr = {}
            \/ pc \in Playing /\ pc' \in Playing /\ here' = here

\* Such a step is one of TimerSet's, or none.
LEMMA QuietRefines == Quiet => Refines
<1> SUFFICES ASSUME Quiet PROVE Set!Travel
  BY DEF Refines, Set!Next
<1>1. curr = {} => Bare(curr) = {}
  BY BareIs
<1>2. Bare(curr)' = Bare(curr)
  BY DEF Quiet
<1> QED BY <1>1, <1>2 DEF Quiet, Turn, Pending, Playing, Set!Travel

\* And it keeps ids apart.
LEMMA QuietIds == Ids /\ Quiet => Ids'
<1> SUFFICES ASSUME Ids, Quiet PROVE Ids'
  OBVIOUS
<1>1. Calling' = Calling
  BY DEF Quiet, Calling
<1> QED BY <1>1 DEF Ids, Quiet

(***************************************************************************)
(* Steps of the game, while no level is changed and nothing is saved.      *)
(***************************************************************************)
\* While the game is played timers are in the queue and in files of other levels.
LEMMA PlayFacts ==
    ASSUME TypeOK, Housed, Placed, Parts, pc \in Playing
    PROVE  /\ timer_base \in Seq(Timer) /\ In(timer_base) \subseteq BareTimer
           /\ reading = <<>> /\ mem = here /\ savefile = NoSave
           /\ then \in {"play", "run"} /\ At = pc
           /\ NextId = timer_id /\ Turn = monstermoves
           /\ Pending = In(timer_base) \cup Filled
           /\ \A t \in In(timer_base) : place[t.arg] \in {here, WithHero}
           /\ \A t \in Filled : place[t.arg] \notin {here, WithHero}
<1>1. /\ timer_base \in Seq(Timer) /\ In(timer_base) \subseteq BareTimer
  BY InIs DEF TypeOK
<1>2. At = pc /\ pc \notin {"read", "save"}
  BY DEF At, Playing
<1>3. reading = <<>> /\ mem = here /\ savefile = NoSave /\ then \in {"play", "run"}
  BY <1>2 DEF Housed, Marks, HeroHere, Idle, Control, Playing
<1>4. Saved = {} /\ InMemory = In(timer_base)
  <2>1. \A l \in Level : savefile.local[l] = <<>>
    BY <1>3 DEF NoSave
  <2>2. savefile.global = <<>>
    BY <1>3 DEF NoSave
  <2> QED BY <1>3, <2>1, <2>2, EmptyIn DEF Saved, InMemory
<1>5. \A t \in Filled : place[t.arg] \notin {here, WithHero}
  <2> SUFFICES ASSUME NEW l \in Away, NEW t \in In(levelfile[l])
               PROVE  place[t.arg] \notin {here, WithHero}
    BY DEF Filled
  <2>1. l \in Level /\ l # here /\ l # WithHero
    BY <1>3, PlacesAssumption DEF Away
  <2> QED BY <2>1 DEF Placed
<1> QED BY <1>1, <1>2, <1>3, <1>4, <1>5 DEF Parts, Placed, InMemory, NextId, Turn

\* Files are left alone.
Rest == pc \in Playing /\ pc' \in Playing /\ UNCHANGED <<reading, levelfile, savefile, here, mem>>

\* Then what is in files stays there.
LEMMA PlayParts ==
    ASSUME Known, Rest
    PROVE  Filled' = Filled /\ Pending' = In(timer_base') \cup Filled /\ Away' = Away
<1>1. pc \in Playing /\ then \in {"play", "run"}
  BY PlayFacts DEF Known, Rest
<1>2. then' \in {"play", "run"}
  BY DEF Known, Rest, Housed, Control
<1>3. Filled' = Filled /\ Away' = Away
  BY <1>1, <1>2 DEF Rest, Filled, Away
<1>4. InMemory' = In(timer_base') /\ Saved' = {}
  <2>1. reading' = <<>> /\ savefile' = NoSave
    BY PlayFacts DEF Known, Rest
  <2>2. \A l \in Level : savefile'.local[l] = <<>>
    BY <2>1 DEF NoSave
  <2>3. savefile'.global = <<>>
    BY <2>1 DEF NoSave
  <2> QED BY <2>1, <2>2, <2>3, EmptyIn DEF Saved, InMemory
<1> QED BY <1>3, <1>4 DEF Known, Parts

\* And only the queue and the ids need be looked at.
LEMMA PlayKept ==
    ASSUME Known, Kept, Rest, Ids', Calls', Distinct(timer_base')
    PROVE  Kept'
<1>1. Away' = Away /\ reading' = <<>> /\ savefile' = savefile /\ levelfile' = levelfile
  BY PlayParts, PlayFacts DEF Known, Rest
<1>2. At' = pc' /\ pc' \notin {"save", "read"}
  BY DEF Rest, Playing, At
<1>3. Lists'
  <2>1. Distinct(reading') /\ Apart(timer_base', reading')
    BY <1>1, EmptyIn DEF Apart
  <2>2. pc' # "save"
    BY <1>2
  <2> QED BY <1>1, <2>1, <2>2 DEF Kept, Lists
<1>4. Saves'
  BY <1>2 DEF Rest, Playing, Saves, Copying, Globals
<1>5. Restores'
  BY <1>2 DEF Rest, Playing, Restores, Recovery
<1> QED BY <1>3, <1>4, <1>5 DEF Kept

\* A timer is started: start_timer, and a turn of obj_split_timers.
LEMMA Started ==
    ASSUME Known, Kept, Rest, NEW t \in Timer, t.tid = timer_id,
           timer_base' = InsertTimer(timer_base, t), timer_id' = timer_id + 1, Calls',
           UNCHANGED <<monstermoves, place, curr>>
    PROVE  Kept' /\ Refines
<1>1. t \in Timer /\ t.tid = timer_id
  OBVIOUS
<1>2. timer_base' = InsertTimer(timer_base, t) /\ timer_id' = timer_id + 1
  OBVIOUS
<1>3. Rest /\ pc \in Playing /\ curr' = curr /\ monstermoves' = monstermoves
      /\ place' = place /\ here' = here
  BY DEF Rest
<1>4. timer_base \in Seq(Timer) /\ NextId = timer_id /\ Pending = In(timer_base) \cup Filled
  BY <1>3, PlayFacts DEF Known
<1>5. Pending' = Pending \cup {Strip(t)} /\ NextId' = timer_id + 1
  <2>1. Pending' = In(timer_base') \cup Filled
    BY <1>3, PlayParts
  <2>2. In(timer_base') = In(timer_base) \cup {Strip(t)}
    BY <1>1, <1>2, <1>4, InsertIn
  <2>3. then' \in {"play", "run"}
    BY <1>3 DEF Known, Rest, Housed, Control
  <2> QED BY <1>2, <1>4, <2>1, <2>2, <2>3 DEF NextId
<1>6. \A u \in Pending \cup Calling : u \in BareTimer /\ u.tid < timer_id /\ u.tid # timer_id
  <2>1. \A u \in Pending \cup Calling : u \in BareTimer /\ u.tid < timer_id
    BY <1>4 DEF Known, Placed, Kept, Ids
  <2>2. \A u \in BareTimer : u.tid \in Nat
    BY DEF BareTimer
  <2>3. timer_id \in Nat
    BY DEF Known, TypeOK
  <2> QED BY <2>1, <2>2, <2>3
<1>7. Strip(t).tid = timer_id /\ Strip(t) \in BareTimer /\ timer_id \in Nat
  BY <1>1, StripFacts DEF Known, TypeOK
<1>8. Calling' = Calling
  BY <1>3 DEF Calling
<1>9. Ids'
  <2>1. \A u \in (Pending \cup Calling)' : u.tid < timer_id + 1
    <3>1. \A u \in BareTimer : u.tid \in Nat
      BY DEF BareTimer
    <3> QED BY <1>5, <1>6, <1>7, <1>8, <3>1
  <2>2. \A u, v \in Pending' : u.tid = v.tid => u = v
    BY <1>5, <1>6, <1>7 DEF Kept, Ids
  <2>3. \A u \in Calling', v \in Pending' : u.tid # v.tid
    BY <1>5, <1>6, <1>7, <1>8 DEF Kept, Ids
  <2> QED BY <1>5, <2>1, <2>2, <2>3 DEF Ids
<1>10. Distinct(timer_base')
  <2>1. \A u \in In(timer_base) : u.tid # t.tid
    BY <1>1, <1>4, <1>6
  <2> QED BY <1>1, <1>2, <1>4, <2>1, InsertIn DEF Kept, Lists
<1>11. Kept'
  BY <1>3, <1>9, <1>10, PlayKept
<1>12. Set!Start
  <2>1. Strip(t) \in Pending' /\ (\A u \in Pending \cup Calling : u.tid # Strip(t).tid)
    BY <1>5, <1>6, <1>7
  <2>2. Turn' = Turn
    BY <1>3, PlayFacts DEF Known, Rest, Turn, Housed, Control
  <2> QED BY <1>3, <1>5, <1>8, <2>1, <2>2
       DEF Set!Start, Pending, Calling, Turn, Playing
<1>13. pc' \in Playing
  BY <1>3 DEF Rest
<1> QED BY <1>11, <1>12, <1>13 DEF Refines, Set!Next, Playing

\* start_timer.
LEMMA StartStep ==
    ASSUME Known, Kept, NEW when \in Delays, NEW func \in Func, NEW a \in Arg,
           StartTimer(when, func, a)
    PROVE  Kept' /\ Refines
<1> DEFINE t == NewTimer(when, func, a)
<1>1. t \in Timer /\ t.tid = timer_id
  BY NewTimerFacts, DelaysAssumption DEF Known, NewTimer
<1>2. /\ timer_base' = InsertTimer(timer_base, t) /\ timer_id' = timer_id + 1
      /\ pc \in {"play", "call"}
      /\ UNCHANGED <<monstermoves, place, here, mem, levelfile, savefile, pc, loops>>
  BY DEF StartTimer, Free
<1> HIDE DEF t
<1>3. Rest /\ UNCHANGED <<monstermoves, place, curr>>
  BY <1>2 DEF Rest, Playing, loops
<1>4. Calls'
  BY <1>2, <1>3 DEF Kept, Calls
<1> QED BY <1>1, <1>2, <1>3, <1>4, Started

\* A step of the game that starts no timer leaves the next id and the turn.
LEMMA PlayClock ==
    ASSUME Known, Rest
    PROVE  /\ timer_id' = timer_id => NextId' = NextId
           /\ monstermoves' = monstermoves => Turn' = Turn
<1>1. then \in {"play", "run"} /\ then' \in {"play", "run"}
  BY DEF Known, Rest, Housed, Control
<1> QED BY <1>1 DEF NextId, Turn

\* Taking a timer out of the queue.
LEMMA TakeOut ==
    ASSUME Known, Kept, Rest, NEW i \in 1 .. Len(timer_base),
           timer_base' = RemoveAt(timer_base, i)
    PROVE  /\ Strip(timer_base[i]) \in Pending
           /\ Pending' = Pending \ {Strip(timer_base[i])}
           /\ Distinct(timer_base')
<1> DEFINE t == timer_base[i]
<1>1. timer_base \in Seq(Timer) /\ Pending = In(timer_base) \cup Filled
      /\ Pending' = In(timer_base') \cup Filled
  BY PlayFacts, PlayParts DEF Known, Rest
<1>2. t \in Timer /\ Strip(t).tid = t.tid
  BY <1>1, InIs, StripFacts
<1>3. /\ In(timer_base') \cup {Strip(t)} = In(timer_base) /\ Distinct(timer_base')
      /\ \A u \in In(timer_base') : u.tid # t.tid
  BY <1>1, RemoveIn DEF Kept, Lists
<1>4. Strip(t) \notin Filled
  BY <1>3, PlayFacts DEF Known, Rest
<1> HIDE DEF t
<1>5. Strip(t) \notin In(timer_base')
  BY <1>2, <1>3
<1>6. Strip(t) \in Pending /\ Pending' = Pending \ {Strip(t)}
  BY <1>1, <1>3, <1>4, <1>5
<1> QED BY <1>3, <1>6 DEF t

\* Ids stay apart when timers go.
LEMMA FewerIds ==
    ASSUME Ids, Pending' \subseteq Pending, Calling' = Calling, NextId' = NextId
    PROVE  Ids'
BY DEF Ids

\* A timer is stopped: stop_timer, and a turn of obj_stop_timers.
LEMMA Stopped ==
    ASSUME Known, Kept, Rest, NEW i \in 1 .. Len(timer_base),
           timer_base' = RemoveAt(timer_base, i), curr' = curr, Calls',
           UNCHANGED <<monstermoves, timer_id, place>>
    PROVE  Kept' /\ Refines
<1>1. /\ Strip(timer_base[i]) \in Pending
      /\ Pending' = Pending \ {Strip(timer_base[i])}
      /\ Distinct(timer_base')
  BY TakeOut
<1>2. NextId' = NextId /\ Turn' = Turn /\ Calling' = Calling
  BY PlayClock DEF Calling
<1>3. Kept'
  BY <1>1, <1>2, FewerIds, PlayKept DEF Kept
<1>4. Set!Stop
  <2> DEFINE t == Strip(timer_base[i])
  <2>1. t \in Pending /\ Pending' = Pending \ {t}
    BY <1>1
  <2> HIDE DEF t
  <2> QED BY <2>1, <1>2 DEF Set!Stop, Pending, Calling, Turn, Rest, Playing
<1>5. pc' \in Playing
  BY DEF Rest
<1> QED BY <1>3, <1>4, <1>5 DEF Refines, Set!Next, Playing

\* stop_timer.
LEMMA StopTimerStep ==
    ASSUME Known, Kept, NEW func \in Func, NEW a \in Arg, StopTimer(func, a)
    PROVE  Kept' /\ Refines
<1> DEFINE i == Least(Matches(timer_base, func, a))
<1>1. i \in 1 .. Len(timer_base)
  BY IndexFacts DEF Known, TypeOK, StopTimer, Matches
<1>2. /\ timer_base' = RemoveAt(timer_base, i) /\ pc \in {"play", "call"}
      /\ UNCHANGED <<world, pc, loops>>
  BY DEF StopTimer, Free
<1> HIDE DEF i
<1>3. Rest /\ curr' = curr /\ UNCHANGED <<monstermoves, timer_id, place>>
  BY <1>2 DEF Rest, Playing, world, loops
<1>4. Calls'
  BY <1>2, <1>3 DEF Kept, Calls
<1> QED BY <1>1, <1>2, <1>3, <1>4, Stopped

\* Nothing is done to the queue.
LEMMA PlayQuiet ==
    ASSUME Known, Kept, Rest, Calls', UNCHANGED <<timer_base, timer_id, monstermoves, curr>>
    PROVE  Kept' /\ Refines
<1>1. Pending' = Pending
  BY PlayFacts, PlayParts DEF Known, Rest
<1>2. NextId' = NextId /\ Turn' = Turn
  BY PlayClock
<1>3. Quiet
  BY <1>1, <1>2 DEF Quiet, Rest
<1>4. Distinct(timer_base')
  BY DEF Kept, Lists
<1>5. Ids'
  BY <1>3, QuietIds DEF Kept
<1> QED BY <1>3, <1>4, <1>5, QuietRefines, PlayKept

\* obj_stop_timers, obj_split_timers and the moves of objects touch no timer at first.
LEMMA BeginSteps ==
    ASSUME Known, Kept,
           \/ \E a \in Arg : ObjStopTimers(a)
           \/ \E src, dest \in Arg : ObjSplitTimers(src, dest)
           \/ \E a \in Arg, p \in Level \cup {WithHero} : MoveObj(a, p)
    PROVE  Kept' /\ Refines
<1>1. /\ pc \in {"play", "call"} /\ pc' \in {pc, "stop", "split"}
      /\ UNCHANGED <<reading, levelfile, savefile, here, mem, timer_base, curr, then, monstermoves,
                     timer_id>>
  BY DEF ObjStopTimers, ObjSplitTimers, MoveObj, Free, world, loops
<1>2. Rest
  BY <1>1 DEF Rest, Playing
<1>3. Calls'
  BY <1>1 DEF Kept, Calls
<1> QED BY <1>1, <1>2, <1>3, PlayQuiet

\* obj_stop_timers.
LEMMA StopStepStep ==
    ASSUME Known, Kept, StopStep
    PROVE  Kept' /\ Refines
<1> DEFINE I == Of(timer_base, walk.src)
<1>1. /\ pc = "stop" /\ UNCHANGED <<world, then, curr, out, reading, todo>>
      /\ \/ I = {} /\ pc' = Back /\ UNCHANGED timer_base
         \/ I # {} /\ timer_base' = RemoveAt(timer_base, Least(I)) /\ pc' = pc
  BY DEF StopStep
<1>2. I # {} => Least(I) \in 1 .. Len(timer_base)
  BY IndexFacts DEF Known, TypeOK, Of
<1> HIDE DEF I
<1>3. Rest /\ Calls'
  BY <1>1 DEF Rest, Playing, world, Back, Kept, Calls
<1>4. CASE I = {}
  BY <1>1, <1>3, <1>4, PlayQuiet DEF world
<1>5. CASE I # {}
  BY <1>1, <1>2, <1>3, <1>5, Stopped DEF world
<1> QED BY <1>4, <1>5

\* obj_split_timers.
LEMMA SplitStepStep ==
    ASSUME Known, Kept, SplitStep
    PROVE  Kept' /\ Refines
<1>1. /\ pc = "split"
      /\ UNCHANGED <<monstermoves, place, here, mem, levelfile, savefile, curr, reading>>
      /\ pc' \in {"split", Back}
      /\ \/ UNCHANGED <<timer_base, timer_id>>
         \/ \E i \in 1 .. Len(timer_base) :
                /\ timer_base' = InsertTimer(timer_base, CopyTimer(timer_base[i]))
                /\ timer_id' = timer_id + 1
  BY DEF SplitStep
<1>2. Rest /\ Calls'
  BY <1>1 DEF Rest, Playing, Back, Kept, Calls
<1>3. CASE UNCHANGED <<timer_base, timer_id>>
  BY <1>1, <1>2, <1>3, PlayQuiet
<1>4. ASSUME NEW i \in 1 .. Len(timer_base),
             timer_base' = InsertTimer(timer_base, CopyTimer(timer_base[i])),
             timer_id' = timer_id + 1
      PROVE  Kept' /\ Refines
  <2> DEFINE t == CopyTimer(timer_base[i])
  <2>1. t \in Timer
    BY CopyTimerFacts DEF Known
  <2>2. t.tid = timer_id
    BY DEF CopyTimer, NewTimer
  <2> HIDE DEF t
  <2>3. timer_base' = InsertTimer(timer_base, t) /\ timer_id' = timer_id + 1
    BY <1>4 DEF t
  <2> QED BY <1>1, <1>2, <2>1, <2>2, <2>3, Started
<1> QED BY <1>1, <1>3, <1>4

\* obj_move_timers.
LEMMA MoveTimersStep ==
    ASSUME Known, Kept, NEW src \in Arg, NEW dest \in Arg, ObjMoveTimers(src, dest)
    PROVE  Kept' /\ Refines
<1> DEFINE R(t) == IF t.arg = src THEN [t EXCEPT !.arg = dest] ELSE t
<1>1. /\ timer_base' = Retarget(timer_base, src, dest) /\ pc \in {"play", "call"}
      /\ UNCHANGED <<world, pc, loops>> /\ place[dest] = place[src]
      /\ Of(timer_base, src) # {}
  BY DEF ObjMoveTimers, Free
<1>2. Rest /\ UNCHANGED <<timer_id, monstermoves, place, curr>> /\ pc \in Playing
  BY <1>1 DEF Rest, Playing, world, loops
<1>3. Calls'
  BY <1>1, <1>2 DEF Kept, Calls
<1>4. /\ timer_base \in Seq(Timer) /\ In(timer_base) \subseteq BareTimer
      /\ Pending = In(timer_base) \cup Filled
      /\ Pending' = In(timer_base') \cup Filled
      /\ \A t \in In(timer_base) : place[t.arg] \in {here, WithHero}
      /\ \A t \in Filled : place[t.arg] \notin {here, WithHero}
  BY <1>2, PlayFacts, PlayParts DEF Known
<1>5. In(timer_base') = {R(t) : t \in In(timer_base)} /\ Distinct(timer_base')
  BY <1>1, <1>4, RewriteIn DEF Kept, Lists
<1>6. \A t \in Filled : R(t) = t
  <2>1. PICK i \in 1 .. Len(timer_base) : timer_base[i].arg = src
    BY <1>1 DEF Of
  <2>2. timer_base[i] \in Timer /\ Strip(timer_base[i]) \in In(timer_base)
    BY <1>4, InIs
  <2>3. place[src] \in {here, WithHero}
    BY <1>4, <2>1, <2>2, StripFacts
  <2> QED BY <1>4, <2>3
<1>7. \A t \in BareTimer : R(t).tid = t.tid /\ R(t).tid \in Nat
  BY DEF BareTimer
<1> HIDE DEF R
<1>8. Pending' = {R(t) : t \in Pending}
  BY <1>4, <1>5, <1>6
<1>9. NextId' = NextId /\ Turn' = Turn /\ Calling' = Calling
  BY <1>2, PlayClock DEF Calling
<1>10. Ids'
  <2>1. \A t \in Pending : R(t).tid = t.tid
    BY <1>7 DEF Known, Placed
  <2>2. \A t \in Pending' : \E u \in Pending : t = R(u) /\ t.tid = u.tid
    BY <1>8, <2>1
  <2> QED BY <1>9, <2>2 DEF Kept, Ids
<1>11. Kept'
  BY <1>2, <1>3, <1>5, <1>10, PlayKept
<1>12. Set!Reassign(src, dest)
  <2>1. Pending' = {IF t.arg = src THEN [t EXCEPT !.arg = dest] ELSE t : t \in Pending}
    BY <1>8 DEF R
  <2> QED BY <1>2, <1>9, <2>1 DEF Set!Reassign, Pending, Calling, Turn, Rest, Playing
<1>13. pc' \in Playing
  BY <1>2 DEF Rest
<1> QED BY <1>11, <1>12, <1>13 DEF Refines, Set!Next, Playing

\* A turn begins.
LEMMA TurnStep ==
    ASSUME Known, Kept, NewTurn
    PROVE  Kept' /\ Refines
<1>1. /\ pc = "play" /\ pc' = "run" /\ monstermoves' = monstermoves + 1
      /\ UNCHANGED <<timer_base, timer_id, place, here, mem, levelfile, savefile, curr, reading>>
  BY DEF NewTurn
<1>2. Rest /\ pc \in Playing /\ pc' \in Playing
  BY <1>1 DEF Rest, Playing
<1>3. curr = {} /\ Calls'
  BY <1>1 DEF Kept, Calls
<1>4. Pending' = Pending
  BY <1>1, <1>2, PlayFacts, PlayParts DEF Known
<1>5. NextId' = NextId /\ Calling' = Calling /\ Calling = {}
  BY <1>1, <1>2, <1>3, PlayClock, BareIs DEF Calling
<1>6. Turn' = Turn + 1
  <2>1. then \in {"play", "run"} /\ then' \in {"play", "run"}
    BY <1>2 DEF Known, Housed, Control
  <2> QED BY <1>1, <2>1 DEF Turn
<1>7. Ids' /\ Distinct(timer_base')
  BY <1>1, <1>4, <1>5, FewerIds DEF Kept, Lists
<1>8. Kept'
  BY <1>2, <1>3, <1>7, PlayKept
<1>9. Set!Pass
  BY <1>1, <1>4, <1>5, <1>6 DEF Set!Pass, Pending, Calling, Turn
<1> QED BY <1>1, <1>8, <1>9 DEF Refines, Set!Next

\* run_timers.
LEMMA RunStep ==
    ASSUME Known, Kept, RunTimers
    PROVE  Kept' /\ Refines
<1>1. /\ pc = "run" /\ UNCHANGED <<world, then, walk, out, reading, todo>>
      /\ \/ /\ timer_base # <<>> /\ IsDue(Head(timer_base))
            /\ curr' = {Head(timer_base)} /\ timer_base' = Tail(timer_base)
            /\ pc' = "call"
         \/ pc' = "play" /\ UNCHANGED <<timer_base, curr>>
  BY DEF RunTimers
<1>2. Rest /\ UNCHANGED <<timer_id, monstermoves, place, here>> /\ pc \in Playing
  BY <1>1 DEF Rest, Playing, world
<1>3. curr = {} /\ Calls'
  BY <1>1 DEF Kept, Calls
<1>4. CASE UNCHANGED <<timer_base, curr>>
  BY <1>2, <1>3, <1>4, PlayQuiet
<1>5. CASE /\ timer_base # <<>> /\ IsDue(Head(timer_base))
           /\ curr' = {Head(timer_base)} /\ timer_base' = Tail(timer_base)
           /\ pc' = "call"
  <2> DEFINE h == Head(timer_base)
             t == Strip(h)
  <2>1. /\ timer_base \in Seq(Timer)
        /\ Pending = In(timer_base) \cup Filled
        /\ Pending' = In(timer_base') \cup Filled
        /\ \A u \in In(timer_base) : place[u.arg] \in {here, WithHero}
        /\ \A u \in Filled : place[u.arg] \notin {here, WithHero}
        /\ In(timer_base) \subseteq BareTimer
    BY <1>2, PlayFacts, PlayParts DEF Known
  <2>2. /\ h \in Timer /\ In(timer_base) = {t} \cup In(timer_base')
        /\ Distinct(timer_base') /\ \A u \in In(timer_base') : u.tid # h.tid
    BY <1>5, <2>1, HeadIn DEF Kept, Lists
  <2>3. t \in BareTimer /\ t.tid = h.tid /\ t.timeout = h.timeout
    BY <2>2, StripFacts
  <2>4. \A k \in 1 .. Len(timer_base) : h.timeout <= timer_base[k].timeout
    BY <1>5, <2>1, FirstFacts DEF Known, Sorted
  <2>5. \A u \in In(timer_base) : t.timeout <= u.timeout
    <3> SUFFICES ASSUME NEW u \in In(timer_base) PROVE h.timeout <= u.timeout
      BY <2>3
    <3> HIDE DEF h, t
    <3>1. PICK k \in 1 .. Len(timer_base) : u = Strip(timer_base[k]) /\ timer_base[k] \in Timer
      BY <2>1, InIs
    <3> QED BY <2>4, <3>1, StripFacts
  <2>6. h.timeout <= monstermoves /\ curr' = {h}
    BY <1>5 DEF IsDue
  <2> HIDE DEF h
  <2>7. Calling' = {t} /\ Calling = {}
    BY <1>3, <2>6, BareIs DEF Calling
  <2> HIDE DEF t
  <2>8. t \in Pending /\ Pending' = Pending \ {t}
    BY <2>1, <2>2, <2>3
  <2>9. NextId' = NextId /\ Turn' = Turn /\ Turn = monstermoves
    BY <1>2, PlayClock, PlayFacts DEF Known
  <2>10. Ids'
    <3>1. \A u \in Pending' : u \in Pending /\ u # t
      BY <2>8
    <3> QED BY <2>7, <2>8, <2>9, <3>1 DEF Kept, Ids
  <2>11. Kept'
    BY <1>2, <1>3, <2>2, <2>10, PlayKept
  <2>12. /\ place[t.arg] \in {here, WithHero}
         /\ \A u \in Pending : place[u.arg] \in {here, WithHero} => t.timeout <= u.timeout
    BY <2>1, <2>2, <2>5
  <2>13. Set!Call(t)
    BY <1>2, <2>3, <2>6, <2>7, <2>8, <2>9, <2>12
       DEF Set!Call, Set!Awake, Pending, Calling, Turn, Playing
  <2>14. pc' \in Playing
    BY <1>2 DEF Rest
  <2> QED BY <2>8, <2>11, <2>13, <2>14 DEF Refines, Set!Next, Playing, Pending
<1> QED BY <1>1, <1>4, <1>5

\* A timer's function returns.
LEMMA ReturnStep ==
    ASSUME Known, Kept, Return
    PROVE  Kept' /\ Refines
<1>1. /\ pc = "call" /\ pc' = "run" /\ curr' = {}
      /\ UNCHANGED <<world, timer_base, then, walk, out, reading, todo>>
  BY DEF Return
<1>2. Rest /\ UNCHANGED <<timer_id, monstermoves, place, here>>
  BY <1>1 DEF Rest, Playing, world
<1>3. Calls'
  BY <1>1 DEF Calls
<1>4. Pending' = Pending
  BY <1>1, <1>2, PlayFacts, PlayParts DEF Known, Rest
<1>5. NextId' = NextId /\ Turn' = Turn /\ Calling' = {}
  BY <1>1, <1>2, PlayClock, BareIs DEF Calling
<1>6. Ids' /\ Distinct(timer_base')
  BY <1>1, <1>4, <1>5 DEF Kept, Lists, Ids
<1>7. Kept'
  BY <1>2, <1>3, <1>6, PlayKept
<1>8. Set!Return
  BY <1>1, <1>2, <1>4, <1>5 DEF Set!Return, Pending, Calling, Turn
<1> QED BY <1>7, <1>8 DEF Refines, Set!Next

(***************************************************************************)
(* Steps that carry timers between memory and files.                       *)
(***************************************************************************)
\* What is in files, before and after a step.
LEMMA FilesAre ==
    /\ \A t : t \in Filled <=> \E l \in Away : t \in In(levelfile[l])
    /\ \A t : t \in Saved <=> \/ \E l \in Level : t \in In(savefile.local[l])
                              \/ t \in In(savefile.global)
    /\ \A t : t \in Filled' <=> \E l \in Away' : t \in In(levelfile'[l])
    /\ \A t : t \in Saved' <=> \/ \E l \in Level : t \in In(savefile'.local[l])
                               \/ t \in In(savefile'.global)
<1> DEFINE LF(l) == In(levelfile[l])
           SF(l) == In(savefile.local[l])
           nLF(l) == In(levelfile'[l])
           nSF(l) == In(savefile'.local[l])
<1>1. /\ Filled = UNION {LF(l) : l \in Away}
      /\ Saved = (UNION {SF(l) : l \in Level}) \cup In(savefile.global)
      /\ Filled' = UNION {nLF(l) : l \in Away'}
      /\ Saved' = (UNION {nSF(l) : l \in Level}) \cup In(savefile'.global)
  BY DEF Filled, Saved
<1> HIDE DEF LF, SF, nLF, nSF
<1>2. /\ \A t : t \in Filled <=> \E l \in Away : t \in LF(l)
      /\ \A t : t \in Saved <=> \/ \E l \in Level : t \in SF(l)
                                \/ t \in In(savefile.global)
      /\ \A t : t \in Filled' <=> \E l \in Away' : t \in nLF(l)
      /\ \A t : t \in Saved' <=> \/ \E l \in Level : t \in nSF(l)
                                 \/ t \in In(savefile'.global)
  BY <1>1
<1> QED BY <1>2 DEF LF, SF, nLF, nSF

\* Memory and files are lists of timers.
LEMMA ListTypes ==
    ASSUME TypeOK
    PROVE  /\ timer_base \in Seq(Timer) /\ reading \in Seq(Timer)
           /\ \A l \in Level : levelfile[l] \in Seq(Timer) /\ savefile.local[l] \in Seq(Timer)
           /\ savefile.global \in Seq(Timer) /\ Target \in Seq(Timer)
<1>1. /\ reading \in Seq(Written) /\ savefile.global \in Seq(Written)
      /\ \A l \in Level : levelfile[l] \in Seq(Written) /\ savefile.local[l] \in Seq(Written)
      /\ timer_base \in Seq(Timer) /\ mem \in Level
  BY DEF TypeOK
<1> QED BY <1>1, FileSeq DEF Target

\* Outside the game no function runs, and nothing is read except by restore_timers.
LEMMA Outside ==
    ASSUME Known, Kept, pc \notin {"call", "split", "stop"}
    PROVE  /\ curr = {} /\ Calling = {}
           /\ pc # "read" => reading = <<>> /\ In(reading) = {}
<1>1. curr = {}
  BY DEF Kept, Calls
<1>2. Calling = {}
  BY <1>1, BareIs DEF Calling
<1>3. pc # "read" => reading = <<>>
  BY DEF Known, Housed, Marks
<1> QED BY <1>1, <1>2, <1>3, EmptyIn

\* Lists of different places have different timers.
LEMMA ApartBy ==
    ASSUME Ids, NEW q, NEW r, In(q) \subseteq Pending, In(r) \subseteq Pending,
           \A t \in In(q), u \in In(r) : place[t.arg] # place[u.arg]
    PROVE  Apart(q, r)
<1> SUFFICES ASSUME NEW t \in In(q), NEW u \in In(r) PROVE t.tid # u.tid
  BY DEF Apart
<1>1. t # u
  OBVIOUS
<1> QED BY <1>1 DEF Ids

\* What is left to prove of such a step.
LEMMA QuietStep ==
    ASSUME Known, Kept, Pending' = Pending, NextId' = NextId, Turn' = Turn,
           curr = {}, curr' = {}, Lists', Saves', Restores'
    PROVE  Kept' /\ Refines
<1>1. Quiet
  BY DEF Quiet
<1>2. Ids' /\ Calls'
  BY <1>1, QuietIds DEF Kept, Calls
<1> QED BY <1>1, <1>2, QuietRefines DEF Kept

\* goto_level leaves a level.
LEMMA GotoLevelStep ==
    ASSUME Known, Kept, NEW l \in Level, GotoLevel(l)
    PROVE  Kept' /\ Refines
<1>1. /\ pc = "play" /\ pc' = "save" /\ out' = "levelfile" /\ then' = "enter"
      /\ levelfile' = [levelfile EXCEPT ![here] = <<>>]
      /\ UNCHANGED <<monstermoves, timer_base, timer_id, place, here, mem, savefile, curr,
                     reading>>
  BY DEF GotoLevel
<1>2. /\ then \in {"play", "run"} /\ mem = here /\ curr = {}
      /\ NextId = timer_id /\ Turn = monstermoves
  BY <1>1, PlayFacts, Outside DEF Known, Playing
<1>3. /\ levelfile'[here] = <<>> /\ \A k \in Level \ {here} : levelfile'[k] = levelfile[k]
      /\ here \in Level
  BY <1>1 DEF Known, TypeOK
<1>4. Away = Level \ {here} /\ Away' = Level
  BY <1>1, <1>2 DEF Away
<1>5. Filled' = Filled
  BY <1>3, <1>4, EmptyIn, FilesAre
<1>6. InMemory' = InMemory /\ Saved' = Saved
  BY <1>1 DEF InMemory, Saved
<1>7. Pending' = Pending
  BY <1>5, <1>6 DEF Known, Parts
<1>8. Lists'
  <2>1. Target' = <<>>
    BY <1>1, <1>2, <1>3 DEF Target
  <2>2. Apart(timer_base', Target')
    BY <2>1, EmptyIn DEF Apart
  <2>3. \A k \in Away' : Distinct(levelfile'[k])
    BY <1>3, <1>4, EmptyIn DEF Kept, Lists
  <2> QED BY <1>1, <2>2, <2>3 DEF Kept, Lists
<1>9. At' = "enter"
  BY <1>1 DEF At
<1>10. Saves' /\ Restores'
  BY <1>1, <1>9 DEF Saves, Restores, Globals, Copying, Recovery
<1>11. NextId' = NextId /\ Turn' = Turn
  BY <1>1, <1>2 DEF NextId, Turn
<1> QED BY <1>1, <1>2, <1>7, <1>8, <1>10, <1>11, QuietStep

\* goto_level comes to a level.
LEMMA EnterStep ==
    ASSUME Known, Kept, Enter
    PROVE  Kept' /\ Refines
<1>1. PICK l \in todo : here' = l /\ mem' = l /\ reading' = levelfile[l]
  BY DEF Enter, Read
<1>2. /\ pc = "enter" /\ pc' = "read" /\ then' = "run"
      /\ UNCHANGED <<monstermoves, timer_base, timer_id, place, levelfile, savefile, curr>>
  BY DEF Enter, Read
<1>3. then = "enter" /\ l \in Level /\ curr = {} /\ In(reading) = {}
  BY <1>2, Outside DEF Known, Housed, Control, TypeOK
<1>4. Away = Level /\ Away' = Level \ {l}
  BY <1>1, <1>2, <1>3 DEF Away
<1>5. Saved' = Saved /\ InMemory = In(timer_base)
      /\ InMemory' = In(timer_base) \cup In(levelfile[l])
  BY <1>1, <1>2, <1>3 DEF Saved, InMemory
<1>6. Filled = Filled' \cup In(levelfile[l])
  BY <1>2, <1>3, <1>4, FilesAre
<1>7. Pending' = Pending
  BY <1>5, <1>6 DEF Known, Parts
<1>8. Lists'
  <2>1. In(timer_base) \subseteq Pending /\ In(levelfile[l]) \subseteq Pending
    BY <1>5, <1>6 DEF Known, Parts
  <2>2. /\ \A t \in In(timer_base) : place[t.arg] = WithHero
        /\ \A t \in In(levelfile[l]) : place[t.arg] = l
    BY <1>2, <1>3, <1>4 DEF Known, Placed, LevelGone
  <2>3. l # WithHero
    BY <1>3, PlacesAssumption
  <2>4. Apart(timer_base, levelfile[l])
    BY <2>1, <2>2, <2>3, ApartBy DEF Kept
  <2>5. Distinct(reading') /\ \A k \in Away' : Distinct(levelfile'[k])
    BY <1>1, <1>2, <1>3, <1>4 DEF Kept, Lists
  <2> QED BY <1>1, <1>2, <2>4, <2>5 DEF Kept, Lists
<1>9. At' = "run"
  BY <1>2 DEF At
<1>10. Saves' /\ Restores'
  BY <1>2, <1>9 DEF Saves, Restores, Globals, Copying, Recovery
<1>11. NextId' = NextId /\ Turn' = Turn
  BY <1>2, <1>3 DEF NextId, Turn
<1> QED BY <1>2, <1>3, <1>7, <1>8, <1>10, <1>11, QuietStep

\* dosave0, called between turns.
LEMMA DoSaveStep ==
    ASSUME Known, Kept, ~MayHangup, DoSave
    PROVE  Kept' /\ Refines
<1>1. /\ pc = "play" /\ pc' = "save" /\ out' = "savefile" /\ then' = "savegame"
      /\ savefile' = NoSave /\ curr' = {}
      /\ UNCHANGED <<monstermoves, timer_base, timer_id, place, here, mem, levelfile, reading>>
  BY DEF DoSave
<1>2. /\ then \in {"play", "run"} /\ mem = here /\ curr = {} /\ savefile = NoSave
      /\ here \in Level
  BY <1>1, PlayFacts, Outside DEF Known, Playing, TypeOK
<1>3. /\ NoSave.global = <<>> /\ \A l \in Level : NoSave.local[l] = <<>>
  BY DEF NoSave
<1>4. Away' = Away
  BY <1>1, <1>2 DEF Away
<1>5. InMemory' = InMemory /\ Saved' = Saved /\ Filled' = Filled
  BY <1>1, <1>2, <1>4 DEF InMemory, Saved, Filled
<1>6. Pending' = Pending
  BY <1>5 DEF Known, Parts
<1>7. Lists'
  <2>1. Target' = <<>>
    BY <1>1, <1>2, <1>3 DEF Target
  <2>2. Apart(timer_base', Target')
    BY <2>1, EmptyIn DEF Apart
  <2> QED BY <1>1, <1>2, <1>4, <2>2 DEF Kept, Lists
<1>8. At' = "savegame"
  BY <1>1 DEF At
<1>9. Saves' /\ Restores'
  BY <1>1, <1>3, <1>8 DEF Saves, Restores, Globals, Copying, Recovery
<1>10. NextId' = NextId /\ Turn' = Turn
  BY <1>1, <1>2 DEF NextId, Turn
<1> QED BY <1>1, <1>2, <1>6, <1>7, <1>9, <1>10, QuietStep

\* save_timers comes to the end of the queue.
LEMMA SaveEndStep ==
    ASSUME Known, Kept, pc = "save", pc' = then,
           \A i \in 1 .. Len(timer_base) : ~InRange(timer_base[i]),
           UNCHANGED <<world, loops, timer_base>>
    PROVE  Kept' /\ Refines
<1>1. /\ UNCHANGED <<monstermoves, timer_id, place, here, mem, levelfile, savefile,
                    then, curr, out, reading, todo, timer_base>>
      /\ then \in {"enter", "savegame", "copyout", "copied", "copyin"}
  BY DEF world, loops, Known, Housed, Control
<1>2. At' = At /\ At = then
  BY <1>1 DEF At
<1>3. Away' = Away /\ InMemory' = InMemory /\ Saved' = Saved /\ Filled' = Filled
  BY <1>1 DEF Away, InMemory, Saved, Filled
<1>4. curr = {} /\ Pending' = Pending /\ InMemory = In(timer_base)
  BY <1>3, Outside DEF Known, Parts, InMemory
<1>5. Lists'
  BY <1>1, <1>3 DEF Kept, Lists
<1>6. Globals => \A t \in InMemory : place[t.arg] # WithHero
  <2> SUFFICES ASSUME Globals, NEW t \in In(timer_base) PROVE place[t.arg] # WithHero
    BY <1>4
  <2>1. PICK i \in 1 .. Len(timer_base) : t = Strip(timer_base[i]) /\ timer_base[i] \in Timer
    BY ListTypes, InIs DEF Known
  <2>2. IsLocal(timer_base[i])
    BY DEF Globals, InRange
  <2> QED BY <2>1, <2>2, StripFacts, PlacesAssumption DEF IsLocal
<1>7. ~Globals'
  BY <1>1 DEF Globals
<1>8. Saves'
  BY <1>1, <1>2, <1>3, <1>6, <1>7 DEF Kept, Saves, Copying
<1>9. Restores'
  BY <1>1, <1>2, <1>3 DEF Kept, Restores, Recovery
<1>10. NextId' = NextId /\ Turn' = Turn
  BY <1>1 DEF NextId, Turn
<1> QED BY <1>1, <1>4, <1>5, <1>8, <1>9, <1>10, QuietStep

\* save_timers writes a timer and takes it out of the queue.
LEMMA SaveTimerStep ==
    ASSUME Known, Kept, pc = "save", pc' = "save", NEW i \in 1 .. Len(timer_base),
           InRange(timer_base[i]), Write(Marked(timer_base[i])),
           timer_base' = RemoveAt(timer_base, i),
           UNCHANGED <<monstermoves, timer_id, place, here, mem, loops>>
    PROVE  Kept' /\ Refines
<1> DEFINE w == Marked(timer_base[i])
           t == Strip(timer_base[i])
<1>1. /\ UNCHANGED <<monstermoves, timer_id, place, here, mem, then, curr, out, reading, todo>>
      /\ curr = {} /\ reading = <<>> /\ In(reading) = {} /\ In(reading') = {}
      /\ mem \in Level
  BY Outside DEF loops, Known, TypeOK
<1>2. <<out, then>> \in {<<"levelfile", "enter">>, <<"savefile", "savegame">>,
                        <<"savestate", "copyout">>, <<"savefile", "copied">>,
                        <<"levelfile", "copyin">>}
  BY DEF Known, Housed, Control
<1>3. timer_base[i] \in Timer /\ w \in Timer /\ Strip(w) = t
  BY ListTypes, InIs, MarkedFacts, StripFacts DEF Known, Written
<1>4. t.tid = timer_base[i].tid /\ w.tid = t.tid /\ t.arg = timer_base[i].arg
  BY <1>3, StripFacts DEF Marked, Timer
<1>5. /\ In(timer_base') \cup {t} = In(timer_base)
      /\ Distinct(timer_base') /\ \A u \in In(timer_base') : u.tid # t.tid
  BY <1>4, RemoveIn, ListTypes DEF Known, Kept, Lists
<1>6. place[t.arg] = IF out = "savestate" THEN WithHero ELSE mem
  <2>1. place[t.arg] \in {WithHero, mem}
    BY <1>5 DEF Known, Placed, InMemory
  <2> QED BY <1>1, <1>4, <2>1, PlacesAssumption DEF InRange, IsLocal
<1>7. /\ In(Append(Target, w)) = In(Target) \cup {t}
      /\ Distinct(Target) => Distinct(Append(Target, w))
  <2>1. \A u \in In(Target) : u.tid # w.tid
    <3>1. Apart(timer_base, Target) /\ t \in In(timer_base)
      BY <1>5 DEF Kept, Lists
    <3> QED BY <1>4, <3>1 DEF Apart
  <2> QED BY <1>3, <2>1, AppendIn, ListTypes DEF Known
<1>8. Apart(timer_base', Append(Target, w))
  <2>1. Apart(timer_base, Target)
    BY DEF Kept, Lists
  <2> QED BY <1>5, <1>7, <2>1 DEF Apart
<1>9. /\ out = "levelfile" => /\ savefile' = savefile
                              /\ levelfile'[mem] = Append(Target, w)
                              /\ \A l \in Level \ {mem} : levelfile'[l] = levelfile[l]
      /\ out = "savefile" => /\ levelfile' = levelfile /\ savefile'.global = savefile.global
                             /\ savefile'.local[mem] = Append(Target, w)
                             /\ \A l \in Level \ {mem} : savefile'.local[l] = savefile.local[l]
                             /\ savefile'.timer_id = savefile.timer_id
                             /\ savefile'.monstermoves = savefile.monstermoves
      /\ out = "savestate" => /\ levelfile' = levelfile
                              /\ savefile'.global = Append(Target, w)
                              /\ \A l \in Level : savefile'.local[l] = savefile.local[l]
                              /\ savefile'.timer_id = savefile.timer_id
                              /\ savefile'.monstermoves = savefile.monstermoves
  <2>1. /\ levelfile \in [Level -> Seq(Written)] /\ mem \in Level
        /\ savefile \in [local : [Level -> Seq(Written)], global : Seq(Written),
                         timer_id : Nat, monstermoves : Nat]
    BY DEF Known, TypeOK
  <2>2. Write(w)
    OBVIOUS
  <2> HIDE DEF w, t
  <2>3. CASE out = "levelfile"
    BY <1>1, <2>1, <2>2, <2>3 DEF Write, Target
  <2>4. CASE out = "savefile"
    BY <1>1, <2>1, <2>2, <2>4 DEF Write, Target
  <2>5. CASE out = "savestate"
    BY <1>1, <2>1, <2>2, <2>5 DEF Write, Target
  <2> QED BY <1>2, <2>3, <2>4, <2>5
<1> HIDE DEF w, t
<1>10. Target' = Append(Target, w)
  BY <1>1, <1>2, <1>9 DEF Target
<1>11. Away' = Away /\ At' = then /\ At = then /\ InMemory = InMemory' \cup {t}
  BY <1>1, <1>5 DEF Away, At, InMemory
<1>12. \A l \in Away : Distinct(levelfile'[l])
  BY <1>1, <1>2, <1>7, <1>9 DEF Kept, Lists, Away, Target
<1>13. (\A l \in Level : Distinct(savefile'.local[l])) /\ Distinct(savefile'.global)
  BY <1>1, <1>2, <1>7, <1>9 DEF Kept, Lists, Target
<1>14. Lists'
  <2>1. Apart(timer_base', reading')
    BY <1>1 DEF Apart
  <2> QED BY <1>1, <1>5, <1>8, <1>10, <1>11, <1>12, <1>13, <2>1 DEF Kept, Lists
<1>15. NextId' = NextId /\ Turn' = Turn
  BY <1>1, <1>2 DEF NextId, Turn
<1>16. CASE out = "levelfile" /\ then = "enter"
  <2>1. mem \in Away
    BY <1>1, <1>16 DEF Away
  <2>2. Target = levelfile[mem]
    BY <1>16 DEF Target
  <2>3. Filled' = Filled \cup {t}
    BY <1>7, <1>9, <1>11, <1>16, <2>1, <2>2, FilesAre DEF Away
  <2>4. Saved' = Saved
    BY <1>9, <1>16 DEF Saved
  <2>5. Pending' = Pending
    BY <1>11, <2>3, <2>4 DEF Known, Parts
  <2>6. Saves' /\ Restores'
    BY <1>1, <1>11, <1>16 DEF Saves, Restores, Globals, Copying, Recovery
  <2> QED BY <1>1, <1>14, <1>15, <2>5, <2>6, QuietStep
<1>17. CASE out = "savefile"
  <2>1. Target = savefile.local[mem] /\ then \in {"savegame", "copied"}
    BY <1>2, <1>17 DEF Target
  <2>2. Saved' = Saved \cup {t}
    BY <1>1, <1>7, <1>9, <1>17, <2>1, FilesAre
  <2>3. Filled' = Filled
    BY <1>9, <1>11, <1>17 DEF Filled
  <2>4. Pending' = Pending
    BY <1>11, <2>2, <2>3 DEF Known, Parts
  <2>5. CASE then = "savegame"
    <3>1. mem = here
      BY <1>11, <2>5 DEF Known, Housed, HeroHere
    <3> QED BY <1>1, <1>9, <1>11, <1>14, <1>15, <1>17, <2>4, <2>5, <3>1, QuietStep
             DEF Kept, Saves, Restores, Globals, Copying, Recovery
  <2>6. CASE then = "copied"
    <3>1. /\ mem # here /\ mem \notin todo /\ todo \subseteq Level
          /\ In(levelfile[mem]) \subseteq InMemory \cup In(savefile.local[mem])
          /\ ~Globals /\ ~Globals'
      BY <1>1, <1>11, <1>17, <2>6 DEF Kept, Saves, Known, TypeOK, Globals
    <3>2. In(levelfile'[mem]) \subseteq InMemory' \cup In(savefile'.local[mem])
      BY <1>7, <1>9, <1>11, <1>17, <2>1, <3>1
    <3>3. /\ \A l \in todo : savefile.local[l] = <<>> /\ savefile'.local[l] = <<>>
          /\ \A l \in Away : l \in todo \/ levelfile[l] = <<>> \/ l = mem
          /\ \A u \in InMemory : place[u.arg] # WithHero
          /\ savefile.timer_id = timer_id /\ savefile.monstermoves = monstermoves
      BY <1>9, <1>11, <1>17, <2>6, <3>1 DEF Kept, Saves, Copying
    <3>4. Saves'
      BY <1>1, <1>9, <1>11, <1>17, <2>6, <3>1, <3>2, <3>3 DEF Saves, Copying
    <3>5. Restores'
      BY <1>11, <2>6 DEF Restores, Recovery
    <3> QED BY <1>1, <1>14, <1>15, <2>4, <3>4, <3>5, QuietStep
  <2> QED BY <2>1, <2>5, <2>6
<1>18. CASE out = "savestate"
  <2>1. Target = savefile.global /\ then = "copyout"
    BY <1>2, <1>18 DEF Target
  <2>2. Saved' = Saved \cup {t}
    BY <1>7, <1>9, <1>18, <2>1, FilesAre
  <2>3. Filled' = Filled
    BY <1>9, <1>11, <1>18 DEF Filled
  <2>4. Pending' = Pending
    BY <1>11, <2>2, <2>3 DEF Known, Parts
  <2>5. Globals /\ Globals' /\ todo \subseteq Level
    BY <1>1, <1>18 DEF Globals, Known, TypeOK
  <2>6. Saves'
    BY <1>1, <1>9, <1>11, <1>18, <2>1, <2>5 DEF Kept, Saves, Copying
  <2>7. Restores'
    BY <1>11, <2>1 DEF Restores, Recovery
  <2> QED BY <1>1, <1>14, <1>15, <2>4, <2>6, <2>7, QuietStep
<1>19. CASE out = "levelfile" /\ then = "copyin"
  <2>1. Target = levelfile[mem]
    BY <1>19 DEF Target
  <2>2. Saved' = Saved
    BY <1>9, <1>19 DEF Saved
  <2>3. /\ InMemory \cup Filled \subseteq Saved /\ In(savefile.global) \subseteq InMemory
        /\ \A l \in Level \ {here} :
               l \in todo \/ In(savefile.local[l]) \subseteq In(levelfile[l]) \cup InMemory
    BY <1>11, <1>19 DEF Kept, Restores, Recovery
  <2>4. Filled' \subseteq Filled \cup {t}
    BY <1>7, <1>9, <1>11, <1>19, <2>1, FilesAre DEF Away
  <2>5. InMemory' \cup Filled' \subseteq Saved
    BY <1>11, <2>3, <2>4
  <2>6. Pending' = Pending
    BY <2>2, <2>3, <2>5 DEF Known, Parts
  <2>7. place[t.arg] = mem /\ mem # WithHero
    BY <1>1, <1>6, <1>19, PlacesAssumption
  <2>8. In(savefile.global) \subseteq InMemory'
    BY <1>11, <2>3, <2>7 DEF Known, Placed
  <2>9. ASSUME NEW l \in Level \ {here}
        PROVE  l \in todo \/ In(savefile.local[l]) \subseteq In(levelfile'[l]) \cup InMemory'
    <3>1. CASE l = mem
      BY <1>7, <1>9, <1>11, <1>19, <2>1, <2>3, <3>1
    <3>2. CASE l # mem
      <4>1. t \notin In(savefile.local[l])
        BY <2>7, <3>2 DEF Known, Placed
      <4> QED BY <1>9, <1>11, <1>19, <2>3, <3>2, <4>1
    <3> QED BY <3>1, <3>2
  <2>10. Restores'
    BY <1>1, <1>9, <1>11, <1>19, <2>2, <2>5, <2>8, <2>9 DEF Restores
  <2>11. Saves'
    BY <1>1, <1>11, <1>19 DEF Saves, Globals, Copying
  <2> QED BY <1>1, <1>14, <1>15, <2>6, <2>10, <2>11, QuietStep
<1> QED BY <1>2, <1>16, <1>17, <1>18, <1>19

\* save_timers.
LEMMA SaveStepStep ==
    ASSUME Known, Kept, SaveStep
    PROVE  Kept' /\ Refines
<1> DEFINE I == {i \in 1 .. Len(timer_base) : InRange(timer_base[i])}
<1>1. pc' # "panic"
  BY DEF Known, Housed, Control
<1>2. /\ pc = "save" /\ UNCHANGED <<monstermoves, timer_id, place, here, mem, loops>>
      /\ \/ I = {} /\ pc' = then /\ UNCHANGED <<timer_base, levelfile, savefile>>
         \/ /\ I # {} /\ Write(Marked(timer_base[Least(I)]))
            /\ timer_base' = Unlink(timer_base, Least(I)) /\ pc' = pc
  BY <1>1 DEF SaveStep
<1>3. CASE I = {}
  BY <1>2, <1>3, SaveEndStep DEF world
<1>4. CASE I # {}
  <2>1. Least(I) \in I
    BY <1>4, ListTypes, LeastOf DEF Known
  <2>2. Least(I) \in 1 .. Len(timer_base) /\ InRange(timer_base[Least(I)])
    BY <2>1
  <2> HIDE DEF I
  <2>3. timer_base' = RemoveAt(timer_base, Least(I))
    BY <1>2, <1>4 DEF Unlink
  <2> QED BY <1>2, <1>4, <2>2, <2>3, SaveTimerStep
<1> QED BY <1>3, <1>4

\* restore_timers takes a timer from the file and puts it into the queue.
LEMMA RestoreTimerStep ==
    ASSUME Known, Kept, RestoreTimer
    PROVE  Kept' /\ Refines
<1> DEFINE h == Head(reading)
<1>1. /\ pc = "read" /\ pc' = pc /\ reading # <<>>
      /\ timer_base' = InsertTimer(timer_base, h) /\ reading' = Tail(reading)
      /\ UNCHANGED <<monstermoves, timer_id, place, here, mem, levelfile, savefile,
                     then, curr, walk, out, todo>>
  BY DEF RestoreTimer, world
<1>2. timer_base \in Seq(Timer) /\ reading \in Seq(Timer)
  BY ListTypes DEF Known
<1>3. /\ h \in Timer /\ In(reading) = {Strip(h)} \cup In(reading')
      /\ Distinct(reading') /\ \A u \in In(reading') : u.tid # h.tid
  BY <1>1, <1>2, HeadIn DEF Kept, Lists
<1> HIDE DEF h
<1>4. Strip(h).tid = h.tid
  BY <1>3, StripFacts
<1>5. \A u \in In(timer_base) : u.tid # h.tid
  BY <1>3, <1>4 DEF Kept, Lists, Apart
<1>6. In(timer_base') = In(timer_base) \cup {Strip(h)} /\ Distinct(timer_base')
  BY <1>1, <1>2, <1>3, <1>5, InsertIn DEF Kept, Lists
<1>7. Apart(timer_base', reading')
  BY <1>3, <1>4, <1>6 DEF Kept, Lists, Apart
<1>8. InMemory' = InMemory /\ Filled' = Filled /\ Saved' = Saved /\ Away' = Away
  BY <1>1, <1>3, <1>6 DEF InMemory, Filled, Saved, Away
<1>9. Pending' = Pending /\ curr = {} /\ curr' = {}
  BY <1>1, <1>8, Outside DEF Known, Parts
<1>10. Lists'
  BY <1>1, <1>3, <1>6, <1>7, <1>8 DEF Kept, Lists
<1>11. At' = At /\ ~Globals /\ ~Globals'
  BY <1>1 DEF At, Globals
<1>12. Saves'
  BY <1>1, <1>8, <1>11 DEF Kept, Saves, Copying
<1>13. Restores'
  BY <1>1, <1>8, <1>11 DEF Kept, Restores, Recovery
<1>14. NextId' = NextId /\ Turn' = Turn
  BY <1>1 DEF NextId, Turn
<1> QED BY <1>9, <1>10, <1>12, <1>13, <1>14, QuietStep

\* relink_timers.
LEMMA RelinkTimersStep ==
    ASSUME Known, Kept, RelinkTimers
    PROVE  Kept' /\ Refines
<1>1. pc' # "panic"
  BY DEF Known, Housed, Control
<1>2. /\ pc = "read" /\ reading = <<>> /\ pc' = then /\ timer_base' = Linked(timer_base)
      /\ UNCHANGED <<monstermoves, timer_id, place, here, mem, levelfile, savefile,
                     then, curr, walk, out, reading, todo>>
      /\ then \in {"run", "putsave", "restgamestate", "restlevelfile", "recovered"}
  BY <1>1 DEF RelinkTimers, world, loops, Known, Housed, Control
<1>3. Arg # {} /\ timer_base \in Seq(Timer)
  BY ListTypes, PlacesAssumption DEF Known
<1>4. In(timer_base') = In(timer_base) /\ Distinct(timer_base')
  BY <1>2, <1>3, RewriteIn DEF Kept, Lists
<1>5. InMemory' = InMemory /\ Filled' = Filled /\ Saved' = Saved /\ Away' = Away
  BY <1>2, <1>4 DEF InMemory, Filled, Saved, Away
<1>6. Pending' = Pending /\ curr = {} /\ curr' = {}
  BY <1>2, <1>5, Outside DEF Known, Parts
<1>7. Lists'
  <2>1. Apart(timer_base', reading')
    BY <1>2, EmptyIn DEF Apart
  <2>2. pc' # "save"
    BY <1>2
  <2> QED BY <1>2, <1>4, <1>5, <2>1, <2>2 DEF Kept, Lists
<1>8. At' = At /\ ~Globals /\ ~Globals' /\ pc' # "saved"
  BY <1>2 DEF At, Globals
<1>9. Saves'
  BY <1>2, <1>5, <1>8 DEF Kept, Saves, Copying
<1>10. Restores'
  BY <1>2, <1>5, <1>8 DEF Kept, Restores, Recovery
<1>11. NextId' = NextId /\ Turn' = Turn
  BY <1>2 DEF NextId, Turn
<1> QED BY <1>6, <1>7, <1>9, <1>10, <1>11, QuietStep

\* dosave0 goes on with the state of the game.
LEMMA SaveGameStateStep ==
    ASSUME Known, Kept, SaveGameState
    PROVE  Kept' /\ Refines
<1>1. /\ pc = "savegame" /\ pc' = "save" /\ out' = "savestate" /\ then' = "copyout"
      /\ todo' = Level \ {here}
      /\ UNCHANGED <<monstermoves, timer_base, timer_id, place, here, mem, levelfile,
                     curr, walk, reading>>
      /\ savefile'.local = savefile.local /\ savefile'.global = savefile.global
      /\ savefile'.timer_id = timer_id /\ savefile'.monstermoves = monstermoves
  BY DEF SaveGameState, Known, TypeOK
<1>2. then = "savegame" /\ curr = {}
  BY <1>1, Outside DEF Known, Housed, Control
<1>3. Away' = Level \ {here} /\ Away = Level \ {here} /\ At = "savegame" /\ At' = "copyout"
  BY <1>1, <1>2 DEF Away, At
<1>4. InMemory' = InMemory /\ Filled' = Filled /\ Saved' = Saved
  BY <1>1, <1>3 DEF InMemory, Filled, Saved
<1>5. Pending' = Pending
  BY <1>4 DEF Known, Parts
<1>6. savefile.global = <<>> /\ \A l \in Level \ {here} : savefile.local[l] = <<>>
  BY <1>3 DEF Kept, Saves
<1>7. Lists'
  <2>1. Target' = <<>>
    BY <1>1, <1>6 DEF Target
  <2>2. Apart(timer_base', Target')
    BY <2>1, EmptyIn DEF Apart
  <2> QED BY <1>1, <1>3, <2>2 DEF Kept, Lists
<1>8. Globals'
  BY <1>1 DEF Globals
<1>9. Saves'
  BY <1>1, <1>3, <1>6, <1>8 DEF Saves, Copying
<1>10. Restores'
  BY <1>3 DEF Restores, Recovery
<1>11. NextId' = NextId /\ Turn' = Turn
  BY <1>1, <1>2 DEF NextId, Turn
<1> QED BY <1>1, <1>2, <1>5, <1>7, <1>9, <1>10, <1>11, QuietStep

\* When the hero's timers have been written and the level has, memory is empty.
LEMMA NoneInMemory ==
    ASSUME Known, Kept, pc \in {"copyout", "copied"}
    PROVE  InMemory = {} /\ In(timer_base) = {} /\ At = pc /\ ~Globals
<1>1. At = pc /\ ~Globals /\ At \in Copying /\ LevelGone
  BY DEF At, Globals, Copying, LevelGone
<1>2. InMemory = In(timer_base)
  BY Outside DEF InMemory
<1>3. /\ \A t \in InMemory : place[t.arg] # WithHero
      /\ \A t \in In(timer_base) : place[t.arg] = WithHero
  BY <1>1 DEF Kept, Saves, Known, Placed
<1> QED BY <1>1, <1>2, <1>3

\* dosave0 reads another level's file.
LEMMA CopyOutStep ==
    ASSUME Known, Kept, NEW l \in Level, CopyOut(l)
    PROVE  Kept' /\ Refines
<1>1. /\ pc = "copyout" /\ l \in todo /\ todo' = todo \ {l} /\ pc' = "read"
      /\ mem' = l /\ reading' = levelfile[l] /\ then' = "putsave"
      /\ UNCHANGED <<monstermoves, timer_base, timer_id, place, here, levelfile,
                     savefile, curr, walk, out>>
  BY DEF CopyOut, Copied, Read
<1>2. /\ then \in {"copyout", "copied"} /\ curr = {} /\ InMemory = {} /\ At = "copyout"
      /\ In(timer_base) = {} /\ here \notin todo
  BY <1>1, Outside, NoneInMemory DEF Known, Housed, Control, Idle
<1>3. Away = Level \ {here} /\ Away' = Away /\ l \in Away /\ At' = "putsave"
  BY <1>1, <1>2 DEF Away, At
<1>4. Filled' = Filled /\ Saved' = Saved /\ InMemory' = In(levelfile[l])
  BY <1>1, <1>2, <1>3 DEF Filled, Saved, InMemory
<1>5. In(levelfile[l]) \subseteq Filled
  BY <1>3, FilesAre
<1>6. Pending' = Pending
  BY <1>2, <1>4, <1>5 DEF Known, Parts
<1>7. Lists'
  <2>1. Apart(timer_base', reading')
    BY <1>1, <1>2 DEF Apart
  <2> QED BY <1>1, <1>3, <2>1 DEF Kept, Lists
<1>8. ~Globals' /\ pc' # "saved"
  BY <1>1 DEF Globals
<1>9. /\ \A k \in todo : savefile.local[k] = <<>>
      /\ \A k \in Away : k \in todo \/ levelfile[k] = <<>>
      /\ savefile.timer_id = timer_id /\ savefile.monstermoves = monstermoves
  BY <1>2 DEF Kept, Saves, Copying
<1>10. \A t \in InMemory' : place[t.arg] # WithHero
  BY <1>3, <1>4, PlacesAssumption DEF Known, Placed
<1>11. Saves'
  BY <1>1, <1>2, <1>3, <1>4, <1>8, <1>9, <1>10 DEF Saves, Copying
<1>12. Restores'
  BY <1>3 DEF Restores, Recovery
<1>13. NextId' = NextId /\ Turn' = Turn
  BY <1>1, <1>2 DEF NextId, Turn
<1> QED BY <1>1, <1>2, <1>6, <1>7, <1>11, <1>12, <1>13, QuietStep

\* And writes it to the save file.
LEMMA PutSaveStep ==
    ASSUME Known, Kept, PutSave
    PROVE  Kept' /\ Refines
<1>1. /\ pc = "putsave" /\ pc' = "save" /\ out' = "savefile" /\ then' = "copied"
      /\ UNCHANGED <<monstermoves, timer_base, timer_id, place, here, mem, levelfile,
                     savefile, curr, walk, reading, todo>>
  BY DEF PutSave, world
<1>2. then = "putsave" /\ curr = {}
  BY <1>1, Outside DEF Known, Housed, Control
<1>3. Away' = Away /\ At = "putsave" /\ At' = "copied" /\ ~Globals /\ ~Globals'
  BY <1>1, <1>2 DEF Away, At, Globals
<1>4. InMemory' = InMemory /\ Filled' = Filled /\ Saved' = Saved
  BY <1>1, <1>3 DEF InMemory, Filled, Saved
<1>5. Pending' = Pending
  BY <1>4 DEF Known, Parts
<1>6. savefile.local[mem] = <<>>
  BY <1>3 DEF Kept, Saves
<1>7. Lists'
  <2>1. Target' = <<>>
    BY <1>1, <1>6 DEF Target
  <2>2. Apart(timer_base', Target')
    BY <2>1, EmptyIn DEF Apart
  <2> QED BY <1>1, <1>3, <2>2 DEF Kept, Lists
<1>8. Saves'
  BY <1>1, <1>3, <1>4 DEF Kept, Saves, Copying
<1>9. Restores'
  BY <1>3 DEF Restores, Recovery
<1>10. NextId' = NextId /\ Turn' = Turn
  BY <1>1, <1>2 DEF NextId, Turn
<1> QED BY <1>1, <1>2, <1>5, <1>7, <1>8, <1>9, <1>10, QuietStep

\* Then the level's file is deleted; the hero's level's when there is no other.
LEMMA DeleteLevelFileStep ==
    ASSUME Known, Kept, DeleteLevelFile
    PROVE  Kept' /\ Refines
<1>1. /\ pc \in {"copyout", "copied"}
      /\ UNCHANGED <<monstermoves, timer_base, timer_id, place, here, mem, savefile,
                     then, curr, walk, out, reading, todo>>
      /\ mem \in Level /\ here \in Level
  BY DEF DeleteLevelFile, loops, Known, TypeOK
<1>2. /\ then \in {"copyout", "copied"} /\ curr = {} /\ InMemory = {} /\ At = pc
      /\ ~Globals
  BY <1>1, Outside, NoneInMemory DEF Known, Housed, Control
<1>3. Away = Level \ {here} /\ Away' = Away /\ InMemory' = InMemory /\ Saved' = Saved
  BY <1>1, <1>2 DEF Away, InMemory, Saved
<1>4. /\ \A l \in todo : savefile.local[l] = <<>>
      /\ \A l \in Away : \/ l \in todo \/ levelfile[l] = <<>>
                         \/ pc # "copyout" /\ l = mem
      /\ savefile.timer_id = timer_id /\ savefile.monstermoves = monstermoves
  BY <1>1, <1>2 DEF Kept, Saves, Copying
<1>5. NextId' = NextId /\ Turn' = Turn
  BY <1>1, <1>2 DEF NextId, Turn
<1>6. CASE pc = "copied"
  <2>1. /\ pc' = "copyout" /\ levelfile'[mem] = <<>>
        /\ \A l \in Level \ {mem} : levelfile'[l] = levelfile[l]
    BY <1>1, <1>6 DEF DeleteLevelFile, Known, TypeOK
  <2>2. In(levelfile[mem]) \subseteq In(savefile.local[mem])
    BY <1>2, <1>6 DEF Kept, Saves
  <2>3. Filled' \subseteq Filled /\ Filled \subseteq Filled' \cup Saved
    BY <1>1, <1>3, <2>1, <2>2, EmptyIn, FilesAre
  <2>4. Pending' = Pending
    BY <1>3, <2>3 DEF Known, Parts
  <2>5. At' = "copyout" /\ ~Globals'
    BY <2>1 DEF At, Globals
  <2>6. Lists'
    <3>1. \A l \in Away' : Distinct(levelfile'[l])
      BY <1>3, <2>1, EmptyIn DEF Kept, Lists
    <3> QED BY <1>1, <2>1, <3>1 DEF Kept, Lists
  <2>7. Saves'
    BY <1>1, <1>2, <1>3, <1>4, <2>1, <2>5 DEF Saves, Copying
  <2>8. Restores'
    BY <2>5 DEF Restores, Recovery
  <2> QED BY <1>1, <1>2, <1>5, <2>4, <2>6, <2>7, <2>8, QuietStep
<1>7. CASE pc = "copyout"
  <2>1. /\ pc' = "saved" /\ todo = {}
        /\ \A l \in Level \ {here} : levelfile'[l] = levelfile[l]
    BY <1>1, <1>7 DEF DeleteLevelFile, Known, TypeOK
  <2>2. Filled' = Filled
    BY <1>3, <2>1, FilesAre
  <2>3. Pending' = Pending
    BY <1>3, <2>2 DEF Known, Parts
  <2>4. At' = "saved" /\ ~Globals'
    BY <2>1 DEF At, Globals
  <2>5. Lists'
    BY <1>1, <1>3, <2>1 DEF Kept, Lists
  <2>6. Saves'
    BY <1>1, <1>2, <1>3, <1>4, <1>7, <2>1, <2>4 DEF Saves, Copying
  <2>7. Restores'
    BY <2>4 DEF Restores, Recovery
  <2> QED BY <1>1, <1>2, <1>5, <2>3, <2>5, <2>6, <2>7, QuietStep
<1> QED BY <1>1, <1>6, <1>7

\* dorecover begins with the hero's level.
LEMMA DoRecoverStep ==
    ASSUME Known, Kept, DoRecover
    PROVE  Kept' /\ Refines
<1>1. /\ pc = "saved" /\ pc' = "read" /\ then' = "restgamestate" /\ timer_base' = <<>>
      /\ todo' = Level \ {here} /\ mem' = here /\ reading' = savefile.local[here]
      /\ UNCHANGED <<place, here, levelfile, savefile, curr, walk, out>>
      /\ here \in Level
  BY DEF DoRecover, Read, Known, TypeOK
<1>2. then \in {"copyout", "copied"} /\ curr = {} /\ At = "saved"
  BY <1>1, Outside DEF Known, Housed, Control, At
<1>3. /\ InMemory = {} /\ \A l \in Away : levelfile[l] = <<>>
      /\ savefile.timer_id = timer_id /\ savefile.monstermoves = monstermoves
  BY <1>1, <1>2 DEF Kept, Saves
<1>4. Away' = Away /\ At' = "restgamestate"
  BY <1>1, <1>2 DEF Away, At
<1>5. Filled = {} /\ Filled' = {} /\ Saved' = Saved
  BY <1>1, <1>3, <1>4, EmptyIn, FilesAre DEF Saved
<1>6. InMemory' = In(savefile.local[here]) /\ InMemory' \subseteq Saved
  BY <1>1, EmptyIn, FilesAre DEF InMemory
<1>7. Pending' = Pending
  BY <1>3, <1>5, <1>6 DEF Known, Parts
<1>8. Lists'
  <2>1. Apart(timer_base', reading')
    BY <1>1, EmptyIn DEF Apart
  <2> QED BY <1>1, <1>4, <2>1, EmptyIn DEF Kept, Lists
<1>9. Saves'
  BY <1>1, <1>4 DEF Saves, Globals, Copying
<1>10. Restores'
  BY <1>1, <1>4, <1>5, <1>6 DEF Restores, Known, Placed
<1>11. NextId' = NextId /\ Turn' = Turn
  BY <1>1, <1>2, <1>3 DEF NextId, Turn
<1> QED BY <1>1, <1>2, <1>7, <1>8, <1>9, <1>10, <1>11, QuietStep

\* It goes on with the state of the game.
LEMMA RestGameStateStep ==
    ASSUME Known, Kept, RestGameState
    PROVE  Kept' /\ Refines
<1>1. /\ pc = "restgamestate" /\ pc' = "read" /\ then' = "restlevelfile"
      /\ timer_id' = savefile.timer_id /\ monstermoves' = savefile.monstermoves
      /\ mem' = here /\ reading' = savefile.global
      /\ UNCHANGED <<timer_base, place, here, levelfile, savefile, curr, walk, out, todo>>
      /\ here \in Level
  BY DEF RestGameState, Read, Known, TypeOK
<1>2. then = "restgamestate" /\ curr = {} /\ At = "restgamestate" /\ In(reading) = {}
  BY <1>1, Outside DEF Known, Housed, Control, At
<1>3. /\ InMemory \cup Filled \subseteq Saved /\ todo = Level \ {here}
      /\ In(savefile.local[here]) \subseteq InMemory
      /\ \A t \in InMemory : place[t.arg] = here
  BY <1>2 DEF Kept, Restores, Recovery
<1>4. Away' = Away /\ At' = "restlevelfile"
  BY <1>1, <1>2 DEF Away, At
<1>5. Filled' = Filled /\ Saved' = Saved /\ InMemory = In(timer_base)
      /\ InMemory' = In(timer_base) \cup In(savefile.global)
  BY <1>1, <1>2, <1>4 DEF Filled, Saved, InMemory
<1>6. In(savefile.global) \subseteq Saved
  BY FilesAre
<1>7. Pending' = Pending /\ Pending = Saved
  BY <1>3, <1>5, <1>6 DEF Known, Parts
<1>8. Lists'
  <2>1. here # WithHero
    BY <1>1, PlacesAssumption
  <2>2. \A t \in In(savefile.global) : place[t.arg] = WithHero
    BY DEF Known, Placed
  <2>3. Apart(timer_base, savefile.global)
    BY <1>3, <1>5, <1>6, <1>7, <2>1, <2>2, ApartBy DEF Kept
  <2> QED BY <1>1, <1>4, <2>3 DEF Kept, Lists
<1>9. Saves'
  BY <1>1, <1>4 DEF Saves, Globals, Copying
<1>10. Restores'
  BY <1>1, <1>3, <1>4, <1>5, <1>6 DEF Restores
<1>11. NextId' = NextId /\ Turn' = Turn
  BY <1>1, <1>2 DEF NextId, Turn
<1> QED BY <1>1, <1>2, <1>7, <1>8, <1>9, <1>10, <1>11, QuietStep

\* A level that has been read is written to a level file.
LEMMA RestLevelFileStep ==
    ASSUME Known, Kept, RestLevelFile
    PROVE  Kept' /\ Refines
<1>1. /\ pc = "restlevelfile" /\ pc' = "save" /\ out' = "levelfile" /\ then' = "copyin"
      /\ levelfile'[mem] = <<>> /\ \A l \in Level \ {mem} : levelfile'[l] = levelfile[l]
      /\ UNCHANGED <<monstermoves, timer_base, timer_id, place, here, mem, savefile,
                     curr, walk, reading, todo>>
  BY DEF RestLevelFile, Known, TypeOK
<1>2. then = "restlevelfile" /\ curr = {} /\ At = "restlevelfile"
  BY <1>1, Outside DEF Known, Housed, Control, At
<1>3. /\ InMemory \cup Filled \subseteq Saved /\ In(savefile.global) \subseteq InMemory
      /\ \A l \in Level \ {here} :
             l \in todo \/ In(savefile.local[l]) \subseteq In(levelfile[l]) \cup InMemory
      /\ In(savefile.local[mem]) \subseteq InMemory
  BY <1>2 DEF Kept, Restores, Recovery
<1>4. Away' = Away /\ At' = "copyin" /\ Away \subseteq Level
  BY <1>1, <1>2 DEF Away, At
<1>5. Saved' = Saved /\ InMemory' = InMemory
  BY <1>1 DEF Saved, InMemory
<1>6. Filled' \subseteq Filled
  BY <1>1, <1>4, EmptyIn, FilesAre
<1>7. Pending' = Pending
  BY <1>3, <1>5, <1>6 DEF Known, Parts
<1>8. Lists'
  <2>1. Target' = <<>>
    BY <1>1 DEF Target
  <2>2. Apart(timer_base', Target')
    BY <2>1, EmptyIn DEF Apart
  <2>3. \A l \in Away' : Distinct(levelfile'[l])
    BY <1>1, <1>4, EmptyIn DEF Kept, Lists
  <2> QED BY <1>1, <2>2, <2>3 DEF Kept, Lists
<1>9. Saves'
  BY <1>1, <1>4 DEF Saves, Globals, Copying
<1>10. Restores'
  <2>1. ASSUME NEW l \in Level \ {here}
        PROVE  l \in todo \/ In(savefile.local[l]) \subseteq In(levelfile'[l]) \cup InMemory
    BY <1>1, <1>3
  <2>2. InMemory' \cup Filled' \subseteq Saved'
    BY <1>3, <1>5, <1>6
  <2> QED BY <1>1, <1>3, <1>4, <1>5, <2>1, <2>2 DEF Restores
<1>11. NextId' = NextId /\ Turn' = Turn
  BY <1>1, <1>2 DEF NextId, Turn
<1> QED BY <1>1, <1>2, <1>7, <1>8, <1>9, <1>10, <1>11, QuietStep

\* The next level is read from the save file, the hero's again in the end.
LEMMA CopyInStep ==
    ASSUME Known, Kept, CopyIn
    PROVE  Kept' /\ Refines
<1>1. PICK l \in Level :
          /\ mem' = l /\ reading' = savefile.local[l]
          /\ \/ l \in todo /\ todo' = todo \ {l} /\ then' = "restlevelfile"
             \/ l = here /\ todo = {} /\ todo' = {} /\ then' = "recovered"
  BY DEF CopyIn, Read, Known, TypeOK
<1>2. /\ pc = "copyin" /\ pc' = "read"
      /\ UNCHANGED <<monstermoves, timer_base, timer_id, place, here, levelfile,
                     savefile, curr, walk, out>>
  BY DEF CopyIn, Read
<1>3. then = "copyin" /\ curr = {} /\ At = "copyin" /\ In(reading) = {}
  BY <1>2, Outside DEF Known, Housed, Control, At
<1>4. /\ InMemory \cup Filled \subseteq Saved /\ In(savefile.global) \subseteq InMemory
      /\ \A k \in Level \ {here} :
             k \in todo \/ In(savefile.local[k]) \subseteq In(levelfile[k]) \cup InMemory
  BY <1>3 DEF Kept, Restores, Recovery
<1>5. Away' = Away /\ At' = then'
  BY <1>1, <1>2, <1>3 DEF Away, At
<1>6. Filled' = Filled /\ Saved' = Saved /\ InMemory = In(timer_base)
      /\ InMemory' = In(timer_base) \cup In(savefile.local[l])
  BY <1>1, <1>2, <1>3, <1>5 DEF Filled, Saved, InMemory
<1>7. In(savefile.local[l]) \subseteq Saved
  BY FilesAre
<1>8. Pending' = Pending /\ Pending = Saved
  BY <1>4, <1>6, <1>7 DEF Known, Parts
<1>9. Lists'
  <2>1. /\ \A t \in In(savefile.local[l]) : place[t.arg] = l
        /\ \A t \in In(timer_base) : place[t.arg] = WithHero
        /\ l # WithHero
    BY <1>2, PlacesAssumption DEF Known, Placed, LevelGone
  <2>2. Apart(timer_base, savefile.local[l])
    BY <1>4, <1>6, <1>7, <1>8, <2>1, ApartBy DEF Kept
  <2> QED BY <1>1, <1>2, <1>5, <2>2 DEF Kept, Lists
<1>10. Saves'
  BY <1>1, <1>2, <1>5 DEF Saves, Globals, Copying
<1>11. Restores'
  <2>1. /\ InMemory' \cup Filled' \subseteq Saved' /\ In(savefile'.global) \subseteq InMemory'
        /\ In(savefile'.local[l]) \subseteq InMemory'
    BY <1>2, <1>4, <1>6, <1>7
  <2>2. ASSUME NEW k \in Level \ {here}
        PROVE  \/ k \in todo'
               \/ In(savefile.local[k]) \subseteq In(levelfile[k]) \cup InMemory'
    BY <1>1, <1>4, <1>6
  <2> QED BY <1>1, <1>2, <1>5, <2>1, <2>2 DEF Restores
<1>12. NextId' = NextId /\ Turn' = Turn
  BY <1>1, <1>2, <1>3 DEF NextId, Turn
<1> QED BY <1>2, <1>3, <1>8, <1>9, <1>10, <1>11, <1>12, QuietStep

\* The save file is deleted when everything has been read.
LEMMA RecoveredStep ==
    ASSUME Known, Kept, Recovered
    PROVE  Kept' /\ Refines
<1>1. /\ pc = "recovered" /\ pc' = "run" /\ then' = "play" /\ savefile' = NoSave
      /\ UNCHANGED <<monstermoves, timer_base, timer_id, place, here, mem, levelfile,
                     curr, walk, out, reading, todo>>
  BY DEF Recovered
<1>2. then = "recovered" /\ curr = {} /\ At = "recovered"
  BY <1>1, Outside DEF Known, Housed, Control, At
<1>3. /\ In(savefile.global) \subseteq InMemory /\ todo = {}
      /\ \A l \in Level \ {here} :
             l \in todo \/ In(savefile.local[l]) \subseteq In(levelfile[l]) \cup InMemory
      /\ In(savefile.local[here]) \subseteq InMemory
  BY <1>2 DEF Kept, Restores, Recovery
<1>4. Away = Level \ {here} /\ Away' = Away /\ At' = "run"
  BY <1>1, <1>2 DEF Away, At
<1>5. Filled' = Filled /\ InMemory' = InMemory
  BY <1>1, <1>4 DEF Filled, InMemory
<1>6. NoSave.global = <<>> /\ \A l \in Level : NoSave.local[l] = <<>>
  BY DEF NoSave
<1>7. Saved' = {}
  BY <1>1, <1>6, EmptyIn, FilesAre
<1>8. Saved \subseteq InMemory \cup Filled
  BY <1>3, <1>4, FilesAre
<1>9. Pending' = Pending
  BY <1>5, <1>7, <1>8 DEF Known, Parts
<1>10. Lists'
  BY <1>1, <1>4, <1>6, EmptyIn DEF Kept, Lists
<1>11. Saves' /\ Restores'
  BY <1>1, <1>4 DEF Saves, Restores, Globals, Copying, Recovery
<1>12. NextId' = NextId /\ Turn' = Turn
  BY <1>1, <1>2 DEF NextId, Turn
<1> QED BY <1>1, <1>2, <1>9, <1>10, <1>11, <1>12, QuietStep

(***************************************************************************)
(* All steps.                                                              *)
(***************************************************************************)
\* A step of the queue is a step of TimerSet or leaves it alone.
LEMMA StepRefines == ~MayHangup /\ Known /\ Kept /\ [Next]_vars => Kept' /\ Refines
<1> SUFFICES ASSUME ~MayHangup, Known, Kept, [Next]_vars PROVE Kept' /\ Refines
  OBVIOUS
<1>1. ASSUME NEW when \in Delays, NEW func \in Func, NEW a \in Arg, StartTimer(when, func, a)
      PROVE  Kept' /\ Refines
  BY <1>1, StartStep
<1>2. ASSUME NEW func \in Func, NEW a \in Arg, StopTimer(func, a)
      PROVE  Kept' /\ Refines
  BY <1>2, StopTimerStep
<1>3. ASSUME NEW src \in Arg, NEW dest \in Arg, ObjMoveTimers(src, dest)
      PROVE  Kept' /\ Refines
  BY <1>3, MoveTimersStep
<1>4. CASE \/ \E a \in Arg : ObjStopTimers(a)
           \/ \E src, dest \in Arg : ObjSplitTimers(src, dest)
           \/ \E a \in Arg, p \in Level \cup {WithHero} : MoveObj(a, p)
  BY <1>4, BeginSteps
<1>5. ASSUME NEW l \in Level, GotoLevel(l)
      PROVE  Kept' /\ Refines
  BY <1>5, GotoLevelStep
<1>6. ASSUME NEW l \in Level, CopyOut(l)
      PROVE  Kept' /\ Refines
  BY <1>6, CopyOutStep
<1>7. CASE Machine
  BY <1>6, <1>7, StopStepStep, SplitStepStep, RunStep, ReturnStep, SaveStepStep,
     RestoreTimerStep, RelinkTimersStep, EnterStep, SaveGameStateStep, PutSaveStep,
     DeleteLevelFileStep, RestGameStateStep, RestLevelFileStep, CopyInStep,
     RecoveredStep
     DEF Machine
<1>8. CASE UNCHANGED vars
  <2>1. /\ UNCHANGED <<monstermoves, timer_base, timer_id, place, here, mem, levelfile, savefile,
                      pc, then, curr, out, reading, todo>>
    BY <1>8 DEF vars
  <2>2. At' = At /\ Globals' = Globals /\ Away' = Away
    BY <2>1 DEF At, Globals, Away
  <2>3. InMemory' = InMemory /\ Filled' = Filled /\ Saved' = Saved
    BY <2>1, <2>2 DEF InMemory, Filled, Saved
  <2>4. Pending' = Pending /\ NextId' = NextId /\ Turn' = Turn
    BY <2>1, <2>3 DEF Known, Parts, NextId, Turn
  <2>5. Quiet
    BY <2>1, <2>4 DEF Quiet, Playing, Kept, Calls
  <2>6. Target' = Target
    BY <2>1 DEF Target
  <2>7. Lists' /\ Calls'
    BY <2>1, <2>2, <2>6 DEF Kept, Lists, Calls
  <2>8. Saves' /\ Restores'
    BY <2>1, <2>2, <2>3 DEF Kept, Saves, Restores, Copying, Recovery
  <2> QED BY <2>5, <2>7, <2>8, QuietIds, QuietRefines DEF Kept
<1> QED
  BY <1>1, <1>2, <1>3, <1>4, <1>5, <1>7, <1>8, TurnStep, DoSaveStep, DoRecoverStep
     DEF Next

\* A game starts without timers.
LEMMA InitKept == Init => Kept /\ Set!Init
<1> SUFFICES ASSUME Init PROVE Kept /\ Set!Init
  OBVIOUS
<1>1. /\ timer_base = <<>> /\ reading = <<>> /\ curr = {} /\ pc = "play" /\ then = "play"
      /\ \A l \in Level : levelfile[l] = <<>>
      /\ savefile.global = <<>> /\ \A l \in Level : savefile.local[l] = <<>>
      /\ monstermoves = 1
  BY DEF Init, NoSave
<1>2. InMemory = {} /\ Filled = {} /\ Saved = {}
  BY <1>1, EmptyIn, FilesAre DEF InMemory, Away
<1>3. Pending = {} /\ Calling = {}
  BY <1>1, <1>2, PendingParts, BareIs DEF Parts, Calling
<1>4. Ids
  BY <1>3 DEF Ids
<1>5. Lists
  BY <1>1, EmptyIn DEF Lists, Apart, Away
<1>6. Calls /\ Saves /\ Restores
  BY <1>1 DEF Calls, Saves, Restores, At, Globals, Copying, Recovery
<1>7. Set!Init
  BY <1>1, <1>3 DEF Set!Init, Pending, Calling
<1> QED BY <1>4, <1>5, <1>6, <1>7 DEF Kept

\* Without a hangup in the middle of a turn, no timer is lost, doubled, called twice
\* or called before an earlier one of the hero's world: started, stopped, split,
\* moved, called, written to a file by goto_level or dosave0, and read again by
\* goto_level or dorecover, a timer waits in one place until it is stopped or called.
THEOREM QueueImplementsTimerSet ==
    ASSUME ~MayHangup
    PROVE  Spec => ImplementsTimerSet
<1>1. Init => Kept /\ Set!Init
  BY InitKept
<1>2. Known /\ Kept /\ [Next]_vars => Kept' /\ Refines
  BY StepRefines
<1>3. TypeOK /\ Housed => Placed
  BY HousedPlaced
<1>4. Parts
  BY PendingParts
<1> QED BY <1>1, <1>2, <1>3, <1>4, TypeCorrect, QueueSorted, AlwaysHoused, PTL
        DEF Spec, ImplementsTimerSet, Set!Spec, Refines, Known

(***************************************************************************)
(* obj_split_timers: each timer of the old object is copied once, though   *)
(* the copies are put into the list that is walked.                        *)
(***************************************************************************)
Before(q, a, k) == {i \in Of(q, a) : i < k}
AlarmsAt(q, I)  == {<<q[i].timeout, q[i].func>> : i \in I}
Paired(q, I, J) == Cardinality(I) = Cardinality(J) /\ AlarmsAt(q, I) = AlarmsAt(q, J)

\* Where a timer is after another one was put in at p.
Up(p, i) == IF i < p THEN i ELSE i + 1
Ups(p, I) == {Up(p, i) : i \in I}

\* The walk is at place k: the copies are behind it, one for each timer it passed.
WalkAt(k) ==
    /\ walk.next = TidAt(timer_base, k)
    /\ \A i \in Of(timer_base, walk.dest) : i < k
    /\ Paired(timer_base, Of(timer_base, walk.dest), Before(timer_base, walk.src, k))

Walking == pc = "split" => /\ walk.src # walk.dest
                           /\ \E k \in 1 .. Len(timer_base) + 1 : WalkAt(k)

\* Timers that move up stay as many as they were.
LEMMA UpCount ==
    ASSUME NEW n \in Nat, NEW I \in SUBSET (1 .. n), NEW p \in 1 .. n + 1
    PROVE  /\ IsFiniteSet(I) /\ IsFiniteSet(Ups(p, I))
           /\ Cardinality(Ups(p, I)) = Cardinality(I)
           /\ p \notin Ups(p, I)
<1> DEFINE U == {Up(p, i) : i \in I}
           f == [i \in I |-> Up(p, i)]
<1>1. IsFiniteSet(I)
  <2>1. IsFiniteSet(1 .. n)
    BY FS_Interval
  <2> QED BY <2>1, FS_Subset
<1>2. \A i, j \in I : Up(p, i) = Up(p, j) => i = j
  BY DEF Up
<1>3. f \in [I -> U] /\ (\A i \in I : f[i] = Up(p, i)) /\ \A u \in U : \E i \in I : f[i] = u
  OBVIOUS
<1>4. p \notin U
  BY DEF Up
<1> HIDE DEF f, U
<1>5. f \in Bijection(I, U)
  BY <1>2, <1>3 DEF Bijection, Injection, Surjection, IsInjective
<1>6. IsFiniteSet(U) /\ Cardinality(U) = Cardinality(I)
  BY <1>1, <1>5, FS_Bijection DEF ExistsBijection
<1> QED BY <1>1, <1>4, <1>6 DEF U, Ups

\* What insert_timer does to the timers of an object up to a place behind the new one.
InsertedBefore(q, t, k, a) ==
    LET n == InsertTimer(q, t)
        p == Position(q, t)
        I == Ups(p, Before(q, a, k))
    IN  /\ Before(n, a, k + 1) = IF t.arg = a THEN I \cup {p} ELSE I
        /\ n[p] = t /\ p \in 1 .. Len(q) + 1
        /\ Len(n) = Len(q) + 1
        /\ \A i \in 1 .. Len(q) : n[Up(p, i)] = q[i] /\ Up(p, i) \in 1 .. Len(q) + 1

LEMMA InsertBefore ==
    ASSUME NEW q \in Seq(Timer), NEW t \in Timer, NEW k \in 1 .. Len(q) + 1,
           Position(q, t) <= k, NEW a
    PROVE  InsertedBefore(q, t, k, a)
<1> DEFINE n == InsertTimer(q, t)
           p == Position(q, t)
           I == {Up(p, i) : i \in Before(q, a, k)}
<1>1. Len(q) \in Nat /\ p \in 1 .. Len(q) + 1 /\ p <= k
  BY LenProperties, PositionFacts
<1>2. /\ Len(n) = Len(q) + 1
      /\ \A j \in 1 .. Len(q) + 1 :
            n[j] = IF j < p THEN q[j] ELSE IF j = p THEN t ELSE q[j - 1]
  BY <1>1, InsertAtFacts DEF InsertTimer
<1> HIDE DEF n, p
<1>3. \A i \in 1 .. Len(q) : n[Up(p, i)] = q[i] /\ Up(p, i) \in 1 .. Len(q) + 1
  BY <1>1, <1>2 DEF Up
<1>4. n[p] = t
  BY <1>1, <1>2
<1>5. ASSUME NEW j \in Before(n, a, k + 1), j # p
      PROVE  j \in I
  <2>1. j \in 1 .. Len(q) + 1 /\ n[j].arg = a /\ j < k + 1
    BY <1>2, <1>5 DEF Before, Of
  <2>2. CASE j < p
    BY <1>1, <1>2, <2>1, <2>2 DEF Before, Of, Up
  <2>3. CASE j > p
    <3>1. j - 1 \in 1 .. Len(q) /\ n[j] = q[j - 1] /\ Up(p, j - 1) = j /\ j - 1 < k
      BY <1>1, <1>2, <2>1, <2>3 DEF Up
    <3>2. j - 1 \in Before(q, a, k)
      BY <2>1, <3>1 DEF Before, Of
    <3> QED BY <3>1, <3>2
  <2> QED BY <1>1, <1>5, <2>1, <2>2, <2>3
<1>6. ASSUME NEW i \in Before(q, a, k)
      PROVE  Up(p, i) \in Before(n, a, k + 1)
  <2>1. i \in 1 .. Len(q) /\ q[i].arg = a /\ i < k
    BY DEF Before, Of
  <2>2. Up(p, i) < k + 1
    BY <1>1, <2>1 DEF Up
  <2> QED BY <1>2, <1>3, <2>1, <2>2 DEF Before, Of
<1>7. p \in Before(n, a, k + 1) <=> t.arg = a
  BY <1>1, <1>2, <1>4 DEF Before, Of
<1>8. Before(n, a, k + 1) = IF t.arg = a THEN I \cup {p} ELSE I
  <2> HIDE DEF I
  <2>1. I \subseteq Before(n, a, k + 1)
    BY <1>6 DEF I
  <2>2. Before(n, a, k + 1) \subseteq I \cup {p}
    BY <1>5
  <2>3. p \notin I
    BY <1>1, UpCount DEF I, Ups, Before, Of
  <2> DEFINE B == Before(n, a, k + 1)
  <2> HIDE DEF B
  <2>4. CASE t.arg = a
    <3>1. p \in B /\ I \subseteq B /\ B \subseteq I \cup {p}
      BY <1>7, <2>1, <2>2, <2>4 DEF B
    <3>2. B = I \cup {p}
      BY <3>1
    <3> QED BY <2>4, <3>2 DEF B
  <2>5. CASE t.arg # a
    <3>1. p \notin B /\ I \subseteq B /\ B \subseteq I \cup {p}
      BY <1>7, <2>1, <2>2, <2>5 DEF B
    <3>2. B = I
      BY <3>1
    <3> QED BY <2>5, <3>2 DEF B
  <2> QED BY <2>4, <2>5
<1> QED BY <1>1, <1>2, <1>3, <1>4, <1>8 DEF n, p, I, Ups, InsertedBefore

\* One more timer and its copy.
LEMMA PairedMore ==
    ASSUME NEW q \in Seq(Timer), NEW n, NEW p \in 1 .. Len(q) + 1,
           NEW I \in SUBSET (1 .. Len(q)), NEW J \in SUBSET (1 .. Len(q)), NEW y,
           \A i \in 1 .. Len(q) : n[Up(p, i)] = q[i],
           y \notin Ups(p, J), n[p].timeout = n[y].timeout, n[p].func = n[y].func,
           Paired(q, I, J)
    PROVE  Paired(n, Ups(p, I) \cup {p}, Ups(p, J) \cup {y})
<1>1. Len(q) \in Nat
  BY LenProperties
<1>2. /\ IsFiniteSet(Ups(p, I)) /\ Cardinality(Ups(p, I)) = Cardinality(I) /\ p \notin Ups(p, I)
      /\ IsFiniteSet(Ups(p, J)) /\ Cardinality(Ups(p, J)) = Cardinality(J)
  BY <1>1, UpCount
<1>3. /\ Cardinality(Ups(p, I) \cup {p}) = Cardinality(I) + 1
      /\ Cardinality(Ups(p, J) \cup {y}) = Cardinality(J) + 1
  BY <1>2, FS_AddElement
<1>4. ASSUME NEW K \in SUBSET (1 .. Len(q)), NEW z
      PROVE  AlarmsAt(n, Ups(p, K) \cup {z}) = AlarmsAt(q, K) \cup {<<n[z].timeout, n[z].func>>}
  <2>1. \A i \in K : n[Up(p, i)] = q[i]
    OBVIOUS
  <2>2. AlarmsAt(n, Ups(p, K)) = AlarmsAt(q, K)
    BY <2>1 DEF AlarmsAt, Ups
  <2>3. AlarmsAt(n, Ups(p, K) \cup {z}) = AlarmsAt(n, Ups(p, K)) \cup {<<n[z].timeout, n[z].func>>}
    BY DEF AlarmsAt
  <2> QED BY <2>2, <2>3
<1>5. AlarmsAt(n, Ups(p, I) \cup {p}) = AlarmsAt(n, Ups(p, J) \cup {y})
  <2>1. AlarmsAt(n, Ups(p, I) \cup {p}) = AlarmsAt(q, I) \cup {<<n[p].timeout, n[p].func>>}
    BY <1>4
  <2>2. AlarmsAt(n, Ups(p, J) \cup {y}) = AlarmsAt(q, J) \cup {<<n[y].timeout, n[y].func>>}
    BY <1>4
  <2> QED BY <2>1, <2>2 DEF Paired
<1> QED BY <1>3, <1>5 DEF Paired

\* The walk begins at the head of the queue, before anything is copied.
LEMMA WalkBegins ==
    ASSUME TypeOK, NEW src \in Arg, NEW dest \in Arg, ObjSplitTimers(src, dest)
    PROVE  Walking'
<1>1. /\ timer_base' = timer_base /\ src # dest /\ Of(timer_base, dest) = {}
      /\ walk' = [src |-> src, dest |-> dest, next |-> TidAt(timer_base, 1)]
      /\ Len(timer_base) \in Nat
  BY LenProperties DEF ObjSplitTimers, TypeOK
<1>2. /\ walk'.src = src /\ walk'.dest = dest /\ walk'.next = TidAt(timer_base, 1)
      /\ 1 \in 1 .. Len(timer_base) + 1
  BY <1>1
<1>3. Before(timer_base, src, 1) = {}
  BY <1>1 DEF Before, Of
<1>4. Paired(timer_base, {}, {})
  BY DEF Paired
<1>5. WalkAt(1)'
  BY <1>1, <1>2, <1>3, <1>4 DEF WalkAt
<1> QED BY <1>1, <1>2, <1>5 DEF Walking

\* The id in hand is that of the timer at the place of the walk.
LEMMA WalkIsAt ==
    ASSUME TypeOK, Distinct(timer_base), NEW k \in 1 .. Len(timer_base) + 1, WalkAt(k)
    PROVE  /\ walk.next = NoTid => k = Len(timer_base) + 1
           /\ \A i \in 1 .. Len(timer_base) : timer_base[i].tid = walk.next => i = k
<1>1. /\ \A i \in 1 .. Len(timer_base) : timer_base[i].tid \in Nat
      /\ Len(timer_base) \in Nat
  <2>1. \A i \in 1 .. Len(timer_base) : timer_base[i] \in Timer
    BY ElementOfSeq DEF TypeOK
  <2> QED BY <2>1, LenProperties DEF TypeOK, Timer
<1>2. walk.next = IF k \in 1 .. Len(timer_base) THEN timer_base[k].tid ELSE NoTid
  BY DEF WalkAt, TidAt
<1>3. walk.next = NoTid => k = Len(timer_base) + 1
  BY <1>1, <1>2 DEF NoTid
<1>4. \A i \in 1 .. Len(timer_base) : timer_base[i].tid = walk.next => i = k
  BY <1>1, <1>2 DEF NoTid, Distinct
<1> QED BY <1>3, <1>4

\* A timer of another object is passed by.
LEMMA WalkPasses ==
    ASSUME TypeOK, Distinct(timer_base), pc = "split", Walking,
           NEW k \in 1 .. Len(timer_base), WalkAt(k), timer_base[k].arg # walk.src,
           walk' = [walk EXCEPT !.next = TidAt(timer_base, k + 1)],
           timer_base' = timer_base
    PROVE  Walking'
<1>1. /\ walk'.src = walk.src /\ walk'.dest = walk.dest /\ walk'.next = TidAt(timer_base, k + 1)
      /\ Len(timer_base) \in Nat /\ k + 1 \in 1 .. Len(timer_base) + 1
      /\ walk.src # walk.dest
  BY LenProperties DEF TypeOK, Walking
<1>2. Before(timer_base, walk.src, k + 1) = Before(timer_base, walk.src, k)
  BY <1>1 DEF Before, Of
<1>3. \A i \in Of(timer_base, walk.dest) : i < k + 1
  BY <1>1 DEF WalkAt, Of
<1>4. WalkAt(k + 1)'
  BY <1>1, <1>2, <1>3 DEF WalkAt
<1> QED BY <1>1, <1>4 DEF Walking

\* A timer of the old object is copied, and the copy is put in behind the walk:
\* insert_timer stops at the timer itself at the latest.
LEMMA WalkCopies ==
    ASSUME TypeOK, Distinct(timer_base), pc = "split", Walking,
           NEW k \in 1 .. Len(timer_base), WalkAt(k), timer_base[k].arg = walk.src,
           walk' = [walk EXCEPT !.next = TidAt(timer_base, k + 1)],
           timer_base' = InsertTimer(timer_base, CopyTimer(timer_base[k]))
    PROVE  Walking'
<1> DEFINE q == timer_base
           t == CopyTimer(q[k])
           n == InsertTimer(q, t)
           p == Position(q, t)
           src == walk.src
           dest == walk.dest
           I == Of(q, dest)
           J == Before(q, src, k)
<1>1. /\ walk'.src = src /\ walk'.dest = dest /\ walk'.next = TidAt(q, k + 1) /\ src # dest
      /\ q \in Seq(Timer) /\ Len(q) \in Nat /\ q[k] \in Timer /\ q[k].arg = src /\ timer_base' = n
  BY LenProperties, ElementOfSeq DEF TypeOK, Walking
<1>2. t \in Timer /\ t.timeout = q[k].timeout /\ t.func = q[k].func /\ t.arg = dest
  <2>1. q[k].timeout \in Int /\ monstermoves \in Int
    <3>1. q[k].timeout \in Int
      BY <1>1 DEF Timer
    <3>2. monstermoves \in Int
      BY DEF TypeOK
    <3> QED BY <3>1, <3>2
  <2>2. monstermoves + (q[k].timeout - monstermoves) = q[k].timeout
    BY <2>1
  <2>3. t \in Timer
    BY CopyTimerFacts
  <2> QED BY <2>2, <2>3 DEF CopyTimer, NewTimer
<1>3. WalkAt(k)
  OBVIOUS
<1> HIDE DEF t
<1>4. p \in 1 .. Len(q) + 1 /\ p <= k
  <2>1. /\ p \in 1 .. Len(q) + 1
        /\ \A i \in 1 .. Len(q) : i < p => q[i].timeout < t.timeout
    BY <1>1, <1>2, PositionFacts
  <2>2. q[k].timeout \in Int
    BY <1>1 DEF Timer
  <2> QED BY <1>1, <1>2, <2>1, <2>2
<1>5. /\ n[p] = t /\ Len(n) = Len(q) + 1
      /\ \A i \in 1 .. Len(q) : n[Up(p, i)] = q[i] /\ Up(p, i) \in 1 .. Len(q) + 1
      /\ Before(n, src, k + 1) = Ups(p, J)
      /\ Before(n, dest, Len(q) + 2) = Ups(p, Before(q, dest, Len(q) + 1)) \cup {p}
  <2> HIDE DEF q, src, dest
  <2>1. q \in Seq(Timer) /\ t \in Timer /\ Len(q) \in Nat /\ t.arg = dest /\ dest # src
        /\ Position(q, t) <= k /\ k \in 1 .. Len(q) + 1
        /\ Position(q, t) <= Len(q) + 1 /\ Len(q) + 1 \in 1 .. Len(q) + 1
    BY <1>1, <1>2, <1>4 DEF q
  <2>2. InsertedBefore(q, t, k, src)
    BY <2>1, InsertBefore
  <2>3. InsertedBefore(q, t, Len(q) + 1, dest)
    BY <2>1, InsertBefore
  <2>4. (Len(q) + 1) + 1 = Len(q) + 2
    BY <2>1
  <2> QED BY <2>1, <2>2, <2>3, <2>4 DEF InsertedBefore
<1>7. I \in SUBSET (1 .. Len(q)) /\ J \in SUBSET (1 .. Len(q)) /\ \A i \in I : i < k
  BY <1>3 DEF WalkAt, Of, Before
<1> HIDE DEF n, p
<1>8. Of(n, dest) = Ups(p, I) \cup {p}
  <2>1. Before(q, dest, Len(q) + 1) = I /\ Before(n, dest, Len(q) + 2) = Of(n, dest)
    BY <1>1, <1>5 DEF Before, Of
  <2> QED BY <1>5, <2>1
<1>9. n[k + 1] = q[k] /\ Up(p, k) = k + 1 /\ k + 1 \in 1 .. Len(n)
  BY <1>1, <1>4, <1>5 DEF Up
<1>10. Before(n, src, k + 2) = Ups(p, J) \cup {k + 1}
  <2>1. Before(n, src, k + 2) = Before(n, src, k + 1) \cup {k + 1}
    BY <1>1, <1>5, <1>9 DEF Before, Of
  <2> QED BY <1>5, <2>1
<1>11. k + 1 \notin Ups(p, J) /\ \A i \in Of(n, dest) : i < k + 2
  <2>1. \A i \in J : Up(p, i) < k + 1
    BY <1>1, <1>4 DEF Up, Before, Of
  <2>2. \A i \in I : Up(p, i) < k + 2
    BY <1>1, <1>4, <1>7 DEF Up
  <2> HIDE DEF I, J
  <2>3. k + 1 \notin Ups(p, J)
    <3>1. ASSUME NEW i \in J PROVE Up(p, i) # k + 1
      <4>1. i \in Int /\ Up(p, i) \in Int
        BY <1>4, <1>7 DEF Up
      <4> QED BY <2>1, <4>1
    <3> QED BY <3>1 DEF Ups
  <2>4. \A i \in Ups(p, I) : i < k + 2
    BY <2>2 DEF Ups
  <2>5. p < k + 2
    BY <1>1, <1>4
  <2> QED BY <1>8, <2>3, <2>4, <2>5
<1>12. Paired(n, Of(n, dest), Before(n, src, k + 2))
  <2>1. Paired(q, I, J)
    BY <1>3 DEF WalkAt
  <2>2. n[p].timeout = n[k + 1].timeout /\ n[p].func = n[k + 1].func
    BY <1>2, <1>5, <1>9
  <2> HIDE DEF q, I, J
  <2> QED BY <1>1, <1>4, <1>5, <1>7, <1>8, <1>10, <1>11, <2>1, <2>2, PairedMore
<1>13. walk'.next = TidAt(n, k + 2)
  <2>1. CASE k + 1 \in 1 .. Len(q)
    <3>1. Up(p, k + 1) = k + 2
      BY <1>4 DEF Up
    <3>2. n[k + 2] = q[k + 1] /\ k + 2 \in 1 .. Len(n)
      BY <1>5, <2>1, <3>1
    <3> QED BY <1>1, <2>1, <3>2 DEF TidAt
  <2>2. CASE k + 1 \notin 1 .. Len(q)
    <3>1. k + 2 \notin 1 .. Len(n)
      BY <1>1, <1>5, <2>2
    <3> QED BY <1>1, <2>2, <3>1 DEF TidAt
  <2> QED BY <2>1, <2>2
<1>14. WalkAt(k + 2)'
  BY <1>1, <1>11, <1>12, <1>13 DEF WalkAt
<1>15. k + 2 \in 1 .. Len(timer_base') + 1
  BY <1>1, <1>5
<1> QED BY <1>1, <1>14, <1>15 DEF Walking

\* A step of the walk that does not end it.
LEMMA WalkGoesOn ==
    ASSUME TypeOK, Distinct(timer_base), Walking, SplitStep, pc' = "split"
    PROVE  Walking'
<1>1. PICK k \in 1 .. Len(timer_base) + 1 : WalkAt(k)
  BY DEF Walking, SplitStep
<1>2. pc = "split" /\ ~(walk.next = NoTid /\ pc' = Back /\ walk' = NoWalk)
  BY DEF SplitStep, Back
<1>3. PICK i \in 1 .. Len(timer_base) :
          /\ timer_base[i].tid = walk.next
          /\ walk' = [walk EXCEPT !.next = TidAt(timer_base, i + 1)]
          /\ \/ timer_base[i].arg # walk.src /\ UNCHANGED <<timer_base, timer_id>>
             \/ /\ timer_base[i].arg = walk.src
                /\ timer_base' = InsertTimer(timer_base, CopyTimer(timer_base[i]))
  BY <1>2 DEF SplitStep
<1>4. i = k
  BY <1>1, <1>3, WalkIsAt
<1>5. k \in 1 .. Len(timer_base)
  BY <1>3, <1>4
<1>6. CASE timer_base[k].arg # walk.src
  BY <1>1, <1>2, <1>3, <1>4, <1>5, <1>6, WalkPasses
<1>7. CASE timer_base[k].arg = walk.src
  BY <1>1, <1>2, <1>3, <1>4, <1>5, <1>7, WalkCopies
<1> QED BY <1>6, <1>7

\* Nothing else steps while a walk goes on.
LEMMA OnlyTheWalk ==
    ASSUME Housed, [Next]_vars, pc' = "split"
    PROVE  \/ SplitStep
           \/ \E src, dest \in Arg : ObjSplitTimers(src, dest)
           \/ UNCHANGED vars
<1>1. pc \in {"save", "read"} => then # "split"
  BY DEF Housed, Control
<1>2. ~(\E when \in Delays, func \in Func, a \in Arg : StartTimer(when, func, a))
  BY DEF StartTimer, Free
<1>3. ~(\E func \in Func, a \in Arg : StopTimer(func, a)) /\ ~(\E a \in Arg : ObjStopTimers(a))
  BY DEF StopTimer, ObjStopTimers, Free
<1>4. ~(\E src, dest \in Arg : ObjMoveTimers(src, dest))
  BY DEF ObjMoveTimers, Free
<1>5. ~(\E a \in Arg, p \in Level \cup {WithHero} : MoveObj(a, p)) /\ ~NewTurn
  BY DEF MoveObj, Free, NewTurn
<1>6. ~(\E l \in Level : GotoLevel(l)) /\ ~DoSave /\ ~DoRecover
  BY DEF GotoLevel, DoSave, DoRecover, Read
<1>7. ~StopStep /\ ~RunTimers /\ ~Return
  BY DEF StopStep, Back, RunTimers, Return
<1>8. ~SaveStep /\ ~RestoreTimer /\ ~RelinkTimers
  BY <1>1 DEF SaveStep, RestoreTimer, RelinkTimers
<1>9. ~Enter /\ ~SaveGameState /\ ~(\E l \in Level : CopyOut(l)) /\ ~PutSave /\ ~DeleteLevelFile
  BY DEF Enter, SaveGameState, CopyOut, PutSave, DeleteLevelFile, Read
<1>10. ~RestGameState /\ ~RestLevelFile /\ ~CopyIn /\ ~Recovered
  BY DEF RestGameState, RestLevelFile, CopyIn, Recovered, Read
<1> QED BY <1>2, <1>3, <1>4, <1>5, <1>6, <1>7, <1>8, <1>9, <1>10 DEF Next, Machine

\* So the copies are paired with what the walk has passed, all along the walk.
LEMMA StepWalking == Known /\ Kept /\ Walking /\ [Next]_vars => Walking'
<1> SUFFICES ASSUME Known, Kept, Walking, [Next]_vars, pc' = "split" PROVE Walking'
  BY DEF Walking
<1>1. TypeOK /\ Housed /\ Distinct(timer_base)
  BY DEF Known, Kept, Lists
<1>2. ASSUME UNCHANGED vars PROVE Walking'
  <2>1. timer_base' = timer_base /\ walk' = walk /\ pc' = pc
    BY <1>2 DEF vars
  <2> QED BY <2>1 DEF Walking, WalkAt
<1> QED BY <1>1, <1>2, OnlyTheWalk, WalkGoesOn, WalkBegins

\* A walk ends when it has passed all timers.
LEMMA WalkEnds ==
    ASSUME TypeOK, Distinct(timer_base), Walking, pc = "split", pc' # "split", [Next]_vars
    PROVE  Paired(timer_base, Of(timer_base, walk.dest), Of(timer_base, walk.src))
<1>1. SplitStep
  BY DEF Next, Machine, vars, StartTimer, StopTimer, ObjMoveTimers, ObjStopTimers, ObjSplitTimers,
         MoveObj, Free, NewTurn, GotoLevel, DoSave, DoRecover, StopStep, RunTimers, Return,
         SaveStep, RestoreTimer, RelinkTimers, Enter, SaveGameState, CopyOut, PutSave,
         DeleteLevelFile, RestGameState, RestLevelFile, CopyIn, Recovered
<1>2. walk.next = NoTid
  BY <1>1 DEF SplitStep
<1>3. PICK k \in 1 .. Len(timer_base) + 1 : WalkAt(k)
  BY DEF Walking
<1>4. k = Len(timer_base) + 1 /\ Len(timer_base) \in Nat
  BY <1>2, <1>3, WalkIsAt, LenProperties DEF TypeOK
<1>5. Before(timer_base, walk.src, k) = Of(timer_base, walk.src)
  BY <1>4 DEF Before, Of
<1> QED BY <1>3, <1>5 DEF WalkAt

\* Without a hangup in the middle of a turn (which would let two timers have
\* one id), obj_split_timers ends with the new object
\* having as many timers as the old one, at the same times for the same functions.
THEOREM SplitCopiesEach ==
    ASSUME ~MayHangup
    PROVE  Spec => SplitCopies
<1>1. Init => Kept /\ Walking
  BY InitKept DEF Init, Walking
<1>2. Known /\ Kept /\ [Next]_vars => Kept'
  BY StepRefines
<1>3. TypeOK /\ Housed => Placed
  BY HousedPlaced
<1>4. Parts
  BY PendingParts
<1>5. Known /\ Kept /\ Walking /\ [Next]_vars =>
          (pc = "split" /\ pc' # "split" =>
             LET Alarms(a) == {<<timer_base[i].timeout, timer_base[i].func>> :
                                   i \in Of(timer_base, a)}
             IN  /\ Cardinality(Of(timer_base, walk.src)) = Cardinality(Of(timer_base, walk.dest))
                 /\ Alarms(walk.src) = Alarms(walk.dest))
  <2> SUFFICES ASSUME Known, Kept, Walking, [Next]_vars, pc = "split", pc' # "split"
               PROVE  LET Alarms(a) == {<<timer_base[i].timeout, timer_base[i].func>> :
                                            i \in Of(timer_base, a)}
                      IN  /\ Cardinality(Of(timer_base, walk.src))
                             = Cardinality(Of(timer_base, walk.dest))
                          /\ Alarms(walk.src) = Alarms(walk.dest)
    OBVIOUS
  <2>1. Paired(timer_base, Of(timer_base, walk.dest), Of(timer_base, walk.src))
    BY WalkEnds DEF Known, Kept, Lists
  <2> QED BY <2>1 DEF Paired, AlarmsAt
<1>6. Known /\ Kept /\ Walking /\ [Next]_vars => Walking'
  BY StepWalking
<1> QED BY <1>1, <1>2, <1>3, <1>4, <1>5, <1>6, TypeCorrect, QueueSorted, AlwaysHoused, PTL
        DEF Spec, SplitCopies, Known
=============================================================================
