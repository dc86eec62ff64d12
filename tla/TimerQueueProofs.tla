-------------------------- MODULE TimerQueueProofs --------------------------
(***************************************************************************)
(* Proofs about module TimerQueue, for every set of timers and levels, with*)
(* a hangup or without.  Its state is well typed, its queue is ordered at  *)
(* every step of every walk, and therefore timers are called in the order  *)
(* of their times.  What is in memory belongs to the hero or to the level  *)
(* in memory, what is in a level's file belongs to that level, and         *)
(* therefore save_timers and relink_timers never meet an id for a pointer. *)
(***************************************************************************)
EXTENDS TimerQueue, ListTheorems

(***************************************************************************)
(* The list operations.                                                    *)
(***************************************************************************)
\* Least, by which a walk finds its timer, is the least of a set of numbers.
LEMMA LeastFacts ==
    ASSUME NEW I \in SUBSET Nat, I # {}
    PROVE  Least(I) \in I /\ \A j \in I : Least(I) <= j
<1>1. \E i \in I : \A j \in I : i <= j
  BY LeastNumber
<1> QED BY <1>1 DEF Least

\* What is in the queue has an integer for its time.
LEMMA TimeoutType ==
    ASSUME NEW q \in Seq(Timer), NEW k \in 1 .. Len(q)
    PROVE  q[k] \in Timer /\ q[k].timeout \in Int
<1>1. q[k] \in Timer
  BY ElementOfSeq
<1> QED BY <1>1 DEF Timer

\* insert_timer's search ends behind all sooner timers, before all others.
LEMMA PositionFacts ==
    ASSUME NEW q \in Seq(Timer), NEW t \in Timer
    PROVE  /\ Position(q, t) \in 1 .. Len(q) + 1
           /\ \A k \in 1 .. Len(q) : k < Position(q, t) => q[k].timeout < t.timeout
           /\ Position(q, t) <= Len(q) => q[Position(q, t)].timeout >= t.timeout
<1> DEFINE I == {i \in 1 .. Len(q) + 1 : i <= Len(q) => q[i].timeout >= t.timeout}
<1>1. Len(q) \in Nat
  BY LenProperties
<1>2. I \in SUBSET Nat /\ Len(q) + 1 \in I
  BY <1>1
<1>3. Position(q, t) = Least(I)
  BY DEF Position
<1>4. Least(I) \in I /\ \A j \in I : Least(I) <= j
  <2> HIDE DEF I
  <2> QED BY <1>2, LeastFacts
<1>5. ASSUME NEW k \in 1 .. Len(q), k < Least(I)
      PROVE  q[k].timeout < t.timeout
  <2>1. k \in Nat /\ Least(I) \in Nat /\ ~ (Least(I) <= k)
    BY <1>1, <1>2, <1>4, <1>5
  <2>2. k \notin I
    BY <1>4, <2>1
  <2>3. ~ (q[k].timeout >= t.timeout)
    BY <1>1, <2>2
  <2>4. t.timeout \in Int
    BY DEF Timer
  <2> QED BY <2>3, <2>4, TimeoutType
<1> QED BY <1>3, <1>4, <1>5

\* insert_timer keeps an ordered list ordered.
LEMMA InsertTimerFacts ==
    ASSUME NEW q \in Seq(Timer), NEW t \in Timer
    PROVE  /\ InsertTimer(q, t) \in Seq(Timer)
           /\ Ordered(q) => Ordered(InsertTimer(q, t))
<1> DEFINE p == Position(q, t)
           n == InsertTimer(q, t)
<1>1. Len(q) \in Nat
  BY LenProperties
<1>2. /\ p \in 1 .. Len(q) + 1
      /\ \A k \in 1 .. Len(q) : k < p => q[k].timeout < t.timeout
      /\ p <= Len(q) => q[p].timeout >= t.timeout
  BY PositionFacts
<1> HIDE DEF p
<1>3. /\ n \in Seq(Timer) /\ Len(n) = Len(q) + 1
      /\ \A k \in 1 .. Len(q) + 1 :
            n[k] = IF k < p THEN q[k] ELSE IF k = p THEN t ELSE q[k - 1]
  <2>1. n = InsertAt(q, p, t)
    BY DEF InsertTimer, p
  <2> HIDE DEF n
  <2>2. p \in 1 .. Len(q) + 1
    BY <1>2
  <2>3. /\ InsertAt(q, p, t) \in Seq(Timer) /\ Len(InsertAt(q, p, t)) = Len(q) + 1
        /\ \A k \in 1 .. Len(q) + 1 :
              InsertAt(q, p, t)[k] = IF k < p THEN q[k]
                                     ELSE IF k = p THEN t ELSE q[k - 1]
    BY <2>2, InsertAtFacts
  <2> QED BY <2>1, <2>3
<1> HIDE DEF n
<1>4. ASSUME Ordered(q), NEW i \in 1 .. Len(n), NEW j \in 1 .. Len(n), i <= j
      PROVE  n[i].timeout <= n[j].timeout
  <2>1. t.timeout \in Int /\ \A k \in 1 .. Len(q) : q[k].timeout \in Int
    BY TimeoutType DEF Timer
  <2>2. \A k, m \in 1 .. Len(q) : k <= m => q[k].timeout <= q[m].timeout
    BY <1>4 DEF Ordered
  <2>3. /\ i \in Nat /\ j \in Nat /\ i >= 1 /\ j <= Len(q) + 1
        /\ i \in 1 .. Len(q) + 1 /\ j \in 1 .. Len(q) + 1 /\ p \in Nat
    BY <1>1, <1>2, <1>3, <1>4
  <2>4. CASE j < p
    <3>1. i < p /\ i \in 1 .. Len(q) /\ j \in 1 .. Len(q)
      BY <1>1, <1>2, <1>4, <2>3, <2>4
    <3> QED BY <1>3, <1>4, <2>2, <2>3, <2>4, <3>1
  <2>5. CASE i < p /\ j = p
    <3>1. i \in 1 .. Len(q)
      BY <1>1, <1>2, <2>3, <2>5
    <3>2. n[i] = q[i] /\ n[j] = t
      BY <1>3, <2>3, <2>5
    <3> QED BY <1>2, <2>1, <2>5, <3>1, <3>2
  <2>6. CASE i < p /\ j > p
    <3>1. i \in 1 .. Len(q) /\ j - 1 \in 1 .. Len(q) /\ i <= j - 1
      BY <1>1, <1>2, <2>3, <2>6
    <3>2. n[i] = q[i] /\ n[j] = q[j - 1]
      BY <1>3, <2>3, <2>6
    <3> QED BY <2>2, <3>1, <3>2
  <2>7. CASE i = p /\ j = p
    BY <1>3, <2>1, <2>3, <2>7
  <2>8. CASE i = p /\ j > p
    <3>1. p \in 1 .. Len(q) /\ j - 1 \in 1 .. Len(q) /\ p <= j - 1
      BY <1>1, <1>2, <2>3, <2>8
    <3>2. n[i] = t /\ n[j] = q[j - 1]
      BY <1>3, <2>3, <2>8
    <3>3. q[p].timeout >= t.timeout /\ q[p].timeout <= q[j - 1].timeout
      BY <1>2, <2>2, <3>1
    <3> QED BY <2>1, <3>1, <3>2, <3>3
  <2>9. CASE i > p
    <3>1. i - 1 \in 1 .. Len(q) /\ j - 1 \in 1 .. Len(q) /\ i - 1 <= j - 1 /\ j > p
      BY <1>1, <1>2, <1>4, <2>3, <2>9
    <3>2. n[i] = q[i - 1] /\ n[j] = q[j - 1]
      BY <1>3, <2>3, <2>9, <3>1
    <3> QED BY <2>2, <3>1, <3>2
  <2> QED BY <1>4, <2>3, <2>4, <2>5, <2>6, <2>7, <2>8, <2>9
<1> QED BY <1>3, <1>4 DEF n, Ordered

\* Taking a timer out keeps an ordered list ordered.
LEMMA RemoveAtOrdered ==
    ASSUME NEW q \in Seq(Timer), NEW i \in 1 .. Len(q)
    PROVE  /\ RemoveAt(q, i) \in Seq(Timer)
           /\ Ordered(q) => Ordered(RemoveAt(q, i))
<1> DEFINE n == RemoveAt(q, i)
<1>1. Len(q) \in Nat /\ i \in Nat
  BY LenProperties
<1>2. /\ n \in Seq(Timer) /\ Len(n) = Len(q) - 1
      /\ \A k \in 1 .. Len(q) - 1 : n[k] = IF k < i THEN q[k] ELSE q[k + 1]
  BY RemoveAtFacts
<1> HIDE DEF n
<1>3. ASSUME Ordered(q), NEW a \in 1 .. Len(n), NEW b \in 1 .. Len(n), a <= b
      PROVE  n[a].timeout <= n[b].timeout
  <2>1. \A k, m \in 1 .. Len(q) : k <= m => q[k].timeout <= q[m].timeout
    BY <1>3 DEF Ordered
  <2>2. /\ a \in 1 .. Len(q) /\ a + 1 \in 1 .. Len(q)
        /\ b \in 1 .. Len(q) /\ b + 1 \in 1 .. Len(q)
        /\ a <= b + 1 /\ a + 1 <= b + 1 /\ a \in 1 .. Len(q) - 1 /\ b \in 1 .. Len(q) - 1
    BY <1>1, <1>2, <1>3
  <2>3. CASE b < i
    BY <1>1, <1>2, <1>3, <2>1, <2>2, <2>3
  <2>4. CASE a < i /\ ~ (b < i)
    BY <1>1, <1>2, <1>3, <2>1, <2>2, <2>4
  <2>5. CASE ~ (a < i)
    <3>1. ~ (b < i)
      BY <1>1, <1>3, <2>2, <2>5
    <3> QED BY <1>2, <1>3, <2>1, <2>2, <2>5, <3>1
  <2> QED BY <2>3, <2>4, <2>5
<1> QED BY <1>2, <1>3 DEF n, Ordered

\* Taking the first timer keeps an ordered list ordered, and the first is sooner
\* than the rest.
LEMMA FirstFacts ==
    ASSUME NEW q \in Seq(Timer), q # <<>>
    PROVE  /\ Head(q) \in Timer /\ Tail(q) \in Seq(Timer)
           /\ Ordered(q) => /\ Ordered(Tail(q))
                            /\ \A k \in 1 .. Len(q) : Head(q).timeout <= q[k].timeout
<1>1. /\ Head(q) \in Timer /\ Tail(q) \in Seq(Timer) /\ Len(Tail(q)) = Len(q) - 1
      /\ \A k \in 1 .. Len(Tail(q)) : Tail(q)[k] = q[k + 1]
  BY HeadTailProperties
<1>2. Len(q) \in Nat \ {0}
  BY EmptySeq
<1>3. Head(q) = q[1]
  OBVIOUS
<1>4. ASSUME Ordered(q) PROVE Ordered(Tail(q))
  <2> SUFFICES ASSUME NEW a \in 1 .. Len(Tail(q)), NEW b \in 1 .. Len(Tail(q)), a <= b
               PROVE  Tail(q)[a].timeout <= Tail(q)[b].timeout
    BY DEF Ordered
  <2>1. a + 1 \in 1 .. Len(q) /\ b + 1 \in 1 .. Len(q) /\ a + 1 <= b + 1
    BY <1>1, <1>2
  <2> QED BY <1>1, <1>4, <2>1 DEF Ordered
<1>5. ASSUME Ordered(q), NEW k \in 1 .. Len(q) PROVE Head(q).timeout <= q[k].timeout
  <2>1. 1 \in 1 .. Len(q) /\ 1 <= k
    BY <1>2
  <2> QED BY <1>3, <1>5, <2>1 DEF Ordered
<1> QED BY <1>1, <1>4, <1>5

\* Writing to timers what is not their time keeps an ordered list ordered.
LEMMA RewriteFacts ==
    ASSUME NEW q \in Seq(Timer), NEW src \in Arg, NEW dest \in Arg
    PROVE  /\ Retarget(q, src, dest) \in Seq(Timer) /\ Linked(q) \in Seq(Timer)
           /\ Ordered(q) => Ordered(Retarget(q, src, dest)) /\ Ordered(Linked(q))
<1> DEFINE r == Retarget(q, src, dest)
           k == Linked(q)
<1>1. Len(q) \in Nat
  BY LenProperties
<1>2. \A i \in 1 .. Len(q) : q[i] \in Timer
  BY ElementOfSeq
<1>3. r \in [1 .. Len(q) -> Timer] /\ \A i \in 1 .. Len(q) : r[i].timeout = q[i].timeout
  BY <1>2 DEF Retarget, Timer
<1>4. k \in [1 .. Len(q) -> Timer] /\ \A i \in 1 .. Len(q) : k[i].timeout = q[i].timeout
  BY <1>2 DEF Linked, Timer
<1> HIDE DEF r, k
<1>5. r \in Seq(Timer) /\ Len(r) = Len(q) /\ k \in Seq(Timer) /\ Len(k) = Len(q)
  BY <1>1, <1>3, <1>4
<1>6. Ordered(q) => Ordered(r) /\ Ordered(k)
  BY <1>3, <1>4, <1>5 DEF Ordered
<1> QED BY <1>5, <1>6 DEF r, k

\* write_timer marks the timer it writes.
LEMMA MarkedFacts ==
    ASSUME NEW t \in Timer
    PROVE  Marked(t) \in Written
BY DEF Marked, Written, Timer

\* A file of marked timers stays one when a marked timer is written.
LEMMA AppendWritten ==
    ASSUME NEW q \in Seq(Written), NEW t \in Written
    PROVE  Append(q, t) \in Seq(Written)
BY AppendProperties

\* An empty file holds only marked timers.
LEMMA NothingWritten == <<>> \in Seq(Written) /\ <<>> \in Seq(Timer)
OBVIOUS

\* The indices at which a walk stops.
LEMMA IndexFacts ==
    ASSUME NEW q \in Seq(Timer), NEW I \in SUBSET (1 .. Len(q)), I # {}
    PROVE  Least(I) \in 1 .. Len(q)
<1>1. I \in SUBSET Nat
  BY LenProperties
<1> QED BY <1>1, LeastFacts

\* A walk keeps the id of the timer it is at, or none.
LEMMA TidFacts ==
    ASSUME NEW q \in Seq(Timer), NEW i
    PROVE  TidAt(q, i) \in Int
<1>1. \A k \in 1 .. Len(q) : q[k] \in Timer
  BY ElementOfSeq
<1>2. \A k \in 1 .. Len(q) : q[k].tid \in Nat
  BY <1>1 DEF Timer
<1> QED BY <1>2 DEF TidAt, NoTid

(***************************************************************************)
(* Types.                                                                  *)
(***************************************************************************)
\* A game starts with an empty queue, no files and well-typed state.
THEOREM InitTypeOK == Init => TypeOK
<1> SUFFICES ASSUME Init PROVE TypeOK
  OBVIOUS
<1>1. FirstLevel \in Level /\ NoArg \in Arg
  BY PlacesAssumption DEF FirstLevel, NoArg
<1> QED BY <1>1, NothingWritten DEF Init, TypeOK, NoSave, NoWalk, NoTid, Pc, Files

\* The state of the walk when there is none is well typed.
LEMMA NoWalkFacts == NoWalk \in [src : Arg, dest : Arg, next : Int]
<1>1. NoArg \in Arg
  BY PlacesAssumption DEF NoArg
<1> QED BY <1>1 DEF NoWalk, NoTid

\* So is the save file when there is none.
LEMMA NoSaveFacts ==
    NoSave \in [local : [Level -> Seq(Written)], global : Seq(Written),
                timer_id : Nat, monstermoves : Nat]
BY NothingWritten DEF NoSave

\* start_timer makes a timer.
LEMMA NewTimerFacts ==
    ASSUME TypeOK, NEW when \in Int, NEW func \in Func, NEW a \in Arg
    PROVE  NewTimer(when, func, a) \in Timer
BY DEF TypeOK, NewTimer, Timer

\* restore_timers reads a timer and has a shorter file left.
LEMMA WrittenFacts ==
    ASSUME NEW q \in Seq(Written), q # <<>>
    PROVE  Head(q) \in Timer /\ Tail(q) \in Seq(Written)
<1>1. Head(q) \in Written /\ Tail(q) \in Seq(Written)
  BY HeadTailProperties
<1> QED BY <1>1 DEF Written

\* The queue of the next state is a list of timers, and ordered if it was.
QueueStep == timer_base' \in Seq(Timer) /\ (Sorted => Sorted')

\* Every step keeps the types, and an ordered queue ordered.
LEMMA StepTypeOK == TypeOK /\ [Next]_vars => TypeOK' /\ QueueStep
<1> SUFFICES ASSUME TypeOK, [Next]_vars PROVE TypeOK' /\ QueueStep
  OBVIOUS
<1> USE DEF QueueStep, Sorted
<1>1. ASSUME NEW when \in Delays, NEW func \in Func, NEW a \in Arg,
             StartTimer(when, func, a)
      PROVE  TypeOK' /\ QueueStep
  <2>1. NewTimer(when, func, a) \in Timer
    BY NewTimerFacts, DelaysAssumption
  <2>2. timer_base \in Seq(Timer)
    BY DEF TypeOK
  <2>3. /\ timer_base' \in Seq(Timer)
        /\ Ordered(timer_base) => Ordered(timer_base')
    BY <1>1, <2>1, <2>2, InsertTimerFacts DEF StartTimer
  <2>4. timer_id' \in Nat
    BY <1>1 DEF StartTimer, TypeOK
  <2> QED BY <1>1, <2>3, <2>4 DEF StartTimer, TypeOK, loops
<1>2. ASSUME NEW func \in Func, NEW a \in Arg, StopTimer(func, a)
      PROVE  TypeOK' /\ QueueStep
  <2>1. timer_base \in Seq(Timer)
    BY DEF TypeOK
  <2>2. Least(Matches(timer_base, func, a)) \in 1 .. Len(timer_base)
    BY <1>2, <2>1, IndexFacts DEF StopTimer, Matches
  <2>3. QueueStep
    BY <1>2, <2>1, <2>2, RemoveAtOrdered DEF StopTimer
  <2> QED BY <1>2, <2>3 DEF StopTimer, TypeOK, world, loops
<1>3. ASSUME NEW src \in Arg, NEW dest \in Arg, ObjMoveTimers(src, dest)
      PROVE  TypeOK' /\ QueueStep
  <2>1. QueueStep
    BY <1>3, RewriteFacts DEF ObjMoveTimers, TypeOK
  <2> QED BY <1>3, <2>1 DEF ObjMoveTimers, TypeOK, world, loops
<1>4. ASSUME NEW a \in Arg, ObjStopTimers(a)
      PROVE  TypeOK' /\ QueueStep
  <2>1. walk' \in [src : Arg, dest : Arg, next : Int]
    BY <1>4 DEF ObjStopTimers, TypeOK
  <2> QED BY <1>4, <2>1 DEF ObjStopTimers, TypeOK, world, Pc
<1>5. CASE StopStep
  <2>1. timer_base \in Seq(Timer)
    BY DEF TypeOK
  <2>2. Of(timer_base, walk.src) # {} =>
            Least(Of(timer_base, walk.src)) \in 1 .. Len(timer_base)
    BY <2>1, IndexFacts DEF Of
  <2>3. QueueStep
    BY <1>5, <2>1, <2>2, RemoveAtOrdered DEF StopStep
  <2>4. walk' \in [src : Arg, dest : Arg, next : Int]
    BY <1>5, NoWalkFacts DEF StopStep, TypeOK
  <2>5. pc' \in Pc
    BY <1>5 DEF StopStep, TypeOK, Pc, Back
  <2> QED BY <1>5, <2>3, <2>4, <2>5 DEF StopStep, TypeOK, world
<1>6. ASSUME NEW src \in Arg, NEW dest \in Arg, ObjSplitTimers(src, dest)
      PROVE  TypeOK' /\ QueueStep
  <2>1. TidAt(timer_base, 1) \in Int
    BY TidFacts DEF TypeOK
  <2> QED BY <1>6, <2>1 DEF ObjSplitTimers, TypeOK, world, Pc
<1>7. CASE SplitStep
  <2>1. CASE timer_base' = timer_base /\ timer_id' = timer_id /\ walk' = NoWalk
             /\ pc' = Back
    BY <1>7, <2>1, NoWalkFacts DEF SplitStep, TypeOK, Pc, Back
  <2>2. ASSUME NEW i \in 1 .. Len(timer_base),
               walk' = [walk EXCEPT !.next = TidAt(timer_base, i + 1)],
               \/ timer_base' = timer_base /\ timer_id' = timer_id
               \/ /\ timer_base' = InsertTimer(timer_base, CopyTimer(timer_base[i]))
                  /\ timer_id' = timer_id + 1,
               pc' = pc
        PROVE  TypeOK' /\ QueueStep
    <3>1. timer_base \in Seq(Timer) /\ walk \in [src : Arg, dest : Arg, next : Int]
      BY DEF TypeOK
    <3>2. walk' \in [src : Arg, dest : Arg, next : Int]
      BY <2>2, <3>1, TidFacts
    <3>3. timer_base[i] \in Timer
      BY <3>1, ElementOfSeq
    <3>4. CopyTimer(timer_base[i]) \in Timer
      <4> DEFINE when == timer_base[i].timeout - monstermoves
                 func == timer_base[i].func
                 dest == walk.dest
      <4>1. when \in Int /\ func \in Func /\ dest \in Arg
        <5>1. timer_base[i].timeout \in Int /\ func \in Func
          BY <3>3 DEF Timer
        <5>2. monstermoves \in Int
          BY DEF TypeOK
        <5>3. dest \in Arg
          BY <3>1
        <5> QED BY <5>1, <5>2, <5>3
      <4>2. CopyTimer(timer_base[i]) = NewTimer(when, func, dest)
        BY DEF CopyTimer
      <4> HIDE DEF when, func, dest
      <4>3. NewTimer(when, func, dest) \in Timer
        BY <4>1, NewTimerFacts
      <4> QED BY <4>2, <4>3
    <3>5. QueueStep
      <4>1. /\ InsertTimer(timer_base, CopyTimer(timer_base[i])) \in Seq(Timer)
            /\ Ordered(timer_base) =>
                   Ordered(InsertTimer(timer_base, CopyTimer(timer_base[i])))
        BY <3>1, <3>4, InsertTimerFacts
      <4> QED BY <2>2, <3>1, <4>1
    <3>6. timer_id' \in Nat
      BY <2>2 DEF TypeOK
    <3> QED BY <1>7, <2>2, <3>2, <3>5, <3>6 DEF SplitStep, TypeOK
  <2> QED BY <1>7, <2>1, <2>2 DEF SplitStep
<1>8. ASSUME NEW a \in Arg, NEW p \in Level \cup {WithHero}, MoveObj(a, p)
      PROVE  TypeOK' /\ QueueStep
  BY <1>8 DEF MoveObj, TypeOK, loops
<1>9. CASE NewTurn
  BY <1>9 DEF NewTurn, TypeOK, Pc
<1>10. CASE RunTimers
  <2>1. timer_base \in Seq(Timer)
    BY DEF TypeOK
  <2>2. timer_base # <<>> => /\ Head(timer_base) \in Timer
                             /\ Tail(timer_base) \in Seq(Timer)
                             /\ Sorted => Ordered(Tail(timer_base))
    BY <2>1, FirstFacts
  <2>3. QueueStep /\ curr' \subseteq Timer
    BY <1>10, <2>1, <2>2 DEF RunTimers, TypeOK
  <2> QED BY <1>10, <2>3 DEF RunTimers, TypeOK, world, Pc
<1>11. CASE Return
  BY <1>11 DEF Return, TypeOK, world, Pc
<1>12. CASE SaveStep
  <2>1. timer_base \in Seq(Timer)
    BY DEF TypeOK
  <2> DEFINE I == {i \in 1 .. Len(timer_base) : InRange(timer_base[i])}
             w == Marked(timer_base[Least(I)])
  <2>2. ASSUME I # {} PROVE Least(I) \in 1 .. Len(timer_base) /\ w \in Written
    <3>1. Least(I) \in 1 .. Len(timer_base)
      BY <2>1, <2>2, IndexFacts
    <3> QED BY <2>1, <3>1, ElementOfSeq, MarkedFacts
  <2> HIDE DEF I, w
  <2>3. \/ /\ UNCHANGED <<timer_base, levelfile, savefile>>
           /\ pc' \in {"panic", then}
        \/ /\ I # {} /\ Write(w) /\ timer_base' = Unlink(timer_base, Least(I))
           /\ pc' = pc
    BY <1>12 DEF SaveStep, I, w
  <2>4. QueueStep
    BY <2>1, <2>2, <2>3, RemoveAtOrdered DEF Unlink
  <2>5. /\ levelfile' \in [Level -> Seq(Written)]
        /\ savefile' \in [local : [Level -> Seq(Written)], global : Seq(Written),
                          timer_id : Nat, monstermoves : Nat]
    <3>1. /\ levelfile \in [Level -> Seq(Written)] /\ mem \in Level
          /\ savefile \in [local : [Level -> Seq(Written)], global : Seq(Written),
                           timer_id : Nat, monstermoves : Nat]
      BY DEF TypeOK
    <3>2. CASE UNCHANGED <<levelfile, savefile>>
      BY <3>1, <3>2
    <3>3. CASE w \in Written /\ Write(w)
      <4>1. /\ Append(levelfile[mem], w) \in Seq(Written)
            /\ Append(savefile.local[mem], w) \in Seq(Written)
            /\ Append(savefile.global, w) \in Seq(Written)
        BY <3>1, <3>3, AppendWritten
      <4> QED BY <3>1, <3>3, <4>1 DEF Write
    <3> QED BY <2>2, <2>3, <3>2, <3>3
  <2>6. pc' \in Pc
    BY <2>3 DEF TypeOK, Pc
  <2> QED BY <1>12, <2>4, <2>5, <2>6 DEF SaveStep, TypeOK, loops
<1>13. CASE RestoreTimer
  <2>1. timer_base \in Seq(Timer) /\ reading \in Seq(Written) /\ reading # <<>>
    BY <1>13 DEF RestoreTimer, TypeOK
  <2>2. Head(reading) \in Timer /\ Tail(reading) \in Seq(Written)
    BY <2>1, WrittenFacts
  <2>3. QueueStep
    BY <1>13, <2>1, <2>2, InsertTimerFacts DEF RestoreTimer
  <2> QED BY <1>13, <2>2, <2>3 DEF RestoreTimer, TypeOK, world
<1>14. CASE RelinkTimers
  <2>1. timer_base \in Seq(Timer) /\ \E a \in Arg : TRUE
    BY PlacesAssumption DEF TypeOK
  <2>2. Linked(timer_base) \in Seq(Timer) /\ (Sorted => Ordered(Linked(timer_base)))
    BY <2>1, RewriteFacts
  <2>3. QueueStep /\ pc' \in Pc
    BY <1>14, <2>1, <2>2 DEF RelinkTimers, TypeOK, Pc
  <2> QED BY <1>14, <2>3 DEF RelinkTimers, TypeOK, world, loops
<1>15. ASSUME NEW l \in Level, GotoLevel(l)
       PROVE  TypeOK' /\ QueueStep
  BY <1>15, NothingWritten DEF GotoLevel, TypeOK, Pc, Files
<1>16. CASE Enter
  BY <1>16 DEF Enter, Read, TypeOK, Pc
<1>17. CASE DoSave
  BY <1>17, NoSaveFacts DEF DoSave, TypeOK, Pc, Files
<1>18. CASE SaveGameState
  <2>1. savefile' \in [local : [Level -> Seq(Written)], global : Seq(Written),
                       timer_id : Nat, monstermoves : Nat]
    BY <1>18 DEF SaveGameState, TypeOK
  <2> QED BY <1>18, <2>1 DEF SaveGameState, TypeOK, Pc, Files
<1>19. ASSUME NEW l \in Level, CopyOut(l)
       PROVE  TypeOK' /\ QueueStep
  BY <1>19 DEF CopyOut, Copied, Read, TypeOK, Pc
<1>20. CASE PutSave
  BY <1>20 DEF PutSave, TypeOK, world, Pc, Files
<1>21. CASE DeleteLevelFile
  BY <1>21, NothingWritten DEF DeleteLevelFile, TypeOK, loops, Pc
<1>22. CASE DoRecover
  <2>1. timer_base' \in Seq(Timer) /\ Sorted'
    BY <1>22, NothingWritten DEF DoRecover, Ordered
  <2> QED BY <1>22, <2>1 DEF DoRecover, Read, TypeOK, Pc
<1>23. CASE RestGameState
  BY <1>23 DEF RestGameState, Read, TypeOK, Pc
<1>24. CASE RestLevelFile
  BY <1>24, NothingWritten DEF RestLevelFile, TypeOK, Pc, Files
<1>25. CASE CopyIn
  BY <1>25 DEF CopyIn, Read, TypeOK, Pc
<1>26. CASE Recovered
  BY <1>26, NoSaveFacts DEF Recovered, TypeOK, Pc
<1>27. CASE UNCHANGED vars
  BY <1>27 DEF vars, TypeOK
<1>28. CASE Machine
  BY <1>28, <1>5, <1>7, <1>10, <1>11, <1>12, <1>13, <1>14, <1>16, <1>18, <1>19,
     <1>20, <1>21, <1>23, <1>24, <1>25, <1>26 DEF Machine
<1> QED
  BY <1>1, <1>2, <1>3, <1>4, <1>6, <1>8, <1>9, <1>15, <1>17, <1>22, <1>27, <1>28
  DEF Next

\* The state stays within its types.
THEOREM TypeCorrect == Spec => []TypeOK
<1>1. TypeOK /\ [Next]_vars => TypeOK'
  BY StepTypeOK
<1> QED BY InitTypeOK, <1>1, PTL DEF Spec

\* The queue is ordered by time in every state: insert_timer finds the place for a
\* new, a split-off or a restored timer, and nothing else changes the order.
THEOREM QueueSorted == Spec => []Sorted
<1>1. Init => TypeOK /\ Sorted
  BY InitTypeOK DEF Init, Sorted, Ordered
<1>2. TypeOK /\ Sorted /\ [Next]_vars => TypeOK' /\ Sorted'
  BY StepTypeOK DEF QueueStep
<1> QED BY <1>1, <1>2, PTL DEF Spec

\* A timer whose function is called is due, and none in the queue has an earlier
\* time, though run_timers looks at the first one only.
THEOREM CallsInOrder == Spec => FiresInOrder
<1> DEFINE InOrder == \A t \in curr' \ curr :
                          /\ t.timeout <= monstermoves
                          /\ \A u \in Elements(timer_base) : t.timeout <= u.timeout
<1>1. TypeOK /\ Sorted /\ [Next]_vars => [InOrder]_vars
  <2> SUFFICES ASSUME TypeOK, Sorted, Next, NEW t \in curr', t \notin curr
               PROVE  /\ t.timeout <= monstermoves
                      /\ \A u \in Elements(timer_base) : t.timeout <= u.timeout
    OBVIOUS
  <2>1. RunTimers
    BY DEF Next, Machine, StartTimer, StopTimer, ObjMoveTimers, ObjStopTimers, StopStep,
           ObjSplitTimers, SplitStep, MoveObj, NewTurn, Return, SaveStep, RestoreTimer,
           RelinkTimers, GotoLevel, Enter, Read, DoSave, SaveGameState, CopyOut, PutSave,
           DeleteLevelFile, DoRecover, RestGameState, RestLevelFile, CopyIn, Recovered,
           world, loops
  <2>2. timer_base \in Seq(Timer) /\ timer_base # <<>>
        /\ t = Head(timer_base) /\ IsDue(t)
    BY <2>1 DEF RunTimers, TypeOK
  <2>3. \A k \in 1 .. Len(timer_base) : t.timeout <= timer_base[k].timeout
    BY <2>2, FirstFacts DEF Sorted
  <2> QED BY <2>2, <2>3 DEF Elements, IsDue
<1>2. [][InOrder]_vars => FiresInOrder
  BY DEF FiresInOrder
<1> QED BY <1>1, <1>2, TypeCorrect, QueueSorted, PTL DEF Spec

-----------------------------------------------------------------------------
(***************************************************************************)
(* The timers of a list after an operation on the list.                    *)
(***************************************************************************)
\* The elements of a list are of the list's type.
LEMMA ElementsType ==
    ASSUME NEW S, NEW q \in Seq(S)
    PROVE  Elements(q) \subseteq S /\ Elements(<<>>) = {}
<1>1. \A k \in 1 .. Len(q) : q[k] \in S
  BY ElementOfSeq
<1>2. Len(<<>>) = 0
  OBVIOUS
<1> QED BY <1>1, <1>2 DEF Elements

\* insert_timer adds its timer and loses none.
LEMMA InsertElements ==
    ASSUME NEW q \in Seq(Timer), NEW t \in Timer
    PROVE  Elements(InsertTimer(q, t)) = Elements(q) \cup {t}
<1> DEFINE p == Position(q, t)
           n == InsertTimer(q, t)
<1>1. Len(q) \in Nat /\ p \in 1 .. Len(q) + 1
  BY LenProperties, PositionFacts
<1> HIDE DEF p
<1>2. /\ Len(n) = Len(q) + 1
      /\ \A k \in 1 .. Len(q) + 1 :
            n[k] = IF k < p THEN q[k] ELSE IF k = p THEN t ELSE q[k - 1]
  BY <1>1, InsertAtFacts DEF InsertTimer, p
<1> HIDE DEF n
<1>3. ASSUME NEW k \in 1 .. Len(q) PROVE q[k] \in Elements(n)
  <2>1. CASE k < p
    BY <1>1, <1>2, <2>1 DEF Elements
  <2>2. CASE ~ (k < p)
    <3>1. k + 1 \in 1 .. Len(n) /\ n[k + 1] = q[k]
      BY <1>1, <1>2, <2>2
    <3> QED BY <3>1 DEF Elements
  <2> QED BY <2>1, <2>2
<1>4. t \in Elements(n)
  BY <1>1, <1>2 DEF Elements
<1>5. ASSUME NEW k \in 1 .. Len(n) PROVE n[k] \in Elements(q) \cup {t}
  <2>1. k < p => k \in 1 .. Len(q)
    BY <1>1, <1>2
  <2>2. k > p => k - 1 \in 1 .. Len(q)
    BY <1>1, <1>2
  <2> QED BY <1>1, <1>2, <2>1, <2>2 DEF Elements
<1> QED BY <1>3, <1>4, <1>5 DEF n, Elements

\* Unlinking takes one timer out.
LEMMA RemoveElements ==
    ASSUME NEW S, NEW q \in Seq(S), NEW i \in 1 .. Len(q)
    PROVE  Elements(RemoveAt(q, i)) \cup {q[i]} = Elements(q)
<1> DEFINE n == RemoveAt(q, i)
<1>1. Len(q) \in Nat /\ i \in Nat
  BY LenProperties
<1>2. /\ Len(n) = Len(q) - 1
      /\ \A k \in 1 .. Len(q) - 1 : n[k] = IF k < i THEN q[k] ELSE q[k + 1]
  BY RemoveAtFacts
<1> HIDE DEF n
<1>3. ASSUME NEW k \in 1 .. Len(n) PROVE n[k] \in Elements(q)
  <2>1. k \in 1 .. Len(q) /\ k + 1 \in 1 .. Len(q)
    BY <1>1, <1>2
  <2> QED BY <1>2, <2>1 DEF Elements
<1>4. ASSUME NEW k \in 1 .. Len(q), k # i PROVE q[k] \in Elements(n)
  <2>1. CASE k < i
    BY <1>1, <1>2, <2>1 DEF Elements
  <2>2. CASE k > i
    <3>1. k - 1 \in 1 .. Len(n) /\ n[k - 1] = q[k]
      BY <1>1, <1>2, <2>2
    <3> QED BY <3>1 DEF Elements
  <2> QED BY <1>1, <1>4, <2>1, <2>2
<1> QED BY <1>3, <1>4 DEF n, Elements

\* Writing adds one timer to a file.
LEMMA AppendElements ==
    ASSUME NEW S, NEW q \in Seq(S), NEW t \in S
    PROVE  Elements(Append(q, t)) = Elements(q) \cup {t}
<1>1. Len(q) \in Nat
  BY LenProperties
<1>2. /\ Len(Append(q, t)) = Len(q) + 1
      /\ \A k \in 1 .. Len(q) : Append(q, t)[k] = q[k]
      /\ Append(q, t)[Len(q) + 1] = t
  BY AppendProperties
<1>3. \A k \in 1 .. Len(q) + 1 : k \in 1 .. Len(q) \/ k = Len(q) + 1
  BY <1>1
<1> QED BY <1>1, <1>2, <1>3 DEF Elements

\* Reading, or running, takes the first timer.
LEMMA HeadElements ==
    ASSUME NEW S, NEW q \in Seq(S), q # <<>>
    PROVE  Elements(q) = {Head(q)} \cup Elements(Tail(q))
<1>1. /\ Len(Tail(q)) = Len(q) - 1 /\ Len(q) \in Nat \ {0}
      /\ \A k \in 1 .. Len(Tail(q)) : Tail(q)[k] = q[k + 1]
      /\ Head(q) = q[1]
  BY HeadTailProperties, EmptySeq
<1>2. ASSUME NEW k \in 1 .. Len(Tail(q)) PROVE Tail(q)[k] \in Elements(q)
  <2>1. k + 1 \in 1 .. Len(q)
    BY <1>1
  <2> QED BY <1>1, <2>1 DEF Elements
<1>3. ASSUME NEW k \in 1 .. Len(q) PROVE k = 1 \/ q[k] \in Elements(Tail(q))
  <2>1. CASE k # 1
    <3>1. k - 1 \in 1 .. Len(Tail(q)) /\ Tail(q)[k - 1] = q[k]
      BY <1>1, <2>1
    <3> QED BY <3>1 DEF Elements
  <2> QED BY <2>1
<1>4. Head(q) \in Elements(q)
  BY <1>1 DEF Elements
<1> QED BY <1>1, <1>2, <1>3, <1>4 DEF Elements

\* obj_move_timers writes to the timers of one object, relink_timers to all.
LEMMA RewriteElements ==
    ASSUME NEW q \in Seq(Timer), NEW src, NEW dest
    PROVE  /\ Elements(Linked(q)) = {[t EXCEPT !.needs_fixup = FALSE] : t \in Elements(q)}
           /\ Elements(Retarget(q, src, dest)) =
                  {IF t.arg = src THEN [t EXCEPT !.arg = dest] ELSE t : t \in Elements(q)}
<1>1. Len(q) \in Nat
  BY LenProperties
<1>2. /\ Len(Linked(q)) = Len(q)
      /\ \A i \in 1 .. Len(q) : Linked(q)[i] = [q[i] EXCEPT !.needs_fixup = FALSE]
  BY <1>1 DEF Linked
<1>3. /\ Len(Retarget(q, src, dest)) = Len(q)
      /\ \A i \in 1 .. Len(q) : Retarget(q, src, dest)[i] =
             IF q[i].arg = src THEN [q[i] EXCEPT !.arg = dest] ELSE q[i]
  BY <1>1 DEF Retarget
<1>4. Elements(Linked(q)) = {[q[i] EXCEPT !.needs_fixup = FALSE] : i \in 1 .. Len(q)}
  BY <1>2 DEF Elements
<1>5. Elements(Retarget(q, src, dest)) =
          {IF q[i].arg = src THEN [q[i] EXCEPT !.arg = dest] ELSE q[i] : i \in 1 .. Len(q)}
  BY <1>3 DEF Elements
<1> DEFINE L(t) == [t EXCEPT !.needs_fixup = FALSE]
           R(t) == IF t.arg = src THEN [t EXCEPT !.arg = dest] ELSE t
<1>6. /\ Elements(Linked(q)) = {L(q[i]) : i \in 1 .. Len(q)}
      /\ Elements(Retarget(q, src, dest)) = {R(q[i]) : i \in 1 .. Len(q)}
  BY <1>4, <1>5
<1> HIDE DEF L, R
<1>7. Elements(Linked(q)) = {L(t) : t \in Elements(q)}
  BY <1>6 DEF Elements
<1>8. Elements(Retarget(q, src, dest)) = {R(t) : t \in Elements(q)}
  BY <1>6 DEF Elements
<1> QED BY <1>7, <1>8 DEF L, R

(***************************************************************************)
(* Where timers are.                                                       *)
(***************************************************************************)
Playing == {"play", "run", "call", "split", "stop"}

\* What the program is about, when it writes or reads timers what it does next.
At == IF pc \in {"save", "read"} THEN then ELSE pc

\* save_timers and restore_timers are called by these, and the program knows
\* where it goes on.
Control ==
    /\ pc # "panic"
    /\ pc = "save" => <<out, then>> \in
           {<<"levelfile", "enter">>, <<"savefile", "savegame">>,
            <<"savestate", "copyout">>, <<"savefile", "copied">>, <<"levelfile", "copyin">>}
    /\ pc = "read" => then \in {"run", "putsave", "restgamestate", "restlevelfile",
                               "recovered"}
    /\ pc \in Playing => then \in {"play", "run"}
    /\ pc \in {"enter", "savegame", "putsave", "copied", "restgamestate",
              "restlevelfile", "copyin", "recovered"} => then = pc
    /\ pc \in {"copyout", "saved"} => then \in {"copyout", "copied"}

\* Ids are taken for pointers only while a file is read.
Marks == pc # "read" => /\ reading = <<>>
                        /\ \A t \in Elements(timer_base) : ~t.needs_fixup

\* What is in memory, or comes into it, is the hero's or the level's.
Memory == \A t \in Elements(timer_base) \cup Elements(reading) :
             place[t.arg] \in {WithHero, mem}

\* The level in memory is the hero's, except while levels are copied.
HeroHere ==
    /\ At \in Playing \cup {"enter", "savegame", "restgamestate", "recovered"} =>
           mem = here
    /\ pc = "split" => place[walk.dest] \in {WithHero, mem}

\* A level has left memory before the next one is read.
LevelGone == \/ pc \in {"enter", "savegame", "copyout", "copied", "copyin"}
             \/ pc = "save" /\ out = "savestate"
HeroOnly  == LevelGone => \A t \in Elements(timer_base) : place[t.arg] = WithHero

\* A file has its level's timers; the level file of the hero's level is old.
Filed ==
    /\ \A l \in Away : \A t \in Elements(levelfile[l]) : place[t.arg] = l
    /\ \A l \in Level : \A t \in Elements(savefile.local[l]) : place[t.arg] = l
    /\ \A t \in Elements(savefile.global) : place[t.arg] = WithHero

\* There is no save file while the game is played; the hero's level is not copied.
Idle ==
    /\ At \in Playing \cup {"enter"} => savefile = NoSave
    /\ At \in {"copyout", "putsave", "copied"} => here \notin todo

Housed == Control /\ Marks /\ Memory /\ HeroHere /\ HeroOnly /\ Filed /\ Idle

\* There are no timers in an empty list, so none in a save file that is not there.
LEMMA NoSaveEmpty ==
    /\ Elements(<<>>) = {} /\ Elements(NoSave.global) = {}
    /\ \A l \in Level : Elements(NoSave.local[l]) = {}
<1>1. Elements(<<>>) = {}
  BY DEF Elements
<1>2. NoSave.global = <<>> /\ \A l \in Level : NoSave.local[l] = <<>>
  BY DEF NoSave
<1> QED BY <1>1, <1>2

\* The timer at which a walk stops is one it looked for.
LEMMA LeastOf ==
    ASSUME NEW q \in Seq(Timer), NEW I \in SUBSET (1 .. Len(q)), I # {}
    PROVE  Least(I) \in I
<1>1. I \in SUBSET Nat
  BY LenProperties
<1> QED BY <1>1, LeastFacts

\* obj_split_timers makes a timer of a timer.
LEMMA CopyTimerFacts ==
    ASSUME TypeOK, NEW i \in 1 .. Len(timer_base)
    PROVE  CopyTimer(timer_base[i]) \in Timer
<1> DEFINE when == timer_base[i].timeout - monstermoves
           func == timer_base[i].func
           dest == walk.dest
<1>1. timer_base[i] \in Timer
  BY ElementOfSeq DEF TypeOK
<1>2. when \in Int /\ func \in Func /\ dest \in Arg
  <2>1. timer_base[i].timeout \in Int /\ timer_base[i].func \in Func
    BY <1>1 DEF Timer
  <2>2. monstermoves \in Int /\ walk.dest \in Arg
    BY DEF TypeOK
  <2> QED BY <2>1, <2>2
<1>3. CopyTimer(timer_base[i]) = NewTimer(when, func, dest)
  BY DEF CopyTimer
<1> HIDE DEF when, func, dest
<1> QED BY <1>2, <1>3, NewTimerFacts

\* Every step keeps timers where they belong.
LEMMA StepHoused == TypeOK /\ Housed /\ [Next]_vars => Housed'
<1> SUFFICES ASSUME TypeOK, Housed, [Next]_vars PROVE Housed'
  OBVIOUS
<1> USE PlacesAssumption
<1>1. ASSUME NEW when \in Delays, NEW func \in Func, NEW a \in Arg,
             StartTimer(when, func, a)
      PROVE  Housed'
  <2>1. timer_base \in Seq(Timer)
    BY DEF TypeOK
  <2>2. NewTimer(when, func, a) \in Timer
    BY NewTimerFacts, DelaysAssumption
  <2>3. Elements(timer_base') = Elements(timer_base) \cup {NewTimer(when, func, a)}
    BY <1>1, <2>1, <2>2, InsertElements DEF StartTimer
  <2>4. NewTimer(when, func, a).arg = a /\ ~NewTimer(when, func, a).needs_fixup
    BY DEF NewTimer
  <2>5. Control' /\ HeroHere' /\ Idle'
    BY <1>1 DEF StartTimer, Free, loops, Housed, Control, HeroHere, Idle, At, Playing
  <2>6. Marks' /\ Memory' /\ HeroOnly'
    BY <1>1, <2>3, <2>4 DEF StartTimer, Free, loops, Housed, Marks, Memory, HeroOnly,
       LevelGone, HeroHere, At, Playing
  <2>7. Filed'
    BY <1>1 DEF StartTimer, Free, loops, Housed, Filed, Away, Control, HeroHere, At,
       Playing
  <2> QED BY <2>5, <2>6, <2>7 DEF Housed
<1>2. ASSUME NEW func \in Func, NEW a \in Arg, StopTimer(func, a)
      PROVE  Housed'
  <2>1. timer_base \in Seq(Timer)
    BY DEF TypeOK
  <2>2. Least(Matches(timer_base, func, a)) \in 1 .. Len(timer_base)
    BY <1>2, <2>1, IndexFacts DEF StopTimer, Matches
  <2>3. Elements(timer_base') \subseteq Elements(timer_base)
    BY <1>2, <2>1, <2>2, RemoveElements DEF StopTimer
  <2>4. Control' /\ HeroHere' /\ Idle'
    BY <1>2 DEF StopTimer, Free, world, loops, Housed, Control, HeroHere, Idle, At,
       Playing
  <2>5. Marks' /\ Memory' /\ HeroOnly'
    BY <1>2, <2>3 DEF StopTimer, Free, world, loops, Housed, Marks, Memory, HeroOnly,
       LevelGone, HeroHere, At, Playing
  <2>6. Filed'
    BY <1>2 DEF StopTimer, Free, world, loops, Housed, Filed, Away, Control, HeroHere,
       At, Playing
  <2> QED BY <2>4, <2>5, <2>6 DEF Housed
<1>3. ASSUME NEW a \in Arg, ObjStopTimers(a)
      PROVE  Housed'
  <2>1. Control' /\ HeroHere' /\ Idle'
    BY <1>3 DEF ObjStopTimers, Free, world, Housed, Control, HeroHere, Idle, At, Playing
  <2>2. Marks' /\ Memory' /\ HeroOnly'
    BY <1>3 DEF ObjStopTimers, Free, world, Housed, Marks, Memory, HeroOnly, LevelGone,
       HeroHere, At, Playing
  <2>3. Filed'
    BY <1>3 DEF ObjStopTimers, Free, world, Housed, Filed, Away, Control, HeroHere, At,
       Playing
  <2> QED BY <2>1, <2>2, <2>3 DEF Housed
<1>4. ASSUME NEW src \in Arg, NEW dest \in Arg, ObjMoveTimers(src, dest)
      PROVE  Housed'
  <2>1. timer_base \in Seq(Timer)
    BY DEF TypeOK
  <2>2. PICK i \in 1 .. Len(timer_base) : timer_base[i].arg = src
    BY <1>4 DEF ObjMoveTimers, Of
  <2>3. place[src] \in {WithHero, mem}
    BY <2>2 DEF Elements, Housed, Memory
  <2>4. \A t \in Elements(timer_base') :
            \/ t \in Elements(timer_base)
            \/ /\ t.arg = dest
               /\ \E u \in Elements(timer_base) : t.needs_fixup = u.needs_fixup
    <3>1. \A t \in Elements(timer_base) : t \in Timer
      BY <2>1, ElementsType
    <3>2. \A t \in Timer : /\ [t EXCEPT !.arg = dest].arg = dest
                           /\ [t EXCEPT !.arg = dest].needs_fixup = t.needs_fixup
      BY DEF Timer
    <3>3. timer_base' = Retarget(timer_base, src, dest)
      BY <1>4 DEF ObjMoveTimers
    <3> SUFFICES ASSUME NEW t \in Elements(timer_base'), t \notin Elements(timer_base)
                 PROVE  t.arg = dest /\ \E u \in Elements(timer_base) :
                                            t.needs_fixup = u.needs_fixup
      OBVIOUS
    <3>4. PICK u \in Elements(timer_base) : t = [u EXCEPT !.arg = dest]
      BY <2>1, <3>3, RewriteElements
    <3> QED BY <3>1, <3>2, <3>4
  <2>5. Control' /\ HeroHere' /\ Idle'
    BY <1>4 DEF ObjMoveTimers, Free, world, loops, Housed, Control, HeroHere, Idle, At,
       Playing
  <2>6. Marks' /\ Memory' /\ HeroOnly'
    BY <1>4, <2>3, <2>4 DEF ObjMoveTimers, Free, world, loops, Housed, Marks, Memory,
       HeroOnly, LevelGone, HeroHere, At, Playing
  <2>7. Filed'
    BY <1>4 DEF ObjMoveTimers, Free, world, loops, Housed, Filed, Away, Control,
       HeroHere, At, Playing
  <2> QED BY <2>5, <2>6, <2>7 DEF Housed
<1>5. ASSUME NEW src \in Arg, NEW dest \in Arg, ObjSplitTimers(src, dest)
      PROVE  Housed'
  <2>1. PICK i \in 1 .. Len(timer_base) : timer_base[i].arg = src
    BY <1>5 DEF ObjSplitTimers, Of
  <2>2. place[dest] \in {WithHero, mem}
    BY <1>5, <2>1 DEF ObjSplitTimers, Elements, Housed, Memory
  <2>3. Control' /\ HeroHere' /\ Idle'
    BY <1>5, <2>2 DEF ObjSplitTimers, Free, world, Housed, Control, HeroHere, Idle, At,
       Playing
  <2>4. Marks' /\ Memory' /\ HeroOnly'
    BY <1>5 DEF ObjSplitTimers, Free, world, Housed, Marks, Memory, HeroOnly,
       LevelGone, HeroHere, At, Playing
  <2>5. Filed'
    BY <1>5 DEF ObjSplitTimers, Free, world, Housed, Filed, Away, Control, HeroHere,
       At, Playing
  <2> QED BY <2>3, <2>4, <2>5 DEF Housed
<1>6. ASSUME NEW a \in Arg, NEW p \in Level \cup {WithHero}, MoveObj(a, p)
      PROVE  Housed'
  <2>1. savefile = NoSave /\ then # "enter"
    BY <1>6 DEF MoveObj, Free, Housed, Idle, Control, At, Playing
  <2>2. \A l \in Away : \A t \in Elements(levelfile[l]) : t.arg # a
    BY <1>6, <2>1 DEF MoveObj, Housed, Filed, Away
  <2>3. \A b \in Arg \ {a} : place'[b] = place[b]
    BY <1>6 DEF MoveObj, TypeOK
  <2>4. \A l \in Away : \A t \in Elements(levelfile[l]) : t.arg \in Arg
    <3> SUFFICES ASSUME NEW l \in Away,
       NEW t \in Elements(levelfile[l]) PROVE t.arg \in Arg
      OBVIOUS
    <3>1. levelfile[l] \in Seq(Written)
      BY DEF TypeOK, Away
    <3>2. t \in Timer
      BY <3>1, ElementsType DEF Written
    <3> QED BY <3>2 DEF Timer
  <2>5. Control' /\ HeroHere' /\ Idle'
    BY <1>6 DEF MoveObj, Free, loops, Housed, Control, HeroHere, Idle, At, Playing
  <2>6. Marks' /\ Memory' /\ HeroOnly'
    BY <1>6 DEF MoveObj, Free, loops, Housed, Marks, Memory, HeroOnly, LevelGone,
       HeroHere, At, Playing
  <2>7. Filed'
    BY <1>6, <2>1, <2>2, <2>3, <2>4, NoSaveEmpty DEF MoveObj, Free, loops, Housed,
       Filed, Away, Control, HeroHere, At, Playing
  <2> QED BY <2>5, <2>6, <2>7 DEF Housed
<1>7. CASE NewTurn
  <2>1. Control' /\ HeroHere' /\ Idle'
    BY <1>7 DEF NewTurn, Housed, Control, HeroHere, Idle, At, Playing
  <2>2. Marks' /\ Memory' /\ HeroOnly'
    BY <1>7 DEF NewTurn, Housed, Marks, Memory, HeroOnly, LevelGone, HeroHere, At,
       Playing
  <2>3. Filed'
    BY <1>7 DEF NewTurn, Housed, Filed, Away, Control, HeroHere, At, Playing
  <2> QED BY <2>1, <2>2, <2>3 DEF Housed
<1>8. ASSUME NEW l \in Level, GotoLevel(l)
      PROVE  Housed'
  <2>1. levelfile'[here] = <<>> /\ \A k \in Level \ {here} : levelfile'[k] = levelfile[k]
    BY <1>8 DEF GotoLevel, TypeOK
  <2>2. Control' /\ HeroHere' /\ Idle'
    BY <1>8 DEF GotoLevel, Housed, Control, HeroHere, Idle, At, Playing
  <2>3. Marks' /\ Memory' /\ HeroOnly'
    BY <1>8 DEF GotoLevel, Housed, Marks, Memory, HeroOnly, LevelGone, HeroHere, At,
       Playing
  <2>4. Filed'
    BY <1>8, <2>1, NoSaveEmpty DEF GotoLevel, Housed, Filed, Away, Control, HeroHere,
       At, Playing
  <2> QED BY <2>2, <2>3, <2>4 DEF Housed
<1>9. CASE DoSave
  <2>1. Control' /\ HeroHere' /\ Idle'
    BY <1>9 DEF DoSave, Housed, Control, HeroHere, Idle, At, Playing
  <2>2. Marks' /\ Memory' /\ HeroOnly'
    BY <1>9 DEF DoSave, Housed, Marks, Memory, HeroOnly, LevelGone, HeroHere, At,
       Playing
  <2>3. Filed'
    BY <1>9, NoSaveEmpty DEF DoSave, Housed, Filed, Away, Control, HeroHere, At, Playing
  <2> QED BY <2>1, <2>2, <2>3 DEF Housed
<1>10. CASE DoRecover
  <2>1. Elements(timer_base') = {}
    BY <1>10, NoSaveEmpty DEF DoRecover
  <2>2. Control' /\ HeroHere' /\ Idle'
    BY <1>10 DEF DoRecover, Read, Housed, Control, HeroHere, Idle, At, Playing
  <2>3. Marks' /\ Memory' /\ HeroOnly'
    BY <1>10, <2>1 DEF DoRecover, Read, Filed, TypeOK, Housed, Marks, Memory, HeroOnly,
       LevelGone, HeroHere, At, Playing
  <2>4. Filed'
    BY <1>10 DEF DoRecover, Read, Housed, Filed, Away, Control, HeroHere, At, Playing
  <2> QED BY <2>2, <2>3, <2>4 DEF Housed
<1>11. CASE StopStep
  <2>1. timer_base \in Seq(Timer)
    BY DEF TypeOK
  <2>2. Of(timer_base, walk.src) # {} =>
            Least(Of(timer_base, walk.src)) \in 1 .. Len(timer_base)
    BY <2>1, IndexFacts DEF Of
  <2>3. Elements(timer_base') \subseteq Elements(timer_base)
    BY <1>11, <2>1, <2>2, RemoveElements DEF StopStep
  <2>4. Control' /\ HeroHere' /\ Idle'
    BY <1>11 DEF StopStep, Back, world, Housed, Control, HeroHere, Idle, At, Playing
  <2>5. Marks' /\ Memory' /\ HeroOnly'
    BY <1>11, <2>3 DEF StopStep, Back, world, Housed, Marks, Memory, HeroOnly,
       LevelGone, HeroHere, At, Playing
  <2>6. Filed'
    BY <1>11 DEF StopStep, Back, world, Housed, Filed, Away, Control, HeroHere, At,
       Playing
  <2> QED BY <2>4, <2>5, <2>6 DEF Housed
<1>12. CASE SplitStep
  <2>1. timer_base \in Seq(Timer)
    BY DEF TypeOK
  <2>2. place[walk.dest] \in {WithHero, mem} /\ mem = here
    BY <1>12 DEF SplitStep, Housed, HeroHere, At, Playing
  <2>3. \A t \in Elements(timer_base') :
            \/ t \in Elements(timer_base)
            \/ t.arg = walk.dest /\ ~t.needs_fixup
    <3>1. CASE timer_base' = timer_base
      BY <3>1
    <3>2. ASSUME NEW i \in 1 .. Len(timer_base),
                 timer_base' = InsertTimer(timer_base, CopyTimer(timer_base[i]))
          PROVE  \A t \in Elements(timer_base') :
                     \/ t \in Elements(timer_base)
                     \/ t.arg = walk.dest /\ ~t.needs_fixup
      <4>1. CopyTimer(timer_base[i]) \in Timer
        BY <2>1, CopyTimerFacts
      <4>2. Elements(timer_base') = Elements(timer_base) \cup {CopyTimer(timer_base[i])}
        BY <2>1, <3>2, <4>1, InsertElements
      <4>3. CopyTimer(timer_base[i]).arg = walk.dest /\ ~CopyTimer(timer_base[i]).needs_fixup
        BY DEF CopyTimer, NewTimer
      <4> DEFINE c == CopyTimer(timer_base[i])
      <4> HIDE DEF c
      <4>4. ASSUME NEW t \in Elements(timer_base'), t \notin Elements(timer_base)
            PROVE  t.arg = walk.dest /\ ~t.needs_fixup
        <5>1. t = c
          BY <4>2, <4>4 DEF c
        <5> QED BY <4>3, <5>1 DEF c
      <4> QED BY <4>4
    <3> QED BY <1>12, <3>1, <3>2 DEF SplitStep
  <2>4. pc = "split" /\ pc' \in {"split", "play", "call"}
        /\ UNCHANGED <<monstermoves, place, here, mem, levelfile, savefile, then, curr,
        out,
                       reading, todo>>
    BY <1>12 DEF SplitStep, Back
  <2>5. pc' = "split" => walk'.dest = walk.dest
    BY <1>12 DEF SplitStep, Back, TypeOK
  <2>6. Control' /\ HeroHere' /\ Idle'
    BY <2>2, <2>4, <2>5 DEF vars, Housed, Control, HeroHere, Idle, At, Playing
  <2>7. Marks' /\ Memory' /\ HeroOnly'
    BY <2>2, <2>3, <2>4 DEF vars, Housed, Marks, Memory, HeroOnly, LevelGone, HeroHere,
       At, Playing
  <2>8. Filed'
    BY <2>4 DEF vars, Housed, Filed, Away, Control, HeroHere, At, Playing
  <2> QED BY <2>6, <2>7, <2>8 DEF Housed
<1>13. CASE RunTimers
  <2>1. timer_base \in Seq(Timer)
    BY DEF TypeOK
  <2>2. Elements(timer_base') \subseteq Elements(timer_base)
    BY <1>13, <2>1, HeadElements DEF RunTimers
  <2>3. Control' /\ HeroHere' /\ Idle'
    BY <1>13 DEF RunTimers, world, Housed, Control, HeroHere, Idle, At, Playing
  <2>4. Marks' /\ Memory' /\ HeroOnly'
    BY <1>13, <2>2 DEF RunTimers, world, Housed, Marks, Memory, HeroOnly, LevelGone,
       HeroHere, At, Playing
  <2>5. Filed'
    BY <1>13 DEF RunTimers, world, Housed, Filed, Away, Control, HeroHere, At, Playing
  <2> QED BY <2>3, <2>4, <2>5 DEF Housed
<1>14. CASE Return
  <2>1. Control' /\ HeroHere' /\ Idle'
    BY <1>14 DEF Return, world, Housed, Control, HeroHere, Idle, At, Playing
  <2>2. Marks' /\ Memory' /\ HeroOnly'
    BY <1>14 DEF Return, world, Housed, Marks, Memory, HeroOnly, LevelGone, HeroHere,
       At, Playing
  <2>3. Filed'
    BY <1>14 DEF Return, world, Housed, Filed, Away, Control, HeroHere, At, Playing
  <2> QED BY <2>1, <2>2, <2>3 DEF Housed
<1>15. CASE SaveStep
  <2>1. timer_base \in Seq(Timer)
    BY DEF TypeOK
  <2> DEFINE I == {i \in 1 .. Len(timer_base) : InRange(timer_base[i])}
             t == timer_base[Least(I)]
  <2>2. \A i \in 1 .. Len(timer_base) : ~timer_base[i].needs_fixup
    BY <1>15 DEF SaveStep, Housed, Marks, Elements
  <2>3. \/ I = {} /\ pc' = then /\ UNCHANGED <<timer_base, levelfile, savefile>>
        \/ /\ I # {} /\ Write(Marked(t))
           /\ timer_base' = Unlink(timer_base, Least(I)) /\ pc' = pc
    BY <1>15, <2>2 DEF SaveStep
  <2>4. pc = "save" /\ UNCHANGED <<monstermoves, timer_id, place, here, mem, loops>>
    BY <1>15 DEF SaveStep
  <2>5. CASE I = {}
    <3>1. \A u \in Elements(timer_base) : ~InRange(u)
      BY <2>5 DEF Elements
    <3>2. \A u \in Elements(timer_base) : /\ place[u.arg] \in {WithHero, mem}
                                          /\ out = "savestate" => place[u.arg] = WithHero
      BY <2>4 DEF Housed, Memory, HeroOnly, LevelGone
    <3>3. \A u \in Elements(timer_base) : place[u.arg] = WithHero
      BY <3>1, <3>2 DEF InRange, IsLocal, TypeOK
    <3>4. then \in {"enter", "savegame", "copyout", "copied", "copyin"}
      BY <2>4 DEF Housed, Control
    <3>5. Control' /\ HeroHere' /\ Idle'
      BY <2>3, <2>4, <2>5, <3>4 DEF loops, Housed, Control, HeroHere, Idle, At, Playing
    <3>6. Marks' /\ Memory' /\ HeroOnly'
      BY <2>2, <2>3, <2>4, <2>5, <3>3, <3>4 DEF loops, Housed, Marks, Memory, HeroOnly
    <3>7. Filed'
      BY <2>3, <2>4, <2>5 DEF loops, Housed, Filed, Away
    <3> QED BY <3>5, <3>6, <3>7 DEF Housed
  <2>6. CASE I # {}
    <3>1. Least(I) \in 1 .. Len(timer_base) /\ Least(I) \in I
      BY <2>1, <2>6, IndexFacts, LeastOf
    <3>2. t \in Elements(timer_base) /\ t \in Timer /\ InRange(t)
      BY <2>1, <3>1, ElementOfSeq DEF Elements
    <3> HIDE DEF I
    <3> DEFINE i == Least(I)
               w == Marked(t)
    <3>3. w \in Written /\ w.arg = t.arg
      BY <3>2, MarkedFacts DEF Marked, Timer
    <3>4. place[w.arg] = IF out = "savestate" THEN WithHero ELSE mem
      BY <3>2, <3>3 DEF InRange, IsLocal, Housed, Memory, TypeOK
    <3>5. Elements(timer_base') \subseteq Elements(timer_base)
      BY <2>1, <2>3, <2>6, <3>1, RemoveElements DEF Unlink
    <3> HIDE DEF t, w
    <3>6. pc' = "save" /\ UNCHANGED <<place, here, mem, then, reading, todo, out, walk>>
      BY <2>3, <2>4, <2>6 DEF loops
    <3>7. Write(w)
      BY <2>3, <2>6 DEF t, w
    <3>8. Control' /\ HeroHere' /\ Idle'
      BY <2>4, <3>6, <3>7 DEF Write, Housed, Control, HeroHere, Idle, At, Playing
    <3>9. Marks' /\ Memory' /\ HeroOnly'
      BY <2>4, <3>5, <3>6 DEF Housed, Marks, Memory, HeroOnly, LevelGone
    <3>10. Filed'
      <4>1. /\ Elements(Append(levelfile[mem], w)) = Elements(levelfile[mem]) \cup {w}
            /\ Elements(Append(savefile.local[mem], w)) =
                   Elements(savefile.local[mem]) \cup {w}
            /\ Elements(Append(savefile.global, w)) = Elements(savefile.global) \cup {w}
        BY <3>3, AppendElements DEF TypeOK
      <4>2. /\ out = "savestate" => UNCHANGED <<levelfile, savefile.local>>
                                   /\ savefile'.global = Append(savefile.global, w)
            /\ out = "levelfile" => UNCHANGED savefile
                   /\ levelfile' = [levelfile EXCEPT ![mem] = Append(@, w)]
            /\ out = "savefile" => UNCHANGED <<levelfile, savefile.global>>
                   /\ savefile'.local = [savefile.local EXCEPT ![mem] = Append(@, w)]
            /\ out \in Files
        BY <3>7 DEF Write, TypeOK, Files
      <4>3. CASE out = "levelfile"
        <5>1. \A l \in Level : levelfile'[l] = IF l = mem THEN Append(levelfile[mem], w)
                                               ELSE levelfile[l]
          BY <4>2, <4>3 DEF TypeOK
        <5> QED BY <3>4, <3>6, <4>1, <4>2, <4>3, <5>1 DEF Housed, Filed, Away
      <4>4. CASE out = "savefile"
        <5>1. \A l \in Level : savefile'.local[l] =
                 IF l = mem THEN Append(savefile.local[mem], w) ELSE savefile.local[l]
          BY <4>2, <4>4 DEF TypeOK
        <5> QED BY <3>4, <3>6, <4>1, <4>2, <4>4, <5>1 DEF Housed, Filed, Away
      <4>5. CASE out = "savestate"
        <5>1. \A l \in Level : savefile'.local[l] = savefile.local[l]
          BY <4>2, <4>5
        <5> QED BY <3>4, <3>6, <4>1, <4>2, <4>5, <5>1 DEF Housed, Filed, Away
      <4> QED BY <4>2, <4>3, <4>4, <4>5 DEF Files
    <3> QED BY <3>8, <3>9, <3>10 DEF Housed
  <2> QED BY <2>5, <2>6
<1>16. CASE RestoreTimer
  <2>1. timer_base \in Seq(Timer)
    BY DEF TypeOK
  <2>2. reading \in Seq(Written) /\ reading # <<>> /\ Head(reading) \in Timer
    BY <1>16, WrittenFacts DEF RestoreTimer, TypeOK
  <2>3. /\ Elements(timer_base') = Elements(timer_base) \cup {Head(reading)}
        /\ Elements(reading) = {Head(reading)} \cup Elements(reading')
    BY <1>16, <2>1, <2>2, InsertElements, HeadElements DEF RestoreTimer
  <2>4. Control' /\ HeroHere' /\ Idle'
    BY <1>16 DEF RestoreTimer, world, Housed, Control, HeroHere, Idle, At, Playing
  <2>5. Marks' /\ Memory' /\ HeroOnly'
    BY <1>16, <2>3 DEF RestoreTimer, world, Housed, Marks, Memory, HeroOnly, LevelGone,
       HeroHere, At, Playing
  <2>6. Filed'
    BY <1>16 DEF RestoreTimer, world, Housed, Filed, Away, Control, HeroHere, At,
       Playing
  <2> QED BY <2>4, <2>5, <2>6 DEF Housed
<1>17. CASE RelinkTimers
  <2>1. timer_base \in Seq(Timer)
    BY DEF TypeOK
  <2>2. \A i \in 1 .. Len(timer_base) : Found(timer_base[i].arg)
    BY DEF Elements, Housed, Memory, Found
  <2>3. timer_base' = Linked(timer_base) /\ pc' = then /\ UNCHANGED <<world, loops>>
    BY <1>17, <2>2 DEF RelinkTimers
  <2>4. \A t \in Elements(timer_base') :
            ~t.needs_fixup /\ \E u \in Elements(timer_base) : t.arg = u.arg
    <3>1. \A t \in Timer : LET n == [t EXCEPT !.needs_fixup = FALSE]
                          IN  ~n.needs_fixup /\ n.arg = t.arg
      BY DEF Timer
    <3> SUFFICES ASSUME NEW t \in Elements(timer_base')
                 PROVE  ~t.needs_fixup /\ \E u \in Elements(timer_base) : t.arg = u.arg
      OBVIOUS
    <3>2. PICK u \in Elements(timer_base) : t = [u EXCEPT !.needs_fixup = FALSE]
      BY <2>1, <2>3, RewriteElements
    <3>3. u \in Timer
      BY <2>1, ElementsType
    <3> QED BY <3>1, <3>2, <3>3
  <2>5. pc = "read" /\ reading = <<>>
    BY <1>17 DEF RelinkTimers
  <2>6. Control' /\ HeroHere' /\ Idle'
    BY <1>17, <2>3, <2>5 DEF world, loops, Housed, Control, HeroHere, Idle, At, Playing
  <2>7. Marks' /\ Memory' /\ HeroOnly'
    BY <1>17, <2>3, <2>4, <2>5, NoSaveEmpty DEF world, loops, Control, Housed, Marks,
       Memory, HeroOnly, LevelGone, HeroHere, At, Playing
  <2>8. Filed'
    BY <1>17, <2>3, <2>5 DEF world, loops, Housed, Filed, Away, Control, HeroHere, At,
       Playing
  <2> QED BY <2>6, <2>7, <2>8 DEF Housed
<1>18. CASE Enter
  <2>1. then = "enter"
    BY <1>18 DEF Enter, Housed, Control
  <2>2. Control' /\ HeroHere' /\ Idle'
    BY <1>18 DEF Enter, Read, Housed, Control, HeroHere, Idle, At, Playing
  <2>3. Marks' /\ Memory' /\ HeroOnly'
    <3>1. Marks'
      BY <1>18 DEF Enter, Read, Housed, Marks
    <3>2. \A t \in Elements(timer_base) : place[t.arg] = WithHero
      BY <1>18 DEF Enter, Housed, HeroOnly, LevelGone
    <3>3. \A t \in Elements(reading') : place[t.arg] \in {WithHero, mem'}
      BY <1>18, <2>1 DEF Enter, Read, Filed, Away, TypeOK, Housed, Control, At,
         Playing, HeroHere, Filed
    <3>4. Memory'
      BY <1>18, <3>2, <3>3 DEF Enter, Read, Memory
    <3>5. HeroOnly'
      BY <1>18 DEF Enter, Read, HeroOnly, LevelGone
    <3> QED BY <3>1, <3>4, <3>5
  <2>4. Filed'
    BY <1>18 DEF Enter, Read, Housed, Filed, Away, Control, HeroHere, At, Playing
  <2> QED BY <2>2, <2>3, <2>4 DEF Housed
<1>19. CASE SaveGameState
  <2>1. Control' /\ HeroHere' /\ Idle'
    BY <1>19 DEF SaveGameState, Housed, Control, HeroHere, Idle, At, Playing
  <2>2. Marks' /\ Memory' /\ HeroOnly'
    <3>1. Marks'
      BY <1>19 DEF SaveGameState, Housed, Marks
    <3>2. Memory'
      BY <1>19 DEF SaveGameState, Housed, Memory
    <3>3. HeroOnly'
      BY <1>19 DEF SaveGameState, Housed, HeroOnly, LevelGone
    <3> QED BY <3>1, <3>2, <3>3
  <2>3. Filed'
    BY <1>19 DEF SaveGameState, Housed, Filed, Away, Control, HeroHere, At, Playing
  <2> QED BY <2>1, <2>2, <2>3 DEF Housed
<1>20. ASSUME NEW l \in Level, CopyOut(l)
      PROVE  Housed'
  <2>1. Control' /\ HeroHere' /\ Idle'
    BY <1>20 DEF CopyOut, Copied, Read, Housed, Control, HeroHere, Idle, At, Playing
  <2>2. Marks' /\ Memory' /\ HeroOnly'
    <3>1. Marks'
      BY <1>20 DEF CopyOut, Read, Housed, Marks
    <3>2. \A t \in Elements(timer_base) : place[t.arg] = WithHero
      BY <1>20 DEF CopyOut, Housed, HeroOnly, LevelGone
    <3>3. \A t \in Elements(reading') : place[t.arg] \in {WithHero, mem'}
      BY <1>20 DEF CopyOut, Copied, Read, Idle, Filed, Away, Housed, Control, At,
         Playing, HeroHere, Filed
    <3>4. Memory'
      BY <1>20, <3>2, <3>3 DEF CopyOut, Read, Memory
    <3>5. HeroOnly'
      BY <1>20 DEF CopyOut, Read, HeroOnly, LevelGone
    <3> QED BY <3>1, <3>4, <3>5
  <2>3. Filed'
    BY <1>20 DEF CopyOut, Copied, Read, Housed, Filed, Away, Control, HeroHere, At,
       Playing
  <2> QED BY <2>1, <2>2, <2>3 DEF Housed
<1>21. CASE PutSave
  <2>1. Control' /\ HeroHere' /\ Idle'
    BY <1>21 DEF PutSave, world, Housed, Control, HeroHere, Idle, At, Playing
  <2>2. Marks' /\ Memory' /\ HeroOnly'
    BY <1>21 DEF PutSave, world, Housed, Marks, Memory, HeroOnly, LevelGone, HeroHere,
       At, Playing
  <2>3. Filed'
    BY <1>21 DEF PutSave, world, Housed, Filed, Away, Control, HeroHere, At, Playing
  <2> QED BY <2>1, <2>2, <2>3 DEF Housed
<1>22. CASE DeleteLevelFile
  <2>1. \A k \in Level : levelfile'[k] = levelfile[k] \/ levelfile'[k] = <<>>
    BY <1>22 DEF DeleteLevelFile, TypeOK
  <2>2. Control' /\ HeroHere' /\ Idle'
    BY <1>22 DEF DeleteLevelFile, loops, Housed, Control, HeroHere, Idle, At, Playing
  <2>3. Marks' /\ Memory' /\ HeroOnly'
    BY <1>22 DEF DeleteLevelFile, loops, Housed, Marks, Memory, HeroOnly, LevelGone,
       HeroHere, At, Playing
  <2>4. Filed'
    BY <1>22, <2>1, NoSaveEmpty DEF DeleteLevelFile, loops, Housed, Filed, Away,
       Control, HeroHere, At, Playing
  <2> QED BY <2>2, <2>3, <2>4 DEF Housed
<1>23. CASE RestGameState
  <2>1. Control' /\ HeroHere' /\ Idle'
    BY <1>23 DEF RestGameState, Read, Housed, Control, HeroHere, Idle, At, Playing
  <2>2. Marks' /\ Memory' /\ HeroOnly'
    BY <1>23 DEF RestGameState, Read, Filed, Control, Housed, Marks, Memory, HeroOnly,
       LevelGone, HeroHere, At, Playing
  <2>3. Filed'
    BY <1>23 DEF RestGameState, Read, Housed, Filed, Away, Control, HeroHere, At,
       Playing
  <2> QED BY <2>1, <2>2, <2>3 DEF Housed
<1>24. CASE RestLevelFile
  <2>1. \A k \in Level : levelfile'[k] = levelfile[k] \/ levelfile'[k] = <<>>
    BY <1>24 DEF RestLevelFile, TypeOK
  <2>2. Control' /\ HeroHere' /\ Idle'
    BY <1>24 DEF RestLevelFile, Housed, Control, HeroHere, Idle, At, Playing
  <2>3. Marks' /\ Memory' /\ HeroOnly'
    BY <1>24 DEF RestLevelFile, Housed, Marks, Memory, HeroOnly, LevelGone, HeroHere,
       At, Playing
  <2>4. Filed'
    BY <1>24, <2>1, NoSaveEmpty DEF RestLevelFile, Housed, Filed, Away, Control,
       HeroHere, At, Playing
  <2> QED BY <2>2, <2>3, <2>4 DEF Housed
<1>25. CASE CopyIn
  <2>1. Control' /\ HeroHere' /\ Idle'
    BY <1>25 DEF CopyIn, Read, Housed, Control, HeroHere, Idle, At, Playing
  <2>2. Marks' /\ Memory' /\ HeroOnly'
    <3>1. Marks'
      BY <1>25 DEF CopyIn, Read, Housed, Marks
    <3>2. \A t \in Elements(timer_base) : place[t.arg] = WithHero
      BY <1>25 DEF CopyIn, Housed, HeroOnly, LevelGone
    <3>3. \A t \in Elements(reading') : place[t.arg] \in {WithHero, mem'}
      BY <1>25 DEF CopyIn, Read, Filed, TypeOK, Housed, Control, At, Playing, HeroHere,
         Filed
    <3>4. Memory'
      BY <1>25, <3>2, <3>3 DEF CopyIn, Read, Memory
    <3>5. HeroOnly'
      BY <1>25 DEF CopyIn, Read, HeroOnly, LevelGone
    <3> QED BY <3>1, <3>4, <3>5
  <2>3. Filed'
    BY <1>25 DEF CopyIn, Read, Housed, Filed, Away, Control, HeroHere, At, Playing
  <2> QED BY <2>1, <2>2, <2>3 DEF Housed
<1>26. CASE Recovered
  <2>1. Control' /\ HeroHere' /\ Idle'
    BY <1>26 DEF Recovered, Housed, Control, HeroHere, Idle, At, Playing
  <2>2. Marks' /\ Memory' /\ HeroOnly'
    BY <1>26 DEF Recovered, Housed, Marks, Memory, HeroOnly, LevelGone, HeroHere, At,
       Playing
  <2>3. Filed'
    BY <1>26, NoSaveEmpty DEF Recovered, Housed, Filed, Away, Control, HeroHere, At,
       Playing
  <2> QED BY <2>1, <2>2, <2>3 DEF Housed
<1>27. CASE UNCHANGED vars
  BY <1>27 DEF vars, Housed, Control, Marks, Memory, HeroHere, HeroOnly, LevelGone,
               Filed, Idle, Away, At
<1>28. CASE Machine
  BY <1>28, <1>11, <1>12, <1>13, <1>14, <1>15, <1>16, <1>17, <1>18, <1>19, <1>20, <1>21,
     <1>22, <1>23, <1>24, <1>25, <1>26 DEF Machine
<1> QED
  BY <1>1, <1>2, <1>3, <1>4, <1>5, <1>6, <1>7, <1>8, <1>9, <1>10, <1>27, <1>28 DEF Next

\* A game starts with every timer where it belongs: there is none.
LEMMA InitHoused == Init => Housed
<1>1. FirstLevel \in Level
  BY PlacesAssumption DEF FirstLevel
<1> SUFFICES ASSUME Init PROVE Housed
  OBVIOUS
<1>2. Elements(timer_base) = {} /\ Elements(reading) = {}
  BY NoSaveEmpty DEF Init
<1>3. \A l \in Level : Elements(levelfile[l]) = {}
  BY NoSaveEmpty DEF Init
<1>4. Control /\ Marks /\ Memory /\ HeroHere /\ HeroOnly /\ Idle
  BY <1>2 DEF Init, Control, Marks, Memory, HeroHere, HeroOnly, LevelGone, Idle, At,
     Playing
<1>5. Filed
  BY <1>3, NoSaveEmpty DEF Init, Filed, Away
<1> QED BY <1>4, <1>5 DEF Housed

\* Timers are where they belong in every state.
LEMMA AlwaysHoused == Spec => []Housed
<1>1. Init => TypeOK /\ Housed
  BY InitTypeOK, InitHoused
<1>2. TypeOK /\ Housed /\ [Next]_vars => TypeOK' /\ Housed'
  BY StepTypeOK, StepHoused
<1> QED BY <1>1, <1>2, PTL DEF Spec

\* save_timers asks only for the level of an object it has a pointer to, and
\* relink_timers finds the object of every id: also while dosave0 and dorecover
\* copy levels through memory, and when a hangup saves in the middle of a turn.
THEOREM NoDanglingIds == Spec => []NoPanic
<1>1. Housed => NoPanic
  BY DEF Housed, Control, NoPanic
<1> QED BY <1>1, AlwaysHoused, PTL

\* What is in the queue belongs to the hero or to the level in memory, so that
\* nothing stays behind when a level is saved.
THEOREM OneLevelInMemory == Spec => []MemoryHoldsOneLevel
<1>1. Housed => MemoryHoldsOneLevel
  BY DEF Housed, Memory, MemoryHoldsOneLevel, Elements
<1> QED BY <1>1, AlwaysHoused, PTL
=============================================================================
