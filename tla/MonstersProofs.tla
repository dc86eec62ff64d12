--------------------------- MODULE MonstersProofs ---------------------------
(***************************************************************************)
(* Proofs about the monsters, for any monsters, levels, squares and forms, *)
(* as long as none of the oversights of module Monsters happens: the lists,*)
(* the map, the light sources and the hero's pointers always agree.        *)
(*                                                                         *)
(* Every operation of the code is an operator from world to world.  For    *)
(* each there is a lemma that says what it leaves alone and what it does   *)
(* to the books: first the list operations, then those that move, put on   *)
(* the map, kill, replace and make one monster, then keepdogs, getlev and  *)
(* losedogs, which take loops over lists, and last the actions.            *)
(***************************************************************************)
EXTENDS Monsters, ListTheorems

\* No element of the list is in it twice.
Once(s) == \A i, j \in 1..Len(s) : s[i] = s[j] => i = j

(***************************************************************************)
(* The lists.                                                              *)
(***************************************************************************)
\* A list is made of what is in it.
LEMMA RangeIs ==
    ASSUME NEW D, NEW s \in Seq(D)
    PROVE  Range(s) = {s[i] : i \in 1..Len(s)} /\ Range(s) \in SUBSET D /\ Len(s) \in Nat
<1>1. DOMAIN s = 1..Len(s) /\ Len(s) \in Nat /\ \A i \in 1..Len(s) : s[i] \in D
  BY LenProperties, ElementOfSeq
<1> QED BY <1>1 DEF Range

LEMMA EmptyList ==
    ASSUME NEW D PROVE <<>> \in Seq(D) /\ Range(<<>>) = {} /\ Once(<<>>)
BY DEF Range, Once

\* An element is put at the head of a list.
LEMMA Pushed ==
    ASSUME NEW D, NEW s \in Seq(D), NEW m \in D
    PROVE  /\ <<m>> \o s \in Seq(D) /\ Range(<<m>> \o s) = Range(s) \cup {m}
           /\ Once(s) /\ m \notin Range(s) => Once(<<m>> \o s)
<1> DEFINE t == <<m>> \o s
<1>1. <<m>> \in Seq(D) /\ Len(<<m>>) = 1 /\ <<m>>[1] = m
  OBVIOUS
<1>2. /\ t \in Seq(D) /\ Len(t) = 1 + Len(s)
      /\ \A k \in 1 .. 1 + Len(s) : t[k] = IF k <= 1 THEN <<m>>[k] ELSE s[k - 1]
  BY <1>1, ConcatProperties
<1>3. Len(s) \in Nat
  OBVIOUS
<1>4. \A k \in 1 .. Len(t) : t[k] = IF k = 1 THEN m ELSE s[k - 1]
  BY <1>1, <1>2, <1>3
<1>5. Range(s) = {s[i] : i \in 1..Len(s)} /\ Range(t) = {t[i] : i \in 1..Len(t)}
  BY <1>2, RangeIs
<1> HIDE DEF t
<1>6. Range(t) = Range(s) \cup {m}
  <2>1. ASSUME NEW x \in Range(t) PROVE x \in Range(s) \cup {m}
    <3>1. PICK i \in 1..Len(t) : x = t[i]
      BY <1>5
    <3>2. i = 1 \/ i - 1 \in 1..Len(s)
      BY <1>2, <1>3
    <3> QED BY <1>4, <1>5, <3>1, <3>2
  <2>2. ASSUME NEW x \in Range(s) PROVE x \in Range(t)
    <3>1. PICK i \in 1..Len(s) : x = s[i]
      BY <1>5
    <3>2. i + 1 \in 1..Len(t) /\ i + 1 # 1 /\ (i + 1) - 1 = i
      BY <1>2, <1>3
    <3>3. t[i + 1] = s[i]
      BY <1>4, <3>2
    <3> QED BY <1>5, <3>1, <3>2, <3>3
  <2>3. m \in Range(t)
    BY <1>2, <1>3, <1>4, <1>5
  <2> QED BY <2>1, <2>2, <2>3
<1>7. ASSUME Once(s), m \notin Range(s), NEW i \in 1..Len(t), NEW j \in 1..Len(t), t[i] = t[j]
      PROVE  i = j
  <2>1. i = 1 \/ i - 1 \in 1..Len(s)
    BY <1>2, <1>3
  <2>2. j = 1 \/ j - 1 \in 1..Len(s)
    BY <1>2, <1>3
  <2>3. \A k \in 1..Len(s) : s[k] # m
    BY <1>5, <1>7
  <2>4. CASE i = 1 \/ j = 1
    BY <1>4, <1>7, <2>1, <2>2, <2>3, <2>4
  <2>5. CASE i # 1 /\ j # 1
    <3>1. i - 1 = j - 1
      BY <1>4, <1>7, <2>1, <2>2, <2>5 DEF Once
    <3> QED BY <3>1
  <2> QED BY <2>4, <2>5
<1> QED BY <1>2, <1>6, <1>7 DEF Once, t

\* The last element of a list that grows at its end.
LEMMA Appended ==
    ASSUME NEW D, NEW s \in Seq(D), NEW m \in D
    PROVE  /\ Append(s, m) \in Seq(D) /\ Range(Append(s, m)) = Range(s) \cup {m}
           /\ Once(s) /\ m \notin Range(s) => Once(Append(s, m))
<1> DEFINE t == Append(s, m)
<1>1. /\ t \in Seq(D) /\ Len(t) = Len(s) + 1 /\ t[Len(s) + 1] = m
      /\ \A k \in 1 .. Len(s) : t[k] = s[k]
  BY AppendProperties
<1>2. Len(s) \in Nat
  OBVIOUS
<1>3. Range(s) = {s[i] : i \in 1..Len(s)} /\ Range(t) = {t[i] : i \in 1..Len(t)}
  BY <1>1, RangeIs
<1> HIDE DEF t
<1>4. Range(t) = Range(s) \cup {m}
  <2>1. 1..Len(t) = (1..Len(s)) \cup {Len(s) + 1}
    BY <1>1, <1>2
  <2> QED BY <1>1, <1>3, <2>1
<1>5. ASSUME Once(s), m \notin Range(s), NEW i \in 1..Len(t), NEW j \in 1..Len(t), t[i] = t[j]
      PROVE  i = j
  <2>1. i = Len(s) + 1 \/ i \in 1..Len(s)
    BY <1>1, <1>2
  <2>2. j = Len(s) + 1 \/ j \in 1..Len(s)
    BY <1>1, <1>2
  <2>3. \A k \in 1..Len(s) : s[k] # m
    BY <1>3, <1>5
  <2> QED BY <1>1, <1>5, <2>1, <2>2, <2>3 DEF Once
<1> QED BY <1>1, <1>4, <1>5 DEF Once, t

\* The list backwards, as keepdogs leaves it.
LEMMA Reversed ==
    ASSUME NEW D, NEW s \in Seq(D)
    PROVE  /\ Reverse(s) \in Seq(D) /\ Range(Reverse(s)) = Range(s)
           /\ Once(s) => Once(Reverse(s))
<1> DEFINE t == Reverse(s)
<1>1. Len(s) \in Nat /\ Range(s) = {s[i] : i \in 1..Len(s)} /\ \A i \in 1..Len(s) : s[i] \in D
  BY RangeIs, ElementOfSeq
<1>2. \A i \in 1..Len(s) : (Len(s) - i) + 1 \in 1..Len(s) /\ (Len(s) - ((Len(s) - i) + 1)) + 1 = i
  BY <1>1
<1>3. t = [i \in 1..Len(s) |-> s[(Len(s) - i) + 1]]
  BY DEF Reverse
<1> HIDE DEF t
<1>4. t \in Seq(D) /\ Len(t) = Len(s)
  BY <1>1, <1>2, <1>3
<1>5. Range(t) = {t[i] : i \in 1..Len(s)}
  BY <1>4, RangeIs
<1>6. Range(t) = Range(s)
  <2>1. \A i \in 1..Len(s) : t[i] = s[(Len(s) - i) + 1]
    BY <1>3
  <2>2. ASSUME NEW i \in 1..Len(s) PROVE s[i] = t[(Len(s) - i) + 1]
    BY <1>2, <2>1
  <2> QED BY <1>1, <1>2, <1>5, <2>1, <2>2
<1>7. ASSUME Once(s), NEW i \in 1..Len(t), NEW j \in 1..Len(t), t[i] = t[j] PROVE i = j
  <2>1. (Len(s) - i) + 1 = (Len(s) - j) + 1
    BY <1>2, <1>3, <1>4, <1>7 DEF Once
  <2> QED BY <1>1, <1>4, <2>1
<1> QED BY <1>4, <1>6, <1>7 DEF Once, t

\* What is unlinked is not in the list any more.
LEMMA Unlinked ==
    ASSUME NEW D, NEW s \in Seq(D), Once(s), NEW T
    PROVE  /\ Without(s, T) \in Seq(D) /\ Range(Without(s, T)) = Range(s) \ T
           /\ Once(Without(s, T))
<1> DEFINE n       == Len(s)
           Up(k)   == {s[i] : i \in 1..k}
           Kept(k) == {t \in Seq(D) : Range(t) = Up(k) \ T /\ Once(t)}
           S       == [k \in 0..n |-> Kept(k)]
           next(k, t) == IF s[k] \in T THEN t ELSE Append(t, s[k])
           step    == [k \in 1..n |-> [t \in S[k - 1] |-> next(k, t)]]
           Is(f)   == f = [i \in 0..n |-> IF i = 0 THEN <<>> ELSE IF s[i] \in T THEN f[i - 1] ELSE Append(f[i - 1], s[i])]
<1>1. n \in Nat /\ Range(s) = Up(n) /\ \A i \in 1..n : s[i] \in D
  BY RangeIs, ElementOfSeq
<1>2. <<>> \in Kept(0)
  <2>1. Up(0) = {}
    OBVIOUS
  <2> QED BY <2>1, EmptyList
<1>3. ASSUME NEW k \in 1..n, NEW t \in Kept(k - 1) PROVE next(k, t) \in Kept(k)
  <2>1. Up(k) = Up(k - 1) \cup {s[k]}
    <3>1. 1..k = (1..k - 1) \cup {k}
      OBVIOUS
    <3> QED BY <3>1
  <2>2. s[k] \notin Up(k - 1)
    <3>1. ASSUME NEW i \in 1..k - 1, s[i] = s[k] PROVE FALSE
      <4>1. i \in 1..n /\ i # k
        BY <1>1
      <4> QED BY <3>1, <4>1 DEF Once
    <3> QED BY <3>1
  <2> HIDE DEF Up, n
  <2>3. CASE s[k] \in T
    BY <1>3, <2>1, <2>3
  <2>4. CASE s[k] \notin T
    <3>1. s[k] \notin Range(t)
      BY <1>3, <2>2
    <3>2. /\ Append(t, s[k]) \in Seq(D) /\ Range(Append(t, s[k])) = Range(t) \cup {s[k]}
          /\ Once(Append(t, s[k]))
      BY <1>1, <1>3, <3>1, Appended
    <3>3. Range(t) = Up(k - 1) \ T
      BY <1>3
    <3>4. Range(t) \cup {s[k]} = Up(k) \ T
      BY <2>1, <2>4, <3>3
    <3> QED BY <2>4, <3>2, <3>4
  <2> QED BY <2>3, <2>4
<1> HIDE DEF Kept, next
<1>4. \E f : Is(f)
  <2>1. <<>> \in S[0] /\ \A k \in 1..n : k - 1 \in 0..n /\ S[k - 1] = Kept(k - 1) /\ S[k] = Kept(k)
    BY <1>1, <1>2
  <2>2. \A k \in 1..n : \A t \in S[k - 1] : step[k][t] \in S[k]
    BY <1>3, <2>1
  <2> HIDE DEF n, S
  <2>3. \A k \in 1..n : \A t \in S[k - 1] : step[k][t] = next(k, t)
    BY <2>1
  <2> HIDE DEF step
  <2>4. PICK f : Runs(f, n, <<>>, step) /\ \A i \in 0..n : f[i] \in S[i]
    BY <1>1, <2>1, <2>2, LoopRuns
  <2>5. ASSUME NEW i \in 0..n
        PROVE  f[i] = IF i = 0 THEN <<>> ELSE next(i, f[i - 1])
    <3>1. f[i] = IF i = 0 THEN <<>> ELSE step[i][f[i - 1]]
      BY <2>4 DEF Runs
    <3>2. i # 0 => i \in 1..n /\ i - 1 \in 0..n
      BY <1>1
    <3>3. i # 0 => step[i][f[i - 1]] = next(i, f[i - 1])
      BY <2>3, <2>4, <3>2
    <3> QED BY <3>1, <3>3
  <2>6. f = [i \in 0..n |-> f[i]]
    BY <2>4 DEF Runs
  <2>7. f = [i \in 0..n |-> IF i = 0 THEN <<>> ELSE next(i, f[i - 1])]
    BY <2>5, <2>6
  <2> QED BY <2>7 DEF next
<1> DEFINE kept == CHOOSE f : Is(f)
<1>5. Is(kept)
  BY <1>4
<1>6. Without(s, T) = kept[n]
  BY DEF Without
<1> HIDE DEF kept, n
<1>7. kept[0] = <<>> /\ \A i \in 1..n : kept[i] = next(i, kept[i - 1])
  <2>1. \A i \in 0..n : kept[i] = IF i = 0 THEN <<>> ELSE IF s[i] \in T THEN kept[i - 1]
                                  ELSE Append(kept[i - 1], s[i])
    BY <1>5
  <2>2. 0 \in 0..n /\ \A i \in 1..n : i \in 0..n /\ i # 0
    BY <1>1
  <2> QED BY <2>1, <2>2 DEF next
<1> DEFINE B == {i \in 0..n : kept[i] \in Kept(i)}
<1>8. \A i \in 0..n : i \in B
  <2>1. 0 \in B
    BY <1>1, <1>2, <1>7
  <2>2. \A i \in 1..n : i - 1 \in B => i \in B
    BY <1>1, <1>3, <1>7
  <2> HIDE DEF B
  <2> QED BY <1>1, <2>1, <2>2, CountingUp
<1>9. kept[n] \in Kept(n)
  BY <1>1, <1>8
<1> QED BY <1>1, <1>6, <1>9 DEF Kept

(***************************************************************************)
(* The inductive invariant, over a world W.  H holds the monsters in hand, *)
(* which keepdogs has taken off fmon and losedogs has not put back, E      *)
(* those in level files, and B what they were when they were written.      *)
(***************************************************************************)
\* Worlds in which impossible() has not been called.
Worlds == [mon : [MonId -> Monst], fmon : Seq(MonId), mydogs : Seq(MonId),
           migrating_mons : Seq(MonId), grid : [Square -> MonId \cup {NoMon}],
           light : [MonId -> Nat], you : You, purge : Nat, impossible : {FALSE}]

Local(W)  == Range(W.fmon)
Moving(W) == Range(W.migrating_mons)
Dead(W)   == {m \in Local(W) : ~W.mon[m].alive}
Afoot(W)  == {m \in Local(W) : W.mon[m].alive} \ {W.you.usteed}

\* Every monster is in one place.
Apart(W, H, E) ==
    /\ Once(W.fmon) /\ Once(W.migrating_mons)
    /\ Local(W) \cap Moving(W) = {} /\ Local(W) \cap H = {} /\ Local(W) \cap E = {}
    /\ Moving(W) \cap H = {} /\ Moving(W) \cap E = {} /\ H \cap E = {}

\* What holds of each monster, wherever it is.
Glow01(W, m, E) == IF W.mon[m].alive /\ W.mon[m].data \in Lights /\ m \notin E THEN 1 ELSE 0
Accounted(W, H, E, B, m) ==
    /\ m \notin Local(W) => (W.mon[m].alive <=> m \in Moving(W) \cup H \cup E)
    /\ m \notin Local(W) \cup Moving(W) \cup H \cup E => W.mon[m] = Freed
    /\ W.mon[m].mleashed => W.mon[m].alive /\ m \in Local(W) \cup H
    /\ m \in Moving(W) => W.mon[m].mx = Nowhere
    /\ m \in E => W.mon[m] = B[m]
    /\ W.light[m] = Glow01(W, m, E)

Books(W, H, E, B) ==
    /\ W \in Worlds
    /\ Apart(W, H, E)
    /\ \A m \in MonId : Accounted(W, H, E, B, m)
    /\ W.purge = Cardinality(Dead(W))
    /\ Cardinality(Living(W)) <= MaxMonsters

\* The monsters of P are on the map, and nobody else.
Mapped(W, P) ==
    /\ P \subseteq MonId
    /\ \A x \in Square : W.grid[x] # NoMon => W.grid[x] \in P /\ W.mon[W.grid[x]].mx = x
    /\ \A m \in P : W.mon[m].mx \in Square /\ W.grid[W.mon[m].mx] = m

\* The hero's pointers.
Rides(W, H) == W.you.usteed # NoMon => /\ W.you.usteed \in Local(W) \cup H
                                       /\ W.mon[W.you.usteed].alive
                                       /\ W.mon[W.you.usteed].mx = W.you.at
Held(W, P) == /\ W.you.ustuck # NoMon => W.you.ustuck \in P
              /\ W.you.uswallow => /\ W.you.ustuck # NoMon /\ W.you.usteed = NoMon
                                   /\ \A m \in MonId : ~W.mon[m].mleashed
Clear(W) == W.grid[W.you.at] = IF W.you.uswallow THEN W.you.ustuck ELSE NoMon

Good(W, E, B) == /\ Books(W, {}, E, B)
                 /\ Mapped(W, Afoot(W))
                 /\ Rides(W, {}) /\ Held(W, Afoot(W)) /\ Clear(W)

\* The level files, one for each level but that in memory.
Filed(l) == Range(levelfile[l].fmon)
FileGood(l) ==
    /\ levelfile[l] \in [fmon : Seq(MonId), light : [MonId -> Nat]]
    /\ Once(levelfile[l].fmon)
    /\ \A k \in Level \ {l} : Filed(l) \cap Filed(k) = {}
    /\ \A m \in Filed(l) : mon[m].mx \in Square
    /\ \A m, n \in Filed(l) : mon[m].mx = mon[n].mx => m = n
    /\ \A m \in MonId : levelfile[l].light[m] =
          IF m \in Filed(l) /\ mon[m].data \in Lights THEN 1 ELSE 0
Files == /\ levelfile \in [Level -> [fmon : Seq(MonId), light : [MonId -> Nat]]]
         /\ here \in Level /\ Filed(here) = {}
         /\ \A l \in Level : FileGood(l)

Loop ==
    /\ phase \in {"hero", "monsters", "newturn"} /\ somebody \in BOOLEAN
    /\ walk \in Local(World) \cup {NoMon}
    /\ you.utolev # here
    /\ phase # "monsters" => /\ walk = NoMon /\ you.utolev = "stay"
                             /\ Cardinality(Owned(World)) <= MaxMonsters
    /\ phase = "hero" => you.movement >= NORMAL_SPEED
    /\ phase = "newturn" => purge = 0

IInv == Good(World, InFiles, mon) /\ Files /\ Loop

(***************************************************************************)
(* Changing one field of a monster, of the hero, of a world.               *)
(***************************************************************************)
LEMMA MonstWith ==
    ASSUME NEW r \in Monst
    PROVE  /\ \A x \in Square \cup {Nowhere} :
                 LET s == [r EXCEPT !.mx = x]
                 IN  /\ s \in Monst /\ s.mx = x /\ s.data = r.data /\ s.alive = r.alive
                     /\ s.movement = r.movement /\ s.mleashed = r.mleashed /\ s.dest = r.dest
           /\ r.data \in Form /\ r.mx \in Square \cup {Nowhere} /\ r.alive \in BOOLEAN
           /\ r.movement \in Nat /\ r.mleashed \in BOOLEAN /\ r.dest \in Level
BY DEF Monst

\* The parts of a world.
LEMMA Parts ==
    ASSUME NEW W \in Worlds
    PROVE  /\ W.mon \in [MonId -> Monst] /\ W.fmon \in Seq(MonId) /\ W.mydogs \in Seq(MonId)
           /\ W.migrating_mons \in Seq(MonId) /\ W.grid \in [Square -> MonId \cup {NoMon}]
           /\ W.light \in [MonId -> Nat] /\ W.you \in You /\ W.purge \in Nat
           /\ W.impossible = FALSE
           /\ Local(W) \in SUBSET MonId /\ Moving(W) \in SUBSET MonId
<1>1. W.fmon \in Seq(MonId) /\ W.migrating_mons \in Seq(MonId)
  BY DEF Worlds
<1>2. Local(W) \in SUBSET MonId /\ Moving(W) \in SUBSET MonId
  BY <1>1, RangeIs DEF Local, Moving
<1> QED BY <1>2 DEF Worlds

\* Two worlds that differ only in where monsters and the hero are.
Elsewhere(W, V) ==
    /\ V.fmon = W.fmon /\ V.mydogs = W.mydogs /\ V.migrating_mons = W.migrating_mons
    /\ V.light = W.light /\ V.purge = W.purge
Kin(r, s) == /\ s.data = r.data /\ s.alive = r.alive /\ s.movement = r.movement
             /\ s.mleashed = r.mleashed /\ s.dest = r.dest

\* V is W with other places of the monsters of S, and another hero.
Moved(W, V, S) ==
    /\ V \in Worlds /\ Elsewhere(W, V)
    /\ \A m \in MonId : Kin(W.mon[m], V.mon[m]) /\ (m \notin S => V.mon[m] = W.mon[m])

LEMMA WithGrid ==
    ASSUME NEW W \in Worlds, NEW g \in [Square -> MonId \cup {NoMon}]
    PROVE  LET V == [W EXCEPT !.grid = g]
           IN  /\ V \in Worlds /\ V.grid = g /\ V.mon = W.mon /\ V.you = W.you
               /\ Elsewhere(W, V)
BY DEF Worlds, Elsewhere

LEMMA WithYou ==
    ASSUME NEW W \in Worlds, NEW y \in You
    PROVE  LET V == [W EXCEPT !.you = y]
           IN  /\ V \in Worlds /\ V.grid = W.grid /\ V.mon = W.mon /\ V.you = y
               /\ Elsewhere(W, V)
BY DEF Worlds, Elsewhere

LEMMA WithMon ==
    ASSUME NEW W \in Worlds, NEW f \in [MonId -> Monst]
    PROVE  LET V == [W EXCEPT !.mon = f]
           IN  /\ V \in Worlds /\ V.grid = W.grid /\ V.mon = f /\ V.you = W.you
               /\ Elsewhere(W, V)
BY DEF Worlds, Elsewhere

\* Only what is known of the monsters is different.
IsMonChanged(W, V, f) == /\ V \in Worlds /\ V.grid = W.grid /\ V.mon = f /\ V.you = W.you
                         /\ Elsewhere(W, V)
LEMMA MonChanged ==
    ASSUME NEW W \in Worlds, NEW f \in [MonId -> Monst], NEW V, V = [W EXCEPT !.mon = f]
    PROVE  IsMonChanged(W, V, f)
BY DEF Worlds, Elsewhere, IsMonChanged

(***************************************************************************)
(* remove_monster and place_monster.                                       *)
(***************************************************************************)
LEMMA Removed ==
    ASSUME NEW W \in Worlds, NEW x \in Square \cup {Nowhere},
           NEW V, V = RemoveMonster(W, x)
    PROVE  /\ Moved(W, V, {}) /\ V.mon = W.mon /\ V.you = W.you
           /\ \A y \in Square : V.grid[y] = IF y = x THEN NoMon ELSE W.grid[y]
<1>1. Nowhere \notin Square
  BY PlaceAssumption
<1>2. CASE x = Nowhere
  BY <1>1, <1>2 DEF RemoveMonster, Moved, Elsewhere, Kin
<1>3. CASE x \in Square
  <2> DEFINE g == [W.grid EXCEPT ![x] = NoMon]
             Z == [W EXCEPT !.grid = g]
  <2>1. g \in [Square -> MonId \cup {NoMon}] /\ \A y \in Square : g[y] = IF y = x THEN NoMon ELSE W.grid[y]
    BY <1>3, Parts
  <2>2. V = Z
    BY <1>1, <1>3 DEF RemoveMonster
  <2> HIDE DEF g
  <2>3. Z \in Worlds /\ Z.grid = g /\ Z.mon = W.mon /\ Z.you = W.you /\ Elsewhere(W, Z)
    BY <2>1, WithGrid
  <2> HIDE DEF Z
  <2> QED BY <2>1, <2>2, <2>3 DEF Moved, Kin
<1> QED BY <1>2, <1>3

\* V is W with m put on square x.
Put(W, V, m, x) ==
    /\ Moved(W, V, {m}) /\ V.you = W.you
    /\ V.mon[m].mx = x
    /\ \A y \in Square : V.grid[y] = IF y = x THEN m ELSE W.grid[y]

LEMMA Placed ==
    ASSUME NEW W \in Worlds, NEW m \in MonId, NEW x \in Square,
           m # W.you.usteed, W.mon[m].alive, NEW V, V = PlaceMonster(W, m, x)
    PROVE  Put(W, V, m, x)
<1> DEFINE f == [W.mon EXCEPT ![m] = [W.mon[m] EXCEPT !.mx = x]]
           g == [W.grid EXCEPT ![x] = m]
           U == [W EXCEPT !.mon = f]
           Z == [U EXCEPT !.grid = g]
<1>1. V = Z
  BY DEF PlaceMonster, Worlds
<1>2. g \in [Square -> MonId \cup {NoMon}] /\ \A y \in Square : g[y] = IF y = x THEN m ELSE W.grid[y]
  BY Parts
<1>3. /\ f \in [MonId -> Monst] /\ f[m].mx = x
      /\ \A n \in MonId : Kin(W.mon[n], f[n]) /\ (n # m => f[n] = W.mon[n])
  <2> DEFINE r == W.mon[m]
             s == [r EXCEPT !.mx = x]
  <2>1. r \in Monst /\ W.mon \in [MonId -> Monst]
    BY Parts
  <2>2. s \in Monst /\ s.mx = x /\ Kin(r, s)
    <3> HIDE DEF r
    <3> QED BY <2>1, MonstWith DEF Kin
  <2>3. f = [W.mon EXCEPT ![m] = s]
    OBVIOUS
  <2> HIDE DEF s, f
  <2>4. \A n \in MonId : f[n] = IF n = m THEN s ELSE W.mon[n]
    BY <2>1, <2>3
  <2>5. f \in [MonId -> Monst]
    BY <2>1, <2>2, <2>3
  <2> QED BY <2>2, <2>4, <2>5 DEF Kin
<1> HIDE DEF f, g
<1>4. U \in Worlds /\ U.grid = W.grid /\ U.mon = f /\ U.you = W.you /\ Elsewhere(W, U)
  BY <1>3, WithMon
<1> HIDE DEF U
<1>5. Z \in Worlds /\ Z.grid = g /\ Z.mon = U.mon /\ Z.you = U.you /\ Elsewhere(U, Z)
  BY <1>2, <1>4, WithGrid
<1> HIDE DEF Z
<1>6. Moved(W, V, {m})
  BY <1>1, <1>3, <1>4, <1>5 DEF Moved, Elsewhere
<1> QED BY <1>1, <1>2, <1>3, <1>4, <1>5, <1>6 DEF Put

LEMMA MovedTwice ==
    ASSUME NEW W, NEW U, NEW V, NEW S, NEW T, NEW R, S \subseteq R, T \subseteq R,
           Moved(W, U, S), Moved(U, V, T)
    PROVE  Moved(W, V, R)
BY DEF Moved, Elsewhere, Kin

LEMMA MovedOn ==
    ASSUME NEW W, NEW V, NEW S, NEW R, S \subseteq R, Moved(W, V, S)
    PROVE  Moved(W, V, R)
BY DEF Moved

\* Where monsters stand is not in the books.
LEMMA MovedBooks ==
    ASSUME NEW W, NEW V, NEW H, NEW E, NEW B, NEW S, Books(W, H, E, B),
           Moved(W, V, S), S \subseteq Local(W) \cup H
    PROVE  /\ Books(V, H, E, B) /\ Local(V) = Local(W) /\ Moving(V) = Moving(W)
           /\ Living(V) = Living(W) /\ Dead(V) = Dead(W)
<1>1. /\ V \in Worlds /\ V.fmon = W.fmon /\ V.migrating_mons = W.migrating_mons
      /\ V.light = W.light /\ V.purge = W.purge
      /\ \A m \in MonId : Kin(W.mon[m], V.mon[m]) /\ (m \notin S => V.mon[m] = W.mon[m])
  BY DEF Moved, Elsewhere
<1>2. W \in Worlds /\ Local(W) \in SUBSET MonId
  BY Parts DEF Books
<1>3. Local(V) = Local(W) /\ Moving(V) = Moving(W)
  BY <1>1 DEF Local, Moving
<1>4. Living(V) = Living(W) /\ Dead(V) = Dead(W)
  BY <1>1, <1>2, <1>3 DEF Living, Dead, Kin
<1>5. Apart(V, H, E)
  BY <1>1, <1>3 DEF Books, Apart
<1>6. ASSUME NEW m \in MonId PROVE Accounted(V, H, E, B, m)
  <2>1. Accounted(W, H, E, B, m) /\ Kin(W.mon[m], V.mon[m])
    BY <1>1 DEF Books
  <2>2. m \notin Local(W) \cup H => V.mon[m] = W.mon[m]
    BY <1>1
  <2>3. Moving(W) \cap (Local(W) \cup H) = {} /\ E \cap (Local(W) \cup H) = {}
    BY DEF Books, Apart
  <2> QED BY <1>1, <1>3, <2>1, <2>2, <2>3 DEF Accounted, Kin, Glow01
<1> QED BY <1>1, <1>3, <1>4, <1>5, <1>6 DEF Books

(***************************************************************************)
(* There is room for another monster.                                      *)
(***************************************************************************)
LEMMA Few ==
    ASSUME NEW S \in SUBSET MonId
    PROVE  IsFiniteSet(S) /\ Cardinality(S) \in Nat
BY PlaceAssumption, FS_Subset, FS_CardinalityType

LEMMA FewIn ==
    ASSUME NEW S \in SUBSET MonId, NEW T \in SUBSET S
    PROVE  Cardinality(T) <= Cardinality(S) /\ (T # S => Cardinality(T) < Cardinality(S))
<1>1. IsFiniteSet(S) /\ Cardinality(S) \in Nat
  BY Few
<1>2. Cardinality(T) \in Nat
  BY Few
<1>3. Cardinality(T) <= Cardinality(S) /\ (Cardinality(S) = Cardinality(T) => S = T)
  BY <1>1, FS_Subset
<1> QED BY <1>1, <1>2, <1>3

\* Each square but the hero's that is not free has a monster of its own.
LEMMA RoomLeft ==
    ASSUME NEW W \in Worlds, NEW P, Mapped(W, P), Cardinality(P) <= MaxMonsters,
           \/ Cardinality(P) < MaxMonsters
           \/ W.grid[W.you.at] # NoMon
    PROVE  Enexto(W) # {}
<1> SUFFICES ASSUME Enexto(W) = {} PROVE FALSE
  OBVIOUS
<1> DEFINE Taken == {x \in Square : W.grid[x] # NoMon}
           at    == W.you.at
           f     == [x \in Taken |-> W.grid[x]]
<1>1. at \in Square
  BY DEF Worlds, You
<1>2. IsFiniteSet(Square) /\ Cardinality(Square) \in Nat /\ MaxMonsters \in Nat
      /\ Cardinality(Square) > MaxMonsters
  BY PlaceAssumption, FS_CardinalityType
<1>3. IsFiniteSet(P) /\ Cardinality(P) \in Nat
  BY Few DEF Mapped
<1>4. IsFiniteSet(Taken) /\ Cardinality(Taken) \in Nat
  BY <1>2, FS_Subset, FS_CardinalityType
<1>5. Square = Taken \cup {at}
  BY <1>1 DEF Enexto
<1>6. f \in Injection(Taken, P)
  <2>1. \A x \in Taken : W.grid[x] \in P /\ W.mon[W.grid[x]].mx = x
    BY DEF Mapped
  <2>2. f \in [Taken -> P]
    BY <2>1
  <2>3. \A x, y \in Taken : f[x] = f[y] => x = y
    BY <2>1
  <2> HIDE DEF f
  <2> QED BY <2>2, <2>3 DEF Injection, IsInjective
<1>7. Cardinality(Taken) <= Cardinality(P)
  <2> HIDE DEF f, Taken
  <2> QED BY <1>3, <1>6, FS_Injection
<1>8. Cardinality(Taken \cup {at}) = IF at \in Taken THEN Cardinality(Taken)
                                     ELSE Cardinality(Taken) + 1
  <2> HIDE DEF Taken, at
  <2> QED BY <1>4, FS_AddElement
<1>9. W.grid[W.you.at] # NoMon => at \in Taken
  BY <1>1
<1> HIDE DEF Taken, at, f
<1> QED BY <1>2, <1>3, <1>4, <1>5, <1>7, <1>8, <1>9

\* enexto's answer is a free square.
LEMMA SpotFree ==
    ASSUME NEW W, Enexto(W) # {}
    PROVE  Spot(W) \in Square /\ W.grid[Spot(W)] = NoMon /\ Spot(W) # W.you.at
BY DEF Spot, Enexto

(***************************************************************************)
(* The map: one goes, one comes, one moves.                                *)
(***************************************************************************)
\* V is W with m taken off the map.
TakenOff(W, V, P, m) ==
    /\ Mapped(V, P \ {m}) /\ V.mon = W.mon /\ V.you = W.you /\ Moved(W, V, {})
    /\ \A y \in Square : V.grid[y] = IF W.grid[y] = m THEN NoMon ELSE W.grid[y]

LEMMA MapRemoved ==
    ASSUME NEW W \in Worlds, NEW P, Mapped(W, P), NEW m \in MonId,
           m \in P \/ W.mon[m].mx = Nowhere, NEW V, V = RemoveMonster(W, W.mon[m].mx)
    PROVE  TakenOff(W, V, P, m)
<1> DEFINE x == W.mon[m].mx
<1>1. x \in Square \cup {Nowhere} /\ Nowhere \notin Square /\ NoMon \notin MonId
  BY PlaceAssumption DEF Worlds, Monst
<1>2. /\ Moved(W, V, {}) /\ V.mon = W.mon /\ V.you = W.you
      /\ \A y \in Square : V.grid[y] = IF y = x THEN NoMon ELSE W.grid[y]
  BY <1>1, Removed
<1>3. \A y \in Square : W.grid[y] = m <=> y = x /\ m \in P
  BY <1>1 DEF Mapped
<1>4. \A y \in Square : V.grid[y] = IF W.grid[y] = m THEN NoMon ELSE W.grid[y]
  BY <1>1, <1>2, <1>3
<1>5. Mapped(V, P \ {m})
  BY <1>1, <1>2, <1>4 DEF Mapped
<1> QED BY <1>2, <1>4, <1>5 DEF TakenOff

\* V is W with m, who was not on the map, on square x.
PutOn(W, V, P, m, x) == Put(W, V, m, x) /\ Mapped(V, P \cup {m})

LEMMA MapPlaced ==
    ASSUME NEW W \in Worlds, NEW P, Mapped(W, P), NEW m \in MonId, m \notin P, NEW x \in Square,
           W.grid[x] = NoMon, m # W.you.usteed, W.mon[m].alive,
           NEW V, V = PlaceMonster(W, m, x)
    PROVE  PutOn(W, V, P, m, x)
<1>1. /\ Moved(W, V, {m}) /\ V.you = W.you /\ V.mon[m].mx = x
      /\ \A y \in Square : V.grid[y] = IF y = x THEN m ELSE W.grid[y]
  <2>1. Put(W, V, m, x)
    BY Placed
  <2> QED BY <2>1 DEF Put
<1>2. \A n \in MonId : n # m => V.mon[n] = W.mon[n]
  BY <1>1 DEF Moved
<1>3. Mapped(V, P \cup {m})
  <2>1. \A n \in P : n # m /\ n \in MonId
    BY DEF Mapped
  <2>2. ASSUME NEW y \in Square, V.grid[y] # NoMon
        PROVE  V.grid[y] \in P \cup {m} /\ V.mon[V.grid[y]].mx = y
    BY <1>1, <1>2, <2>1, <2>2 DEF Mapped
  <2>3. ASSUME NEW n \in P \cup {m} PROVE V.mon[n].mx \in Square /\ V.grid[V.mon[n].mx] = n
    <3>1. CASE n = m
      BY <1>1, <3>1
    <3>2. CASE n # m
      <4>1. n \in P /\ W.mon[n].mx \in Square /\ W.grid[W.mon[n].mx] = n /\ n # NoMon
        BY <2>3, <3>2, PlaceAssumption DEF Mapped
      <4> QED BY <1>1, <1>2, <2>1, <4>1
    <3> QED BY <3>1, <3>2
  <2> QED BY <2>2, <2>3 DEF Mapped
<1> QED BY <1>1, <1>3 DEF Put, PutOn

\* remove_monster and then place_monster.
MovedTo(W, V, P, m, x) ==
    /\ Mapped(V, P \cup {m}) /\ V.you = W.you /\ Moved(W, V, {m})
    /\ V.mon[m].mx = x /\ x # W.mon[m].mx
    /\ \A y \in Square : V.grid[y] = IF y = x THEN m
                                     ELSE IF W.grid[y] = m THEN NoMon ELSE W.grid[y]

LEMMA MapMoved ==
    ASSUME NEW W \in Worlds, NEW P, Mapped(W, P), NEW m \in MonId,
           m \in P \/ W.mon[m].mx = Nowhere, NEW x \in Square,
           W.grid[x] = NoMon, m # W.you.usteed, W.mon[m].alive,
           NEW V, V = PlaceMonster(RemoveMonster(W, W.mon[m].mx), m, x)
    PROVE  MovedTo(W, V, P, m, x)
<1> DEFINE U == RemoveMonster(W, W.mon[m].mx)
<1>1. V = PlaceMonster(U, m, x)
  OBVIOUS
<1>2. /\ Mapped(U, P \ {m}) /\ U.mon = W.mon /\ U.you = W.you /\ Moved(W, U, {})
      /\ \A y \in Square : U.grid[y] = IF W.grid[y] = m THEN NoMon ELSE W.grid[y]
  <2>1. TakenOff(W, U, P, m)
    BY MapRemoved
  <2> HIDE DEF U
  <2> QED BY <2>1 DEF TakenOff
<1> HIDE DEF U
<1>3. /\ U.grid[x] = NoMon /\ U \in Worlds /\ m \notin P \ {m}
      /\ m # U.you.usteed /\ U.mon[m].alive
  <2>1. U.grid[x] = IF W.grid[x] = m THEN NoMon ELSE W.grid[x]
    BY <1>2
  <2> QED BY <1>2, <2>1 DEF Moved
<1>4. /\ Mapped(V, (P \ {m}) \cup {m}) /\ V.you = U.you /\ Moved(U, V, {m})
      /\ V.mon[m].mx = x
      /\ \A y \in Square : V.grid[y] = IF y = x THEN m ELSE U.grid[y]
  <2>1. PutOn(U, V, P \ {m}, m, x)
    BY <1>1, <1>2, <1>3, MapPlaced
  <2> QED BY <2>1 DEF Put, PutOn
<1>5. Moved(W, V, {m})
  BY <1>2, <1>4, MovedTwice
<1>6. x # W.mon[m].mx
  BY PlaceAssumption DEF Mapped
<1>7. Mapped(V, P \cup {m})
  <2>1. (P \ {m}) \cup {m} = P \cup {m}
    OBVIOUS
  <2> QED BY <1>4, <2>1
<1> QED BY <1>2, <1>4, <1>5, <1>6, <1>7 DEF MovedTo

(***************************************************************************)
(* The hero.                                                               *)
(***************************************************************************)
\* The map and the hero's pointers agree, but perhaps for the hero's square.
Stands(W, H, P) == Mapped(W, P) /\ Rides(W, H) /\ Held(W, P)

\* What no move of the hero changes.
SameTurn(W, V) == V.you.utolev = W.you.utolev /\ V.you.movement = W.you.movement

LEMMA YouParts ==
    ASSUME NEW y \in You
    PROVE  /\ y.at \in Square /\ y.ustuck \in MonId \cup {NoMon} /\ y.uswallow \in BOOLEAN
           /\ y.usteed \in MonId \cup {NoMon} /\ y.utolev \in ToLevel /\ y.movement \in Nat
BY DEF You

LEMMA YouAt ==
    ASSUME NEW y \in You, NEW x \in Square, NEW z, z = [y EXCEPT !.at = x]
    PROVE  /\ z \in You /\ z.at = x /\ z.ustuck = y.ustuck /\ z.uswallow = y.uswallow
           /\ z.usteed = y.usteed /\ z.utolev = y.utolev /\ z.movement = y.movement
BY DEF You

LEMMA YouStuck ==
    ASSUME NEW y \in You, NEW n \in MonId \cup {NoMon}, NEW z, z = [y EXCEPT !.ustuck = n]
    PROVE  /\ z \in You /\ z.at = y.at /\ z.ustuck = n /\ z.uswallow = y.uswallow
           /\ z.usteed = y.usteed /\ z.utolev = y.utolev /\ z.movement = y.movement
BY DEF You

LEMMA YouSwallow ==
    ASSUME NEW y \in You, NEW b \in BOOLEAN, NEW z, z = [y EXCEPT !.uswallow = b]
    PROVE  /\ z \in You /\ z.at = y.at /\ z.ustuck = y.ustuck /\ z.uswallow = b
           /\ z.usteed = y.usteed /\ z.utolev = y.utolev /\ z.movement = y.movement
BY DEF You

LEMMA YouSteed ==
    ASSUME NEW y \in You, NEW n \in MonId \cup {NoMon}, NEW z, z = [y EXCEPT !.usteed = n]
    PROVE  /\ z \in You /\ z.at = y.at /\ z.ustuck = y.ustuck /\ z.uswallow = y.uswallow
           /\ z.usteed = n /\ z.utolev = y.utolev /\ z.movement = y.movement
BY DEF You

LEMMA YouTurn ==
    ASSUME NEW y \in You, NEW k \in Nat, NEW z, z = [y EXCEPT !.movement = k]
    PROVE  /\ z \in You /\ z.at = y.at /\ z.ustuck = y.ustuck /\ z.uswallow = y.uswallow
           /\ z.usteed = y.usteed /\ z.utolev = y.utolev /\ z.movement = k
BY DEF You

LEMMA YouLevel ==
    ASSUME NEW y \in You, NEW l \in ToLevel, NEW z, z = [y EXCEPT !.utolev = l]
    PROVE  /\ z \in You /\ z.at = y.at /\ z.ustuck = y.ustuck /\ z.uswallow = y.uswallow
           /\ z.usteed = y.usteed /\ z.utolev = l /\ z.movement = y.movement
BY DEF You

\* Only the hero is different.
IsHeroChanged(W, V, y) ==
    /\ V \in Worlds /\ V.grid = W.grid /\ V.mon = W.mon /\ V.you = y
    /\ Elsewhere(W, V) /\ Moved(W, V, {})
LEMMA HeroChanged ==
    ASSUME NEW W \in Worlds, NEW y \in You, NEW V, V = [W EXCEPT !.you = y]
    PROVE  IsHeroChanged(W, V, y)
BY WithYou DEF Moved, Kin, IsHeroChanged

(***************************************************************************)
(* rloc_to: an engulfer takes the hero along, who holds the hero lets go.  *)
(***************************************************************************)
Carries(W, m) == W.you.ustuck = m /\ W.you.uswallow

Relocated(W, V, H, P, m, x) ==
    /\ Stands(V, H, P \cup {m}) /\ Moved(W, V, {m}) /\ SameTurn(W, V)
    /\ V.you.usteed = W.you.usteed /\ V.you.uswallow = W.you.uswallow
    /\ V.you.at = IF Carries(W, m) THEN x ELSE W.you.at
    /\ V.you.ustuck = IF W.you.ustuck = m /\ ~Carries(W, m) THEN NoMon ELSE W.you.ustuck
    /\ V.mon[m].mx = x
    /\ \A y \in Square : V.grid[y] = IF y = x THEN m
                                     ELSE IF W.grid[y] = m THEN NoMon ELSE W.grid[y]

LEMMA RlocMoves ==
    ASSUME NEW W \in Worlds, NEW H, NEW P, Stands(W, H, P), NEW m \in MonId,
           m # W.you.usteed, W.mon[m].alive, m \in P \/ W.mon[m].mx = Nowhere,
           NEW x \in Square, W.grid[x] = NoMon, NEW V, V = RlocTo(W, m, x)
    PROVE  Relocated(W, V, H, P, m, x)
<1> DEFINE U == PlaceMonster(RemoveMonster(W, W.mon[m].mx), m, x)
<1>1. MovedTo(W, U, P, m, x)
  BY MapMoved DEF Stands
<1>2. x # W.mon[m].mx
  BY <1>1 DEF MovedTo
<1>3. V = IF W.you.ustuck # m THEN U
          ELSE IF W.you.uswallow THEN [U EXCEPT !.you = [U.you EXCEPT !.at = x]]
          ELSE [U EXCEPT !.you = [U.you EXCEPT !.ustuck = NoMon]]
  BY <1>2 DEF RlocTo
<1> HIDE DEF U
<1>4. /\ Mapped(U, P \cup {m}) /\ U.you = W.you /\ Moved(W, U, {m}) /\ U.mon[m].mx = x
      /\ \A y \in Square : U.grid[y] = IF y = x THEN m
                                       ELSE IF W.grid[y] = m THEN NoMon ELSE W.grid[y]
  BY <1>1 DEF MovedTo
<1>5. U \in Worlds /\ U.you \in You /\ W.you \in You
  BY <1>4 DEF Moved, Worlds
<1> DEFINE y == [U.you EXCEPT !.at = x]
           z == [U.you EXCEPT !.ustuck = NoMon]
<1>6. /\ y \in You /\ y.at = x /\ y.ustuck = U.you.ustuck /\ y.uswallow = U.you.uswallow
      /\ y.usteed = U.you.usteed /\ y.utolev = U.you.utolev /\ y.movement = U.you.movement
  BY <1>5, YouAt
<1>7. /\ z \in You /\ z.at = U.you.at /\ z.ustuck = NoMon /\ z.uswallow = U.you.uswallow
      /\ z.usteed = U.you.usteed /\ z.utolev = U.you.utolev /\ z.movement = U.you.movement
  BY <1>5, YouStuck
<1> HIDE DEF y, z
<1> DEFINE w == IF W.you.ustuck # m THEN W.you ELSE IF W.you.uswallow THEN y ELSE z
<1>8. /\ V.you = w /\ V.mon = U.mon /\ V.grid = U.grid /\ Moved(U, V, {}) /\ V \in Worlds
  <2>1. CASE W.you.ustuck # m
    BY <1>3, <1>4, <1>5, <2>1 DEF Moved, Elsewhere, Kin
  <2>2. CASE W.you.ustuck = m /\ W.you.uswallow
    <3>1. V = [U EXCEPT !.you = y]
      BY <1>3, <2>2 DEF y
    <3>2. IsHeroChanged(U, V, y)
      BY <1>5, <1>6, <3>1, HeroChanged
    <3> QED BY <2>2, <3>2 DEF IsHeroChanged
  <2>3. CASE W.you.ustuck = m /\ ~W.you.uswallow
    <3>1. V = [U EXCEPT !.you = z]
      BY <1>3, <2>3 DEF z
    <3>2. IsHeroChanged(U, V, z)
      BY <1>5, <1>7, <3>1, HeroChanged
    <3> QED BY <2>3, <3>2 DEF IsHeroChanged
  <2> QED BY <2>1, <2>2, <2>3
<1>9. Moved(W, V, {m})
  BY <1>4, <1>8, MovedTwice
<1>10. /\ SameTurn(W, V)
       /\ V.you.usteed = W.you.usteed /\ V.you.uswallow = W.you.uswallow
       /\ V.you.at = IF Carries(W, m) THEN x ELSE W.you.at
       /\ V.you.ustuck = IF W.you.ustuck = m /\ ~Carries(W, m) THEN NoMon ELSE W.you.ustuck
  BY <1>4, <1>6, <1>7, <1>8 DEF SameTurn, Carries
<1>11. Mapped(V, P \cup {m})
  BY <1>4, <1>8 DEF Mapped
<1>12. Rides(V, H)
  <2>1. Local(V) = Local(W)
    BY <1>9 DEF Moved, Elsewhere, Local
  <2>2. W.you.usteed # NoMon => W.you.usteed \in MonId /\ ~W.you.uswallow
    BY <1>5, YouParts DEF Stands, Held
  <2>3. W.you.usteed # NoMon => V.mon[W.you.usteed] = W.mon[W.you.usteed]
    BY <1>9, <2>2 DEF Moved
  <2> QED BY <1>10, <2>1, <2>2, <2>3 DEF Rides, Stands, Carries
<1>13. Held(V, P \cup {m})
  <2>1. \A n \in MonId : V.mon[n].mleashed = W.mon[n].mleashed
    BY <1>9 DEF Moved, Kin
  <2> QED BY <1>10, <2>1 DEF Held, Stands, Carries
<1> QED BY <1>4, <1>8, <1>9, <1>10, <1>11, <1>12, <1>13 DEF Relocated, Stands

\* Away from the hero's square, that is.
LEMMA RlocClears ==
    ASSUME NEW W \in Worlds, NEW H, NEW P, Stands(W, H, P), NEW m \in MonId,
           m # W.you.usteed, W.mon[m].alive, m \in P \/ W.mon[m].mx = Nowhere,
           NEW x \in Square, W.grid[x] = NoMon, x # W.you.at,
           Clear(W) \/ (W.grid[W.you.at] = m /\ ~W.you.uswallow),
           NEW V, V = RlocTo(W, m, x)
    PROVE  Relocated(W, V, H, P, m, x) /\ Clear(V)
<1>1. Relocated(W, V, H, P, m, x)
  BY RlocMoves
<1>2. W.you.at \in Square /\ W.you.ustuck \in MonId \cup {NoMon} /\ NoMon \notin MonId
  BY Parts, YouParts, PlaceAssumption
<1>3. /\ V.you.uswallow = W.you.uswallow
      /\ V.you.at = IF Carries(W, m) THEN x ELSE W.you.at
      /\ V.you.ustuck = IF W.you.ustuck = m /\ ~Carries(W, m) THEN NoMon ELSE W.you.ustuck
      /\ V.grid[x] = m
      /\ V.grid[W.you.at] = IF W.grid[W.you.at] = m THEN NoMon ELSE W.grid[W.you.at]
  BY <1>1, <1>2 DEF Relocated
<1>4. Clear(V)
  <2>1. CASE Carries(W, m)
    BY <1>3, <2>1 DEF Clear, Carries
  <2>2. CASE ~Carries(W, m) /\ W.you.uswallow
    BY <1>2, <1>3, <2>2 DEF Clear, Carries
  <2>3. CASE ~W.you.uswallow
    BY <1>2, <1>3, <2>3 DEF Clear, Carries
  <2> QED BY <2>1, <2>2, <2>3
<1> QED BY <1>1, <1>4

(***************************************************************************)
(* teleds, u_on_newpos and unstuck.                                        *)
(***************************************************************************)
\* The hero, and the steed with the hero, are on x now.
HeroAt(W, V, x) ==
    /\ V \in Worlds /\ Elsewhere(W, V) /\ V.grid = W.grid
    /\ V.you.at = x /\ V.you.usteed = W.you.usteed /\ SameTurn(W, V)
    /\ Moved(W, V, {W.you.usteed})
    /\ W.you.usteed # NoMon => V.mon[W.you.usteed].mx = x

\* The steed is taken along.
AlongAs(W, V, x, y) == HeroAt(W, V, x) /\ V.you = y
LEMMA SteedAlong ==
    ASSUME NEW W \in Worlds, NEW x \in Square, NEW y \in You, y.at = x,
           y.usteed = W.you.usteed, y.utolev = W.you.utolev, y.movement = W.you.movement,
           NEW U, U = [W EXCEPT !.you = y],
           NEW V, V = IF W.you.usteed = NoMon THEN U
                      ELSE [U EXCEPT !.mon = [U.mon EXCEPT ![W.you.usteed] =
                                [U.mon[W.you.usteed] EXCEPT !.mx = x]]]
    PROVE  AlongAs(W, V, x, y)
<1> DEFINE s == W.you.usteed
<1>1. IsHeroChanged(W, U, y)
  BY HeroChanged
<1>2. U \in Worlds /\ U.grid = W.grid /\ U.mon = W.mon /\ U.you = y /\ Elsewhere(W, U)
      /\ Moved(W, U, {})
  BY <1>1 DEF IsHeroChanged
<1>3. CASE s = NoMon
  <2>1. V = U
    BY <1>3
  <2>2. Moved(W, V, {s})
    BY <1>2, <2>1, MovedOn
  <2> QED BY <1>2, <1>3, <2>1, <2>2 DEF AlongAs, HeroAt, SameTurn
<1>4. CASE s # NoMon
  <2> DEFINE r == U.mon[s]
             t == [r EXCEPT !.mx = x]
             f == [U.mon EXCEPT ![s] = t]
  <2>1. V = [U EXCEPT !.mon = f]
    BY <1>4
  <2>2. s \in MonId /\ U.mon \in [MonId -> Monst] /\ r \in Monst
    BY <1>2, <1>4, Parts, YouParts
  <2>3. t \in Monst /\ t.mx = x /\ Kin(r, t)
    <3> HIDE DEF r
    <3> QED BY <2>2, MonstWith DEF Kin
  <2> HIDE DEF t
  <2>4. f \in [MonId -> Monst] /\ \A n \in MonId : f[n] = IF n = s THEN t ELSE U.mon[n]
    BY <2>2, <2>3
  <2> HIDE DEF f
  <2>5. /\ V \in Worlds /\ V.grid = U.grid /\ V.mon = f /\ V.you = U.you
        /\ Elsewhere(U, V)
    <3>1. IsMonChanged(U, V, f)
      BY <1>2, <2>1, <2>4, MonChanged
    <3> QED BY <3>1 DEF IsMonChanged
  <2>6. \A n \in MonId : Kin(U.mon[n], f[n]) /\ (n \notin {s} => f[n] = U.mon[n])
    BY <2>3, <2>4 DEF Kin
  <2>7. Moved(U, V, {s})
    BY <2>5, <2>6 DEF Moved
  <2>8. Moved(W, V, {s})
    BY <1>2, <2>7, MovedTwice
  <2>9. f[s].mx = x
    BY <2>2, <2>3, <2>4
  <2> QED BY <1>2, <2>5, <2>8, <2>9 DEF AlongAs, HeroAt, SameTurn, Elsewhere
<1> QED BY <1>3, <1>4

LEMMA TeledsMoves ==
    ASSUME NEW W \in Worlds, NEW x \in Square, NEW V, V = Teleds(W, x)
    PROVE  HeroAt(W, V, x) /\ V.you.ustuck = NoMon /\ V.you.uswallow = FALSE
<1> DEFINE y == [W.you EXCEPT !.at = x, !.ustuck = NoMon, !.uswallow = FALSE]
           U == [W EXCEPT !.you = y]
<1>1. /\ y \in You /\ y.at = x /\ y.usteed = W.you.usteed /\ y.utolev = W.you.utolev
      /\ y.movement = W.you.movement /\ y.ustuck = NoMon /\ y.uswallow = FALSE
  BY DEF You, Worlds
<1>2. V = IF W.you.usteed = NoMon THEN U
          ELSE [U EXCEPT !.mon = [U.mon EXCEPT ![W.you.usteed] =
                                [U.mon[W.you.usteed] EXCEPT !.mx = x]]]
  BY DEF Teleds, Worlds, You
<1> HIDE DEF y
<1>3. U = [W EXCEPT !.you = y]
  OBVIOUS
<1> HIDE DEF U
<1>4. AlongAs(W, V, x, y)
  BY <1>1, <1>2, <1>3, SteedAlong
<1> QED BY <1>1, <1>4 DEF AlongAs

LEMMA NewposMoves ==
    ASSUME NEW W \in Worlds, NEW x \in Square, NEW V, V = UOnNewpos(W, x)
    PROVE  HeroAt(W, V, x) /\ V.you.ustuck = W.you.ustuck /\ V.you.uswallow = W.you.uswallow
<1> DEFINE y == [W.you EXCEPT !.at = x]
           U == [W EXCEPT !.you = y]
<1>1. /\ y \in You /\ y.at = x /\ y.usteed = W.you.usteed /\ y.utolev = W.you.utolev
      /\ y.movement = W.you.movement /\ y.ustuck = W.you.ustuck /\ y.uswallow = W.you.uswallow
  <2>1. W.you \in You
    BY Parts
  <2> QED BY <2>1, YouAt
<1>2. V = IF W.you.usteed = NoMon THEN U
          ELSE [U EXCEPT !.mon = [U.mon EXCEPT ![W.you.usteed] =
                                [U.mon[W.you.usteed] EXCEPT !.mx = x]]]
  BY DEF UOnNewpos, Worlds, You
<1> HIDE DEF y
<1>3. U = [W EXCEPT !.you = y]
  OBVIOUS
<1> HIDE DEF U
<1>4. AlongAs(W, V, x, y)
  BY <1>1, <1>2, <1>3, SteedAlong
<1> QED BY <1>1, <1>4 DEF AlongAs

\* The hero's place is that of the engulfer, so it stays.
LetGo(W, V, m) ==
    /\ Moved(W, V, {}) /\ V.grid = W.grid /\ V.mon = W.mon /\ SameTurn(W, V)
    /\ V.you.at = W.you.at /\ V.you.usteed = W.you.usteed
    /\ IF W.you.ustuck = m THEN V.you.ustuck = NoMon /\ V.you.uswallow = FALSE
       ELSE V.you = W.you

LEMMA UnstuckLetsGo ==
    ASSUME NEW W \in Worlds, NEW m \in MonId, Carries(W, m) => W.mon[m].mx = W.you.at,
           NEW V, V = Unstuck(W, m)
    PROVE  LetGo(W, V, m)
<1>1. CASE W.you.ustuck # m
  BY <1>1 DEF Unstuck, LetGo, Moved, Elsewhere, Kin, SameTurn
<1>2. CASE W.you.ustuck = m
  <2> DEFINE a == IF W.you.uswallow THEN W.mon[m].mx ELSE W.you.at
             y == [W.you EXCEPT !.at = a, !.uswallow = FALSE, !.ustuck = NoMon]
  <2>1. a = W.you.at /\ W.you.at \in Square
    BY <1>2, Parts, YouParts DEF Carries
  <2>2. V = [W EXCEPT !.you = y]
    BY <1>2 DEF Unstuck
  <2> HIDE DEF a
  <2>3. /\ y \in You /\ y.at = W.you.at /\ y.usteed = W.you.usteed /\ y.utolev = W.you.utolev
        /\ y.movement = W.you.movement /\ y.ustuck = NoMon /\ y.uswallow = FALSE
    BY <2>1 DEF You, Worlds
  <2> HIDE DEF y
  <2>4. IsHeroChanged(W, V, y)
    BY <2>2, <2>3, HeroChanged
  <2> QED BY <1>2, <2>3, <2>4 DEF IsHeroChanged, LetGo, SameTurn
<1> QED BY <1>1, <1>2

(***************************************************************************)
(* Moves within the level keep everything.                                 *)
(***************************************************************************)
\* V follows W: it is good, and only those of S may have left the level.
Follows(W, V, S, E, B) ==
    /\ Good(V, E, B) /\ SameTurn(W, V) /\ V.mydogs = W.mydogs
    /\ Local(W) \ S \subseteq Local(V)

LEMMA AfootFew ==
    ASSUME NEW W, NEW H, NEW E, NEW B, Books(W, H, E, B)
    PROVE  /\ Afoot(W) \in SUBSET MonId /\ Cardinality(Afoot(W)) <= MaxMonsters
           /\ Living(W) \in SUBSET MonId /\ Afoot(W) \subseteq Living(W)
<1>1. Local(W) \in SUBSET MonId /\ Cardinality(Living(W)) <= MaxMonsters
  BY Parts DEF Books
<1>2. Afoot(W) \in SUBSET Living(W) /\ Living(W) \in SUBSET MonId
  BY <1>1 DEF Afoot, Living
<1>3. Cardinality(Afoot(W)) <= Cardinality(Living(W))
  BY <1>2, FewIn
<1>4. Cardinality(Afoot(W)) \in Nat /\ Cardinality(Living(W)) \in Nat /\ MaxMonsters \in Nat
  BY <1>2, Few, PlaceAssumption
<1> QED BY <1>1, <1>2, <1>3, <1>4

LEMMA GoodParts ==
    ASSUME NEW W, NEW E, NEW B, Good(W, E, B)
    PROVE  /\ W \in Worlds /\ Books(W, {}, E, B) /\ Stands(W, {}, Afoot(W)) /\ Clear(W)
           /\ Cardinality(Afoot(W)) <= MaxMonsters
           /\ \A m \in Afoot(W) : m \in MonId /\ m \in Local(W) /\ W.mon[m].alive
                                  /\ m # W.you.usteed /\ m # NoMon
           /\ W.you.uswallow => W.you.ustuck \in Afoot(W) /\ W.mon[W.you.ustuck].mx = W.you.at
           /\ W.you.at \in Square /\ W.you.usteed \in MonId \cup {NoMon}
           /\ W.you.usteed # NoMon => /\ W.you.usteed \in Local(W)
                                      /\ W.mon[W.you.usteed].alive
                                      /\ W.mon[W.you.usteed].mx = W.you.at
<1>1. W \in Worlds /\ Books(W, {}, E, B) /\ Stands(W, {}, Afoot(W)) /\ Clear(W)
  BY DEF Good, Stands, Books
<1>2. Cardinality(Afoot(W)) <= MaxMonsters /\ Afoot(W) \in SUBSET MonId
  BY <1>1, AfootFew
<1>3. NoMon \notin MonId
  BY PlaceAssumption
<1>4. \A m \in Afoot(W) : m \in MonId /\ m \in Local(W) /\ W.mon[m].alive
                                  /\ m # W.you.usteed /\ m # NoMon
  BY <1>2, <1>3 DEF Afoot
<1>5. W.you.at \in Square /\ W.you.usteed \in MonId \cup {NoMon}
  BY <1>1, Parts, YouParts
<1>6. W.you.uswallow => W.you.ustuck \in Afoot(W) /\ W.mon[W.you.ustuck].mx = W.you.at
  BY <1>1, <1>4, <1>5 DEF Stands, Held, Clear, Mapped
<1>7. W.you.usteed # NoMon => /\ W.you.usteed \in Local(W)
                              /\ W.mon[W.you.usteed].alive
                              /\ W.mon[W.you.usteed].mx = W.you.at
  BY <1>1 DEF Stands, Rides
<1> QED BY <1>1, <1>2, <1>4, <1>5, <1>6, <1>7

LEMMA GoodIds ==
    ASSUME NEW W, NEW E, NEW B, Good(W, E, B)
    PROVE  /\ Local(W) \in SUBSET MonId /\ NoMon \notin MonId /\ W.you \in You
           /\ \A m \in Local(W) : /\ m \in MonId /\ W.mon[m] \in Monst
                                  /\ W.mon[m].mx \in Square \cup {Nowhere}
<1>1. W \in Worlds
  BY GoodParts
<1>2. /\ W.mon \in [MonId -> Monst] /\ Local(W) \in SUBSET MonId /\ W.you \in You
      /\ NoMon \notin MonId
  BY <1>1, Parts, PlaceAssumption
<1>3. \A m \in Local(W) : m \in MonId /\ W.mon[m] \in Monst
  BY <1>2
<1> QED BY <1>2, <1>3, MonstWith

LEMMA MovedGood ==
    ASSUME NEW W, NEW E, NEW B, Books(W, {}, E, B), NEW V, NEW S, Moved(W, V, S),
           S \ {NoMon} \subseteq Local(W), V.you.usteed = W.you.usteed, SameTurn(W, V),
           Stands(V, {}, Afoot(W)), Clear(V)
    PROVE  Follows(W, V, {}, E, B) /\ Local(V) = Local(W)
<1> DEFINE T == S \ {NoMon}
<1>1. Moved(W, V, T)
  BY PlaceAssumption DEF Moved
<1> HIDE DEF T
<1>2. /\ Books(V, {}, E, B) /\ Local(V) = Local(W)
      /\ \A m \in MonId : V.mon[m].alive = W.mon[m].alive
  <2>1. T \subseteq Local(W) \cup {}
    BY DEF T
  <2>2. Books(V, {}, E, B) /\ Local(V) = Local(W)
    BY <1>1, <2>1, MovedBooks
  <2> QED BY <1>1, <2>2 DEF Moved, Kin
<1>3. Afoot(V) = Afoot(W)
  <2>1. Local(W) \in SUBSET MonId
    BY Parts DEF Books
  <2> QED BY <1>2, <2>1 DEF Afoot
<1> QED BY <1>2, <1>3 DEF Follows, Good, Stands, Moved, Elsewhere

LEMMA FollowsOn ==
    ASSUME NEW W, NEW U, NEW V, NEW S, NEW T, NEW R, NEW E, NEW B, S \subseteq R, T \subseteq R,
           Follows(W, U, S, E, B), Follows(U, V, T, E, B)
    PROVE  Follows(W, V, R, E, B)
BY DEF Follows, SameTurn

LEMMA RelocatedGood ==
    ASSUME NEW W, NEW E, NEW B, Good(W, E, B), NEW m \in Afoot(W), NEW x, NEW V,
           Relocated(W, V, {}, Afoot(W), m, x), Clear(V)
    PROVE  Follows(W, V, {}, E, B) /\ Local(V) = Local(W)
<1>1. Afoot(W) \cup {m} = Afoot(W) /\ {m} \ {NoMon} \subseteq Local(W)
  BY DEF Afoot
<1>2. /\ Stands(V, {}, Afoot(W)) /\ Moved(W, V, {m}) /\ SameTurn(W, V)
      /\ V.you.usteed = W.you.usteed
  BY <1>1 DEF Relocated
<1>3. Books(W, {}, E, B)
  BY DEF Good
<1> QED BY <1>1, <1>2, <1>3, MovedGood

\* mnexto and rloc, for a monster that is not ridden.
LEMMA SpotGood ==
    ASSUME NEW W, NEW E, NEW B, Good(W, E, B), NEW m \in Afoot(W), Enexto(W) # {},
           NEW V, V = RlocTo(W, m, Spot(W))
    PROVE  Follows(W, V, {}, E, B) /\ Local(V) = Local(W)
<1> DEFINE x == Spot(W)
<1>1. x \in Square /\ W.grid[x] = NoMon /\ x # W.you.at
  BY SpotFree
<1>2. /\ W \in Worlds /\ Stands(W, {}, Afoot(W)) /\ Clear(W) /\ m \in MonId
      /\ W.mon[m].alive /\ m # W.you.usteed
  BY GoodParts
<1> HIDE DEF x
<1>3. V = RlocTo(W, m, x)
  BY DEF x
<1>4. Relocated(W, V, {}, Afoot(W), m, x) /\ Clear(V)
  BY <1>1, <1>2, <1>3, RlocClears
<1> QED BY <1>4, RelocatedGood

\* The hero arrives on a free square.
LEMMA HeroStands ==
    ASSUME NEW W \in Worlds, NEW H, NEW P, Mapped(W, P), NEW x \in Square, W.grid[x] = NoMon,
           W.you.usteed \notin P,
           W.you.usteed # NoMon => /\ W.you.usteed \in Local(W) \cup H
                                   /\ W.mon[W.you.usteed].alive,
           NEW V, HeroAt(W, V, x), V.you.ustuck = NoMon, V.you.uswallow = FALSE
    PROVE  Stands(V, H, P) /\ Clear(V)
<1>1. /\ V.grid = W.grid /\ V.you.at = x /\ V.you.usteed = W.you.usteed
      /\ Moved(W, V, {W.you.usteed}) /\ Local(V) = Local(W)
      /\ W.you.usteed # NoMon => V.mon[W.you.usteed].mx = x
  BY DEF HeroAt, Elsewhere, Local
<1>2. P \subseteq MonId /\ \A m \in P : m \in MonId /\ V.mon[m] = W.mon[m]
  BY <1>1 DEF Mapped, Moved
<1>3. Mapped(V, P)
  BY <1>1, <1>2 DEF Mapped
<1>4. W.you.usteed \in MonId \cup {NoMon}
  BY Parts, YouParts
<1>5. W.you.usteed # NoMon => V.mon[W.you.usteed].alive
  BY <1>1, <1>4 DEF Moved, Kin
<1>6. Rides(V, H)
  BY <1>1, <1>5 DEF Rides
<1> QED BY <1>1, <1>3, <1>6 DEF Stands, Held, Clear

LEMMA TeledsGood ==
    ASSUME NEW W, NEW E, NEW B, Good(W, E, B), NEW x \in Square, W.grid[x] = NoMon,
           NEW V, V = Teleds(W, x)
    PROVE  Follows(W, V, {}, E, B) /\ Local(V) = Local(W)
<1>1. /\ W \in Worlds /\ Books(W, {}, E, B) /\ Stands(W, {}, Afoot(W))
      /\ \A m \in Afoot(W) : m # W.you.usteed
      /\ W.you.usteed # NoMon => W.you.usteed \in Local(W) /\ W.mon[W.you.usteed].alive
  BY GoodParts
<1>2. HeroAt(W, V, x) /\ V.you.ustuck = NoMon /\ V.you.uswallow = FALSE
  BY <1>1, TeledsMoves
<1>3. Mapped(W, Afoot(W)) /\ W.you.usteed \notin Afoot(W)
  BY <1>1 DEF Stands
<1>4. W.you.usteed # NoMon => /\ W.you.usteed \in Local(W) \cup {}
                              /\ W.mon[W.you.usteed].alive
  BY <1>1
<1>5. Stands(V, {}, Afoot(W)) /\ Clear(V)
  BY <1>1, <1>2, <1>3, <1>4, HeroStands
<1>6. /\ Moved(W, V, {W.you.usteed}) /\ {W.you.usteed} \ {NoMon} \subseteq Local(W)
      /\ V.you.usteed = W.you.usteed /\ SameTurn(W, V)
  BY <1>1, <1>2 DEF HeroAt
<1> QED BY <1>1, <1>5, <1>6, MovedGood

LEMMA RlocGood ==
    ASSUME NEW W, NEW E, NEW B, Good(W, E, B), NEW m \in Local(W), W.mon[m].alive,
           NEW V, V = Rloc(W, m)
    PROVE  Follows(W, V, {}, E, B) /\ Local(V) = Local(W)
<1>1. CASE Enexto(W) = {}
  <2>1. V = W
    BY <1>1 DEF Rloc
  <2> QED BY <2>1 DEF Follows, SameTurn
<1>2. CASE Enexto(W) # {} /\ m = W.you.usteed
  <2>1. V = Teleds(W, Spot(W)) /\ Spot(W) \in Square /\ W.grid[Spot(W)] = NoMon
    BY <1>2, SpotFree DEF Rloc
  <2> QED BY <2>1, TeledsGood
<1>3. CASE Enexto(W) # {} /\ m # W.you.usteed
  <2>1. V = RlocTo(W, m, Spot(W)) /\ m \in Afoot(W)
    BY <1>3 DEF Rloc, Afoot
  <2> QED BY <1>3, <2>1, SpotGood
<1> QED BY <1>1, <1>2, <1>3

LEMMA UnstuckGood ==
    ASSUME NEW W, NEW E, NEW B, Good(W, E, B), NEW m \in MonId, ~W.you.uswallow,
           NEW V, V = Unstuck(W, m)
    PROVE  Follows(W, V, {}, E, B) /\ Local(V) = Local(W) /\ Moving(V) = Moving(W)
<1>1. W \in Worlds /\ Books(W, {}, E, B) /\ Stands(W, {}, Afoot(W)) /\ Clear(W)
  BY GoodParts
<1>2. LetGo(W, V, m)
  BY <1>1, UnstuckLetsGo DEF Carries
<1>3. /\ Moved(W, V, {}) /\ V.grid = W.grid /\ V.mon = W.mon /\ SameTurn(W, V)
      /\ V.you.at = W.you.at /\ V.you.usteed = W.you.usteed /\ V.you.uswallow = FALSE
      /\ V.you.ustuck \in {NoMon, W.you.ustuck} /\ Local(V) = Local(W)
  BY <1>1, <1>2, Parts, YouParts DEF LetGo, Moved, Elsewhere, Local
<1>4. Stands(V, {}, Afoot(W)) /\ Clear(V)
  BY <1>1, <1>3 DEF Stands, Mapped, Rides, Held, Clear
<1>5. Moving(V) = Moving(W)
  BY <1>3 DEF Moved, Elsewhere, Moving
<1> QED BY <1>1, <1>3, <1>4, <1>5, MovedGood

\* The engulfer lets the hero out and moves away.
LEMMA ExpelsGood ==
    ASSUME NEW W, NEW E, NEW B, Good(W, E, B), NEW m \in MonId, Carries(W, m),
           NEW V, V = Expels(W, m)
    PROVE  Follows(W, V, {}, E, B) /\ Local(V) = Local(W) /\ Moving(V) = Moving(W)
<1> DEFINE U == Unstuck(W, m)
           P == Afoot(W)
           x == Spot(U)
<1>1. /\ W \in Worlds /\ Books(W, {}, E, B) /\ Stands(W, {}, P) /\ Clear(W)
      /\ Cardinality(P) <= MaxMonsters /\ m \in P /\ m # NoMon
      /\ m \in Local(W) /\ W.mon[m].alive /\ m # W.you.usteed
      /\ W.mon[m].mx = W.you.at
  BY GoodParts DEF Carries
<1>2. LetGo(W, U, m)
  BY <1>1, UnstuckLetsGo
<1>3. /\ Moved(W, U, {}) /\ U.grid = W.grid /\ U.mon = W.mon /\ SameTurn(W, U)
      /\ U.you.at = W.you.at /\ U.you.usteed = W.you.usteed /\ U.you.uswallow = FALSE
      /\ U.you.ustuck = NoMon /\ Local(U) = Local(W) /\ U \in Worlds
  BY <1>2 DEF LetGo, Moved, Elsewhere, Local, Carries
<1>4. V = Mnexto(U, m)
  BY DEF Expels
<1> HIDE DEF U
<1>5. Stands(U, {}, P)
  BY <1>1, <1>3 DEF Stands, Mapped, Rides, Held
<1>6. U.grid[U.you.at] = m
  BY <1>1, <1>3 DEF Clear, Carries
<1>7. Enexto(U) # {}
  BY <1>1, <1>3, <1>5, <1>6, RoomLeft DEF Stands
<1>8. V = RlocTo(U, m, x) /\ x \in Square /\ U.grid[x] = NoMon /\ x # U.you.at
  BY <1>1, <1>3, <1>4, <1>7, SpotFree DEF Mnexto
<1> HIDE DEF x
<1>9. Relocated(U, V, {}, P, m, x) /\ Clear(V)
  BY <1>1, <1>3, <1>5, <1>6, <1>8, RlocClears
<1>10. P \cup {m} = P
  BY <1>1
<1>11. /\ Stands(V, {}, P) /\ Moved(U, V, {m}) /\ SameTurn(U, V)
       /\ V.you.usteed = U.you.usteed
  BY <1>9, <1>10 DEF Relocated
<1>12. Moved(W, V, {m}) /\ SameTurn(W, V) /\ V.you.usteed = W.you.usteed
  BY <1>3, <1>11, MovedTwice DEF SameTurn
<1>13. {m} \ {NoMon} \subseteq Local(W)
  BY <1>1
<1>14. Moving(V) = Moving(W)
  BY <1>12 DEF Moved, Elsewhere, Moving
<1> QED BY <1>1, <1>9, <1>11, <1>12, <1>13, <1>14, MovedGood

\* m_move.
LEMMA MMoveGood ==
    ASSUME NEW W, NEW E, NEW B, Good(W, E, B), NEW m \in Afoot(W), NEW x \in Square,
           W.grid[x] = NoMon, x # W.you.at, NEW V, V = MMove(W, m, x)
    PROVE  Follows(W, V, {}, E, B) /\ Local(V) = Local(W)
<1> DEFINE U == PlaceMonster(RemoveMonster(W, W.mon[m].mx), m, x)
           P == Afoot(W)
           y == [U.you EXCEPT !.at = x]
<1>1. /\ W \in Worlds /\ Books(W, {}, E, B) /\ Stands(W, {}, P) /\ Clear(W)
      /\ m \in MonId /\ m # NoMon /\ m \in Local(W) /\ W.mon[m].alive /\ m # W.you.usteed
  BY GoodParts
<1>2. MovedTo(W, U, P, m, x)
  BY <1>1, MapMoved DEF Stands
<1>3. V = IF Carries(W, m) THEN [U EXCEPT !.you = y] ELSE U
  BY DEF MMove, Carries
<1> HIDE DEF U
<1>4. /\ Mapped(U, P) /\ U.you = W.you /\ Moved(W, U, {m}) /\ U \in Worlds /\ U.you \in You
      /\ U.mon[m].mx = x
      /\ \A z \in Square : U.grid[z] = IF z = x THEN m
                                       ELSE IF W.grid[z] = m THEN NoMon ELSE W.grid[z]
  <2>1. P \cup {m} = P
    OBVIOUS
  <2> HIDE DEF P
  <2> QED BY <1>2, <2>1, Parts DEF MovedTo, Moved
<1>5. /\ y \in You /\ y.at = x /\ y.ustuck = U.you.ustuck /\ y.uswallow = U.you.uswallow
      /\ y.usteed = U.you.usteed /\ y.utolev = U.you.utolev /\ y.movement = U.you.movement
  BY <1>4, YouAt
<1> HIDE DEF y, P
<1>6. /\ Moved(U, V, {}) /\ V.mon = U.mon /\ V.grid = U.grid
      /\ V.you = IF Carries(W, m) THEN y ELSE W.you
  <2>1. CASE Carries(W, m)
    <3>1. V = [U EXCEPT !.you = y]
      BY <1>3, <2>1
    <3>2. IsHeroChanged(U, V, y)
      BY <1>4, <1>5, <3>1, HeroChanged
    <3> QED BY <2>1, <3>2 DEF IsHeroChanged
  <2>2. CASE ~Carries(W, m)
    BY <1>3, <1>4, <2>2 DEF Moved, Elsewhere, Kin
  <2> QED BY <2>1, <2>2
<1>7. Moved(W, V, {m})
  BY <1>4, <1>6, MovedTwice
<1>8. /\ V.you.ustuck = W.you.ustuck /\ V.you.uswallow = W.you.uswallow
      /\ V.you.usteed = W.you.usteed /\ SameTurn(W, V)
      /\ V.you.at = IF Carries(W, m) THEN x ELSE W.you.at
  BY <1>4, <1>5, <1>6 DEF SameTurn
<1>9. W.you.at \in Square /\ W.you.ustuck \in MonId \cup {NoMon}
      /\ (W.you.usteed = NoMon \/ W.you.usteed \in MonId) /\ NoMon \notin MonId
  BY <1>1, Parts, YouParts, PlaceAssumption
<1>10. Rides(V, {})
  <2>1. Local(V) = Local(W)
    BY <1>7 DEF Moved, Elsewhere, Local
  <2>2. W.you.usteed # NoMon => V.mon[W.you.usteed] = W.mon[W.you.usteed] /\ ~W.you.uswallow
    BY <1>1, <1>7, <1>9 DEF Moved, Stands, Held
  <2> QED BY <1>1, <1>8, <2>1, <2>2 DEF Rides, Stands, Carries
<1>11. Held(V, P)
  <2>1. \A n \in MonId : V.mon[n].mleashed = W.mon[n].mleashed
    BY <1>7 DEF Moved, Kin
  <2> QED BY <1>1, <1>8, <2>1 DEF Held, Stands
<1>12. Clear(V)
  <2>1. CASE Carries(W, m)
    <3>1. V.you.at = x /\ V.you.uswallow = TRUE /\ V.you.ustuck = m
      BY <1>8, <1>9, <2>1, <1>1, Parts, YouParts DEF Carries
    <3>2. V.grid[x] = m
      BY <1>4, <1>6
    <3> QED BY <3>1, <3>2 DEF Clear
  <2>2. CASE ~Carries(W, m) /\ W.you.uswallow
    BY <1>1, <1>4, <1>6, <1>8, <1>9, <2>2 DEF Clear, Carries
  <2>3. CASE ~W.you.uswallow
    BY <1>1, <1>4, <1>6, <1>8, <1>9, <2>3 DEF Clear, Carries
  <2> QED BY <2>1, <2>2, <2>3
<1>13. Stands(V, {}, P) /\ {m} \ {NoMon} \subseteq Local(W)
  BY <1>1, <1>4, <1>6, <1>10, <1>11 DEF Stands, Mapped
<1> QED BY <1>1, <1>7, <1>8, <1>12, <1>13, MovedGood DEF P

(***************************************************************************)
(* One monster is different.                                               *)
(***************************************************************************)
LEMMA MonstSet ==
    ASSUME NEW r \in Monst
    PROVE  /\ \A b \in BOOLEAN : [r EXCEPT !.alive = b] \in Monst
           /\ \A b \in BOOLEAN : [r EXCEPT !.mleashed = b] \in Monst
           /\ \A f \in Form : [r EXCEPT !.data = f] \in Monst
           /\ \A l \in Level : [r EXCEPT !.dest = l] \in Monst
           /\ \A k \in Nat : [r EXCEPT !.movement = k] \in Monst
           /\ \A x \in Square \cup {Nowhere} : [r EXCEPT !.mx = x] \in Monst
BY DEF Monst

\* Only monster m is different: it is r now.
IsNow(W, V, m, r) ==
    /\ V \in Worlds /\ V.grid = W.grid /\ V.you = W.you /\ Elsewhere(W, V)
    /\ \A n \in MonId : V.mon[n] = IF n = m THEN r ELSE W.mon[n]

LEMMA OneChanged ==
    ASSUME NEW W \in Worlds, NEW m \in MonId, NEW r \in Monst,
           NEW V, V = [W EXCEPT !.mon[m] = r]
    PROVE  IsNow(W, V, m, r)
<1> DEFINE f == [W.mon EXCEPT ![m] = r]
<1>1. W.mon \in [MonId -> Monst]
  BY Parts
<1>2. f \in [MonId -> Monst] /\ \A n \in MonId : f[n] = IF n = m THEN r ELSE W.mon[n]
  BY <1>1
<1>3. V = [W EXCEPT !.mon = f]
  OBVIOUS
<1> HIDE DEF f
<1>4. IsMonChanged(W, V, f)
  BY <1>2, <1>3, MonChanged
<1> QED BY <1>2, <1>4 DEF IsMonChanged, IsNow

\* Only the light sources of m are different.
Shines(W, V, m, k) ==
    /\ V \in Worlds /\ V.grid = W.grid /\ V.you = W.you /\ V.mon = W.mon
    /\ V.fmon = W.fmon /\ V.mydogs = W.mydogs /\ V.migrating_mons = W.migrating_mons
    /\ V.purge = W.purge
    /\ \A n \in MonId : V.light[n] = IF n = m THEN k ELSE W.light[n]

LEMMA LightAdded ==
    ASSUME NEW W \in Worlds, NEW m \in MonId, NEW V, V = NewLightSource(W, m)
    PROVE  Shines(W, V, m, IF W.mon[m].data \in Lights THEN W.light[m] + 1 ELSE W.light[m])
<1> DEFINE g == [W.light EXCEPT ![m] = W.light[m] + 1]
<1>1. W.light \in [MonId -> Nat]
  BY Parts
<1>2. CASE W.mon[m].data \notin Lights
  BY <1>2 DEF NewLightSource, Shines
<1>3. CASE W.mon[m].data \in Lights
  <2>1. V = [W EXCEPT !.light = g]
    BY <1>3 DEF NewLightSource
  <2>2. g \in [MonId -> Nat] /\ \A n \in MonId : g[n] = IF n = m THEN W.light[m] + 1 ELSE W.light[n]
    BY <1>1
  <2> HIDE DEF g
  <2>3. /\ V \in Worlds /\ V.grid = W.grid /\ V.you = W.you /\ V.mon = W.mon
        /\ V.fmon = W.fmon /\ V.mydogs = W.mydogs /\ V.migrating_mons = W.migrating_mons
        /\ V.purge = W.purge /\ V.light = g
    BY <2>1, <2>2 DEF Worlds
  <2> QED BY <1>3, <2>2, <2>3 DEF Shines
<1> QED BY <1>2, <1>3

LEMMA LightTaken ==
    ASSUME NEW W \in Worlds, NEW m \in MonId, NEW f, f \in Lights => W.light[m] = 1,
           f \notin Lights => W.light[m] = 0, NEW V, V = DelLightSource(W, m, f)
    PROVE  Shines(W, V, m, 0)
<1> DEFINE g == [W.light EXCEPT ![m] = W.light[m] - 1]
<1>1. W.light \in [MonId -> Nat]
  BY Parts
<1>2. CASE f \notin Lights
  BY <1>2 DEF DelLightSource, Shines
<1>3. CASE f \in Lights
  <2>1. V = [W EXCEPT !.light = g]
    BY <1>3 DEF DelLightSource
  <2>2. g \in [MonId -> Nat] /\ \A n \in MonId : g[n] = IF n = m THEN 0 ELSE W.light[n]
    BY <1>1, <1>3
  <2> HIDE DEF g
  <2>3. /\ V \in Worlds /\ V.grid = W.grid /\ V.you = W.you /\ V.mon = W.mon
        /\ V.fmon = W.fmon /\ V.mydogs = W.mydogs /\ V.migrating_mons = W.migrating_mons
        /\ V.purge = W.purge /\ V.light = g
    BY <2>1, <2>2 DEF Worlds
  <2> QED BY <1>3, <2>2, <2>3 DEF Shines
<1> QED BY <1>2, <1>3

(***************************************************************************)
(* mondead.                                                                *)
(***************************************************************************)
\* V is W after the death of m: it is off the map, dark and counted, and the
\* hero neither rides it nor is held by it.
Died(W, V, m) ==
    /\ V \in Worlds
    /\ V.fmon = W.fmon /\ V.mydogs = W.mydogs /\ V.migrating_mons = W.migrating_mons
    /\ \A n \in MonId : n # m => V.mon[n] = W.mon[n] /\ V.light[n] = W.light[n]
    /\ ~V.mon[m].alive /\ ~V.mon[m].mleashed /\ V.light[m] = 0 /\ V.mon[m].mx = W.mon[m].mx
    /\ V.purge = W.purge + 1
    /\ \A y \in Square : V.grid[y] = IF y = W.mon[m].mx THEN NoMon ELSE W.grid[y]
    /\ SameTurn(W, V) /\ V.you.at = W.you.at
    /\ V.you.usteed = IF W.you.usteed = m THEN NoMon ELSE W.you.usteed
    /\ IF W.you.ustuck = m THEN V.you.ustuck = NoMon /\ V.you.uswallow = FALSE
       ELSE V.you.ustuck = W.you.ustuck /\ V.you.uswallow = W.you.uswallow

LEMMA MonDeadDoes ==
    ASSUME NEW W, NEW H, NEW E, NEW B, Books(W, H, E, B), NEW m \in Local(W), W.mon[m].alive,
           Carries(W, m) => W.mon[m].mx = W.you.at, NEW V, V = MonDead(W, m)
    PROVE  Died(W, V, m)
<1> DEFINE r1 == [W.mon[m] EXCEPT !.alive = FALSE]
           W1 == [W EXCEPT !.mon[m].alive = FALSE]
           y  == [W1.you EXCEPT !.usteed = NoMon]
           W2 == IF m = W.you.usteed THEN [W1 EXCEPT !.you.usteed = NoMon] ELSE W1
           r3 == [W2.mon[m] EXCEPT !.mleashed = FALSE]
           W3 == [W2 EXCEPT !.mon[m].mleashed = FALSE]
           W4 == RemoveMonster(W3, W2.mon[m].mx)
           W5 == DelLightSource(W4, m, W2.mon[m].data)
           W6 == Unstuck(W5, m)
<1>1. V = [W6 EXCEPT !.purge = W6.purge + 1]
  BY DEF MonDead, MDetach
<1>2. W \in Worlds /\ m \in MonId /\ NoMon \notin MonId
  BY Parts, PlaceAssumption DEF Books
<1>3. W.mon[m] \in Monst /\ W.you \in You
  BY <1>2, Parts
<1>4. r1 \in Monst /\ r1.alive = FALSE /\ r1.mx = W.mon[m].mx /\ r1.data = W.mon[m].data
  <2>1. r1 \in Monst
    BY <1>3, MonstSet
  <2> QED BY <1>3, <2>1 DEF Monst
<1>5. IsNow(W, W1, m, r1)
  <2>1. W1 = [W EXCEPT !.mon[m] = r1]
    OBVIOUS
  <2> HIDE DEF W1, r1
  <2> QED BY <1>2, <1>4, <2>1, OneChanged
<1> HIDE DEF r1
<1>6. /\ W1 \in Worlds /\ W1.grid = W.grid /\ W1.you = W.you /\ Elsewhere(W, W1)
      /\ W1.mon[m] = r1 /\ \A n \in MonId : n # m => W1.mon[n] = W.mon[n]
  BY <1>2, <1>5 DEF IsNow
<1>7. /\ W2 \in Worlds /\ W2.grid = W.grid /\ W2.mon = W1.mon /\ Elsewhere(W, W2)
      /\ SameTurn(W, W2) /\ W2.you.at = W.you.at /\ W2.you.ustuck = W.you.ustuck
      /\ W2.you.uswallow = W.you.uswallow
      /\ W2.you.usteed = IF W.you.usteed = m THEN NoMon ELSE W.you.usteed
  <2>1. CASE m = W.you.usteed
    <3>1. W2 = [W1 EXCEPT !.you = y]
      BY <2>1
    <3> HIDE DEF W2, W1
    <3>2. /\ y \in You /\ y.at = W.you.at /\ y.ustuck = W.you.ustuck
          /\ y.uswallow = W.you.uswallow
          /\ y.usteed = NoMon /\ y.utolev = W.you.utolev /\ y.movement = W.you.movement
      BY <1>3, <1>6, YouSteed
    <3> HIDE DEF y
    <3>3. IsHeroChanged(W1, W2, y)
      BY <1>6, <3>1, <3>2, HeroChanged
    <3> QED BY <1>6, <2>1, <3>2, <3>3 DEF IsHeroChanged, Elsewhere, SameTurn
  <2>2. CASE m # W.you.usteed
    <3>1. W2 = W1
      BY <2>2
    <3> HIDE DEF W2, W1
    <3> QED BY <1>6, <2>2, <3>1 DEF SameTurn
  <2> QED BY <2>1, <2>2
<1> HIDE DEF W1, W2
<1>8. W2.mon[m] = r1
  BY <1>6, <1>7
<1>9. r3 \in Monst /\ r3.alive = FALSE /\ r3.mleashed = FALSE /\ r3.mx = W.mon[m].mx
      /\ r3.data = W.mon[m].data
  <2>1. r3 \in Monst
    BY <1>4, <1>8, MonstSet
  <2> QED BY <1>4, <1>8, <2>1 DEF Monst
<1>10. IsNow(W2, W3, m, r3)
  <2>1. W3 = [W2 EXCEPT !.mon[m] = r3]
    OBVIOUS
  <2> HIDE DEF W3, r3
  <2> QED BY <1>2, <1>7, <1>9, <2>1, OneChanged
<1> HIDE DEF W3, r3
<1>11. /\ W3 \in Worlds /\ W3.grid = W.grid /\ W3.you = W2.you /\ Elsewhere(W, W3)
       /\ W3.mon[m] = r3 /\ \A n \in MonId : n # m => W3.mon[n] = W.mon[n]
  BY <1>2, <1>6, <1>7, <1>10 DEF IsNow, Elsewhere
<1>12. /\ W4 \in Worlds /\ W4.mon = W3.mon /\ W4.you = W2.you /\ Elsewhere(W, W4)
       /\ \A y1 \in Square : W4.grid[y1] = IF y1 = W.mon[m].mx THEN NoMon ELSE W.grid[y1]
  <2>1. W2.mon[m].mx = W.mon[m].mx /\ W.mon[m].mx \in Square \cup {Nowhere}
    BY <1>3, <1>4, <1>8 DEF Monst
  <2>2. W4 = RemoveMonster(W3, W.mon[m].mx)
    BY <2>1
  <2> HIDE DEF W4
  <2>3. /\ Moved(W3, W4, {}) /\ W4.mon = W3.mon /\ W4.you = W3.you
        /\ \A y1 \in Square : W4.grid[y1] = IF y1 = W.mon[m].mx THEN NoMon ELSE W3.grid[y1]
    BY <1>11, <2>1, <2>2, Removed
  <2> QED BY <1>11, <2>3 DEF Moved, Elsewhere
<1> HIDE DEF W4
<1>13. Shines(W4, W5, m, 0)
  <2>1. W.light[m] = IF W.mon[m].data \in Lights THEN 1 ELSE 0
    <3>1. W.light[m] = Glow01(W, m, E)
      BY <1>2 DEF Books, Accounted
    <3>2. m \notin E
      BY DEF Books, Apart
    <3> QED BY <3>1, <3>2 DEF Glow01
  <2>2. W4.light[m] = W.light[m] /\ W2.mon[m].data = W.mon[m].data
    BY <1>4, <1>8, <1>12 DEF Elsewhere
  <2>3. W5 = DelLightSource(W4, m, W2.mon[m].data)
    OBVIOUS
  <2> HIDE DEF W5
  <2> QED BY <1>2, <1>12, <2>1, <2>2, <2>3, LightTaken
<1> HIDE DEF W5
<1>14. /\ W5 \in Worlds /\ W5.grid = W4.grid /\ W5.you = W2.you /\ W5.mon = W3.mon
       /\ W5.fmon = W.fmon /\ W5.mydogs = W.mydogs /\ W5.migrating_mons = W.migrating_mons
       /\ W5.purge = W.purge
       /\ \A n \in MonId : W5.light[n] = IF n = m THEN 0 ELSE W.light[n]
  BY <1>12, <1>13 DEF Shines, Elsewhere
<1>15. LetGo(W5, W6, m)
  <2>1. Carries(W5, m) => W5.mon[m].mx = W5.you.at
    BY <1>7, <1>9, <1>11, <1>14 DEF Carries
  <2>2. W6 = Unstuck(W5, m)
    OBVIOUS
  <2> HIDE DEF W6
  <2> QED BY <1>2, <1>14, <2>1, <2>2, UnstuckLetsGo
<1> HIDE DEF W6
<1>16. /\ W6 \in Worlds /\ W6.grid = W4.grid /\ W6.mon = W3.mon
       /\ W6.fmon = W.fmon /\ W6.mydogs = W.mydogs /\ W6.migrating_mons = W.migrating_mons
       /\ W6.purge = W.purge /\ W6.light = W5.light
       /\ SameTurn(W, W6) /\ W6.you.at = W.you.at
       /\ W6.you.usteed = IF W.you.usteed = m THEN NoMon ELSE W.you.usteed
       /\ IF W.you.ustuck = m THEN W6.you.ustuck = NoMon /\ W6.you.uswallow = FALSE
          ELSE W6.you.ustuck = W.you.ustuck /\ W6.you.uswallow = W.you.uswallow
  BY <1>7, <1>14, <1>15 DEF LetGo, Moved, Elsewhere, SameTurn
<1>17. /\ V \in Worlds /\ V.grid = W4.grid /\ V.mon = W3.mon
       /\ V.fmon = W.fmon /\ V.mydogs = W.mydogs /\ V.migrating_mons = W.migrating_mons
       /\ V.purge = W.purge + 1 /\ V.light = W5.light /\ V.you = W6.you
  <2> DEFINE k == W6.purge + 1
  <2>1. k \in Nat /\ k = W.purge + 1
    <3>1. W.purge \in Nat /\ W6.purge = W.purge
      BY <1>2, <1>16, Parts
    <3> QED BY <3>1
  <2>2. V = [W6 EXCEPT !.purge = k]
    BY <1>1
  <2> HIDE DEF k
  <2>3. W6 \in Worlds
    BY <1>16
  <2>4. /\ V \in Worlds /\ V.grid = W6.grid /\ V.mon = W6.mon
        /\ V.fmon = W6.fmon /\ V.mydogs = W6.mydogs /\ V.migrating_mons = W6.migrating_mons
        /\ V.purge = k /\ V.light = W6.light /\ V.you = W6.you
    BY <2>1, <2>2, <2>3 DEF Worlds
  <2> QED BY <1>16, <2>1, <2>4
<1> QED BY <1>2, <1>9, <1>11, <1>12, <1>14, <1>16, <1>17 DEF Died, SameTurn

\* The books after a death.
LEMMA DiedBooks ==
    ASSUME NEW W, NEW H, NEW E, NEW B, Books(W, H, E, B), NEW m \in Local(W), W.mon[m].alive,
           NEW V, Died(W, V, m)
    PROVE  /\ Books(V, H, E, B) /\ Local(V) = Local(W) /\ Moving(V) = Moving(W)
           /\ Living(V) = Living(W) \ {m}
           /\ \A n \in MonId : V.mon[n].mleashed => W.mon[n].mleashed
<1>1. W \in Worlds /\ V \in Worlds /\ m \in MonId /\ Local(W) \in SUBSET MonId
      /\ W.purge \in Nat
  BY Parts DEF Books, Died
<1>2. Local(V) = Local(W) /\ Moving(V) = Moving(W) /\ Once(V.fmon) /\ Once(V.migrating_mons)
  BY DEF Died, Local, Moving, Books, Apart
<1>3. /\ \A n \in MonId : n # m => V.mon[n] = W.mon[n] /\ V.light[n] = W.light[n]
      /\ ~V.mon[m].alive /\ ~V.mon[m].mleashed /\ V.light[m] = 0
      /\ V.purge = W.purge + 1
  BY DEF Died
<1>4. Living(V) = Living(W) \ {m} /\ Dead(V) = Dead(W) \cup {m} /\ m \notin Dead(W)
  BY <1>1, <1>2, <1>3 DEF Living, Dead
<1>5. V.purge = Cardinality(Dead(V))
  <2>1. IsFiniteSet(Dead(W)) /\ W.purge = Cardinality(Dead(W))
    BY <1>1, Few DEF Dead, Books
  <2>2. Cardinality(Dead(W) \cup {m}) = Cardinality(Dead(W)) + 1
    BY <1>4, <2>1, FS_AddElement
  <2> QED BY <1>3, <1>4, <2>1, <2>2
<1>6. Cardinality(Living(V)) <= MaxMonsters
  <2>1. Living(W) \in SUBSET MonId /\ Living(V) \in SUBSET Living(W)
    BY <1>4 DEF Living
  <2>2. Cardinality(Living(V)) <= Cardinality(Living(W)) /\ Cardinality(Living(V)) \in Nat
        /\ Cardinality(Living(W)) \in Nat
    BY <2>1, Few, FewIn
  <2>3. Cardinality(Living(W)) <= MaxMonsters
    BY DEF Books
  <2> QED BY <2>2, <2>3, PlaceAssumption
<1>7. Apart(V, H, E)
  BY <1>2 DEF Apart, Books
<1>8. ASSUME NEW n \in MonId PROVE Accounted(V, H, E, B, n)
  <2>1. Accounted(W, H, E, B, n)
    BY DEF Books
  <2>2. CASE n # m
    BY <1>2, <1>3, <2>1, <2>2 DEF Accounted, Glow01
  <2>3. CASE n = m
    <3>1. m \notin Moving(W) /\ m \notin E
      BY DEF Books, Apart
    <3> QED BY <1>2, <1>3, <2>3, <3>1 DEF Accounted, Glow01
  <2> QED BY <2>2, <2>3
<1>9. \A n \in MonId : V.mon[n].mleashed => W.mon[n].mleashed
  BY <1>3
<1> QED BY <1>1, <1>2, <1>4, <1>5, <1>6, <1>7, <1>8, <1>9 DEF Books

\* One square less is taken.
LEMMA DiedMap ==
    ASSUME NEW W, NEW V, NEW P, Mapped(W, P), NEW m \in MonId, Died(W, V, m),
           m \in P \/ \A x \in Square : x = W.mon[m].mx => W.grid[x] = NoMon
    PROVE  Mapped(V, P \ {m})
<1>1. NoMon \notin MonId /\ P \subseteq MonId
  BY PlaceAssumption DEF Mapped
<1>2. /\ \A n \in MonId : n # m => V.mon[n] = W.mon[n]
      /\ \A y \in Square : V.grid[y] = IF y = W.mon[m].mx THEN NoMon ELSE W.grid[y]
  BY DEF Died
<1>3. ASSUME NEW x \in Square, V.grid[x] # NoMon
      PROVE  V.grid[x] \in P \ {m} /\ V.mon[V.grid[x]].mx = x
  <2>1. x # W.mon[m].mx /\ V.grid[x] = W.grid[x]
    BY <1>2, <1>3
  <2>2. W.grid[x] \in P /\ W.mon[W.grid[x]].mx = x
    BY <1>3, <2>1 DEF Mapped
  <2> QED BY <1>1, <1>2, <2>1, <2>2
<1>4. ASSUME NEW n \in P \ {m} PROVE V.mon[n].mx \in Square /\ V.grid[V.mon[n].mx] = n
  <2>1. n \in MonId /\ V.mon[n] = W.mon[n] /\ W.mon[n].mx \in Square /\ W.grid[W.mon[n].mx] = n
    BY <1>1, <1>2 DEF Mapped
  <2>2. W.mon[n].mx # W.mon[m].mx
    BY <1>1, <2>1 DEF Mapped
  <2> QED BY <1>2, <2>1, <2>2
<1> QED BY <1>1, <1>3, <1>4 DEF Mapped

LEMMA DiedHero ==
    ASSUME NEW W \in Worlds, NEW V, NEW H, NEW P, Rides(W, H), Held(W, P), NEW m \in Local(W),
           Died(W, V, m)
    PROVE  Rides(V, H) /\ Held(V, P \ {m})
<1>1. m \in MonId /\ NoMon \notin MonId
  BY Parts, PlaceAssumption
<1>2. W.you.usteed \in MonId \cup {NoMon} /\ W.you.ustuck \in MonId \cup {NoMon}
  BY Parts, YouParts
<1>3. Local(V) = Local(W) /\ \A n \in MonId : V.mon[n].mleashed => W.mon[n].mleashed
  <2>1. \A n \in MonId : n # m => V.mon[n] = W.mon[n]
    BY DEF Died
  <2> QED BY <1>1, <2>1 DEF Died, Local
<1>4. Rides(V, H)
  BY <1>1, <1>2, <1>3 DEF Rides, Died
<1>5. Held(V, P \ {m})
  BY <1>1, <1>2, <1>3 DEF Held, Died
<1> QED BY <1>4, <1>5

LEMMA DiedStands ==
    ASSUME NEW W \in Worlds, NEW V, NEW H, NEW P, Rides(W, H), Held(W, P), NEW m \in Local(W),
           Died(W, V, m), Mapped(V, P \ {m})
    PROVE  Stands(V, H, P \ {m})
<1>1. Rides(V, H) /\ Held(V, P \ {m})
  BY DiedHero
<1> QED BY <1>1 DEF Stands

LEMMA MonDeadGood ==
    ASSUME NEW W, NEW E, NEW B, Good(W, E, B), NEW m \in Local(W), W.mon[m].alive,
           NEW V, V = MonDead(W, m)
    PROVE  Follows(W, V, {}, E, B) /\ Local(V) = Local(W) /\ Died(W, V, m)
<1>1. /\ W \in Worlds /\ Books(W, {}, E, B) /\ Stands(W, {}, Afoot(W)) /\ Clear(W)
      /\ W.you.uswallow => W.you.ustuck \in Afoot(W) /\ W.mon[W.you.ustuck].mx = W.you.at
      /\ W.you.at \in Square /\ m \in MonId /\ NoMon \notin MonId
      /\ W.you.usteed # NoMon => W.mon[W.you.usteed].mx = W.you.at
  BY GoodParts, Parts, PlaceAssumption
<1>2. Died(W, V, m)
  BY <1>1, MonDeadDoes DEF Carries
<1>3. Books(V, {}, E, B) /\ Local(V) = Local(W) /\ Living(V) = Living(W) \ {m}
  BY <1>1, <1>2, DiedBooks
<1>4. m \in Afoot(W) \/ \A x \in Square : x = W.mon[m].mx => W.grid[x] = NoMon
  <2>1. CASE m = W.you.usteed
    <3>1. W.mon[m].mx = W.you.at /\ ~W.you.uswallow
      BY <1>1, <2>1 DEF Stands, Held
    <3> QED BY <1>1, <3>1 DEF Clear
  <2>2. CASE m # W.you.usteed
    BY <2>2 DEF Afoot
  <2> QED BY <2>1, <2>2
<1>5. Mapped(V, Afoot(W) \ {m})
  BY <1>1, <1>2, <1>4, DiedMap DEF Stands
<1>6. Stands(V, {}, Afoot(W) \ {m})
  BY <1>1, <1>2, <1>5, DiedStands DEF Stands
<1>7. Afoot(V) = Afoot(W) \ {m}
  <2>1. /\ \A n \in MonId : n # m => V.mon[n] = W.mon[n]
        /\ ~V.mon[m].alive /\ V.you.usteed = IF W.you.usteed = m THEN NoMon ELSE W.you.usteed
    BY <1>2 DEF Died
  <2>2. Local(W) \in SUBSET MonId
    BY <1>1, Parts
  <2> QED BY <1>1, <1>3, <2>1, <2>2 DEF Afoot
<1>8. Clear(V)
  <2>1. /\ V.you.at = W.you.at
        /\ V.grid[W.you.at] = IF W.you.at = W.mon[m].mx THEN NoMon ELSE W.grid[W.you.at]
        /\ IF W.you.ustuck = m THEN V.you.ustuck = NoMon /\ V.you.uswallow = FALSE
           ELSE V.you.ustuck = W.you.ustuck /\ V.you.uswallow = W.you.uswallow
    BY <1>1, <1>2 DEF Died
  <2>2. CASE W.you.uswallow /\ W.you.ustuck = m
    BY <1>1, <2>1, <2>2 DEF Clear
  <2>3. CASE W.you.uswallow /\ W.you.ustuck # m
    <3>1. W.grid[W.you.at] = W.you.ustuck
      BY <1>1, <2>3 DEF Clear
    <3>2. W.you.at # W.mon[m].mx
      <4>1. CASE m \in Afoot(W)
        BY <1>1, <2>3, <3>1, <4>1 DEF Stands, Mapped
      <4>2. CASE m \notin Afoot(W)
        BY <1>1, <1>4, <2>3, <3>1, <4>2 DEF Stands, Mapped
      <4> QED BY <4>1, <4>2
    <3> QED BY <2>1, <2>3, <3>1, <3>2 DEF Clear
  <2>4. CASE ~W.you.uswallow
    <3>1. W.grid[W.you.at] = NoMon
      BY <1>1, <2>4 DEF Clear
    <3> QED BY <2>1, <2>4, <3>1 DEF Clear
  <2> QED BY <2>2, <2>3, <2>4
<1>9. SameTurn(W, V) /\ V.mydogs = W.mydogs
  BY <1>2 DEF Died
<1> QED BY <1>2, <1>3, <1>6, <1>7, <1>8, <1>9 DEF Follows, Good, Stands

(***************************************************************************)
(* The list of the level: dmonsfree and relmon.                            *)
(***************************************************************************)
\* Only the list of the level is different.
Listed(W, V, s) ==
    /\ V \in Worlds /\ V.grid = W.grid /\ V.you = W.you /\ V.mon = W.mon
    /\ V.fmon = s /\ V.mydogs = W.mydogs /\ V.migrating_mons = W.migrating_mons
    /\ V.purge = W.purge /\ V.light = W.light

\* Only the count of the dead is different.
Counted(W, V, k) ==
    /\ V \in Worlds /\ V.grid = W.grid /\ V.you = W.you /\ V.mon = W.mon
    /\ V.fmon = W.fmon /\ V.mydogs = W.mydogs /\ V.migrating_mons = W.migrating_mons
    /\ V.purge = k /\ V.light = W.light
LEMMA CountChanged ==
    ASSUME NEW W \in Worlds, NEW k \in Nat, NEW V, V = [W EXCEPT !.purge = k]
    PROVE  Counted(W, V, k)
BY DEF Worlds, Counted

LEMMA ListChanged ==
    ASSUME NEW W \in Worlds, NEW s \in Seq(MonId), NEW V, V = [W EXCEPT !.fmon = s]
    PROVE  Listed(W, V, s)
BY DEF Worlds, Listed

LEMMA FreedIs ==
    /\ Freed \in Monst /\ ~Freed.alive /\ ~Freed.mleashed /\ Freed.mx = Nowhere
    /\ Freed.dest = NoLev /\ NoLev \in Level
<1>1. (CHOOSE f \in Form : TRUE) \in Form /\ NoLev \in Level
  BY FormAssumption, PlaceAssumption DEF NoLev
<1> QED BY <1>1 DEF Freed, Monst

\* The dead are off the list and freed.
Cleaned(W, V) ==
    /\ V \in Worlds /\ Local(V) = Local(W) \ Dead(W) /\ Once(V.fmon)
    /\ V.mydogs = W.mydogs /\ V.migrating_mons = W.migrating_mons
    /\ V.grid = W.grid /\ V.light = W.light /\ V.you = W.you /\ V.purge = 0
    /\ \A n \in MonId : V.mon[n] = IF n \in Dead(W) THEN Freed ELSE W.mon[n]

LEMMA DMonsFreeDoes ==
    ASSUME NEW W \in Worlds, Once(W.fmon), W.purge = Cardinality(Dead(W)),
           NEW V, V = DMonsFree(W)
    PROVE  Cleaned(W, V)
<1> DEFINE s == Without(W.fmon, Dead(W))
           f == [m \in MonId |-> IF m \in Dead(W) THEN Freed ELSE W.mon[m]]
           U == [W EXCEPT !.fmon = s]
           X == [U EXCEPT !.mon = f]
<1>1. V = [X EXCEPT !.purge = 0]
  BY DEF DMonsFree, Dead, Local, Worlds
<1>2. s \in Seq(MonId) /\ Range(s) = Local(W) \ Dead(W) /\ Once(s)
  <2>1. W.fmon \in Seq(MonId)
    BY Parts
  <2> QED BY <2>1, Unlinked DEF Local
<1>3. f \in [MonId -> Monst] /\ \A n \in MonId : f[n] = IF n \in Dead(W) THEN Freed ELSE W.mon[n]
  <2>1. W.mon \in [MonId -> Monst]
    BY Parts
  <2> QED BY <2>1, FreedIs
<1> HIDE DEF s, f
<1>4. Listed(W, U, s)
  BY <1>2, ListChanged
<1> HIDE DEF U
<1>5. IsMonChanged(U, X, f)
  BY <1>3, <1>4, MonChanged DEF Listed
<1> HIDE DEF X
<1>6. /\ V \in Worlds /\ V.fmon = X.fmon /\ V.mon = X.mon /\ V.mydogs = X.mydogs
      /\ V.migrating_mons = X.migrating_mons /\ V.grid = X.grid /\ V.light = X.light
      /\ V.you = X.you /\ V.purge = 0
  <2>1. X \in Worlds
    BY <1>5 DEF IsMonChanged
  <2>2. Counted(X, V, 0)
    BY <1>1, <2>1, CountChanged
  <2> QED BY <2>2 DEF Counted
<1> QED BY <1>2, <1>3, <1>4, <1>5, <1>6 DEF Cleaned, Listed, IsMonChanged, Elsewhere, Local

LEMMA CleanedBooks ==
    ASSUME NEW W, NEW H, NEW E, NEW B, Books(W, H, E, B), NEW V, Cleaned(W, V)
    PROVE  /\ Books(V, H, E, B) /\ Dead(V) = {} /\ Living(V) = Living(W)
           /\ \A n \in Local(V) : V.mon[n] = W.mon[n] /\ V.mon[n].alive
           /\ Moving(V) = Moving(W) /\ Local(V) \subseteq Local(W)
<1>1. W \in Worlds /\ Local(W) \in SUBSET MonId /\ V \in Worlds
  BY Parts DEF Books, Cleaned
<1>2. /\ Local(V) = Local(W) \ Dead(W) /\ Moving(V) = Moving(W)
      /\ \A n \in MonId : V.mon[n] = IF n \in Dead(W) THEN Freed ELSE W.mon[n]
  BY DEF Cleaned, Moving
<1>3. \A n \in Local(V) : V.mon[n] = W.mon[n] /\ V.mon[n].alive
  BY <1>1, <1>2 DEF Dead
<1>4. Dead(V) = {}
  BY <1>3 DEF Dead
<1>5. Living(V) = Living(W)
  BY <1>1, <1>2, FreedIs DEF Living, Dead
<1>6. V.purge = Cardinality(Dead(V))
  BY <1>4, FS_EmptySet DEF Cleaned
<1>7. Apart(V, H, E)
  BY <1>2 DEF Apart, Books, Cleaned
<1>8. ASSUME NEW n \in MonId PROVE Accounted(V, H, E, B, n)
  <2>1. Accounted(W, H, E, B, n) /\ V.light[n] = W.light[n]
    BY DEF Books, Cleaned
  <2>2. CASE n \in Dead(W)
    <3>1. n \notin Moving(W) /\ n \notin H /\ n \notin E /\ ~W.mon[n].alive
      BY <2>2 DEF Books, Apart, Dead
    <3> QED BY <1>2, <2>1, <2>2, <3>1, FreedIs DEF Accounted, Glow01
  <2>3. CASE n \notin Dead(W)
    BY <1>2, <2>1, <2>3 DEF Accounted, Glow01
  <2> QED BY <2>2, <2>3
<1> QED BY <1>1, <1>2, <1>3, <1>4, <1>5, <1>6, <1>7, <1>8 DEF Books

\* What remains of Stands when the dead are freed.
LEMMA CleanedStands ==
    ASSUME NEW W \in Worlds, NEW V, NEW H, NEW P, Stands(W, H, P), Cleaned(W, V),
           P \cap Dead(W) = {}, H \cap Dead(W) = {}
    PROVE  /\ Stands(V, H, P) /\ V.you = W.you /\ V.grid = W.grid
           /\ \A m \in P : V.mon[m] = W.mon[m]
<1>1. P \subseteq MonId /\ NoMon \notin MonId
  BY PlaceAssumption DEF Stands, Mapped
<1>2. /\ Local(V) = Local(W) \ Dead(W) /\ V.you = W.you /\ V.grid = W.grid
      /\ \A n \in MonId : V.mon[n] = IF n \in Dead(W) THEN Freed ELSE W.mon[n]
  BY DEF Cleaned
<1>3. \A m \in P : m \in MonId /\ V.mon[m] = W.mon[m]
  BY <1>1, <1>2
<1>4. Mapped(V, P)
  BY <1>1, <1>2, <1>3 DEF Mapped, Stands
<1>5. Rides(V, H)
  <2>1. W.you.usteed \in MonId \cup {NoMon}
    BY Parts, YouParts
  <2> QED BY <1>2, <2>1 DEF Rides, Stands, Dead
<1>6. \A n \in MonId : V.mon[n].mleashed => W.mon[n].mleashed
  BY <1>2, FreedIs
<1>7. Held(V, P)
  BY <1>2, <1>6 DEF Held, Stands
<1> QED BY <1>2, <1>3, <1>4, <1>5, <1>7 DEF Stands

LEMMA DMonsFreeGood ==
    ASSUME NEW W, NEW E, NEW B, Good(W, E, B), NEW V, V = DMonsFree(W)
    PROVE  /\ Follows(W, V, Dead(W), E, B) /\ Cleaned(W, V) /\ Dead(V) = {}
           /\ Local(V) = Local(W) \ Dead(W) /\ Afoot(V) = Afoot(W)
<1>1. /\ W \in Worlds /\ Books(W, {}, E, B) /\ Stands(W, {}, Afoot(W)) /\ Clear(W)
  BY GoodParts
<1>2. Cleaned(W, V)
  BY <1>1, DMonsFreeDoes DEF Books, Apart
<1>3. /\ Books(V, {}, E, B) /\ Dead(V) = {}
      /\ \A n \in Local(V) : V.mon[n] = W.mon[n] /\ V.mon[n].alive
  BY <1>1, <1>2, CleanedBooks
<1>4. Afoot(W) \cap Dead(W) = {}
  BY DEF Afoot, Dead
<1>5. Stands(V, {}, Afoot(W)) /\ V.you = W.you /\ V.grid = W.grid
  BY <1>1, <1>2, <1>4, CleanedStands
<1>6. Local(V) = Local(W) \ Dead(W)
  BY <1>2 DEF Cleaned
<1>7. Afoot(V) = Afoot(W)
  BY <1>3, <1>5, <1>6 DEF Afoot, Dead
<1>8. V.mydogs = W.mydogs
  BY <1>2 DEF Cleaned
<1> QED BY <1>1, <1>2, <1>3, <1>5, <1>6, <1>7, <1>8 DEF Follows, Good, Stands, Clear, SameTurn

\* m is off the list and off its square.
Released(W, V, m) ==
    /\ V \in Worlds /\ Local(V) = Local(W) \ {m} /\ Once(V.fmon)
    /\ V.mydogs = W.mydogs /\ V.migrating_mons = W.migrating_mons /\ V.mon = W.mon
    /\ V.light = W.light /\ V.you = W.you /\ V.purge = W.purge
    /\ \A y \in Square : V.grid[y] = IF y = W.mon[m].mx THEN NoMon ELSE W.grid[y]

LEMMA RelMonDoes ==
    ASSUME NEW W \in Worlds, Once(W.fmon), NEW m \in Local(W), NEW V, V = RelMon(W, m)
    PROVE  Released(W, V, m)
<1> DEFINE U == RemoveMonster(W, W.mon[m].mx)
           s == Without(W.fmon, {m})
<1>1. m \in MonId /\ W.fmon \in Seq(MonId) /\ W.mon[m].mx \in Square \cup {Nowhere}
  BY Parts, MonstWith
<1>2. /\ Moved(W, U, {}) /\ U.mon = W.mon /\ U.you = W.you
      /\ \A y \in Square : U.grid[y] = IF y = W.mon[m].mx THEN NoMon ELSE W.grid[y]
  <2> HIDE DEF U
  <2>1. U = RemoveMonster(W, W.mon[m].mx)
    BY DEF U
  <2> QED BY <1>1, <2>1, Removed
<1>3. s \in Seq(MonId) /\ Range(s) = Local(W) \ {m} /\ Once(s)
  BY <1>1, Unlinked DEF Local
<1>4. V = [U EXCEPT !.fmon = Without(U.fmon, {m})]
  BY DEF RelMon, Local
<1> HIDE DEF U
<1>5. U.fmon = W.fmon /\ U \in Worlds
  BY <1>2 DEF Moved, Elsewhere
<1>6. V = [U EXCEPT !.fmon = s]
  BY <1>4, <1>5
<1> HIDE DEF s
<1>7. Listed(U, V, s)
  BY <1>3, <1>5, <1>6, ListChanged
<1> QED BY <1>2, <1>3, <1>7 DEF Released, Listed, Moved, Elsewhere, Local

(***************************************************************************)
(* migrate_to_level.                                                       *)
(***************************************************************************)
\* Only the list of the monsters on their way is different.
Migrants(W, V, s) ==
    /\ V \in Worlds /\ V.grid = W.grid /\ V.you = W.you /\ V.mon = W.mon
    /\ V.fmon = W.fmon /\ V.mydogs = W.mydogs /\ V.migrating_mons = s
    /\ V.purge = W.purge /\ V.light = W.light
LEMMA MigrantsChanged ==
    ASSUME NEW W \in Worlds, NEW s \in Seq(MonId), NEW V, V = [W EXCEPT !.migrating_mons = s]
    PROVE  Migrants(W, V, s)
BY DEF Worlds, Migrants

LEMMA MigrateGood ==
    ASSUME NEW W, NEW E, NEW B, Good(W, E, B), NEW m \in Afoot(W), m # W.you.ustuck,
           NEW l \in Level, NEW V, V = MigrateToLevel(W, m, l)
    PROVE  Follows(W, V, {m}, E, B) /\ Local(V) = Local(W) \ {m}
<1> DEFINE r  == [W.mon[m] EXCEPT !.mleashed = FALSE]
           W1 == [W EXCEPT !.mon[m].mleashed = FALSE]
           W2 == RelMon(W1, m)
           q  == [[W2.mon[m] EXCEPT !.mx = Nowhere] EXCEPT !.dest = l]
           W3 == [W2 EXCEPT !.mon[m] = q]
           s  == <<m>> \o W3.migrating_mons
<1>1. V = [W3 EXCEPT !.migrating_mons = s]
  BY DEF MigrateToLevel
<1>2. /\ W \in Worlds /\ Books(W, {}, E, B) /\ Stands(W, {}, Afoot(W)) /\ Clear(W)
      /\ m \in MonId /\ m \in Local(W) /\ W.mon[m].alive /\ m # W.you.usteed /\ m # NoMon
      /\ W.mon[m] \in Monst
  BY GoodParts, Parts
<1>3. /\ r \in Monst /\ r.mleashed = FALSE /\ r.mx = W.mon[m].mx /\ r.data = W.mon[m].data
      /\ r.alive = TRUE
  <2>1. r \in Monst
    BY <1>2, MonstSet
  <2> QED BY <1>2, <2>1 DEF Monst
<1>4. IsNow(W, W1, m, r)
  <2>1. W1 = [W EXCEPT !.mon[m] = r]
    OBVIOUS
  <2> HIDE DEF W1, r
  <2> QED BY <1>2, <1>3, <2>1, OneChanged
<1> HIDE DEF r, W1
<1>5. /\ W1 \in Worlds /\ W1.grid = W.grid /\ W1.you = W.you /\ Elsewhere(W, W1)
      /\ Local(W1) = Local(W) /\ Once(W1.fmon) /\ W1.mon[m] = r
      /\ \A n \in MonId : n # m => W1.mon[n] = W.mon[n]
  BY <1>2, <1>4 DEF IsNow, Elsewhere, Local, Books, Apart
<1>6. Released(W1, W2, m)
  BY <1>2, <1>5, RelMonDoes
<1> HIDE DEF W2
<1>7. /\ W2 \in Worlds /\ Local(W2) = Local(W) \ {m} /\ Once(W2.fmon)
      /\ W2.mydogs = W.mydogs /\ W2.migrating_mons = W.migrating_mons /\ W2.mon = W1.mon
      /\ W2.light = W.light /\ W2.you = W.you /\ W2.purge = W.purge
      /\ \A y \in Square : W2.grid[y] = IF y = W.mon[m].mx THEN NoMon ELSE W.grid[y]
  BY <1>3, <1>5, <1>6 DEF Released, Elsewhere
<1>8. W2.mon[m] = r
  BY <1>5, <1>7
<1>9. /\ q \in Monst /\ q.mleashed = FALSE /\ q.mx = Nowhere /\ q.data = W.mon[m].data
      /\ q.alive = TRUE
  <2> DEFINE p == [W2.mon[m] EXCEPT !.mx = Nowhere]
  <2>1. p \in Monst
    BY <1>3, <1>8, MonstSet
  <2>2. p.mleashed = FALSE /\ p.mx = Nowhere /\ p.data = W.mon[m].data /\ p.alive = TRUE
    BY <1>3, <1>8 DEF Monst
  <2>3. q = [p EXCEPT !.dest = l]
    OBVIOUS
  <2> HIDE DEF p, q
  <2>4. q \in Monst
    BY <2>1, <2>3, MonstSet
  <2> QED BY <2>1, <2>2, <2>3, <2>4 DEF Monst
<1>10. IsNow(W2, W3, m, q)
  <2>1. W3 = [W2 EXCEPT !.mon[m] = q]
    OBVIOUS
  <2> HIDE DEF W3, q
  <2> QED BY <1>2, <1>7, <1>9, <2>1, OneChanged
<1> HIDE DEF q, W3
<1>11. /\ s \in Seq(MonId) /\ Range(s) = Moving(W) \cup {m} /\ Once(s)
  <2>1. W3.migrating_mons = W.migrating_mons
    BY <1>7, <1>10 DEF IsNow, Elsewhere
  <2>2. W.migrating_mons \in Seq(MonId) /\ Once(W.migrating_mons) /\ m \notin Range(W.migrating_mons)
    BY <1>2, Parts DEF Books, Apart, Moving
  <2> QED BY <1>2, <2>1, <2>2, Pushed DEF Moving
<1>12. Migrants(W3, V, s)
  <2> HIDE DEF s
  <2> QED BY <1>1, <1>10, <1>11, MigrantsChanged DEF IsNow
<1>13. /\ V \in Worlds /\ Local(V) = Local(W) \ {m} /\ Once(V.fmon) /\ Once(V.migrating_mons)
       /\ Moving(V) = Moving(W) \cup {m} /\ V.mydogs = W.mydogs /\ V.light = W.light
       /\ V.you = W.you /\ V.purge = W.purge /\ V.mon[m] = q
       /\ \A n \in MonId : n # m => V.mon[n] = W.mon[n]
       /\ \A y \in Square : V.grid[y] = IF y = W.mon[m].mx THEN NoMon ELSE W.grid[y]
  BY <1>2, <1>5, <1>7, <1>10, <1>11, <1>12 DEF Migrants, IsNow, Elsewhere, Local, Moving
<1> HIDE DEF s
<1>14. Local(W) \in SUBSET MonId /\ m \notin E
  BY <1>2, Parts DEF Books, Apart
<1>15. Living(V) = Living(W) /\ Dead(V) = Dead(W)
  BY <1>2, <1>9, <1>13, <1>14 DEF Living, Dead
<1>16. Apart(V, {}, E)
  BY <1>2, <1>13, <1>14 DEF Books, Apart
<1>17. ASSUME NEW n \in MonId PROVE Accounted(V, {}, E, B, n)
  <2>1. Accounted(W, {}, E, B, n)
    BY <1>2 DEF Books
  <2>2. CASE n # m
    BY <1>13, <2>1, <2>2 DEF Accounted, Glow01
  <2>3. CASE n = m
    BY <1>2, <1>9, <1>13, <1>14, <2>1, <2>3 DEF Accounted, Glow01
  <2> QED BY <2>2, <2>3
<1>18. Books(V, {}, E, B)
  BY <1>2, <1>13, <1>15, <1>16, <1>17 DEF Books
<1>19. Afoot(V) = Afoot(W) \ {m}
  BY <1>13, <1>14 DEF Afoot
<1>20. Afoot(W) \in SUBSET MonId /\ NoMon \notin MonId
  BY <1>14, PlaceAssumption DEF Afoot
<1>21. Mapped(V, Afoot(W) \ {m})
  <2>1. ASSUME NEW x \in Square, V.grid[x] # NoMon
        PROVE  V.grid[x] \in Afoot(W) \ {m} /\ V.mon[V.grid[x]].mx = x
    <3>1. x # W.mon[m].mx /\ V.grid[x] = W.grid[x]
      BY <1>13, <2>1
    <3>2. W.grid[x] \in Afoot(W) /\ W.mon[W.grid[x]].mx = x
      BY <1>2, <2>1, <3>1 DEF Mapped, Stands
    <3> QED BY <1>13, <1>20, <3>1, <3>2
  <2>2. ASSUME NEW n \in Afoot(W) \ {m} PROVE V.mon[n].mx \in Square /\ V.grid[V.mon[n].mx] = n
    <3>1. n \in MonId /\ V.mon[n] = W.mon[n] /\ W.mon[n].mx \in Square /\ W.grid[W.mon[n].mx] = n
      BY <1>2, <1>13, <1>20 DEF Mapped, Stands
    <3>2. W.mon[n].mx # W.mon[m].mx
      BY <1>2, <3>1 DEF Mapped, Stands
    <3> QED BY <1>13, <3>1, <3>2
  <2> QED BY <1>20, <2>1, <2>2 DEF Mapped
<1>22. W.you \in You
  BY <1>2, Parts
<1>23. W.you.usteed \in MonId \cup {NoMon} /\ W.you.at \in Square
  BY <1>22, YouParts
<1>24. Rides(V, {}) /\ Held(V, Afoot(V))
  <2>1. \A n \in MonId : V.mon[n].mleashed => W.mon[n].mleashed
    BY <1>9, <1>13
  <2> QED BY <1>2, <1>13, <1>19, <1>23, <2>1 DEF Rides, Held, Stands
<1>25. Clear(V)
  <2>1. CASE W.you.uswallow
    <3>1. W.you.at # W.mon[m].mx
      BY <1>2, <2>1 DEF Clear, Stands, Mapped
    <3> QED BY <1>2, <1>13, <1>23, <2>1, <3>1 DEF Clear
  <2>2. CASE ~W.you.uswallow
    BY <1>2, <1>13, <1>23, <2>2 DEF Clear
  <2> QED BY <2>1, <2>2
<1> QED BY <1>13, <1>18, <1>19, <1>21, <1>24, <1>25 DEF Follows, Good, SameTurn

(***************************************************************************)
(* makemon and clone_mon: one more monster.                                *)
(***************************************************************************)
Fresh(W, E, n) == n \in MonId /\ n \notin Local(W) \cup Moving(W) \cup E

LEMMA FreshIs ==
    ASSUME NEW W, NEW E, NEW B, Good(W, E, B), NEW n, Fresh(W, E, n)
    PROVE  /\ W.mon[n] = Freed /\ W.light[n] = 0 /\ n # W.you.usteed /\ n # W.you.ustuck
           /\ n \notin Afoot(W) /\ n # NoMon /\ n \in MonId
           /\ \A x \in Square : W.grid[x] # n
<1>1. /\ W \in Worlds /\ Books(W, {}, E, B) /\ Stands(W, {}, Afoot(W))
      /\ \A m \in Afoot(W) : m \in Local(W)
      /\ W.you.usteed # NoMon => W.you.usteed \in Local(W)
  BY GoodParts
<1>2. n \in MonId /\ NoMon \notin MonId /\ n \notin Local(W) \cup Moving(W) \cup {} \cup E
  BY PlaceAssumption DEF Fresh
<1>3. W.mon[n] = Freed /\ W.light[n] = Glow01(W, n, E)
  BY <1>1, <1>2 DEF Books, Accounted
<1>4. W.light[n] = 0
  BY <1>3, FreedIs DEF Glow01
<1>5. n # W.you.ustuck
  BY <1>1, <1>2 DEF Stands, Held
<1>6. \A x \in Square : W.grid[x] # n
  BY <1>1, <1>2 DEF Stands, Mapped
<1> QED BY <1>1, <1>2, <1>3, <1>4, <1>5, <1>6

LEMMA MonstSame ==
    ASSUME NEW r \in Monst, NEW s \in Monst, Kin(r, s), r.mx = s.mx
    PROVE  r = s
BY DEF Monst, Kin

\* A monster r, new or copied, on the square that enexto found.
Adds(W, n, r) ==
    NewLightSource(PlaceMonster([W EXCEPT !.mon[n] = r, !.fmon = <<n>> \o @], n, Spot(W)), n)

\* What Adds has done.
IsAdded(W, V, n) ==
    /\ V.mydogs = W.mydogs /\ V.migrating_mons = W.migrating_mons /\ V.you = W.you
    /\ Local(V) = Local(W) \cup {n} /\ n \in Afoot(V) /\ V.purge = W.purge

LEMMA AddGood ==
    ASSUME NEW W, NEW E, NEW B, Good(W, E, B), NEW n, Fresh(W, E, n), NEW r \in Monst,
           r.alive, ~r.mleashed, Enexto(W) # {}, Cardinality(Living(W)) < MaxMonsters,
           NEW V, V = Adds(W, n, r)
    PROVE  Follows(W, V, {}, E, B) /\ IsAdded(W, V, n)
<1> DEFINE s  == <<n>> \o W.fmon
           W1 == [W EXCEPT !.mon[n] = r]
           W2 == [W1 EXCEPT !.fmon = s]
           x  == Spot(W)
           W3 == PlaceMonster(W2, n, x)
           k  == IF W3.mon[n].data \in Lights THEN W3.light[n] + 1 ELSE W3.light[n]
<1>1. V = NewLightSource(W3, n)
  BY DEF Adds
<1>2. /\ W \in Worlds /\ Books(W, {}, E, B) /\ Stands(W, {}, Afoot(W)) /\ Clear(W)
      /\ \A m \in Afoot(W) : m \in Local(W) /\ m \in MonId
  BY GoodParts
<1>3. /\ W.mon[n] = Freed /\ W.light[n] = 0 /\ n # W.you.usteed /\ n # W.you.ustuck
      /\ n \notin Afoot(W) /\ n # NoMon /\ n \in MonId
  BY FreshIs
<1>4. n \notin Local(W) /\ n \notin Moving(W) /\ n \notin E
  BY DEF Fresh
<1>5. x \in Square /\ W.grid[x] = NoMon /\ x # W.you.at
  BY SpotFree
<1>6. IsNow(W, W1, n, r)
  <2> HIDE DEF W1
  <2>1. W1 = [W EXCEPT !.mon[n] = r]
    BY DEF W1
  <2> QED BY <1>2, <1>3, <2>1, OneChanged
<1>7. s \in Seq(MonId) /\ Range(s) = Local(W) \cup {n} /\ Once(s)
  <2>1. W.fmon \in Seq(MonId) /\ Once(W.fmon)
    BY <1>2, Parts DEF Books, Apart
  <2> QED BY <1>3, <1>4, <2>1, Pushed DEF Local
<1> HIDE DEF W1, s, x
<1>8. Listed(W1, W2, s)
  BY <1>6, <1>7, ListChanged DEF IsNow
<1> HIDE DEF W2
<1>9. /\ W2 \in Worlds /\ W2.grid = W.grid /\ W2.you = W.you /\ W2.fmon = s
      /\ W2.mydogs = W.mydogs /\ W2.migrating_mons = W.migrating_mons
      /\ W2.light = W.light /\ W2.purge = W.purge
      /\ W2.mon[n] = r /\ \A m \in MonId : m # n => W2.mon[m] = W.mon[m]
  BY <1>3, <1>6, <1>8 DEF Listed, IsNow, Elsewhere
<1>10. Mapped(W2, Afoot(W))
  BY <1>2, <1>3, <1>9 DEF Stands, Mapped
<1>11. PutOn(W2, W3, Afoot(W), n, x)
  BY <1>3, <1>5, <1>9, <1>10, MapPlaced
<1> HIDE DEF W3
<1>12. /\ Mapped(W3, Afoot(W) \cup {n}) /\ Moved(W2, W3, {n}) /\ W3.you = W.you
       /\ \A z \in Square : W3.grid[z] = IF z = x THEN n ELSE W.grid[z]
  BY <1>9, <1>11 DEF PutOn, Put
<1>13. Shines(W3, V, n, k)
  <2>1. W3 \in Worlds
    BY <1>12 DEF Moved
  <2> QED BY <1>1, <1>3, <2>1, LightAdded
<1>14. k = IF r.data \in Lights THEN 1 ELSE 0
  <2>1. W3.light[n] = 0 /\ W3.mon[n].data = r.data
    BY <1>3, <1>9, <1>12 DEF Moved, Elsewhere, Kin
  <2> QED BY <2>1
<1> HIDE DEF k
<1>15. /\ V \in Worlds /\ V.you = W.you /\ V.fmon = s
       /\ V.mydogs = W.mydogs /\ V.migrating_mons = W.migrating_mons /\ V.purge = W.purge
       /\ V.light[n] = k /\ V.mon[n].alive /\ ~V.mon[n].mleashed /\ V.mon[n].data = r.data
       /\ \A m \in MonId : m # n => V.mon[m] = W.mon[m] /\ V.light[m] = W.light[m]
       /\ \A z \in Square : V.grid[z] = IF z = x THEN n ELSE W.grid[z]
  BY <1>3, <1>9, <1>12, <1>13 DEF Shines, Moved, Elsewhere, Kin
<1>16. Mapped(V, Afoot(W) \cup {n})
  BY <1>12, <1>13 DEF Shines, Mapped
<1>17. Local(V) = Local(W) \cup {n} /\ Moving(V) = Moving(W)
  BY <1>7, <1>15 DEF Local, Moving
<1>18. Local(W) \in SUBSET MonId
  BY <1>2, Parts
<1>19. Dead(V) = Dead(W) /\ Living(V) = Living(W) \cup {n} /\ Afoot(V) = Afoot(W) \cup {n}
  BY <1>3, <1>4, <1>15, <1>17, <1>18 DEF Dead, Living, Afoot
<1>20. Cardinality(Living(V)) <= MaxMonsters
  <2>1. Living(W) \in SUBSET MonId
    BY DEF Living
  <2>2. IsFiniteSet(Living(W)) /\ Cardinality(Living(W)) \in Nat
    BY <2>1, Few
  <2>3. n \notin Living(W)
    BY <1>3, FreedIs DEF Living
  <2>4. Cardinality(Living(W) \cup {n}) = Cardinality(Living(W)) + 1
    BY <2>2, <2>3, FS_AddElement
  <2> QED BY <1>19, <2>2, <2>4, PlaceAssumption
<1>21. Apart(V, {}, E)
  BY <1>2, <1>4, <1>7, <1>15, <1>17 DEF Books, Apart
<1>22. ASSUME NEW m \in MonId PROVE Accounted(V, {}, E, B, m)
  <2>1. Accounted(W, {}, E, B, m)
    BY <1>2 DEF Books
  <2>2. CASE m # n
    BY <1>15, <1>17, <2>1, <2>2 DEF Accounted, Glow01
  <2>3. CASE m = n
    BY <1>3, <1>4, <1>14, <1>15, <1>17, <2>3 DEF Accounted, Glow01
  <2> QED BY <2>2, <2>3
<1>23. Books(V, {}, E, B)
  BY <1>2, <1>15, <1>19, <1>20, <1>21, <1>22 DEF Books
<1>24. W.you.usteed \in MonId \cup {NoMon} /\ W.you.at \in Square
  BY <1>2, Parts, YouParts
<1>25. Rides(V, {}) /\ Held(V, Afoot(V))
  <2>1. \A m \in MonId : V.mon[m].mleashed => W.mon[m].mleashed
    BY <1>15
  <2> QED BY <1>2, <1>3, <1>15, <1>17, <1>19, <1>24, <2>1 DEF Rides, Held, Stands
<1>26. Clear(V)
  BY <1>2, <1>5, <1>15, <1>24 DEF Clear
<1> QED BY <1>15, <1>16, <1>17, <1>19, <1>23, <1>25, <1>26 DEF Follows, Good, SameTurn, IsAdded

LEMMA MakeMonGood ==
    ASSUME NEW W, NEW E, NEW B, Good(W, E, B), Fresh(W, E, NewMonst(W)), NEW f \in Form,
           Enexto(W) # {}, Cardinality(Living(W)) < MaxMonsters, NEW V, V = MakeMon(W, f)
    PROVE  Follows(W, V, {}, E, B) /\ IsAdded(W, V, NewMonst(W))
<1> DEFINE r == [Freed EXCEPT !.data = f, !.alive = TRUE]
<1>1. r \in Monst /\ r.alive /\ ~r.mleashed
  BY FreedIs DEF Monst
<1> DEFINE n == NewMonst(W)
<1>2. V = Adds(W, n, r)
  BY DEF MakeMon, Adds
<1> HIDE DEF n, r
<1>3. Fresh(W, E, n)
  BY DEF n
<1>4. Follows(W, V, {}, E, B) /\ IsAdded(W, V, n)
  BY <1>1, <1>2, <1>3, AddGood
<1> QED BY <1>4 DEF n

(***************************************************************************)
(* replmon.                                                                *)
(***************************************************************************)
Replaced(W, V, m, n) ==
    /\ V.mydogs = W.mydogs /\ V.migrating_mons = W.migrating_mons /\ V.purge = W.purge
    /\ Local(V) = (Local(W) \ {m}) \cup {n} /\ SameTurn(W, V)
    /\ V.you.at = W.you.at /\ V.you.uswallow = W.you.uswallow

LEMMA ReplMonGood ==
    ASSUME NEW W, NEW E, NEW B, Good(W, E, B), NEW m \in Local(W), W.mon[m].alive,
           NEW n, Fresh(W, E, n), NEW V, V = ReplMon(W, m, n)
    PROVE  Follows(W, V, {m}, E, B) /\ Replaced(W, V, m, n)
<1> DEFINE r  == W.mon[m]
           x  == r.mx
           W1 == [W EXCEPT !.mon[n] = r]
           W2 == RelMon(W1, m)
           W3 == IF m = W.you.usteed THEN W2 ELSE PlaceMonster(W2, n, W2.mon[n].mx)
           k  == IF W3.mon[n].data \in Lights THEN W3.light[n] + 1 ELSE W3.light[n]
           W4 == NewLightSource(W3, n)
           W5 == DelLightSource(W4, m, r.data)
           s  == <<n>> \o W5.fmon
           W6 == [W5 EXCEPT !.fmon = s]
           W7 == [W6 EXCEPT !.mon[m] = Freed]
           y1 == [W7.you EXCEPT !.ustuck = IF W7.you.ustuck = m THEN n ELSE W7.you.ustuck]
           y2 == [y1 EXCEPT !.usteed = IF W7.you.usteed = m THEN n ELSE W7.you.usteed]
<1>1. V = [W7 EXCEPT !.you = y2]
  BY DEF ReplMon
<1>2. /\ W \in Worlds /\ Books(W, {}, E, B) /\ Stands(W, {}, Afoot(W)) /\ Clear(W)
      /\ W.you.usteed # NoMon => W.mon[W.you.usteed].mx = W.you.at
      /\ W.you.at \in Square /\ W.you.usteed \in MonId \cup {NoMon}
  BY GoodParts
<1>3. /\ W.mon[n] = Freed /\ W.light[n] = 0 /\ n # W.you.usteed /\ n # W.you.ustuck
      /\ n \notin Afoot(W) /\ n # NoMon /\ n \in MonId /\ \A z \in Square : W.grid[z] # n
  BY FreshIs
<1>4. /\ n \notin Local(W) /\ n \notin Moving(W) /\ n \notin E /\ m # n /\ m \in MonId
      /\ m \notin Moving(W) /\ m \notin E /\ NoMon \notin MonId
  BY <1>2, Parts, PlaceAssumption DEF Fresh, Books, Apart
<1>5. r \in Monst /\ x \in Square \cup {Nowhere} /\ r.alive
  BY <1>2, <1>4, Parts, MonstWith
<1> HIDE DEF r
<1>6. IsNow(W, W1, n, r)
  <2>1. W1 = [W EXCEPT !.mon[n] = r]
    BY DEF W1
  <2> HIDE DEF W1
  <2> QED BY <1>2, <1>3, <1>5, <2>1, OneChanged
<1> HIDE DEF W1
<1>7. /\ W1 \in Worlds /\ W1.grid = W.grid /\ W1.you = W.you /\ Elsewhere(W, W1)
      /\ Local(W1) = Local(W) /\ Once(W1.fmon) /\ W1.mon[n] = r /\ W1.mon[m] = r
      /\ \A i \in MonId : i # n => W1.mon[i] = W.mon[i]
  BY <1>2, <1>3, <1>4, <1>6 DEF IsNow, Elsewhere, Local, Books, Apart, r
<1>8. Released(W1, W2, m)
  BY <1>2, <1>7, RelMonDoes
<1> HIDE DEF W2
<1>9. /\ W2 \in Worlds /\ Local(W2) = Local(W) \ {m} /\ Once(W2.fmon)
      /\ W2.mydogs = W.mydogs /\ W2.migrating_mons = W.migrating_mons
      /\ W2.light = W.light /\ W2.you = W.you /\ W2.purge = W.purge
      /\ W2.mon[n] = r /\ \A i \in MonId : i # n => W2.mon[i] = W.mon[i]
      /\ \A z \in Square : W2.grid[z] = IF z = x THEN NoMon ELSE W.grid[z]
  BY <1>3, <1>7, <1>8 DEF Released, Elsewhere
<1>10. \A z \in Square : z = x => W.grid[z] = IF m = W.you.usteed THEN NoMon ELSE m
  <2>1. CASE m = W.you.usteed
    <3>1. x = W.you.at /\ ~W.you.uswallow
      BY <1>2, <1>4, <2>1 DEF Stands, Held, r
    <3> QED BY <1>2, <2>1, <3>1 DEF Clear
  <2>2. CASE m # W.you.usteed
    <3>1. m \in Afoot(W)
      BY <1>5, <2>2 DEF Afoot, r
    <3> QED BY <1>2, <2>2, <3>1 DEF Stands, Mapped, r
  <2> QED BY <2>1, <2>2
<1>11. \A z \in Square : W.grid[z] = m => z = x
  BY <1>2, <1>4 DEF Stands, Mapped, r
<1>12. /\ W3 \in Worlds /\ Elsewhere(W2, W3) /\ W3.you = W.you
       /\ W3.mon[n] = r /\ \A i \in MonId : i # n => W3.mon[i] = W.mon[i]
       /\ \A z \in Square : W3.grid[z] = IF W.grid[z] = m THEN n ELSE W.grid[z]
  <2>1. CASE m = W.you.usteed
    <3>1. W3 = W2
      BY <2>1
    <3>2. \A z \in Square : W.grid[z] # m
      BY <1>2, <1>4, <2>1 DEF Stands, Mapped, Afoot
    <3> HIDE DEF W3
    <3> QED BY <1>9, <1>10, <2>1, <3>1, <3>2 DEF Elsewhere
  <2>2. CASE m # W.you.usteed
    <3>1. W3 = PlaceMonster(W2, n, x)
      BY <1>9, <2>2
    <3> HIDE DEF W3
    <3>2. x \in Square
      <4>1. m \in Afoot(W)
        BY <1>5, <2>2 DEF Afoot, r
      <4> QED BY <1>2, <4>1 DEF Stands, Mapped, r
    <3> HIDE DEF x
    <3>3. Put(W2, W3, n, x)
      BY <1>3, <1>5, <1>9, <3>1, <3>2, Placed
    <3>4. /\ W3 \in Worlds /\ Elsewhere(W2, W3) /\ W3.you = W.you
          /\ \A i \in MonId : i # n => W3.mon[i] = W.mon[i]
          /\ \A z \in Square : W3.grid[z] = IF W.grid[z] = m THEN n ELSE W.grid[z]
      BY <1>9, <1>10, <1>11, <2>2, <3>2, <3>3 DEF Put, Moved
    <3>5. W3.mon[n] = r
      <4>1. Kin(r, W3.mon[n]) /\ W3.mon[n].mx = x
        BY <1>3, <1>9, <3>3 DEF Put, Moved
      <4>2. W3.mon[n] \in Monst
        BY <1>3, <3>4, Parts
      <4> QED BY <1>5, <4>1, <4>2, MonstSame DEF x
    <3> QED BY <3>4, <3>5
  <2> QED BY <2>1, <2>2
<1> HIDE DEF W3
<1>13. Shines(W3, W4, n, k)
  <2> HIDE DEF W4
  <2>1. W4 = NewLightSource(W3, n)
    BY DEF W4
  <2> QED BY <1>3, <1>12, <2>1, LightAdded
<1>14. k = IF r.data \in Lights THEN 1 ELSE 0
  <2>1. W3.light[n] = 0 /\ W3.mon[n] = r
    BY <1>3, <1>9, <1>12 DEF Elsewhere
  <2> QED BY <2>1
<1> HIDE DEF k, W4
<1>15. W.light[m] = IF r.data \in Lights THEN 1 ELSE 0
  <2>1. W.light[m] = Glow01(W, m, E)
    BY <1>2, <1>4 DEF Books, Accounted
  <2> QED BY <1>4, <1>5, <2>1 DEF Glow01, r
<1>16. Shines(W4, W5, m, 0)
  <2>1. W4.light[m] = W.light[m] /\ W4 \in Worlds
    BY <1>4, <1>9, <1>12, <1>13 DEF Shines, Elsewhere
  <2>2. W5 = DelLightSource(W4, m, r.data)
    BY DEF W5
  <2> HIDE DEF W5
  <2> QED BY <1>4, <1>15, <2>1, <2>2, LightTaken
<1> HIDE DEF W5
<1>17. /\ W5 \in Worlds /\ W5.grid = W3.grid /\ W5.you = W.you /\ W5.mon = W3.mon
       /\ W5.fmon = W2.fmon /\ W5.mydogs = W.mydogs /\ W5.migrating_mons = W.migrating_mons
       /\ W5.purge = W.purge /\ W5.light[m] = 0 /\ W5.light[n] = k
       /\ \A i \in MonId : i \notin {m, n} => W5.light[i] = W.light[i]
  BY <1>3, <1>4, <1>9, <1>12, <1>13, <1>16 DEF Shines, Elsewhere
<1>18. s \in Seq(MonId) /\ Range(s) = (Local(W) \ {m}) \cup {n} /\ Once(s)
  <2>1. W5.fmon \in Seq(MonId) /\ Range(W5.fmon) = Local(W) \ {m} /\ Once(W5.fmon)
    BY <1>9, <1>17, Parts DEF Local
  <2>2. n \notin Range(W5.fmon)
    BY <1>4, <2>1
  <2> QED BY <1>3, <2>1, <2>2, Pushed
<1> HIDE DEF s
<1>19. Listed(W5, W6, s)
  <2>1. W6 = [W5 EXCEPT !.fmon = s]
    BY DEF W6
  <2> HIDE DEF W6
  <2> QED BY <1>17, <1>18, <2>1, ListChanged
<1> HIDE DEF W6
<1>20. IsNow(W6, W7, m, Freed)
  <2>1. W7 = [W6 EXCEPT !.mon[m] = Freed]
    BY DEF W7
  <2> HIDE DEF W7
  <2> QED BY <1>4, <1>19, <2>1, FreedIs, OneChanged DEF Listed
<1> HIDE DEF W7
<1>21. W7 \in Worlds /\ W7.you = W.you /\ W.you \in You
  BY <1>2, <1>17, <1>19, <1>20, Parts DEF IsNow, Listed
<1> DEFINE stuck == IF W.you.ustuck = m THEN n ELSE W.you.ustuck
           steed == IF W.you.usteed = m THEN n ELSE W.you.usteed
<1>22. stuck \in MonId \cup {NoMon} /\ steed \in MonId \cup {NoMon}
  BY <1>3, <1>21, YouParts
<1>23. /\ y2 \in You /\ y2.at = W.you.at /\ y2.uswallow = W.you.uswallow
       /\ y2.ustuck = stuck /\ y2.usteed = steed
       /\ y2.utolev = W.you.utolev /\ y2.movement = W.you.movement
  <2>1. y1 = [W.you EXCEPT !.ustuck = stuck] /\ y2 = [y1 EXCEPT !.usteed = steed]
    BY <1>21
  <2> HIDE DEF stuck, steed, y1, y2
  <2>2. /\ y1 \in You /\ y1.at = W.you.at /\ y1.ustuck = stuck /\ y1.uswallow = W.you.uswallow
        /\ y1.usteed = W.you.usteed /\ y1.utolev = W.you.utolev
        /\ y1.movement = W.you.movement
    BY <1>21, <1>22, <2>1, YouStuck
  <2>3. /\ y2 \in You /\ y2.at = y1.at /\ y2.ustuck = y1.ustuck /\ y2.uswallow = y1.uswallow
        /\ y2.usteed = steed /\ y2.utolev = y1.utolev /\ y2.movement = y1.movement
    <3>1. y1 \in You /\ y2 = [y1 EXCEPT !.usteed = steed] /\ steed \in MonId \cup {NoMon}
      BY <1>22, <2>1, <2>2
    <3> QED BY ONLY <3>1, YouSteed
  <2> QED BY <2>2, <2>3
<1> HIDE DEF y1, y2
<1>24. IsHeroChanged(W7, V, y2)
  BY <1>1, <1>21, <1>23, HeroChanged
<1>25. /\ V \in Worlds /\ V.you = y2 /\ V.fmon = s /\ V.mydogs = W.mydogs
       /\ V.migrating_mons = W.migrating_mons /\ V.purge = W.purge
       /\ V.light[m] = 0 /\ V.light[n] = k /\ V.mon[m] = Freed /\ V.mon[n] = r
       /\ \A i \in MonId : i \notin {m, n} => V.light[i] = W.light[i] /\ V.mon[i] = W.mon[i]
       /\ \A z \in Square : V.grid[z] = IF W.grid[z] = m THEN n ELSE W.grid[z]
  BY <1>3, <1>4, <1>12, <1>17, <1>19, <1>20, <1>24
     DEF IsHeroChanged, IsNow, Listed, Elsewhere
<1> HIDE DEF x
<1>26. Local(V) = (Local(W) \ {m}) \cup {n} /\ Moving(V) = Moving(W)
  BY <1>18, <1>25 DEF Local, Moving
<1>27. Local(W) \in SUBSET MonId
  BY <1>2, Parts
<1>28. Dead(V) = Dead(W) /\ Living(V) = (Living(W) \ {m}) \cup {n} /\ m \in Living(W)
       /\ n \notin Living(W)
  BY <1>3, <1>4, <1>5, <1>25, <1>26, <1>27, FreedIs DEF Dead, Living, r
<1>29. Afoot(V) = IF m = W.you.usteed THEN Afoot(W) ELSE (Afoot(W) \ {m}) \cup {n}
  BY <1>3, <1>4, <1>5, <1>23, <1>25, <1>26, <1>27, FreedIs DEF Afoot, r
<1>30. Cardinality(Living(V)) <= MaxMonsters
  <2>1. Living(W) \in SUBSET MonId
    BY DEF Living
  <2>2. IsFiniteSet(Living(W)) /\ Cardinality(Living(W)) \in Nat
    BY <2>1, Few
  <2>3. Living(W) \ {m} \in SUBSET MonId
    BY <2>1
  <2>4. IsFiniteSet(Living(W) \ {m}) /\ Cardinality(Living(W) \ {m}) \in Nat
    BY <2>3, Few
  <2>5. Cardinality(Living(W) \ {m}) = Cardinality(Living(W)) - 1
    BY <1>28, <2>2, FS_RemoveElement
  <2>6. Cardinality((Living(W) \ {m}) \cup {n}) = Cardinality(Living(W) \ {m}) + 1
    BY <1>28, <2>4, FS_AddElement
  <2>7. Cardinality(Living(W)) <= MaxMonsters
    BY <1>2 DEF Books
  <2> QED BY <1>28, <2>2, <2>4, <2>5, <2>6, <2>7, PlaceAssumption
<1>31. Apart(V, {}, E)
  BY <1>2, <1>4, <1>18, <1>25, <1>26 DEF Books, Apart
<1>32. ASSUME NEW i \in MonId PROVE Accounted(V, {}, E, B, i)
  <2>1. Accounted(W, {}, E, B, i) /\ Accounted(W, {}, E, B, m)
    BY <1>2, <1>4 DEF Books
  <2>2. CASE i \notin {m, n}
    BY <1>25, <1>26, <2>1, <2>2 DEF Accounted, Glow01
  <2>3. CASE i = m
    BY <1>4, <1>25, <1>26, <2>3, FreedIs DEF Accounted, Glow01
  <2>4. CASE i = n
    BY <1>4, <1>5, <1>14, <1>25, <1>26, <2>4 DEF Accounted, Glow01
  <2> QED BY <2>2, <2>3, <2>4
<1>33. Books(V, {}, E, B)
  BY <1>2, <1>25, <1>28, <1>30, <1>31, <1>32 DEF Books
<1>34. Mapped(V, Afoot(V))
  <2>1. Afoot(V) \subseteq MonId
    BY <1>25, Parts DEF Afoot
  <2>2. ASSUME NEW z \in Square, V.grid[z] # NoMon
        PROVE  V.grid[z] \in Afoot(V) /\ V.mon[V.grid[z]].mx = z
    <3>1. CASE W.grid[z] = m
      <4>1. m \in Afoot(W) /\ W.mon[m].mx = z /\ m # W.you.usteed
        BY <1>2, <1>4, <3>1 DEF Stands, Mapped, Afoot
      <4> QED BY <1>25, <1>29, <3>1, <4>1 DEF r
    <3>2. CASE W.grid[z] # m
      <4>1. V.grid[z] = W.grid[z] /\ W.grid[z] \in Afoot(W) /\ W.mon[W.grid[z]].mx = z
            /\ W.grid[z] \in MonId /\ W.grid[z] # n
        BY <1>2, <1>3, <1>25, <1>27, <2>2, <3>2 DEF Stands, Mapped, Afoot
      <4> QED BY <1>25, <1>29, <3>2, <4>1
    <3> QED BY <3>1, <3>2
  <2>3. ASSUME NEW i \in Afoot(V) PROVE V.mon[i].mx \in Square /\ V.grid[V.mon[i].mx] = i
    <3>1. CASE i = n
      <4>1. m \in Afoot(W) /\ r.mx \in Square /\ W.grid[r.mx] = m
        BY <1>2, <1>3, <1>5, <1>29, <2>3, <3>1 DEF Stands, Mapped, Afoot, r
      <4> QED BY <1>25, <3>1, <4>1
    <3>2. CASE i # n
      <4>1. i \in Afoot(W) /\ i # m /\ i \in MonId
        BY <1>27, <1>29, <2>3, <3>2 DEF Afoot
      <4>2. W.mon[i].mx \in Square /\ W.grid[W.mon[i].mx] = i
        BY <1>2, <4>1 DEF Stands, Mapped
      <4> QED BY <1>25, <3>2, <4>1, <4>2
    <3> QED BY <3>1, <3>2
  <2> QED BY <2>1, <2>2, <2>3 DEF Mapped
<1>35. W.you.ustuck \in MonId \cup {NoMon}
  BY <1>21, YouParts
<1>36. Rides(V, {})
  <2>1. CASE W.you.usteed = m
    BY <1>2, <1>4, <1>5, <1>23, <1>25, <1>26, <2>1 DEF Rides, r
  <2>2. CASE W.you.usteed # m
    BY <1>2, <1>3, <1>4, <1>23, <1>25, <1>26, <2>2 DEF Rides, Stands
  <2> QED BY <2>1, <2>2
<1>37. Held(V, Afoot(V))
  <2>1. W.you.uswallow => \A i \in MonId : ~V.mon[i].mleashed
    BY <1>2, <1>4, <1>25, FreedIs DEF Held, Stands, r
  <2>2. V.you.ustuck # NoMon => V.you.ustuck \in Afoot(V)
    <3>1. CASE W.you.ustuck = m
      <4>1. m \in Afoot(W) /\ m # W.you.usteed
        BY <1>2, <1>4, <3>1 DEF Held, Stands, Afoot
      <4> QED BY <1>23, <1>25, <1>29, <3>1, <4>1
    <3>2. CASE W.you.ustuck # m
      BY <1>2, <1>23, <1>25, <1>29, <3>2 DEF Held, Stands
    <3> QED BY <3>1, <3>2
  <2>3. W.you.uswallow => W.you.usteed = NoMon /\ W.you.ustuck # NoMon
    BY <1>2 DEF Held, Stands
  <2> QED BY <1>3, <1>4, <1>23, <1>25, <2>1, <2>2, <2>3 DEF Held
<1>38. Clear(V)
  <2>1. V.grid[W.you.at] = IF W.grid[W.you.at] = m THEN n ELSE W.grid[W.you.at]
    BY <1>2, <1>25
  <2>2. W.grid[W.you.at] = IF W.you.uswallow THEN W.you.ustuck ELSE NoMon
    BY <1>2 DEF Clear
  <2> QED BY <1>4, <1>23, <1>25, <2>1, <2>2 DEF Clear
<1>39. SameTurn(W, V)
  BY <1>23, <1>25 DEF SameTurn
<1> HIDE DEF stuck, steed, k
<1> QED BY <1>23, <1>25, <1>26, <1>33, <1>34, <1>36, <1>37, <1>38, <1>39 DEF Follows, Good, Replaced

\* A clone, christened or not.
LEMMA CloneMonGood ==
    ASSUME NEW W, NEW E, NEW B, Good(W, E, B), NEW m \in Afoot(W), NEW christened \in BOOLEAN,
           Fresh(W, E, NewMonst(W)), Cardinality(Living(W)) < MaxMonsters,
           christened => \A C : IsAdded(W, C, NewMonst(W)) => Fresh(C, E, NewMonst(C)),
           NEW V, V = CloneMon(W, m, christened)
    PROVE  Follows(W, V, {}, E, B)
<1> DEFINE r == [W.mon[m] EXCEPT !.mleashed = FALSE]
           n == NewMonst(W)
           C == Adds(W, n, r)
           c == NewMonst(C)
<1>1. V = IF christened THEN ReplMon(C, n, c) ELSE C
  BY DEF CloneMon, Adds
<1>2. W \in Worlds /\ Mapped(W, Afoot(W)) /\ W.mon[m] \in Monst /\ W.mon[m].alive
      /\ Books(W, {}, E, B)
  BY GoodParts, Parts DEF Stands
<1>3. r \in Monst /\ r.alive /\ ~r.mleashed
  <2>1. r \in Monst
    BY <1>2, MonstSet
  <2> QED BY <1>2, <2>1 DEF Monst
<1>4. Enexto(W) # {}
  <2>1. Afoot(W) \in SUBSET Living(W) /\ Living(W) \in SUBSET MonId
    BY <1>2, AfootFew
  <2>2. Cardinality(Afoot(W)) <= Cardinality(Living(W)) /\ Cardinality(Living(W)) \in Nat
        /\ Cardinality(Afoot(W)) \in Nat
    BY <2>1, Few, FewIn
  <2>3. Cardinality(Afoot(W)) < MaxMonsters
    BY <2>2, PlaceAssumption
  <2>4. Cardinality(Afoot(W)) <= MaxMonsters
    BY <2>2, <2>3, PlaceAssumption
  <2> QED BY <1>2, <2>3, <2>4, RoomLeft
<1> HIDE DEF r, c
<1>5. C = Adds(W, n, r) /\ Fresh(W, E, n)
  OBVIOUS
<1> HIDE DEF C, n
<1>6. Follows(W, C, {}, E, B) /\ IsAdded(W, C, n)
  BY <1>3, <1>4, <1>5, AddGood
<1>7. CASE ~christened
  BY <1>1, <1>6, <1>7
<1>8. CASE christened
  <2>1. Fresh(C, E, c) /\ V = ReplMon(C, n, c)
    BY <1>1, <1>6, <1>8 DEF n, c
  <2>2. Good(C, E, B) /\ n \in Local(C) /\ C.mon[n].alive /\ Local(C) = Local(W) \cup {n}
    BY <1>6 DEF Follows, IsAdded, Afoot
  <2>3. Follows(C, V, {n}, E, B) /\ Replaced(C, V, n, c)
    BY <2>1, <2>2, ReplMonGood
  <2>4. n \notin Local(W)
    BY <1>5 DEF Fresh
  <2>5. Local(W) \ {} \subseteq Local(V)
    BY <2>2, <2>3, <2>4 DEF Replaced
  <2> QED BY <1>6, <2>3, <2>5 DEF Follows, SameTurn
<1> QED BY <1>7, <1>8

(***************************************************************************)
(* What is neither a place nor a list: movement and leashes.               *)
(***************************************************************************)
Touched(W, V) ==
    /\ V \in Worlds /\ Elsewhere(W, V) /\ V.grid = W.grid
    /\ \A n \in MonId : /\ V.mon[n].alive = W.mon[n].alive /\ V.mon[n].data = W.mon[n].data
                        /\ V.mon[n].mx = W.mon[n].mx
                        /\ n \notin Local(W) => V.mon[n] = W.mon[n]
                        /\ V.mon[n].mleashed => V.mon[n].alive /\ n \in Local(W)
    /\ V.you.at = W.you.at /\ V.you.ustuck = W.you.ustuck /\ V.you.uswallow = W.you.uswallow
    /\ V.you.usteed = W.you.usteed
    /\ V.you.uswallow => \A n \in MonId : ~V.mon[n].mleashed

LEMMA TouchedGood ==
    ASSUME NEW W, NEW E, NEW B, Good(W, E, B), NEW V, Touched(W, V)
    PROVE  /\ Good(V, E, B) /\ Local(V) = Local(W) /\ Moving(V) = Moving(W)
           /\ Living(V) = Living(W) /\ Afoot(V) = Afoot(W) /\ Dead(V) = Dead(W)
           /\ Enexto(V) = Enexto(W) /\ V.mydogs = W.mydogs
<1>1. /\ W \in Worlds /\ Books(W, {}, E, B) /\ Stands(W, {}, Afoot(W)) /\ Clear(W)
      /\ Local(W) \in SUBSET MonId
  BY GoodParts, Parts
<1>2. /\ V \in Worlds /\ V.grid = W.grid /\ V.fmon = W.fmon /\ V.mydogs = W.mydogs
      /\ V.migrating_mons = W.migrating_mons /\ V.light = W.light /\ V.purge = W.purge
      /\ V.you.at = W.you.at /\ V.you.ustuck = W.you.ustuck
      /\ V.you.uswallow = W.you.uswallow /\ V.you.usteed = W.you.usteed
      /\ V.you.uswallow => \A n \in MonId : ~V.mon[n].mleashed
  BY DEF Touched, Elsewhere
<1>3. ASSUME NEW n \in MonId
      PROVE  /\ V.mon[n].alive = W.mon[n].alive /\ V.mon[n].data = W.mon[n].data
             /\ V.mon[n].mx = W.mon[n].mx
             /\ n \notin Local(W) => V.mon[n] = W.mon[n]
             /\ V.mon[n].mleashed => V.mon[n].alive /\ n \in Local(W)
  BY DEF Touched
<1>4. Local(V) = Local(W) /\ Moving(V) = Moving(W)
  BY <1>2 DEF Local, Moving
<1>5. Living(V) = Living(W) /\ Afoot(V) = Afoot(W) /\ Dead(V) = Dead(W)
  BY <1>1, <1>2, <1>3, <1>4 DEF Living, Afoot, Dead
<1>6. Apart(V, {}, E)
  BY <1>1, <1>2, <1>4 DEF Books, Apart
<1>7. ASSUME NEW n \in MonId PROVE Accounted(V, {}, E, B, n)
  <2>1. Accounted(W, {}, E, B, n)
    BY <1>1 DEF Books
  <2>2. Local(W) \cap Moving(W) = {} /\ Local(W) \cap E = {}
    BY <1>1 DEF Books, Apart
  <2>3. V.light[n] = Glow01(V, n, E)
    BY <1>2, <1>3, <2>1 DEF Accounted, Glow01
  <2> QED BY <1>3, <1>4, <2>1, <2>2, <2>3 DEF Accounted
<1>8. Books(V, {}, E, B)
  BY <1>1, <1>2, <1>5, <1>6, <1>7 DEF Books
<1>9. Mapped(V, Afoot(W))
  <2>1. Afoot(W) \subseteq MonId
    BY <1>1 DEF Afoot
  <2> QED BY <1>1, <1>2, <1>3, <2>1 DEF Stands, Mapped
<1>10. W.you.usteed \in MonId \cup {NoMon}
  BY <1>1, Parts, YouParts
<1>11. Rides(V, {}) /\ Held(V, Afoot(W))
  BY <1>1, <1>2, <1>3, <1>4, <1>10 DEF Stands, Rides, Held
<1>12. Clear(V)
  BY <1>1, <1>2 DEF Clear
<1>13. Enexto(V) = Enexto(W)
  BY <1>2 DEF Enexto
<1> QED BY <1>2, <1>4, <1>5, <1>8, <1>9, <1>11, <1>12, <1>13 DEF Good

(***************************************************************************)
(* newcham.                                                                *)
(***************************************************************************)
\* m with a new form, and the light of it.
NewForm(W, m, f) ==
    LET V == [W EXCEPT !.mon[m].data = f]
    IN  IF (W.mon[m].data \in Lights) = (f \in Lights) THEN V
        ELSE NewLightSource(DelLightSource(V, m, W.mon[m].data), m)

LEMMA NewFormGood ==
    ASSUME NEW W, NEW E, NEW B, Good(W, E, B), NEW m \in Local(W), W.mon[m].alive,
           NEW f \in Form, NEW V, V = NewForm(W, m, f)
    PROVE  /\ Follows(W, V, {}, E, B) /\ Local(V) = Local(W) /\ V.you = W.you
           /\ Moving(V) = Moving(W)
<1> DEFINE r  == [W.mon[m] EXCEPT !.data = f]
           d  == W.mon[m].data
           W1 == [W EXCEPT !.mon[m].data = f]
           W2 == DelLightSource(W1, m, d)
           W3 == NewLightSource(W2, m)
           k  == IF W2.mon[m].data \in Lights THEN W2.light[m] + 1 ELSE W2.light[m]
<1>1. V = IF (d \in Lights) = (f \in Lights) THEN W1 ELSE W3
  BY DEF NewForm
<1>2. /\ W \in Worlds /\ Books(W, {}, E, B) /\ Stands(W, {}, Afoot(W)) /\ Clear(W)
      /\ Local(W) \in SUBSET MonId /\ m \in MonId /\ W.mon[m] \in Monst
  BY GoodParts, GoodIds
<1>3. /\ r \in Monst /\ r.data = f /\ r.mx = W.mon[m].mx /\ r.mleashed = W.mon[m].mleashed
      /\ r.alive = TRUE
  <2>1. r \in Monst
    BY <1>2, MonstSet
  <2> QED BY <1>2, <2>1 DEF Monst
<1>4. IsNow(W, W1, m, r)
  <2>1. W1 = [W EXCEPT !.mon[m] = r]
    OBVIOUS
  <2> HIDE DEF W1, r
  <2> QED BY <1>2, <1>3, <2>1, OneChanged
<1> HIDE DEF r, W1, d
<1>5. /\ W1 \in Worlds /\ W1.grid = W.grid /\ W1.you = W.you /\ Elsewhere(W, W1)
      /\ W1.mon[m] = r /\ \A n \in MonId : n # m => W1.mon[n] = W.mon[n]
  BY <1>2, <1>4 DEF IsNow
<1>6. W1.light[m] = IF d \in Lights THEN 1 ELSE 0
  <2>1. W.light[m] = Glow01(W, m, E) /\ m \notin E
    BY <1>2 DEF Books, Accounted, Apart
  <2> QED BY <1>5, <2>1 DEF Glow01, d, Elsewhere
<1>7. Shines(W1, W2, m, 0)
  <2>1. W2 = DelLightSource(W1, m, d)
    BY DEF W2
  <2> HIDE DEF W2
  <2> QED BY <1>2, <1>5, <1>6, <2>1, LightTaken
<1> HIDE DEF W2
<1>8. Shines(W2, W3, m, k)
  <2>1. W3 = NewLightSource(W2, m) /\ W2 \in Worlds
    BY <1>7 DEF W3, Shines
  <2> HIDE DEF W3
  <2> QED BY <1>2, <2>1, LightAdded
<1>9. k = IF f \in Lights THEN 1 ELSE 0
  <2>1. W2.mon[m].data = f /\ W2.light[m] = 0
    BY <1>2, <1>3, <1>5, <1>7 DEF Shines
  <2> QED BY <2>1
<1> HIDE DEF W3, k
<1>10. /\ V \in Worlds /\ V.grid = W.grid /\ V.you = W.you /\ V.fmon = W.fmon
       /\ V.mydogs = W.mydogs /\ V.migrating_mons = W.migrating_mons /\ V.purge = W.purge
       /\ V.mon[m] = r /\ V.light[m] = IF f \in Lights THEN 1 ELSE 0
       /\ \A n \in MonId : n # m => V.mon[n] = W.mon[n] /\ V.light[n] = W.light[n]
  <2>1. CASE (d \in Lights) = (f \in Lights)
    BY <1>1, <1>5, <1>6, <2>1 DEF Elsewhere
  <2>2. CASE (d \in Lights) # (f \in Lights)
    <3>1. V = W3
      BY <1>1, <2>2
    <3> QED BY <1>2, <1>5, <1>7, <1>8, <1>9, <3>1 DEF Elsewhere, Shines
  <2> QED BY <2>1, <2>2
<1>11. Local(V) = Local(W) /\ Moving(V) = Moving(W)
  BY <1>10 DEF Local, Moving
<1>12. \A n \in MonId : /\ V.mon[n].alive = W.mon[n].alive /\ V.mon[n].mx = W.mon[n].mx
                        /\ V.mon[n].mleashed = W.mon[n].mleashed
  BY <1>3, <1>10
<1>13. Living(V) = Living(W) /\ Afoot(V) = Afoot(W) /\ Dead(V) = Dead(W)
  BY <1>2, <1>10, <1>11, <1>12 DEF Living, Afoot, Dead
<1>14. Apart(V, {}, E)
  BY <1>2, <1>10, <1>11 DEF Books, Apart
<1>15. ASSUME NEW n \in MonId PROVE Accounted(V, {}, E, B, n)
  <2>1. Accounted(W, {}, E, B, n) /\ Accounted(W, {}, E, B, m)
    BY <1>2 DEF Books
  <2>2. Local(W) \cap Moving(W) = {} /\ Local(W) \cap E = {}
    BY <1>2 DEF Books, Apart
  <2>3. CASE n # m
    BY <1>10, <1>11, <2>1, <2>3 DEF Accounted, Glow01
  <2>4. CASE n = m
    BY <1>3, <1>10, <1>11, <2>1, <2>2, <2>4 DEF Accounted, Glow01
  <2> QED BY <2>3, <2>4
<1>16. Books(V, {}, E, B)
  BY <1>2, <1>10, <1>13, <1>14, <1>15 DEF Books
<1>17. Mapped(V, Afoot(W))
  <2>1. Afoot(W) \subseteq MonId
    BY <1>2 DEF Afoot
  <2> QED BY <1>2, <1>10, <1>12, <2>1 DEF Stands, Mapped
<1>18. W.you.usteed \in MonId \cup {NoMon}
  BY <1>2, Parts, YouParts
<1>19. Rides(V, {}) /\ Held(V, Afoot(W)) /\ Clear(V)
  BY <1>2, <1>10, <1>11, <1>12, <1>18 DEF Stands, Rides, Held, Clear
<1> QED BY <1>10, <1>11, <1>13, <1>16, <1>17, <1>19 DEF Follows, Good, SameTurn

LEMMA NewChamGood ==
    ASSUME NEW W, NEW E, NEW B, Good(W, E, B), NEW m \in Local(W), W.mon[m].alive,
           NEW f \in Form, NEW V, V = NewCham(W, m, f)
    PROVE  Follows(W, V, {}, E, B) /\ Local(V) = Local(W) /\ Moving(V) = Moving(W)
<1> DEFINE L == NewForm(W, m, f)
<1>1. V = IF W.you.ustuck # m THEN L
          ELSE IF W.you.uswallow
               THEN IF f \in Engulfers THEN L ELSE Expels(L, m)
          ELSE IF f \in Stickers THEN L ELSE Unstuck(L, m)
  BY DEF NewCham, NewForm
<1>2. L = NewForm(W, m, f) /\ m \in MonId
  <2>1. W \in Worlds
    BY GoodParts
  <2>2. Local(W) \in SUBSET MonId
    BY <2>1, Parts
  <2> QED BY <2>2
<1> HIDE DEF L
<1>3. /\ Follows(W, L, {}, E, B) /\ Local(L) = Local(W) /\ L.you = W.you
      /\ Moving(L) = Moving(W)
  BY <1>2, NewFormGood
<1>4. Good(L, E, B)
  BY <1>3 DEF Follows
<1>5. CASE V = L
  BY <1>3, <1>5
<1>6. CASE V = Expels(L, m) /\ W.you.ustuck = m /\ W.you.uswallow
  <2>1. Carries(L, m)
    BY <1>3, <1>6 DEF Carries
  <2>2. Follows(L, V, {}, E, B) /\ Local(V) = Local(L) /\ Moving(V) = Moving(L)
    BY <1>2, <1>4, <1>6, <2>1, ExpelsGood
  <2> QED BY <1>3, <2>2, FollowsOn
<1>7. CASE V = Unstuck(L, m) /\ ~W.you.uswallow
  <2>1. Follows(L, V, {}, E, B) /\ Local(V) = Local(L) /\ Moving(V) = Moving(L)
    BY <1>2, <1>3, <1>4, <1>7, UnstuckGood
  <2> QED BY <1>3, <2>1, FollowsOn
<1> QED BY <1>1, <1>5, <1>6, <1>7

(***************************************************************************)
(* The hero takes a steed, leaves it, and changes places with a pet.       *)
(***************************************************************************)
LEMMA MovedGoodTo ==
    ASSUME NEW W, NEW E, NEW B, Books(W, {}, E, B), NEW V, NEW S, Moved(W, V, S),
           S \ {NoMon} \subseteq Local(W), SameTurn(W, V), NEW P, Stands(V, {}, P), Clear(V),
           P = {m \in Local(W) : W.mon[m].alive} \ {V.you.usteed}
    PROVE  Follows(W, V, {}, E, B) /\ Local(V) = Local(W)
<1> DEFINE T == S \ {NoMon}
<1>1. Moved(W, V, T)
  BY PlaceAssumption DEF Moved
<1> HIDE DEF T
<1>2. /\ Books(V, {}, E, B) /\ Local(V) = Local(W)
      /\ \A m \in MonId : V.mon[m].alive = W.mon[m].alive
  <2>1. T \subseteq Local(W) \cup {}
    BY DEF T
  <2>2. Books(V, {}, E, B) /\ Local(V) = Local(W)
    BY <1>1, <2>1, MovedBooks
  <2> QED BY <1>1, <2>2 DEF Moved, Kin
<1>3. Afoot(V) = P
  <2>1. Local(W) \in SUBSET MonId
    BY Parts DEF Books
  <2> QED BY <1>2, <2>1 DEF Afoot
<1> QED BY <1>2, <1>3 DEF Follows, Good, Stands, Moved, Elsewhere

LEMMA MountGood ==
    ASSUME NEW W, NEW E, NEW B, Good(W, E, B), W.you.usteed = NoMon, W.you.ustuck = NoMon,
           NEW m \in Afoot(W), NEW x, x = W.mon[m].mx,
           NEW V, V = Teleds(RemoveMonster([W EXCEPT !.you.usteed = m], x), x)
    PROVE  Follows(W, V, {}, E, B) /\ Local(V) = Local(W)
<1> DEFINE y  == [W.you EXCEPT !.usteed = m]
           W1 == [W EXCEPT !.you.usteed = m]
           W2 == RemoveMonster(W1, x)
           P  == Afoot(W)
           Q  == P \ {m}
<1>1. V = Teleds(W2, x)
  OBVIOUS
<1>2. /\ W \in Worlds /\ Books(W, {}, E, B) /\ Stands(W, {}, P) /\ Clear(W)
      /\ m \in MonId /\ m \in Local(W) /\ W.mon[m].alive /\ m # NoMon /\ W.you \in You
      /\ x \in Square /\ W.grid[x] = m /\ ~W.you.uswallow
  BY GoodParts, GoodIds DEF Stands, Mapped, Held
<1>3. /\ y \in You /\ y.at = W.you.at /\ y.ustuck = NoMon /\ y.uswallow = W.you.uswallow
      /\ y.usteed = m /\ y.utolev = W.you.utolev /\ y.movement = W.you.movement
  BY <1>2, YouSteed
<1>4. IsHeroChanged(W, W1, y)
  <2>1. W1 = [W EXCEPT !.you = y]
    OBVIOUS
  <2> HIDE DEF W1, y
  <2> QED BY <1>2, <1>3, <2>1, HeroChanged
<1> HIDE DEF W1, y
<1>5. W1 \in Worlds /\ W1.grid = W.grid /\ W1.mon = W.mon /\ W1.you = y /\ Moved(W, W1, {})
  BY <1>4 DEF IsHeroChanged
<1> HIDE DEF P
<1>6. /\ Mapped(W2, Q) /\ W2.mon = W.mon /\ W2.you = y /\ Moved(W1, W2, {})
      /\ W2.grid[x] = NoMon /\ W2 \in Worlds
  <2>1. Mapped(W1, P)
    BY <1>2, <1>5 DEF Stands, Mapped
  <2>2. W2 = RemoveMonster(W1, W1.mon[m].mx) /\ m \in P
    BY <1>5 DEF P
  <2> HIDE DEF W2
  <2>3. TakenOff(W1, W2, P, m)
    BY <1>2, <1>5, <2>1, <2>2, MapRemoved
  <2> QED BY <1>2, <1>5, <2>3 DEF TakenOff, Moved
<1>7. V = Teleds(W2, x)
  BY <1>1
<1> HIDE DEF W2
<1>8. HeroAt(W2, V, x) /\ V.you.ustuck = NoMon /\ V.you.uswallow = FALSE
  BY <1>2, <1>6, <1>7, TeledsMoves
<1>9. Local(W2) = Local(W) /\ Moved(W, W2, {})
  BY <1>5, <1>6, MovedTwice DEF Moved, Elsewhere, Local
<1>10. Stands(V, {}, Q) /\ Clear(V)
  <2>1. /\ W2.you.usteed \notin Q
        /\ W2.you.usteed # NoMon => /\ W2.you.usteed \in Local(W2) \cup {}
                                    /\ W2.mon[W2.you.usteed].alive
    BY <1>2, <1>3, <1>6, <1>9
  <2> HIDE DEF Q
  <2> QED BY <1>2, <1>6, <1>8, <2>1, HeroStands
<1>11. Moved(W2, V, {m}) /\ SameTurn(W2, V) /\ V.you.usteed = m
  BY <1>3, <1>6, <1>8 DEF HeroAt
<1>12. Moved(W, V, {m}) /\ SameTurn(W, V)
  BY <1>3, <1>6, <1>9, <1>11, MovedTwice DEF SameTurn
<1>13. Q = {n \in Local(W) : W.mon[n].alive} \ {V.you.usteed}
  <2>1. NoMon \notin Local(W)
    BY GoodIds
  <2> QED BY <1>11, <2>1 DEF P, Afoot
<1>14. {m} \ {NoMon} \subseteq Local(W)
  BY <1>2
<1> HIDE DEF Q
<1> QED BY <1>2, <1>10, <1>12, <1>13, <1>14, MovedGoodTo

\* dismount_steed, up to where the steed is on the hero's square.
Beside(W, U, H, P, s) ==
    /\ Stands(U, H, P \cup {s}) /\ Moved(W, U, {s}) /\ SameTurn(W, U)
    /\ U.you.at = W.you.at /\ U.you.ustuck = W.you.ustuck /\ ~U.you.uswallow
    /\ U.you.usteed = NoMon /\ U.grid[U.you.at] = s /\ Enexto(U) # {} /\ U.mon[s].alive

LEMMA SteedPut ==
    ASSUME NEW W \in Worlds, NEW H, NEW P, Stands(W, H, P), Clear(W), W.you.usteed # NoMon,
           W.you.usteed \notin P, Cardinality(P \cup {W.you.usteed}) <= MaxMonsters,
           NEW U, U = PlaceMonster([W EXCEPT !.you.usteed = NoMon], W.you.usteed, W.you.at)
    PROVE  Beside(W, U, H, P, W.you.usteed)
<1> DEFINE s  == W.you.usteed
           y  == [W.you EXCEPT !.usteed = NoMon]
           W1 == [W EXCEPT !.you.usteed = NoMon]
           R  == P \cup {s}
<1>1. /\ W.you \in You /\ s \in MonId /\ s # NoMon /\ NoMon \notin MonId /\ W.you.at \in Square
      /\ W.mon[s].alive /\ ~W.you.uswallow /\ W.grid[W.you.at] = NoMon
  BY Parts, YouParts, PlaceAssumption DEF Stands, Rides, Held, Clear
<1>2. /\ y \in You /\ y.at = W.you.at /\ y.ustuck = W.you.ustuck /\ y.uswallow = W.you.uswallow
      /\ y.usteed = NoMon /\ y.utolev = W.you.utolev /\ y.movement = W.you.movement
  BY <1>1, YouSteed
<1>3. IsHeroChanged(W, W1, y)
  <2>1. W1 = [W EXCEPT !.you = y]
    OBVIOUS
  <2> HIDE DEF W1, y
  <2> QED BY <1>1, <1>2, <2>1, HeroChanged
<1>4. U = PlaceMonster(W1, s, W.you.at)
  OBVIOUS
<1> HIDE DEF W1, y
<1>5. W1 \in Worlds /\ W1.grid = W.grid /\ W1.mon = W.mon /\ W1.you = y /\ Moved(W, W1, {})
  BY <1>3 DEF IsHeroChanged
<1>6. Mapped(W1, P)
  BY <1>5 DEF Stands, Mapped
<1>7. PutOn(W1, U, P, s, W.you.at)
  <2> HIDE DEF s
  <2>1. s \notin P
    BY DEF s
  <2> QED BY <1>1, <1>2, <1>4, <1>5, <1>6, <2>1, MapPlaced
<1>8. /\ Mapped(U, R) /\ U.you = y /\ Moved(W1, U, {s}) /\ U.grid[W.you.at] = s
  BY <1>1, <1>5, <1>7 DEF PutOn, Put
<1>9. Moved(W, U, {s}) /\ U \in Worlds /\ U.mon[s].alive /\ Local(U) = Local(W)
  <2>1. Moved(W, U, {s})
    BY <1>5, <1>8, MovedTwice
  <2> QED BY <1>1, <2>1 DEF Moved, Kin, Elsewhere, Local
<1>10. Rides(U, H) /\ Held(U, R)
  BY <1>1, <1>2, <1>8 DEF Rides, Held, Stands
<1>11. Enexto(U) # {}
  <2>1. U.grid[U.you.at] # NoMon /\ Cardinality(R) <= MaxMonsters
    BY <1>1, <1>2, <1>8
  <2> HIDE DEF R
  <2> QED BY <1>8, <1>9, <2>1, RoomLeft
<1> QED BY <1>1, <1>2, <1>8, <1>9, <1>10, <1>11 DEF Beside, Stands, SameTurn

\* The hero is off the steed, which lives.
Unmounted(W, V, H, P, s) ==
    /\ Stands(V, H, P \cup {s}) /\ Clear(V) /\ Moved(W, V, {s}) /\ SameTurn(W, V)
    /\ V.you.usteed = NoMon /\ (W.you.ustuck = NoMon => V.you.ustuck = NoMon)

LEMMA DismountMoves ==
    ASSUME NEW W \in Worlds, NEW H, NEW P, Stands(W, H, P), Clear(W), W.you.usteed # NoMon,
           W.you.usteed \notin P, Cardinality(P \cup {W.you.usteed}) <= MaxMonsters,
           NEW have_spot, NEW V, V = DismountSteed(W, have_spot, FALSE)
    PROVE  Unmounted(W, V, H, P, W.you.usteed)
<1> DEFINE s == W.you.usteed
           U == PlaceMonster([W EXCEPT !.you.usteed = NoMon], s, W.you.at)
           x == Spot(U)
           R == P \cup {s}
<1>1. Beside(W, U, H, P, s)
  <2>1. U = PlaceMonster([W EXCEPT !.you.usteed = NoMon], W.you.usteed, W.you.at)
    OBVIOUS
  <2> HIDE DEF U
  <2> QED BY <2>1, SteedPut
<1>2. V = Teleds(U, x) \/ V = RlocTo(U, s, x)
  BY <1>1 DEF DismountSteed, Beside
<1> HIDE DEF U
<1>3. /\ Stands(U, H, R) /\ Moved(W, U, {s}) /\ SameTurn(W, U) /\ U \in Worlds
      /\ ~U.you.uswallow /\ U.you.usteed = NoMon /\ U.grid[U.you.at] = s /\ Enexto(U) # {}
      /\ U.mon[s].alive /\ U.you.ustuck = W.you.ustuck
  BY <1>1 DEF Beside, Moved
<1>4. x \in Square /\ U.grid[x] = NoMon /\ x # U.you.at
  BY <1>3, SpotFree
<1>5. s \in MonId /\ s \in R /\ NoMon \notin R /\ R \cup {s} = R /\ s # NoMon
  <2>1. R \subseteq MonId /\ NoMon \notin MonId
    BY <1>3, PlaceAssumption DEF Stands, Mapped
  <2> QED BY <2>1
<1> HIDE DEF x, s, R
<1>6. CASE V = Teleds(U, x)
  <2>1. HeroAt(U, V, x) /\ V.you.ustuck = NoMon /\ V.you.uswallow = FALSE
    BY <1>3, <1>4, <1>6, TeledsMoves
  <2>2. Stands(V, H, R) /\ Clear(V)
    BY <1>3, <1>4, <1>5, <2>1, HeroStands DEF Stands
  <2>3. /\ Moved(U, V, {NoMon}) /\ SameTurn(U, V) /\ V.you.usteed = NoMon
    BY <1>3, <2>1 DEF HeroAt
  <2>4. Moved(U, V, {})
    BY <2>3, PlaceAssumption DEF Moved
  <2>5. Moved(W, V, {s})
    <3>1. Moved(U, V, {s})
      BY <2>4 DEF Moved
    <3> QED BY <1>3, <3>1, MovedTwice
  <2> QED BY <1>3, <2>1, <2>2, <2>3, <2>5 DEF Unmounted, SameTurn, R, s
<1>7. CASE V = RlocTo(U, s, x)
  <2>1. Relocated(U, V, H, R, s, x) /\ Clear(V)
    BY <1>3, <1>4, <1>5, <1>7, RlocClears
  <2>2. /\ Stands(V, H, R) /\ Moved(U, V, {s}) /\ SameTurn(U, V) /\ V.you.usteed = NoMon
        /\ W.you.ustuck = NoMon => V.you.ustuck = NoMon
    BY <1>3, <1>5, <2>1 DEF Relocated
  <2>3. Moved(W, V, {s})
    BY <1>3, <2>2, MovedTwice
  <2> QED BY <1>3, <2>1, <2>2, <2>3 DEF Unmounted, SameTurn, R, s
<1> QED BY <1>2, <1>6, <1>7

\* The steed dies in the water it is left in.
LEMMA DrownedGood ==
    ASSUME NEW W, NEW E, NEW B, Good(W, E, B), NEW U, NEW s, s \in Local(W), s # NoMon,
           W.mon[s].alive, W.you.usteed = s, Beside(W, U, {}, Afoot(W), s),
           NEW V, V = MonDead(U, s)
    PROVE  Follows(W, V, {}, E, B) /\ Local(V) = Local(W)
<1> DEFINE P == Afoot(W)
           R == P \cup {s}
<1>1. /\ W \in Worlds /\ Books(W, {}, E, B) /\ s \in MonId /\ W.you.at \in Square
      /\ s \notin P
  BY GoodParts, GoodIds
<1>2. /\ Stands(U, {}, R) /\ Moved(W, U, {s}) /\ SameTurn(W, U) /\ U \in Worlds
      /\ ~U.you.uswallow /\ U.you.usteed = NoMon /\ U.grid[U.you.at] = s
      /\ U.mon[s].alive /\ U.you.at = W.you.at
  BY DEF Beside, Moved
<1>3. Books(U, {}, E, B) /\ Local(U) = Local(W)
  <2>1. {s} \subseteq Local(W) \cup {}
    OBVIOUS
  <2> QED BY <1>1, <1>2, <2>1, MovedBooks
<1>4. Died(U, V, s)
  <2>1. s \in Local(U) /\ (Carries(U, s) => U.mon[s].mx = U.you.at)
    BY <1>2, <1>3 DEF Carries
  <2> QED BY <1>2, <1>3, <2>1, MonDeadDoes
<1>5. Books(V, {}, E, B) /\ Local(V) = Local(U)
  BY <1>2, <1>3, <1>4, DiedBooks
<1>6. Stands(V, {}, P)
  <2>1. s \in R /\ R \ {s} = P
    BY <1>1
  <2> HIDE DEF R, P
  <2>2. Mapped(V, R \ {s})
    BY <1>1, <1>2, <1>4, <2>1, DiedMap DEF Stands
  <2>3. Stands(V, {}, R \ {s})
    BY <1>2, <1>3, <1>4, <2>2, DiedStands DEF Stands
  <2> QED BY <2>1, <2>3
<1>7. /\ V.you.at = W.you.at /\ V.you.usteed = NoMon /\ V.you.uswallow = FALSE
      /\ SameTurn(W, V) /\ V.mydogs = W.mydogs
      /\ \A n \in MonId : n # s => V.mon[n] = U.mon[n]
      /\ ~V.mon[s].alive
      /\ V.grid[W.you.at] = IF W.you.at = U.mon[s].mx THEN NoMon ELSE U.grid[W.you.at]
  <2>1. W.you \in You
    BY <1>1, Parts
  <2>2. U.you.uswallow \in BOOLEAN
    BY <1>2, Parts, YouParts
  <2> QED BY <1>1, <1>2, <1>4, <2>2 DEF Died, SameTurn, Moved, Elsewhere
<1>8. Clear(V)
  <2>1. U.mon[s].mx = W.you.at
    BY <1>1, <1>2, PlaceAssumption DEF Stands, Mapped
  <2> QED BY <1>7, <2>1 DEF Clear
<1>9. Afoot(V) = P
  <2>1. \A n \in MonId : U.mon[n].alive = W.mon[n].alive
    BY <1>2 DEF Moved, Kin
  <2>2. Local(W) \in SUBSET MonId /\ NoMon \notin MonId
    BY GoodIds
  <2> QED BY <1>3, <1>5, <1>7, <2>1, <2>2 DEF Afoot
<1> QED BY <1>3, <1>5, <1>6, <1>7, <1>8, <1>9 DEF Follows, Good, Stands

LEMMA DismountGood ==
    ASSUME NEW W, NEW E, NEW B, Good(W, E, B), W.you.usteed # NoMon,
           NEW have_spot \in BOOLEAN, NEW drowns \in BOOLEAN,
           NEW V, V = DismountSteed(W, have_spot, drowns)
    PROVE  Follows(W, V, {}, E, B) /\ Local(V) = Local(W)
<1> DEFINE s == W.you.usteed
           P == Afoot(W)
           U == PlaceMonster([W EXCEPT !.you.usteed = NoMon], s, W.you.at)
<1>1. /\ W \in Worlds /\ Books(W, {}, E, B) /\ Stands(W, {}, P) /\ Clear(W)
      /\ s \in Local(W) /\ W.mon[s].alive /\ s \notin P
  BY GoodParts
<1>2. Cardinality(P \cup {s}) <= MaxMonsters
  <2>1. P \cup {s} \in SUBSET Living(W) /\ Living(W) \in SUBSET MonId
    <3>1. P \subseteq Living(W) /\ Living(W) \in SUBSET MonId
      BY <1>1, AfootFew
    <3>2. s \in Living(W)
      BY <1>1, GoodIds DEF Living
    <3> QED BY <3>1, <3>2
  <2>2. Cardinality(P \cup {s}) <= Cardinality(Living(W)) /\ Cardinality(Living(W)) \in Nat
        /\ Cardinality(P \cup {s}) \in Nat
    BY <2>1, Few, FewIn
  <2>3. Cardinality(Living(W)) <= MaxMonsters
    BY <1>1 DEF Books
  <2> QED BY <2>2, <2>3, PlaceAssumption
<1>3. CASE drowns /\ V = MonDead(U, s)
  <2>1. Beside(W, U, {}, P, s)
    <3>1. U = PlaceMonster([W EXCEPT !.you.usteed = NoMon], W.you.usteed, W.you.at)
      OBVIOUS
    <3> HIDE DEF U, P
    <3> QED BY <1>1, <1>2, <3>1, SteedPut
  <2>2. /\ s \in Local(W) /\ s # NoMon /\ W.mon[s].alive /\ W.you.usteed = s
        /\ Beside(W, U, {}, Afoot(W), s) /\ V = MonDead(U, s)
    BY <1>1, <1>3, <2>1
  <2> HIDE DEF U, s, P
  <2> QED BY <2>2, DrownedGood
<1>4. CASE ~(drowns /\ V = MonDead(U, s))
  <2>1. V = DismountSteed(W, have_spot, FALSE)
    BY <1>4 DEF DismountSteed
  <2>2. Unmounted(W, V, {}, P, s)
    <3> HIDE DEF P
    <3> QED BY <1>1, <1>2, <2>1, DismountMoves
  <2>3. /\ Stands(V, {}, P \cup {s}) /\ Clear(V) /\ Moved(W, V, {s}) /\ SameTurn(W, V)
        /\ V.you.usteed = NoMon
    BY <2>2 DEF Unmounted
  <2>4. P \cup {s} = {m \in Local(W) : W.mon[m].alive} \ {V.you.usteed}
    <3>1. NoMon \notin Local(W)
      BY GoodIds
    <3> QED BY <1>1, <2>3, <3>1 DEF Afoot
  <2>5. {s} \ {NoMon} \subseteq Local(W)
    BY <1>1
  <2> HIDE DEF P, s
  <2> QED BY <1>1, <2>3, <2>4, <2>5, MovedGoodTo
<1> QED BY <1>3, <1>4

\* domove onto a pet's square: the two have changed places.
Swapped(W, m) ==
    LET x == W.mon[m].mx
        V == UOnNewpos(W, x)
    IN  PlaceMonster(RemoveMonster([V EXCEPT !.you.ustuck = NoMon], x), m, W.you.at)

LEMMA SwapGood ==
    ASSUME NEW W, NEW E, NEW B, Good(W, E, B), NEW m \in Afoot(W), ~W.you.uswallow,
           NEW S, S = Swapped(W, m)
    PROVE  /\ Follows(W, S, {}, E, B) /\ Local(S) = Local(W) /\ m \in Afoot(S)
           /\ S.you.ustuck = NoMon
<1> DEFINE x == W.mon[m].mx
           V == UOnNewpos(W, x)
           y == [V.you EXCEPT !.ustuck = NoMon]
           U == [V EXCEPT !.you.ustuck = NoMon]
           P == Afoot(W)
<1>1. S = PlaceMonster(RemoveMonster(U, x), m, W.you.at)
  BY DEF Swapped
<1>2. /\ W \in Worlds /\ Books(W, {}, E, B) /\ Stands(W, {}, P) /\ Clear(W)
      /\ m \in MonId /\ m \in Local(W) /\ W.mon[m].alive /\ m # NoMon /\ W.you \in You
      /\ m # W.you.usteed /\ x \in Square /\ W.grid[x] = m /\ W.you.at \in Square
      /\ W.grid[W.you.at] = NoMon /\ W.you.usteed \in MonId \cup {NoMon}
      /\ W.you.usteed # NoMon => W.mon[W.you.usteed].alive /\ W.you.usteed \in Local(W)
  BY GoodParts, GoodIds DEF Stands, Mapped, Clear
<1> HIDE DEF x
<1>3. HeroAt(W, V, x) /\ V.you.ustuck = W.you.ustuck /\ V.you.uswallow = W.you.uswallow
  <2>1. V = UOnNewpos(W, x)
    OBVIOUS
  <2> HIDE DEF V
  <2> QED BY <1>2, <2>1, NewposMoves
<1> HIDE DEF V
<1>4. /\ V \in Worlds /\ V.grid = W.grid /\ V.you.at = x /\ V.you.usteed = W.you.usteed
      /\ SameTurn(W, V) /\ Moved(W, V, {W.you.usteed}) /\ V.you \in You
      /\ W.you.usteed # NoMon => V.mon[W.you.usteed].mx = x
  BY <1>3, Parts DEF HeroAt
<1>5. /\ y \in You /\ y.at = x /\ y.ustuck = NoMon /\ y.uswallow = W.you.uswallow
      /\ y.usteed = W.you.usteed /\ y.utolev = W.you.utolev /\ y.movement = W.you.movement
  BY <1>3, <1>4, YouStuck DEF SameTurn
<1>6. IsHeroChanged(V, U, y)
  <2>1. U = [V EXCEPT !.you = y]
    OBVIOUS
  <2> HIDE DEF U, y
  <2> QED BY <1>4, <1>5, <2>1, HeroChanged
<1> HIDE DEF U, y
<1>7. U \in Worlds /\ U.grid = W.grid /\ U.mon = V.mon /\ U.you = y /\ Moved(V, U, {})
  BY <1>4, <1>6 DEF IsHeroChanged
<1>8. \A n \in P : n \in MonId /\ n # W.you.usteed /\ U.mon[n] = W.mon[n]
  BY <1>4, <1>7, GoodParts DEF Moved
<1>9. Mapped(U, P)
  BY <1>2, <1>7, <1>8 DEF Stands, Mapped
<1>10. MovedTo(U, S, P, m, W.you.at)
  <2>1. U.mon[m] = W.mon[m] /\ m # U.you.usteed /\ m \in P
    BY <1>2, <1>5, <1>7, <1>8 DEF P
  <2>2. S = PlaceMonster(RemoveMonster(U, U.mon[m].mx), m, W.you.at)
    BY <1>1, <2>1 DEF x
  <2> HIDE DEF P
  <2> QED BY <1>2, <1>7, <1>9, <2>1, <2>2, MapMoved
<1>11. /\ Mapped(S, P) /\ S.you = y /\ Moved(U, S, {m})
       /\ S.grid[x] = IF x = W.you.at THEN m ELSE NoMon
  <2>1. P \cup {m} = P
    OBVIOUS
  <2> HIDE DEF P
  <2> QED BY <1>2, <1>7, <1>10, <2>1 DEF MovedTo
<1>12. x # W.you.at
  BY <1>2
<1> DEFINE T == {W.you.usteed, m}
<1>13. Moved(W, S, T) /\ Local(S) = Local(W)
  <2>1. Moved(W, U, T)
    BY <1>4, <1>7, MovedTwice
  <2>2. Moved(W, S, T)
    BY <1>11, <2>1, MovedTwice
  <2> QED BY <2>2 DEF Moved, Elsewhere, Local
<1>14. Rides(S, {}) /\ Held(S, P) /\ Clear(S)
  <2>1. W.you.usteed # NoMon => S.mon[W.you.usteed] = V.mon[W.you.usteed]
    BY <1>2, <1>7, <1>11 DEF Moved
  <2>2. W.you.usteed # NoMon => V.mon[W.you.usteed].alive
    BY <1>2, <1>4 DEF Moved, Kin
  <2> QED BY <1>2, <1>4, <1>5, <1>11, <1>12, <1>13, <2>1, <2>2 DEF Rides, Held, Clear
<1>15. Stands(S, {}, P) /\ SameTurn(W, S) /\ S.you.usteed = W.you.usteed
  BY <1>5, <1>11, <1>14 DEF Stands, SameTurn
<1>16. T \ {NoMon} \subseteq Local(W)
  BY <1>2
<1> HIDE DEF T
<1>17. Follows(W, S, {}, E, B) /\ Local(S) = Local(W)
  BY <1>2, <1>13, <1>14, <1>15, <1>16, MovedGood
<1>18. m \in Afoot(S)
  <2>1. S.mon[m].alive
    <3>1. U.mon[m].alive
      BY <1>2, <1>8
    <3> QED BY <1>2, <1>11, <3>1 DEF Moved, Kin
  <2> QED BY <1>2, <1>15, <1>17, <2>1 DEF Afoot
<1> QED BY <1>5, <1>11, <1>17, <1>18

(***************************************************************************)
(* Monsters that hold, engulf and gulp.                                    *)
(***************************************************************************)
LEMMA HoldGood ==
    ASSUME NEW W, NEW E, NEW B, Good(W, E, B), NEW m \in Afoot(W), W.you.ustuck = NoMon,
           NEW V, V = [W EXCEPT !.you.ustuck = m]
    PROVE  Follows(W, V, {}, E, B) /\ Local(V) = Local(W)
<1> DEFINE y == [W.you EXCEPT !.ustuck = m]
<1>1. /\ W \in Worlds /\ Books(W, {}, E, B) /\ Stands(W, {}, Afoot(W)) /\ Clear(W)
      /\ m \in MonId /\ W.you \in You
  BY GoodParts, GoodIds
<1>2. /\ y \in You /\ y.at = W.you.at /\ y.ustuck = m /\ y.uswallow = W.you.uswallow
      /\ y.usteed = W.you.usteed /\ y.utolev = W.you.utolev /\ y.movement = W.you.movement
  BY <1>1, YouStuck
<1>3. IsHeroChanged(W, V, y)
  <2>1. V = [W EXCEPT !.you = y]
    OBVIOUS
  <2> HIDE DEF y
  <2> QED BY <1>1, <1>2, <2>1, HeroChanged
<1> HIDE DEF y
<1>4. V.grid = W.grid /\ V.mon = W.mon /\ V.you = y /\ Moved(W, V, {}) /\ Local(V) = Local(W)
  BY <1>3 DEF IsHeroChanged, Elsewhere, Local
<1>5. Stands(V, {}, Afoot(W)) /\ Clear(V)
  BY <1>1, <1>2, <1>4 DEF Stands, Mapped, Rides, Held, Clear
<1>6. V.you.usteed = W.you.usteed /\ SameTurn(W, V)
  BY <1>2, <1>4 DEF SameTurn
<1>7. Moved(W, V, {m}) /\ {m} \ {NoMon} \subseteq Local(W)
  BY <1>4 DEF Moved, Afoot
<1> QED BY <1>1, <1>4, <1>5, <1>6, <1>7, MovedGood

\* The hero, on foot, is swallowed.
LEMMA EngulfGood ==
    ASSUME NEW W, NEW E, NEW B, Good(W, E, B), NEW m \in Afoot(W), ~W.you.uswallow,
           W.you.usteed = NoMon, NEW have_spot, NEW V, V = GulpMU(W, m, have_spot)
    PROVE  Follows(W, V, {}, E, B) /\ Local(V) = Local(W)
<1> DEFINE at == W.you.at
           W1 == PlaceMonster(RemoveMonster(W, W.mon[m].mx), m, at)
           y1 == [W1.you EXCEPT !.ustuck = m]
           W2 == [W1 EXCEPT !.you.ustuck = m]
           f  == [n \in MonId |-> [W2.mon[n] EXCEPT !.mleashed = FALSE]]
           W3 == [W2 EXCEPT !.mon = f]
           y3 == [W3.you EXCEPT !.uswallow = TRUE]
           P  == Afoot(W)
<1>1. /\ W \in Worlds /\ Books(W, {}, E, B) /\ Stands(W, {}, P) /\ Clear(W)
      /\ m \in MonId /\ m # NoMon /\ W.you \in You /\ at \in Square /\ W.grid[at] = NoMon
      /\ m \in Local(W) /\ W.mon[m].alive /\ Local(W) \in SUBSET MonId /\ m # W.you.usteed
  BY GoodParts, GoodIds DEF Clear
<1>2. V = [W3 EXCEPT !.you = y3]
  <2>1. V = [UnleashAll(W2) EXCEPT !.you.uswallow = TRUE]
    BY DEF GulpMU
  <2> QED BY <2>1 DEF UnleashAll
<1>3. /\ Mapped(W1, P) /\ W1.you = W.you /\ Moved(W, W1, {m}) /\ W1 \in Worlds
      /\ W1.grid[at] = m
  <2>1. W1 = PlaceMonster(RemoveMonster(W, W.mon[m].mx), m, at)
    OBVIOUS
  <2> HIDE DEF W1, at
  <2>2. MovedTo(W, W1, P, m, at)
    BY <1>1, <2>1, MapMoved DEF Stands
  <2>3. P \cup {m} = P
    OBVIOUS
  <2> HIDE DEF P
  <2> QED BY <1>1, <2>2, <2>3 DEF MovedTo, Moved
<1>4. W2 = [W1 EXCEPT !.you = y1]
  OBVIOUS
<1> HIDE DEF W1, W2
<1>5. /\ y1 \in You /\ y1.at = at /\ y1.ustuck = m /\ y1.uswallow = W.you.uswallow
      /\ y1.usteed = NoMon /\ y1.utolev = W.you.utolev /\ y1.movement = W.you.movement
  BY <1>1, <1>3, YouStuck
<1> HIDE DEF y1
<1>6. IsHeroChanged(W1, W2, y1)
  BY <1>3, <1>4, <1>5, HeroChanged
<1>7. W2 \in Worlds /\ W2.grid = W1.grid /\ W2.mon = W1.mon /\ W2.you = y1 /\ Moved(W1, W2, {})
  BY <1>6 DEF IsHeroChanged
<1>8. /\ f \in [MonId -> Monst]
      /\ \A n \in MonId : /\ f[n].mleashed = FALSE /\ f[n].alive = W2.mon[n].alive
                          /\ f[n].data = W2.mon[n].data /\ f[n].mx = W2.mon[n].mx
                          /\ ~W2.mon[n].mleashed => f[n] = W2.mon[n]
  <2>1. \A n \in MonId : W2.mon[n] \in Monst
    BY <1>7, Parts
  <2>2. \A n \in MonId : [W2.mon[n] EXCEPT !.mleashed = FALSE] \in Monst
    BY <2>1, MonstSet
  <2>3. \A r \in Monst :
           LET s == [r EXCEPT !.mleashed = FALSE]
           IN  /\ s.mleashed = FALSE /\ s.alive = r.alive /\ s.data = r.data /\ s.mx = r.mx
               /\ ~r.mleashed => s = r
    BY DEF Monst
  <2>4. \A n \in MonId : f[n] = [W2.mon[n] EXCEPT !.mleashed = FALSE]
    OBVIOUS
  <2>5. f \in [MonId -> Monst]
    BY <2>2
  <2> HIDE DEF f
  <2>6. ASSUME NEW n \in MonId
        PROVE  /\ f[n].mleashed = FALSE /\ f[n].alive = W2.mon[n].alive
               /\ f[n].data = W2.mon[n].data /\ f[n].mx = W2.mon[n].mx
               /\ ~W2.mon[n].mleashed => f[n] = W2.mon[n]
    <3> DEFINE r == W2.mon[n]
    <3>1. r \in Monst /\ f[n] = [r EXCEPT !.mleashed = FALSE]
      BY <2>1, <2>4
    <3> HIDE DEF r
    <3>2. /\ f[n].mleashed = FALSE /\ f[n].alive = r.alive /\ f[n].data = r.data /\ f[n].mx = r.mx
          /\ ~r.mleashed => f[n] = r
      BY <2>3, <3>1
    <3> QED BY <3>2 DEF r
  <2> QED BY <2>5, <2>6
<1> HIDE DEF f
<1>9. IsMonChanged(W2, W3, f)
  <2>1. W3 = [W2 EXCEPT !.mon = f]
    OBVIOUS
  <2> HIDE DEF W3
  <2> QED BY <1>7, <1>8, <2>1, MonChanged
<1> HIDE DEF W3
<1>10. /\ W3 \in Worlds /\ W3.grid = W1.grid /\ W3.mon = f /\ W3.you = y1
       /\ Elsewhere(W1, W3)
  BY <1>7, <1>9 DEF IsMonChanged, Elsewhere, Moved
<1>11. /\ y3 \in You /\ y3.at = at /\ y3.ustuck = m /\ y3.uswallow = TRUE
       /\ y3.usteed = NoMon /\ y3.utolev = W.you.utolev /\ y3.movement = W.you.movement
  <2>1. y1 \in You /\ y3 = [y1 EXCEPT !.uswallow = TRUE]
    BY <1>5, <1>10
  <2> HIDE DEF y3
  <2>2. /\ y3 \in You /\ y3.at = y1.at /\ y3.ustuck = y1.ustuck /\ y3.uswallow = TRUE
        /\ y3.usteed = y1.usteed /\ y3.utolev = y1.utolev /\ y3.movement = y1.movement
    BY ONLY <2>1, YouSwallow
  <2> QED BY <1>5, <2>2
<1> HIDE DEF y3
<1>12. IsHeroChanged(W3, V, y3)
  BY <1>2, <1>10, <1>11, HeroChanged
<1>13. /\ V \in Worlds /\ V.grid = W1.grid /\ V.mon = f /\ V.you = y3 /\ Elsewhere(W, V)
  BY <1>3, <1>10, <1>12 DEF IsHeroChanged, Elsewhere, Moved
\* The books, of W and then of V.
<1>14. Books(W1, {}, E, B) /\ Local(W1) = Local(W)
  <2>1. {m} \subseteq Local(W) \cup {}
    BY <1>1
  <2> QED BY <1>1, <1>3, <2>1, MovedBooks
<1>15. Local(V) = Local(W1) /\ Moving(V) = Moving(W1)
  BY <1>3, <1>13 DEF Local, Moving, Elsewhere, Moved
<1>16. /\ V.light = W1.light /\ V.purge = W1.purge /\ V.fmon = W1.fmon
       /\ V.migrating_mons = W1.migrating_mons
  BY <1>3, <1>13 DEF Elsewhere, Moved
<1>17. \A n \in MonId : /\ V.mon[n].mleashed = FALSE /\ V.mon[n].alive = W1.mon[n].alive
                        /\ V.mon[n].data = W1.mon[n].data /\ V.mon[n].mx = W1.mon[n].mx
                        /\ ~W1.mon[n].mleashed => V.mon[n] = W1.mon[n]
  BY <1>7, <1>8, <1>13
<1>18. Living(V) = Living(W1) /\ Dead(V) = Dead(W1)
  BY <1>1, <1>14, <1>15, <1>17 DEF Living, Dead
<1>19. ASSUME NEW n \in MonId PROVE Accounted(V, {}, E, B, n)
  <2>1. Accounted(W1, {}, E, B, n)
    BY <1>14 DEF Books
  <2>2. n \notin Local(W1) \cup {} => ~W1.mon[n].mleashed
    BY <2>1 DEF Accounted
  <2>3. n \notin Local(W1) => V.mon[n] = W1.mon[n]
    BY <1>17, <2>2
  <2>4. V.light[n] = Glow01(V, n, E)
    BY <1>16, <1>17, <2>1 DEF Accounted, Glow01
  <2>5. Local(W1) \cap Moving(W1) = {} /\ Local(W1) \cap E = {}
    BY <1>14 DEF Books, Apart
  <2> QED BY <1>15, <1>17, <2>1, <2>3, <2>4, <2>5 DEF Accounted
<1>20. Apart(V, {}, E)
  BY <1>14, <1>15, <1>16 DEF Books, Apart
<1>21. Books(V, {}, E, B)
  BY <1>13, <1>14, <1>16, <1>18, <1>19, <1>20 DEF Books
<1>22. Mapped(V, P) /\ P \subseteq MonId
  BY <1>1, <1>3, <1>13, <1>17 DEF Mapped, Afoot
<1>23. Afoot(V) = P
  <2>1. \A n \in MonId : V.mon[n].alive = W.mon[n].alive
    BY <1>3, <1>17 DEF Moved, Kin
  <2> QED BY <1>1, <1>11, <1>13, <1>14, <1>15, <2>1 DEF Afoot
<1>24. Rides(V, {}) /\ Held(V, P) /\ Clear(V)
  BY <1>1, <1>3, <1>11, <1>13, <1>17 DEF Rides, Held, Clear
<1> QED BY <1>11, <1>13, <1>14, <1>15, <1>21, <1>22, <1>23, <1>24
    DEF Follows, Good, SameTurn, Elsewhere

(***************************************************************************)
(* gulpmm: one monster enters the square of another.                       *)
(***************************************************************************)
\* The map is right but for square x.
AllBut(V, Q, x) ==
    /\ Q \subseteq MonId
    /\ \A y \in Square : y # x /\ V.grid[y] # NoMon => V.grid[y] \in Q /\ V.mon[V.grid[y]].mx = y
    /\ \A n \in Q : V.mon[n].mx \in Square /\ V.mon[n].mx # x /\ V.grid[V.mon[n].mx] = n

LEMMA AllButDied ==
    ASSUME NEW V, NEW D, NEW Q, NEW x \in Square, AllBut(V, Q, x), NEW m \in MonId, m \notin Q,
           V.mon[m].mx = x, Died(V, D, m)
    PROVE  Mapped(D, Q) /\ D.grid[x] = NoMon
<1>1. NoMon \notin MonId
  BY PlaceAssumption
<1>2. /\ \A n \in Q : n \in MonId /\ D.mon[n] = V.mon[n]
      /\ \A y \in Square : D.grid[y] = IF y = x THEN NoMon ELSE V.grid[y]
  BY DEF Died, AllBut
<1> QED BY <1>1, <1>2 DEF AllBut, Mapped

LEMMA AllButPut ==
    ASSUME NEW V, NEW D, NEW Q, NEW x \in Square, AllBut(V, Q, x), NEW m \in MonId, m \notin Q,
           Put(V, D, m, x)
    PROVE  Mapped(D, Q \cup {m})
<1>1. NoMon \notin MonId
  BY PlaceAssumption
<1>2. /\ \A n \in Q : n \in MonId /\ D.mon[n] = V.mon[n]
      /\ \A y \in Square : D.grid[y] = IF y = x THEN m ELSE V.grid[y]
      /\ D.mon[m].mx = x
  BY DEF Put, Moved, AllBut
<1>3. ASSUME NEW y \in Square, D.grid[y] # NoMon
      PROVE  D.grid[y] \in Q \cup {m} /\ D.mon[D.grid[y]].mx = y
  BY <1>1, <1>2, <1>3 DEF AllBut
<1>4. ASSUME NEW n \in Q \cup {m} PROVE D.mon[n].mx \in Square /\ D.grid[D.mon[n].mx] = n
  BY <1>1, <1>2 DEF AllBut
<1> QED BY <1>2, <1>3, <1>4 DEF AllBut, Mapped

\* a is in the square of d, and d is not on the map.
Entered(W, V, a, d) ==
    /\ V \in Worlds /\ V.you = W.you /\ Moved(W, V, {a})
    /\ V.mon[a].mx = W.mon[d].mx /\ V.mon[d].mx = W.mon[d].mx
    /\ AllBut(V, Afoot(W) \ {a, d}, W.mon[d].mx)
    /\ V.grid[W.you.at] = W.grid[W.you.at]
    /\ W.you.at \notin {W.mon[a].mx, W.mon[d].mx}

LEMMA Enters ==
    ASSUME NEW W, NEW E, NEW B, Good(W, E, B), NEW a \in Afoot(W), NEW d \in Afoot(W), a # d,
           ~Carries(W, a), ~Carries(W, d),
           NEW V, V = PlaceMonster(RemoveMonster(W, W.mon[a].mx), a, W.mon[d].mx)
    PROVE  Entered(W, V, a, d)
<1> DEFINE ax == W.mon[a].mx
           dx == W.mon[d].mx
           U  == RemoveMonster(W, ax)
           Q  == Afoot(W) \ {a, d}
<1>1. V = PlaceMonster(U, a, dx)
  OBVIOUS
<1>2. /\ W \in Worlds /\ Stands(W, {}, Afoot(W)) /\ Clear(W) /\ NoMon \notin MonId
      /\ a \in MonId /\ d \in MonId /\ W.you.at \in Square /\ a # W.you.usteed /\ W.mon[a].alive
  BY GoodParts, GoodIds
<1>3. ax \in Square /\ dx \in Square /\ W.grid[ax] = a /\ W.grid[dx] = d
  BY <1>2 DEF Stands, Mapped
<1>4. ax # dx
  BY <1>3
<1>5. W.you.at # ax /\ W.you.at # dx
  BY <1>2, <1>3 DEF Clear, Carries
<1> HIDE DEF ax, dx
<1>6. /\ Moved(W, U, {}) /\ U.mon = W.mon /\ U.you = W.you /\ U \in Worlds
      /\ \A y \in Square : U.grid[y] = IF y = ax THEN NoMon ELSE W.grid[y]
  <2>1. U = RemoveMonster(W, ax)
    OBVIOUS
  <2> HIDE DEF U
  <2>2. Moved(W, U, {}) /\ U.mon = W.mon /\ U.you = W.you
        /\ \A y \in Square : U.grid[y] = IF y = ax THEN NoMon ELSE W.grid[y]
    BY <1>2, <1>3, <2>1, Removed
  <2> QED BY <2>2 DEF Moved
<1> HIDE DEF U
<1>7. Put(U, V, a, dx)
  BY <1>1, <1>2, <1>3, <1>6, Placed
<1>8. /\ Moved(W, V, {a}) /\ V.you = W.you /\ V.mon[a].mx = dx /\ V \in Worlds
      /\ \A y \in Square : V.grid[y] = IF y = dx THEN a ELSE IF y = ax THEN NoMon ELSE W.grid[y]
      /\ \A n \in MonId : n # a => V.mon[n] = W.mon[n]
  <2>1. Moved(U, V, {a}) /\ V.you = W.you /\ V.mon[a].mx = dx
    BY <1>6, <1>7 DEF Put
  <2>2. Moved(W, V, {a})
    BY <1>6, <2>1, MovedTwice
  <2>3. \A y \in Square : V.grid[y] = IF y = dx THEN a ELSE IF y = ax THEN NoMon ELSE W.grid[y]
    BY <1>6, <1>7 DEF Put
  <2> QED BY <2>1, <2>2, <2>3 DEF Moved
<1>9. AllBut(V, Q, dx)
  <2>1. Afoot(W) \subseteq MonId
    BY <1>2 DEF Stands, Mapped
  <2>2. ASSUME NEW y \in Square, y # dx, V.grid[y] # NoMon
        PROVE  V.grid[y] \in Q /\ V.mon[V.grid[y]].mx = y
    <3>1. y # ax /\ V.grid[y] = W.grid[y]
      BY <1>8, <2>2
    <3>2. W.grid[y] \in Afoot(W) /\ W.mon[W.grid[y]].mx = y
      BY <1>2, <2>2, <3>1 DEF Stands, Mapped
    <3> QED BY <1>8, <2>1, <2>2, <3>1, <3>2 DEF ax, dx
  <2>3. ASSUME NEW n \in Q PROVE V.mon[n].mx \in Square /\ V.mon[n].mx # dx /\ V.grid[V.mon[n].mx] = n
    <3>1. n \in MonId /\ W.mon[n].mx \in Square /\ W.grid[W.mon[n].mx] = n
      BY <1>2, <2>1 DEF Stands, Mapped
    <3>2. W.mon[n].mx # ax /\ W.mon[n].mx # dx /\ V.mon[n] = W.mon[n]
      BY <1>3, <1>8, <3>1
    <3> QED BY <1>8, <3>1, <3>2
  <2> QED BY <2>1, <2>2, <2>3 DEF AllBut
<1> QED BY <1>2, <1>5, <1>8, <1>9 DEF Entered, ax, dx

\* After Enters, one of the two, p, dies: the square is free.
\* Of the two monsters on one square, p has died.
OneGulped(W, D, E, B, a, d, p) ==
    /\ Books(D, {}, E, B) /\ Local(D) = Local(W)
    /\ Rides(D, {}) /\ Held(D, Afoot(W) \ {p}) /\ Clear(D)
    /\ Mapped(D, Afoot(W) \ {a, d}) /\ D.grid[W.mon[d].mx] = NoMon
    /\ SameTurn(W, D) /\ D.mydogs = W.mydogs /\ D.you.at = W.you.at
    /\ D.you.usteed = W.you.usteed /\ W.mon[d].mx # W.you.at
    /\ \A n \in MonId : n # p => D.mon[n].alive = W.mon[n].alive
    /\ ~D.mon[p].alive
    /\ \A n \in {a, d} : D.mon[n].mx = W.mon[d].mx

LEMMA GulpDies ==
    ASSUME NEW W, NEW E, NEW B, Good(W, E, B), NEW a \in Afoot(W), NEW d \in Afoot(W), a # d,
           ~Carries(W, a), ~Carries(W, d), NEW V, Entered(W, V, a, d), NEW p \in {a, d},
           NEW D, D = MonDead(V, p)
    PROVE  OneGulped(W, D, E, B, a, d, p)
<1> DEFINE dx == W.mon[d].mx
           P  == Afoot(W)
           Q  == P \ {a, d}
<1>1. /\ W \in Worlds /\ Books(W, {}, E, B) /\ Stands(W, {}, P) /\ Clear(W) /\ NoMon \notin MonId
      /\ a \in MonId /\ d \in MonId /\ W.you.at \in Square /\ p # W.you.usteed /\ W.mon[p].alive
      /\ a \in Local(W) /\ d \in Local(W)
  BY GoodParts, GoodIds
<1>2. /\ V \in Worlds /\ V.you = W.you /\ Moved(W, V, {a}) /\ V.mon[p].mx = dx
      /\ AllBut(V, Q, dx) /\ V.grid[W.you.at] = W.grid[W.you.at] /\ W.you.at # dx
  BY DEF Entered
<1>3. Books(V, {}, E, B) /\ Local(V) = Local(W)
  <2>1. {a} \subseteq Local(W) \cup {}
    BY <1>1
  <2> QED BY <1>1, <1>2, <2>1, MovedBooks
<1>4. /\ \A n \in MonId : V.mon[n].alive = W.mon[n].alive /\ V.mon[n].mleashed = W.mon[n].mleashed
      /\ \A n \in MonId : n # a => V.mon[n] = W.mon[n]
  BY <1>2 DEF Moved, Kin
<1>5. Died(V, D, p)
  <2>1. p \in Local(V) /\ V.mon[p].alive /\ (Carries(V, p) => V.mon[p].mx = V.you.at)
    BY <1>1, <1>2, <1>3, <1>4 DEF Carries
  <2> QED BY <1>3, <2>1, MonDeadDoes
<1>6. Books(D, {}, E, B) /\ Local(D) = Local(W)
  <2>1. p \in Local(V) /\ V.mon[p].alive
    BY <1>1, <1>3, <1>4
  <2> QED BY <1>3, <1>5, <2>1, DiedBooks
<1>7. Rides(V, {}) /\ Held(V, P)
  <2>1. W.you.usteed \in MonId \cup {NoMon} /\ W.you.usteed # a
    BY <1>1, GoodParts
  <2> QED BY <1>1, <1>2, <1>3, <1>4, <2>1 DEF Rides, Held, Stands
<1>8. Rides(D, {}) /\ Held(D, P \ {p})
  <2>1. p \in Local(V)
    BY <1>1, <1>3
  <2> HIDE DEF P
  <2> QED BY <1>2, <1>5, <1>7, <2>1, DiedHero
<1>9. Mapped(D, Q) /\ D.grid[dx] = NoMon
  <2>1. p \notin Q /\ p \in MonId
    BY <1>1
  <2>2. dx \in Square
    BY <1>1 DEF Stands, Mapped
  <2> HIDE DEF Q, dx
  <2> QED BY <1>2, <1>5, <2>1, <2>2, AllButDied
<1>10. /\ D.you.at = W.you.at /\ D.you.usteed = W.you.usteed /\ SameTurn(W, D)
       /\ D.mydogs = W.mydogs /\ D.grid[W.you.at] = W.grid[W.you.at]
       /\ D.you.uswallow = W.you.uswallow
       /\ W.you.uswallow => D.you.ustuck = W.you.ustuck
  <2>1. W.you.uswallow => W.you.ustuck # p
    BY DEF Carries
  <2>2. W.you.uswallow \in BOOLEAN
    BY <1>1, GoodIds, YouParts
  <2>3. /\ D.you.at = V.you.at /\ SameTurn(V, D) /\ D.mydogs = V.mydogs
        /\ D.you.usteed = IF V.you.usteed = p THEN NoMon ELSE V.you.usteed
        /\ D.grid[W.you.at] = IF W.you.at = V.mon[p].mx THEN NoMon ELSE V.grid[W.you.at]
        /\ IF V.you.ustuck = p THEN D.you.ustuck = NoMon /\ D.you.uswallow = FALSE
           ELSE D.you.ustuck = V.you.ustuck /\ D.you.uswallow = V.you.uswallow
    BY <1>1, <1>5 DEF Died
  <2>4. V.mydogs = W.mydogs
    BY <1>2 DEF Moved, Elsewhere
  <2>5. D.you.usteed = W.you.usteed /\ D.grid[W.you.at] = W.grid[W.you.at]
    BY <1>1, <1>2, <2>3
  <2>6. CASE W.you.ustuck = p
    BY <1>2, <2>1, <2>2, <2>3, <2>4, <2>5, <2>6 DEF SameTurn
  <2>7. CASE W.you.ustuck # p
    BY <1>2, <2>1, <2>2, <2>3, <2>4, <2>5, <2>7 DEF SameTurn
  <2> QED BY <2>6, <2>7
<1>11. Clear(D)
  BY <1>1, <1>10 DEF Clear
<1>12. /\ \A n \in MonId : n # p => D.mon[n].alive = W.mon[n].alive
       /\ \A n \in {a, d} : D.mon[n].mx = dx
  <2>1. \A n \in MonId : n # p => D.mon[n] = V.mon[n]
    BY <1>5 DEF Died
  <2>2. D.mon[p].mx = V.mon[p].mx /\ V.mon[a].mx = dx /\ V.mon[d].mx = dx
    BY <1>5 DEF Died, Entered
  <2> QED BY <1>1, <1>4, <2>1, <2>2
<1>13. ~D.mon[p].alive
  BY <1>5 DEF Died
<1> QED BY <1>2, <1>6, <1>8, <1>9, <1>10, <1>11, <1>12, <1>13 DEF OneGulped

LEMMA GulpMMGood ==
    ASSUME NEW W, NEW E, NEW B, Good(W, E, B), NEW a \in Afoot(W), NEW d \in Afoot(W), a # d,
           ~Carries(W, a), ~Carries(W, d), NEW died \in SUBSET {a, d},
           NEW X, X = GulpMM(W, a, d, died)
    PROVE  Follows(W, X, {}, E, B) /\ Local(X) = Local(W)
<1> DEFINE dx == W.mon[d].mx
           ax == W.mon[a].mx
           P  == Afoot(W)
           Q  == P \ {a, d}
           V  == PlaceMonster(RemoveMonster(W, ax), a, dx)
<1>1. /\ W \in Worlds /\ Books(W, {}, E, B) /\ Stands(W, {}, P) /\ Clear(W) /\ NoMon \notin MonId
      /\ a \in MonId /\ d \in MonId /\ W.you.at \in Square /\ a # W.you.usteed
      /\ d # W.you.usteed /\ W.mon[a].alive /\ W.mon[d].alive
      /\ a \in Local(W) /\ d \in Local(W) /\ Local(W) \in SUBSET MonId
  BY GoodParts, GoodIds
<1>2. ax \in Square /\ dx \in Square /\ P \subseteq MonId
  BY <1>1 DEF Stands, Mapped
<1>3. Entered(W, V, a, d)
  <2>1. V = PlaceMonster(RemoveMonster(W, W.mon[a].mx), a, W.mon[d].mx)
    OBVIOUS
  <2> HIDE DEF V
  <2> QED BY <2>1, Enters
<1>4. /\ died = {a, d} => X = MonDead(MonDead(V, d), a)
      /\ died = {d} => X = PlaceMonster(MonDead(V, d), a, dx)
      /\ died = {a} => X = PlaceMonster(MonDead(V, a), d, dx)
      /\ died = {} => X = PlaceMonster(PlaceMonster(V, a, ax), d, dx)
  <2>1. died # {a, d} \/ died # {d}
    OBVIOUS
  <2> QED BY DEF GulpMM
<1> HIDE DEF V
\* One of the two, p, is dead, and q is left.
<1>5. ASSUME NEW p, NEW q, {p, q} = {a, d}, p # q, X = PlaceMonster(MonDead(V, p), q, dx)
      PROVE  Follows(W, X, {}, E, B) /\ Local(X) = Local(W)
  <2> DEFINE D == MonDead(V, p)
  <2>1. /\ Books(D, {}, E, B) /\ Local(D) = Local(W)
        /\ Rides(D, {}) /\ Held(D, P \ {p}) /\ Clear(D)
        /\ Mapped(D, Q) /\ D.grid[dx] = NoMon
        /\ SameTurn(W, D) /\ D.mydogs = W.mydogs /\ D.you.at = W.you.at
        /\ D.you.usteed = W.you.usteed /\ dx # W.you.at
        /\ \A n \in MonId : n # p => D.mon[n].alive = W.mon[n].alive
        /\ ~D.mon[p].alive
    <3>1. p \in {a, d} /\ D = MonDead(V, p)
      BY <1>5
    <3> HIDE DEF D, dx, P, Q
    <3>2. OneGulped(W, D, E, B, a, d, p)
      BY <1>3, <3>1, GulpDies
    <3> QED BY <3>2 DEF OneGulped, dx, P, Q
  <2>2. X = PlaceMonster(D, q, dx)
    BY <1>5
  <2> HIDE DEF D
  <2>3. /\ q \in MonId /\ q \notin Q /\ q # D.you.usteed /\ D.mon[q].alive /\ D \in Worlds
        /\ Q \cup {q} = P \ {p} /\ q \in Local(W) /\ ~D.mon[p].alive /\ p \in MonId
    <3>1. q \in {a, d} /\ p \in {a, d}
      BY <1>5
    <3>2. Q \cup {q} = P \ {p}
      BY <1>5
    <3>3. D \in Worlds
      BY <2>1 DEF Books
    <3> HIDE DEF D, dx
    <3> QED BY <1>1, <1>5, <2>1, <3>1, <3>2, <3>3
  <2> HIDE DEF Q, P, dx
  <2>4. PutOn(D, X, Q, q, dx)
    BY <1>2, <2>1, <2>2, <2>3, MapPlaced
  <2>5. Moved(D, X, {q}) /\ X.you = D.you /\ Mapped(X, P \ {p})
        /\ X.grid[W.you.at] = D.grid[W.you.at]
    BY <1>1, <2>1, <2>3, <2>4 DEF PutOn, Put
  <2>6. Books(X, {}, E, B) /\ Local(X) = Local(W)
    <3>1. {q} \subseteq Local(D) \cup {}
      BY <2>1, <2>3
    <3> QED BY <2>1, <2>5, <3>1, MovedBooks
  <2>7. \A n \in MonId : /\ X.mon[n].alive = D.mon[n].alive /\ X.mon[n].mleashed = D.mon[n].mleashed
                         /\ n # q => X.mon[n] = D.mon[n]
    BY <2>5 DEF Moved, Kin
  <2>8. Afoot(X) = P \ {p}
    BY <1>1, <2>1, <2>3, <2>5, <2>6, <2>7 DEF Afoot, P
  <2>9. Rides(X, {}) /\ Held(X, P \ {p}) /\ Clear(X)
    <3>1. D.you.usteed \in MonId \cup {NoMon}
      BY <2>3, Parts, YouParts
    <3> QED BY <2>1, <2>3, <2>5, <2>6, <2>7, <3>1 DEF Rides, Held, Clear
  <2>10. X.mydogs = W.mydogs /\ SameTurn(W, X)
    BY <2>1, <2>5 DEF Moved, Elsewhere, SameTurn
  <2> QED BY <2>5, <2>6, <2>8, <2>9, <2>10 DEF Follows, Good
<1>6. CASE died = {d}
  <2>1. {d, a} = {a, d} /\ X = PlaceMonster(MonDead(V, d), a, dx)
    BY <1>4, <1>6
  <2> HIDE DEF dx
  <2> QED BY <1>5, <2>1
<1>7. CASE died = {a}
  <2>1. X = PlaceMonster(MonDead(V, a), d, dx)
    BY <1>4, <1>7
  <2> HIDE DEF dx
  <2> QED BY <1>5, <2>1
<1>8. CASE died = {a, d}
  <2> DEFINE D == MonDead(V, d)
  <2>1. /\ Books(D, {}, E, B) /\ Local(D) = Local(W)
        /\ Rides(D, {}) /\ Held(D, P \ {d}) /\ Clear(D)
        /\ Mapped(D, Q) /\ D.grid[dx] = NoMon
        /\ SameTurn(W, D) /\ D.mydogs = W.mydogs /\ D.you.at = W.you.at
        /\ D.you.usteed = W.you.usteed /\ dx # W.you.at
        /\ \A n \in MonId : n # d => D.mon[n].alive = W.mon[n].alive
        /\ D.mon[a].mx = dx /\ ~D.mon[d].alive
    <3>1. D = MonDead(V, d) /\ d \in {a, d}
      OBVIOUS
    <3> HIDE DEF D, dx, P, Q
    <3>2. OneGulped(W, D, E, B, a, d, d)
      BY <1>3, <3>1, GulpDies
    <3> QED BY <3>2 DEF OneGulped, dx, P, Q
  <2>2. X = MonDead(D, a)
    BY <1>4, <1>8
  <2> HIDE DEF D
  <2>3. /\ a \in Local(D) /\ D.mon[a].alive /\ D \in Worlds /\ ~D.mon[d].alive
        /\ D.you.ustuck = a => ~D.you.uswallow
    <3>1. D \in Worlds
      BY <2>1 DEF Books
    \* The hero's square is empty or holds the engulfer, and a is elsewhere.
    <3>2. D.you.uswallow /\ D.you.ustuck = a => D.grid[D.you.at] = a
      BY <2>1 DEF Clear
    <3>3. a \notin Q
      OBVIOUS
    <3>4. D.grid[W.you.at] # a
      BY <1>1, <2>1, <3>3 DEF Mapped
    <3> QED BY <1>1, <2>1, <3>1, <3>2, <3>4
  <2>4. Died(D, X, a)
    BY <2>1, <2>2, <2>3, MonDeadDoes DEF Carries
  <2>5. Books(X, {}, E, B) /\ Local(X) = Local(W)
    BY <2>1, <2>3, <2>4, DiedBooks
  <2>6. Mapped(X, Q)
    <3>1. Q \ {a} = Q
      OBVIOUS
    <3>2. \A x \in Square : x = D.mon[a].mx => D.grid[x] = NoMon
      BY <2>1
    <3> HIDE DEF Q, dx, P
    <3>3. Mapped(X, Q \ {a})
      BY <1>1, <2>1, <2>4, <3>2, DiedMap
    <3> QED BY <3>1, <3>3
  <2>7. Rides(X, {}) /\ Held(X, Q)
    <3>1. Q = (P \ {d}) \ {a}
      OBVIOUS
    <3> HIDE DEF Q, dx, P
    <3>2. Rides(X, {}) /\ Held(X, (P \ {d}) \ {a})
      BY <2>1, <2>3, <2>4, DiedHero
    <3> QED BY <3>1, <3>2
  <2>8. /\ X.you.at = W.you.at /\ X.you.usteed = W.you.usteed /\ X.grid[W.you.at] = D.grid[W.you.at]
        /\ X.you.uswallow = D.you.uswallow /\ (D.you.uswallow => X.you.ustuck = D.you.ustuck)
        /\ SameTurn(W, X) /\ X.mydogs = W.mydogs /\ ~X.mon[a].alive
        /\ \A n \in MonId : n # a => X.mon[n] = D.mon[n]
    <3>1. D.you.uswallow \in BOOLEAN
      BY <2>3, Parts, YouParts
    <3>2. /\ X.you.at = D.you.at /\ SameTurn(D, X) /\ X.mydogs = D.mydogs /\ ~X.mon[a].alive
          /\ X.you.usteed = IF D.you.usteed = a THEN NoMon ELSE D.you.usteed
          /\ X.grid[W.you.at] = IF W.you.at = D.mon[a].mx THEN NoMon ELSE D.grid[W.you.at]
          /\ IF D.you.ustuck = a THEN X.you.ustuck = NoMon /\ X.you.uswallow = FALSE
             ELSE X.you.ustuck = D.you.ustuck /\ X.you.uswallow = D.you.uswallow
          /\ \A n \in MonId : n # a => X.mon[n] = D.mon[n]
      BY <1>1, <2>4 DEF Died
    <3> HIDE DEF Q, P, dx
    <3>3. X.you.usteed = W.you.usteed /\ X.grid[W.you.at] = D.grid[W.you.at]
      BY <1>1, <2>1, <3>2
    <3>4. X.you.uswallow = D.you.uswallow /\ (D.you.uswallow => X.you.ustuck = D.you.ustuck)
      <4>1. CASE D.you.ustuck = a
        BY <2>3, <3>1, <3>2, <4>1
      <4>2. CASE D.you.ustuck # a
        BY <3>2, <4>2
      <4> QED BY <4>1, <4>2
    <3> QED BY <2>1, <3>2, <3>3, <3>4 DEF SameTurn
  <2>9. Clear(X)
    BY <2>1, <2>8 DEF Clear
  <2>10. Afoot(X) = Q
    BY <1>1, <2>1, <2>3, <2>5, <2>8 DEF Afoot
  <2> QED BY <2>5, <2>6, <2>7, <2>8, <2>9, <2>10 DEF Follows, Good
<1>9. CASE died = {}
  <2> DEFINE U == PlaceMonster(V, a, ax)
  <2>1. /\ V \in Worlds /\ V.you = W.you /\ Moved(W, V, {a})
        /\ AllBut(V, Q, dx) /\ V.grid[W.you.at] = W.grid[W.you.at] /\ W.you.at # dx
        /\ W.you.at # ax
    BY <1>3 DEF Entered
  <2>2. X = PlaceMonster(U, d, dx)
    BY <1>4, <1>9
  <2>3. Put(V, U, a, ax)
    <3>1. a # V.you.usteed /\ V.mon[a].alive
      BY <1>1, <2>1 DEF Moved, Kin
    <3>2. U = PlaceMonster(V, a, ax)
      OBVIOUS
    <3> HIDE DEF U, ax
    <3> QED BY <1>1, <1>2, <2>1, <3>1, <3>2, Placed
  <2> HIDE DEF U
  <2>4. Moved(W, U, {a}) /\ U.you = W.you /\ U.mon[a].mx = ax /\ U \in Worlds
        /\ \A y \in Square : U.grid[y] = IF y = ax THEN a ELSE V.grid[y]
    <3>1. Moved(V, U, {a}) /\ U.you = V.you /\ U.mon[a].mx = ax
          /\ \A y \in Square : U.grid[y] = IF y = ax THEN a ELSE V.grid[y]
      BY <2>3 DEF Put
    <3>2. Moved(W, U, {a})
      BY <2>1, <3>1, MovedTwice
    <3> QED BY <2>1, <3>1, <3>2 DEF Moved
  <2>5. AllBut(U, Q \cup {a}, dx)
    <3>1. \A n \in Q : n \in MonId /\ U.mon[n] = V.mon[n] /\ n # a
      <4>1. \A n \in MonId : n # a => U.mon[n] = V.mon[n]
        BY <2>3 DEF Put, Moved
      <4>2. \A n \in Q : n \in P /\ n # a
        OBVIOUS
      <4> HIDE DEF Q, P
      <4> QED BY <1>2, <4>1, <4>2
    <3>2. ax # dx
      BY <1>1 DEF Stands, Mapped
    <3>3. \A n \in Q : V.mon[n].mx # ax
      <4>1. \A n \in Q : n \in P /\ n # a /\ V.mon[n] = W.mon[n]
        BY <1>2, <2>1 DEF Moved
      <4> QED BY <1>1, <4>1 DEF Stands, Mapped
    <3> HIDE DEF Q, ax, dx
    <3>4. \A n \in Q : V.mon[n].mx \in Square /\ V.mon[n].mx # dx /\ V.grid[V.mon[n].mx] = n
      BY <2>1 DEF AllBut
    <3>5. \A y \in Square : y # dx /\ V.grid[y] # NoMon => V.grid[y] \in Q /\ V.mon[V.grid[y]].mx = y
      BY <2>1 DEF AllBut
    <3>6. \A y \in Square : y # dx /\ U.grid[y] # NoMon =>
             U.grid[y] \in Q \cup {a} /\ U.mon[U.grid[y]].mx = y
      BY <1>1, <2>4, <3>1, <3>5
    <3>7. \A n \in Q \cup {a} : n \in MonId /\ U.mon[n].mx \in Square /\ U.mon[n].mx # dx
                                /\ U.grid[U.mon[n].mx] = n
      BY <1>1, <1>2, <2>4, <3>1, <3>2, <3>3, <3>4
    <3> QED BY <3>6, <3>7 DEF AllBut
  <2>6. Put(U, X, d, dx)
    <3>1. d # U.you.usteed /\ U.mon[d].alive
      BY <1>1, <2>4 DEF Moved, Kin
    <3> HIDE DEF dx
    <3> QED BY <1>1, <1>2, <2>2, <2>4, <3>1, Placed
  <2>7. Mapped(X, P)
    <3>1. d \notin Q \cup {a} /\ (Q \cup {a}) \cup {d} = P
      OBVIOUS
    <3> HIDE DEF Q, P, dx
    <3>2. Mapped(X, (Q \cup {a}) \cup {d})
      BY <1>1, <1>2, <2>5, <2>6, <3>1, AllButPut
    <3> QED BY <3>1, <3>2
  <2>8. Moved(W, X, {a, d}) /\ X.you = W.you /\ X.grid[W.you.at] = W.grid[W.you.at]
    <3>1. Moved(U, X, {d}) /\ X.you = U.you /\ X.grid[W.you.at] = U.grid[W.you.at]
      BY <1>1, <2>1, <2>6 DEF Put
    <3>2. Moved(W, X, {a, d})
      BY <2>4, <3>1, MovedTwice
    <3> QED BY <1>1, <2>1, <2>4, <3>1, <3>2
  <2>9. Rides(X, {}) /\ Held(X, P) /\ Clear(X)
    <3>1. \A n \in MonId : X.mon[n].mleashed = W.mon[n].mleashed
                           /\ (n \notin {a, d} => X.mon[n] = W.mon[n])
      BY <2>8 DEF Moved, Kin
    <3>2. Local(X) = Local(W)
      BY <2>8 DEF Moved, Elsewhere, Local
    <3>3. W.you.usteed \in MonId \cup {NoMon}
      BY GoodParts
    <3> QED BY <1>1, <2>8, <3>1, <3>2, <3>3 DEF Rides, Held, Clear, Stands
  <2>10. {a, d} \ {NoMon} \subseteq Local(W) /\ Stands(X, {}, P) /\ SameTurn(W, X)
         /\ X.you.usteed = W.you.usteed
    BY <1>1, <2>7, <2>8, <2>9 DEF Stands, SameTurn
  <2> QED BY <1>1, <2>8, <2>9, <2>10, MovedGood
<1>10. died \in {{}, {a}, {d}, {a, d}}
  <2>1. CASE a \in died /\ d \in died
    <3>1. died = {a, d}
      BY <2>1
    <3> QED BY <3>1
  <2>2. CASE a \in died /\ d \notin died
    <3>1. died = {a}
      BY <2>2
    <3> QED BY <3>1
  <2>3. CASE a \notin died /\ d \in died
    <3>1. died = {d}
      BY <2>3
    <3> QED BY <3>1
  <2>4. CASE a \notin died /\ d \notin died
    <3>1. died = {}
      BY <2>4
    <3> QED BY <3>1
  <2> QED BY <2>1, <2>2, <2>3, <2>4
<1> QED BY <1>6, <1>7, <1>8, <1>9, <1>10

(***************************************************************************)
(* keepdogs, and goto_level up to savelev.                                 *)
(***************************************************************************)
\* The monsters of S are in hand, off the list and off the map; the others
\* of the level are unleashed.
Gathered(W, V, S) ==
    /\ V \in Worlds /\ Local(V) = Local(W) \ S /\ Once(V.fmon)
    /\ Range(V.mydogs) = S /\ Once(V.mydogs) /\ V.migrating_mons = W.migrating_mons
    /\ V.light = W.light /\ V.you = W.you /\ V.purge = W.purge
    /\ \A x \in Square : V.grid[x] = IF W.grid[x] \in S THEN NoMon ELSE W.grid[x]
    /\ \A m \in MonId : V.mon[m] = IF m \in S THEN [W.mon[m] EXCEPT !.mx = Nowhere]
                                   ELSE IF m \in Local(W) THEN [W.mon[m] EXCEPT !.mleashed = FALSE]
                                   ELSE W.mon[m]

\* The monsters that keepdogs takes along.
Goes(W, followers) == {m \in Local(W) : W.mon[m].alive /\ m \in followers \cup {W.you.usteed}}

LEMMA KeepDogsDoes ==
    ASSUME NEW W \in Worlds, Once(W.fmon), NEW followers, NEW V, V = KeepDogs(W, followers)
    PROVE  Gathered(W, V, Goes(W, followers))
<1> DEFINE S    == Goes(W, followers)
           stay == Local(W) \ S
           s    == Without(W.fmon, S)
           k    == Without(W.fmon, stay)
           d    == Reverse(k)
           g    == [x \in Square |-> IF W.grid[x] \in S THEN NoMon ELSE W.grid[x]]
           f    == [m \in MonId |-> IF m \in S THEN [W.mon[m] EXCEPT !.mx = Nowhere]
                                    ELSE IF m \in stay THEN [W.mon[m] EXCEPT !.mleashed = FALSE]
                                    ELSE W.mon[m]]
<1>1. V = [W EXCEPT !.fmon = s, !.mydogs = d, !.grid = g, !.mon = f]
  BY DEF KeepDogs, Goes, Local
<1>2. /\ W.fmon \in Seq(MonId) /\ W.mon \in [MonId -> Monst] /\ Local(W) \in SUBSET MonId
      /\ W.grid \in [Square -> MonId \cup {NoMon}]
  BY Parts
<1>3. s \in Seq(MonId) /\ Range(s) = Local(W) \ S /\ Once(s)
  <2> HIDE DEF S
  <2> QED BY <1>2, Unlinked DEF Local
<1>4. d \in Seq(MonId) /\ Range(d) = S /\ Once(d)
  <2>1. Local(W) \ stay = S
    BY DEF Goes
  <2> HIDE DEF stay, S
  <2>2. k \in Seq(MonId) /\ Range(k) = Local(W) \ stay /\ Once(k)
    BY <1>2, Unlinked DEF Local
  <2> HIDE DEF k
  <2> QED BY <2>1, <2>2, Reversed
<1>5. g \in [Square -> MonId \cup {NoMon}]
  BY <1>2
<1>6. f \in [MonId -> Monst]
  <2>1. \A m \in MonId : [W.mon[m] EXCEPT !.mx = Nowhere] \in Monst
    BY <1>2, MonstSet
  <2>2. \A m \in MonId : [W.mon[m] EXCEPT !.mleashed = FALSE] \in Monst
    BY <1>2, MonstSet
  <2> QED BY <1>2, <2>1, <2>2
<1>7. /\ \A x \in Square : g[x] = IF W.grid[x] \in S THEN NoMon ELSE W.grid[x]
      /\ \A m \in MonId : f[m] = IF m \in S THEN [W.mon[m] EXCEPT !.mx = Nowhere]
                                 ELSE IF m \in Local(W) THEN [W.mon[m] EXCEPT !.mleashed = FALSE]
                                 ELSE W.mon[m]
  <2> HIDE DEF S
  <2> QED OBVIOUS
<1> HIDE DEF S, s, d, g, f
<1>8. /\ V \in Worlds /\ V.fmon = s /\ V.mydogs = d /\ V.grid = g /\ V.mon = f
      /\ V.migrating_mons = W.migrating_mons /\ V.light = W.light /\ V.you = W.you
      /\ V.purge = W.purge
  BY <1>1, <1>3, <1>4, <1>5, <1>6 DEF Worlds
<1> QED BY <1>3, <1>4, <1>7, <1>8 DEF Gathered, Local, S

LEMMA MonstOff ==
    ASSUME NEW r \in Monst, NEW s, s = [r EXCEPT !.mx = Nowhere]
    PROVE  /\ s.data = r.data /\ s.alive = r.alive /\ s.mx = Nowhere
           /\ s.mleashed = r.mleashed /\ s.dest = r.dest
BY DEF Monst

LEMMA MonstFree ==
    ASSUME NEW r \in Monst, NEW s, s = [r EXCEPT !.mleashed = FALSE]
    PROVE  /\ s.data = r.data /\ s.alive = r.alive /\ s.mx = r.mx
           /\ s.mleashed = FALSE /\ s.dest = r.dest
BY DEF Monst

LEMMA GatheredBooks ==
    ASSUME NEW W, NEW E, NEW B, Books(W, {}, E, B), NEW S, S \subseteq Living(W) \cap Local(W),
           NEW V, Gathered(W, V, S)
    PROVE  /\ Books(V, S, E, B) /\ Living(V) = Living(W) /\ Dead(V) = Dead(W)
           /\ \A m \in S : V.mon[m].mx = Nowhere /\ V.mon[m].alive
           /\ \A m \in Local(V) : ~V.mon[m].mleashed
           /\ \A m \in MonId : V.mon[m].alive = W.mon[m].alive
           /\ \A m \in MonId : m \notin S => V.mon[m].mx = W.mon[m].mx
<1>1. W \in Worlds /\ Local(W) \in SUBSET MonId /\ W.mon \in [MonId -> Monst]
  BY Parts DEF Books
<1>2. \A m \in S : m \in MonId /\ m \in Local(W) /\ W.mon[m].alive
  BY DEF Living
<1>3. ASSUME NEW m \in MonId
      PROVE  /\ V.mon[m].data = W.mon[m].data /\ V.mon[m].alive = W.mon[m].alive
             /\ m \in S => V.mon[m].mx = Nowhere
             /\ m \notin S => V.mon[m].mx = W.mon[m].mx
             /\ m \notin Local(W) => V.mon[m] = W.mon[m]
             /\ V.mon[m].mleashed => W.mon[m].mleashed
             /\ V.mon[m].mleashed => m \notin Local(W) \ S
  <2>1. W.mon[m] \in Monst
    BY <1>1
  <2>2. CASE m \in S
    <3>1. V.mon[m] = [W.mon[m] EXCEPT !.mx = Nowhere] /\ m \in Local(W)
      BY <1>2, <2>2 DEF Gathered
    <3> QED BY <2>1, <2>2, <3>1, MonstOff
  <2>3. CASE m \notin S /\ m \in Local(W)
    <3>1. V.mon[m] = [W.mon[m] EXCEPT !.mleashed = FALSE]
      BY <2>3 DEF Gathered
    <3> QED BY <2>1, <2>3, <3>1, MonstFree
  <2>4. CASE m \notin S /\ m \notin Local(W)
    <3>1. V.mon[m] = W.mon[m]
      BY <2>4 DEF Gathered
    <3> QED BY <2>4, <3>1
  <2> QED BY <2>2, <2>3, <2>4
<1>4. /\ V \in Worlds /\ Local(V) = Local(W) \ S /\ Once(V.fmon) /\ Once(V.migrating_mons)
      /\ Moving(V) = Moving(W) /\ V.light = W.light /\ V.purge = W.purge
  BY DEF Gathered, Moving, Books, Apart
<1>5. Living(V) = Living(W)
  BY <1>3 DEF Living
<1>6. Dead(V) = Dead(W)
  BY <1>1, <1>2, <1>3, <1>4 DEF Dead
<1>7. Apart(V, S, E)
  BY <1>2, <1>4 DEF Books, Apart
<1>8. ASSUME NEW m \in MonId PROVE Accounted(V, S, E, B, m)
  <2>1. Accounted(W, {}, E, B, m)
    BY DEF Books
  <2>2. CASE m \in Local(W)
    <3>1. m \notin Moving(W) /\ m \notin E
      BY <2>2 DEF Books, Apart
    <3> QED BY <1>2, <1>3, <1>4, <2>1, <2>2, <3>1 DEF Accounted, Glow01
  <2>3. CASE m \notin Local(W)
    <3>1. m \notin S /\ V.mon[m] = W.mon[m]
      BY <1>2, <1>3, <2>3
    <3> QED BY <1>4, <2>1, <2>3, <3>1 DEF Accounted, Glow01
  <2> QED BY <2>2, <2>3
<1> QED BY <1>1, <1>2, <1>3, <1>4, <1>5, <1>6, <1>7, <1>8 DEF Books

\* The hero is about to leave the level: L is what savelev finds.
Leaving(W, L, E, B) ==
    /\ Books(L, Range(L.mydogs), E, B) /\ Once(L.mydogs) /\ Mapped(L, Local(L))
    /\ Dead(L) = {} /\ L.purge = 0 /\ Local(L) \subseteq Local(W)
    /\ L.you.ustuck = NoMon /\ L.you.uswallow = FALSE /\ SameTurn(W, L)
    /\ L.you.usteed = W.you.usteed
    /\ L.you.usteed # NoMon => L.you.usteed \in Range(L.mydogs)
    /\ \A m \in Range(L.mydogs) : L.mon[m].mx = Nowhere /\ L.mon[m].alive
    /\ \A m \in Local(L) : ~L.mon[m].mleashed
    /\ Range(L.mydogs) \subseteq Local(W) /\ Moving(L) = Moving(W)

LEMMA LeaveGood ==
    ASSUME NEW W, NEW E, NEW B, Good(W, E, B), NEW followers, NEW L, L = Leave(W, followers)
    PROVE  Leaving(W, L, E, B)
<1> DEFINE W1 == [W EXCEPT !.you.ustuck = NoMon]
           K0 == KeepDogs(W1, followers)
           K  == [K0 EXCEPT !.you.uswallow = FALSE]
           S  == Goes(W, followers)
           y1 == [W.you EXCEPT !.ustuck = NoMon]
           y  == [K0.you EXCEPT !.uswallow = FALSE]
<1>1. L = IF K.purge = 0 THEN K ELSE DMonsFree(K)
  BY DEF Leave
<1>2. /\ W \in Worlds /\ Books(W, {}, E, B) /\ Stands(W, {}, Afoot(W)) /\ W.you \in You
      /\ Local(W) \in SUBSET MonId /\ Once(W.fmon) /\ NoMon \notin MonId
  BY GoodParts, GoodIds DEF Books, Apart
<1>3. IsHeroChanged(W, W1, y1) /\ y1 \in You /\ y1.ustuck = NoMon /\ y1.usteed = W.you.usteed
      /\ y1.utolev = W.you.utolev /\ y1.movement = W.you.movement
  <2>1. /\ y1 \in You /\ y1.ustuck = NoMon /\ y1.usteed = W.you.usteed
        /\ y1.utolev = W.you.utolev /\ y1.movement = W.you.movement
    BY <1>2, YouStuck
  <2>2. W1 = [W EXCEPT !.you = y1]
    OBVIOUS
  <2> HIDE DEF W1, y1
  <2> QED BY <1>2, <2>1, <2>2, HeroChanged
<1> HIDE DEF W1, y1
<1>4. /\ W1 \in Worlds /\ W1.grid = W.grid /\ W1.mon = W.mon /\ Local(W1) = Local(W)
      /\ W1.fmon = W.fmon /\ W1.you = y1 /\ Moved(W, W1, {}) /\ Moving(W1) = Moving(W)
  BY <1>3 DEF IsHeroChanged, Elsewhere, Local, Moving
<1>5. Gathered(W1, K0, S)
  <2>1. Goes(W1, followers) = S
    BY <1>3, <1>4 DEF Goes
  <2> HIDE DEF K0, S
  <2>2. K0 = KeepDogs(W1, followers)
    BY DEF K0
  <2>3. Gathered(W1, K0, Goes(W1, followers))
    BY <1>2, <1>4, <2>2, KeepDogsDoes
  <2> QED BY <2>1, <2>3
<1> HIDE DEF K0
<1>6. Books(W1, {}, E, B) /\ Living(W1) = Living(W)
  BY <1>2, <1>4, MovedBooks
<1>7. /\ Books(K0, S, E, B)
      /\ \A m \in S : K0.mon[m].mx = Nowhere /\ K0.mon[m].alive
      /\ \A m \in Local(K0) : ~K0.mon[m].mleashed
      /\ \A m \in MonId : K0.mon[m].alive = W.mon[m].alive
      /\ \A m \in MonId : m \notin S => K0.mon[m].mx = W.mon[m].mx
  <2>1. S \subseteq Living(W1) \cap Local(W1)
    BY <1>2, <1>4 DEF Goes, Living
  <2> HIDE DEF S
  <2> QED BY <1>4, <1>5, <1>6, <2>1, GatheredBooks
<1>8. IsHeroChanged(K0, K, y) /\ y \in You /\ y.uswallow = FALSE /\ y.ustuck = NoMon
      /\ y.usteed = W.you.usteed /\ y.utolev = W.you.utolev /\ y.movement = W.you.movement
  <2>1. K0 \in Worlds /\ K0.you = y1
    BY <1>4, <1>5 DEF Gathered
  <2>2. /\ y \in You /\ y.uswallow = FALSE /\ y.ustuck = NoMon
        /\ y.usteed = W.you.usteed /\ y.utolev = W.you.utolev /\ y.movement = W.you.movement
    <3>1. y = [y1 EXCEPT !.uswallow = FALSE]
      BY <2>1
    <3> HIDE DEF y
    <3>2. /\ y \in You /\ y.uswallow = FALSE /\ y.ustuck = y1.ustuck
          /\ y.usteed = y1.usteed /\ y.utolev = y1.utolev /\ y.movement = y1.movement
      BY <1>3, <3>1, YouSwallow
    <3> QED BY <1>3, <3>2
  <2>3. K = [K0 EXCEPT !.you = y]
    OBVIOUS
  <2> HIDE DEF K, y
  <2> QED BY <2>1, <2>2, <2>3, HeroChanged
<1> HIDE DEF K, y
<1>9. /\ Books(K, S, E, B) /\ Local(K) = Local(W) \ S /\ K.you = y /\ K \in Worlds
      /\ Range(K.mydogs) = S /\ Once(K.mydogs) /\ K.mon = K0.mon /\ K.grid = K0.grid
      /\ Moving(K) = Moving(W)
  <2>1. Moved(K0, K, {})
    BY <1>8 DEF IsHeroChanged
  <2>2. Books(K, S, E, B) /\ Local(K) = Local(K0) /\ Moving(K) = Moving(K0)
    BY <1>7, <2>1, MovedBooks
  <2> QED BY <1>4, <1>5, <1>8, <2>2 DEF IsHeroChanged, Gathered, Elsewhere, Moving
<1> DEFINE P == Local(K) \ Dead(K)
\* The map of those that stay.
<1>10. /\ Mapped(K, P) /\ P \subseteq MonId
       /\ \A m \in Local(K) : ~K.mon[m].mleashed
  <2>1. \A m \in P : m \in Afoot(W) /\ m \in MonId /\ m \notin S
    BY <1>2, <1>7, <1>9 DEF Afoot, Dead, Goes
  <2>2. \A m \in P : K.mon[m].mx = W.mon[m].mx
    <3> HIDE DEF P, S
    <3> QED BY <1>7, <1>9, <2>1
  <2>3. ASSUME NEW x \in Square, K.grid[x] # NoMon PROVE K.grid[x] \in P /\ K.mon[K.grid[x]].mx = x
    <3>1. K.grid[x] = W.grid[x] /\ W.grid[x] \notin S
      BY <1>4, <1>5, <1>9, <2>3 DEF Gathered
    <3>2. W.grid[x] \in Afoot(W) /\ W.mon[W.grid[x]].mx = x
      BY <1>2, <2>3, <3>1 DEF Stands, Mapped
    <3>3. W.grid[x] \in P
      <4>1. W.grid[x] \in MonId /\ W.mon[W.grid[x]].alive /\ W.grid[x] \in Local(W)
        BY <1>2, <3>2 DEF Afoot
      <4>2. K.mon[W.grid[x]].alive /\ W.grid[x] \in Local(K)
        BY <1>7, <1>9, <3>1, <4>1
      <4> QED BY <4>2 DEF Dead
    <3> HIDE DEF P
    <3> QED BY <2>2, <3>1, <3>2, <3>3
  <2>4. ASSUME NEW m \in P PROVE K.mon[m].mx \in Square /\ K.grid[K.mon[m].mx] = m
    <3>1. W.mon[m].mx \in Square /\ W.grid[W.mon[m].mx] = m
      BY <1>2, <2>1 DEF Stands, Mapped
    <3>2. K.grid[W.mon[m].mx] = IF W.grid[W.mon[m].mx] \in S THEN NoMon ELSE W.grid[W.mon[m].mx]
      BY <1>4, <1>5, <1>9, <3>1 DEF Gathered
    <3> HIDE DEF P, S
    <3> QED BY <2>1, <2>2, <3>1, <3>2
  <2>5. P \subseteq MonId
    BY <2>1
  <2>6. \A m \in Local(K) : ~K.mon[m].mleashed
    <3>1. Local(K) = Local(K0)
      BY <1>4, <1>5, <1>9 DEF Gathered
    <3> QED BY <1>7, <1>9, <3>1
  <2> HIDE DEF P
  <2> QED BY <2>3, <2>4, <2>5, <2>6 DEF Mapped
<1>11. W.you.usteed # NoMon => W.you.usteed \in S
  BY <1>2 DEF Stands, Rides, Goes
<1>12. CASE K.purge = 0
  <2>1. L = K
    BY <1>1, <1>12
  <2>2. Dead(K) = {}
    <3>1. Dead(K) \in SUBSET MonId /\ K.purge = Cardinality(Dead(K))
      BY <1>9, Parts DEF Books, Dead
    <3> QED BY <1>12, <3>1, Few, FS_EmptySet
  <2>3. P = Local(K)
    BY <2>2
  <2>4. S \subseteq Local(W) /\ Local(K) \subseteq Local(W)
    BY <1>9 DEF Goes
  <2> HIDE DEF P, S
  <2>5. Mapped(L, Local(L)) /\ Local(L) \subseteq Local(W) /\ Dead(L) = {} /\ L.purge = 0
        /\ Books(L, Range(L.mydogs), E, B)
    BY <1>9, <1>10, <1>12, <2>1, <2>2, <2>3, <2>4
  <2>6. /\ L.you.ustuck = NoMon /\ L.you.uswallow = FALSE /\ SameTurn(W, L)
        /\ L.you.usteed = W.you.usteed
        /\ L.you.usteed # NoMon => L.you.usteed \in Range(L.mydogs)
    BY <1>8, <1>9, <1>11, <2>1 DEF SameTurn
  <2> QED BY <1>7, <1>9, <1>10, <2>1, <2>4, <2>5, <2>6 DEF Leaving
<1>13. CASE K.purge # 0
  <2>1. L = DMonsFree(K)
    BY <1>1, <1>13
  <2>2. Cleaned(K, L)
    BY <1>9, <2>1, DMonsFreeDoes DEF Books, Apart
  <2>3. /\ Books(L, S, E, B) /\ Dead(L) = {} /\ Moving(L) = Moving(K)
        /\ \A n \in Local(L) : L.mon[n] = K.mon[n] /\ L.mon[n].alive
    <3> HIDE DEF S
    <3> QED BY <1>9, <2>2, CleanedBooks
  <2>4. /\ Local(L) = P /\ L.mydogs = K.mydogs /\ L.grid = K.grid /\ L.you = y /\ L.purge = 0
        /\ \A n \in MonId : n \notin Dead(K) => L.mon[n] = K.mon[n]
    BY <1>9, <2>2 DEF Cleaned
  <2> HIDE DEF P
  <2>5. Mapped(L, P)
    <3>1. \A n \in P : L.mon[n] = K.mon[n]
      BY <2>3, <2>4
    <3> QED BY <1>10, <2>4, <3>1 DEF Mapped
  <2>6. \A m \in S : L.mon[m].mx = Nowhere /\ L.mon[m].alive
    <3>1. \A m \in S : m \in MonId /\ m \notin Dead(K)
      BY <1>2, <1>9 DEF Goes, Dead
    <3> HIDE DEF S
    <3> QED BY <1>7, <1>9, <2>4, <3>1
  <2>7. S \subseteq Local(W)
    BY DEF Goes
  <2>8. P \subseteq Local(W) /\ P \subseteq Local(K)
    BY <1>9 DEF P
  <2> HIDE DEF S
  <2> QED BY <1>2, <1>8, <1>9, <1>10, <1>11, <2>3, <2>4, <2>5, <2>6, <2>7, <2>8 DEF Leaving, SameTurn
<1>14. S \subseteq Local(W) /\ K.you = y
  BY <1>9 DEF Goes
<1> QED BY <1>12, <1>13

(***************************************************************************)
(* savelev and getlev.                                                     *)
(***************************************************************************)
\* The end of getlev: every monster of the level is placed.
IsMapOf(W, V) == /\ V \in Worlds /\ Mapped(V, Local(W)) /\ V.mon = W.mon /\ V.you = W.you
                 /\ Elsewhere(W, V)

LEMMA MapOfDoes ==
    ASSUME NEW W \in Worlds, Once(W.fmon),
           \A m \in Local(W) : W.mon[m].alive /\ W.mon[m].mx \in Square /\ m # W.you.usteed,
           \A m, k \in Local(W) : W.mon[m].mx = W.mon[k].mx => m = k,
           NEW V, V = MapOf(W)
    PROVE  IsMapOf(W, V)
<1> DEFINE s       == W.fmon
           n       == Len(s)
           Up(k)   == {s[i] : i \in 1..k}
           On(k)   == {U \in Worlds : /\ U.mon = W.mon /\ U.you = W.you /\ Elsewhere(W, U)
                                      /\ Mapped(U, Up(k))}
           S       == [k \in 0..n |-> On(k)]
           W0      == [W EXCEPT !.grid = Bare]
           next(k, U) == PlaceMonster(U, s[k], U.mon[s[k]].mx)
           step    == [k \in 1..n |-> [U \in S[k - 1] |-> next(k, U)]]
           Is(f)   == f = [i \in 0..n |-> IF i = 0 THEN W0
                                          ELSE PlaceMonster(f[i - 1], s[i], f[i - 1].mon[s[i]].mx)]
<1>1. /\ n \in Nat /\ Local(W) = Up(n) /\ \A i \in 1..n : s[i] \in MonId /\ s[i] \in Local(W)
      /\ W.fmon \in Seq(MonId) /\ NoMon \notin MonId
  <2>1. W.fmon \in Seq(MonId)
    BY Parts
  <2> QED BY <2>1, RangeIs, ElementOfSeq, PlaceAssumption DEF Local
<1>2. W0 \in On(0)
  <2>1. Bare \in [Square -> MonId \cup {NoMon}] /\ \A x \in Square : Bare[x] = NoMon
    BY DEF Bare
  <2>2. W0 = [W EXCEPT !.grid = Bare]
    OBVIOUS
  <2> HIDE DEF W0
  <2>3. /\ W0 \in Worlds /\ W0.grid = Bare /\ W0.mon = W.mon /\ W0.you = W.you
        /\ Elsewhere(W, W0)
    BY <2>1, <2>2, WithGrid
  <2>4. Up(0) = {}
    OBVIOUS
  <2>5. Mapped(W0, {})
    BY <2>1, <2>3 DEF Mapped
  <2> QED BY <2>3, <2>4, <2>5
<1>3. ASSUME NEW k \in 1..n, NEW U \in On(k - 1) PROVE next(k, U) \in On(k)
  <2> DEFINE m == s[k]
             x == U.mon[m].mx
             X == next(k, U)
  <2>1. Up(k) = Up(k - 1) \cup {m}
    <3>1. 1..k = (1..k - 1) \cup {k}
      OBVIOUS
    <3> QED BY <3>1
  <2>2. m \notin Up(k - 1)
    <3>1. ASSUME NEW i \in 1..k - 1, s[i] = s[k] PROVE FALSE
      <4>1. i \in 1..n /\ i # k
        BY <1>1
      <4> QED BY <3>1, <4>1 DEF Once
    <3> QED BY <3>1
  <2>3. Up(k - 1) \subseteq Local(W)
    BY <1>1
  <2>4. /\ U \in Worlds /\ U.mon = W.mon /\ U.you = W.you /\ Elsewhere(W, U)
        /\ Mapped(U, Up(k - 1))
    OBVIOUS
  <2>5. m \in MonId /\ m \in Local(W)
    BY <1>1
  <2>6. X = PlaceMonster(U, m, x)
    OBVIOUS
  <2> HIDE DEF X, m, n, Up
  <2>7. x \in Square /\ m # U.you.usteed /\ U.mon[m].alive
    BY <2>4, <2>5
  <2>8. U.grid[x] = NoMon
    BY <2>2, <2>3, <2>4, <2>5, <2>7 DEF Mapped
  <2> HIDE DEF x
  <2>9. PutOn(U, X, Up(k - 1), m, x)
    BY <2>2, <2>4, <2>5, <2>6, <2>7, <2>8, MapPlaced
  <2>10. /\ Mapped(X, Up(k)) /\ X \in Worlds /\ Elsewhere(U, X) /\ X.you = U.you
         /\ X.mon[m].mx = x /\ Kin(U.mon[m], X.mon[m])
         /\ \A j \in MonId : j # m => X.mon[j] = U.mon[j]
    BY <2>1, <2>5, <2>9 DEF PutOn, Put, Moved
  <2>11. X.mon \in [MonId -> Monst] /\ U.mon \in [MonId -> Monst]
    BY <2>4, <2>10, Parts
  <2>12. X.mon[m] = U.mon[m]
    BY <2>5, <2>10, <2>11, MonstSame DEF x
  <2>13. X.mon = U.mon
    BY <2>10, <2>11, <2>12
  <2>14. Elsewhere(W, X)
    BY <2>4, <2>10 DEF Elsewhere
  <2>15. X \in On(k)
    BY <2>4, <2>10, <2>13, <2>14
  <2> QED BY <2>15 DEF X
<1> HIDE DEF On, next
<1>4. \E f : Is(f)
  <2>1. W0 \in S[0] /\ \A k \in 1..n : k - 1 \in 0..n /\ S[k - 1] = On(k - 1) /\ S[k] = On(k)
    BY <1>1, <1>2
  <2>2. \A k \in 1..n : \A U \in S[k - 1] : step[k][U] \in S[k]
    BY <1>3, <2>1
  <2> HIDE DEF n, S, W0
  <2>3. \A k \in 1..n : \A U \in S[k - 1] : step[k][U] = next(k, U)
    BY <2>1
  <2> HIDE DEF step
  <2>4. PICK f : Runs(f, n, W0, step) /\ \A i \in 0..n : f[i] \in S[i]
    BY <1>1, <2>1, <2>2, LoopRuns
  <2>5. ASSUME NEW i \in 0..n
        PROVE  f[i] = IF i = 0 THEN W0 ELSE next(i, f[i - 1])
    <3>1. f[i] = IF i = 0 THEN W0 ELSE step[i][f[i - 1]]
      BY <2>4 DEF Runs
    <3>2. i # 0 => i \in 1..n /\ i - 1 \in 0..n
      BY <1>1
    <3>3. i # 0 => step[i][f[i - 1]] = next(i, f[i - 1])
      BY <2>3, <2>4, <3>2
    <3> QED BY <3>1, <3>3
  <2>6. f = [i \in 0..n |-> f[i]]
    BY <2>4 DEF Runs
  <2>7. f = [i \in 0..n |-> IF i = 0 THEN W0 ELSE next(i, f[i - 1])]
    BY <2>5, <2>6
  <2> QED BY <2>7 DEF next
<1> DEFINE done == CHOOSE f : Is(f)
<1>5. Is(done)
  BY <1>4
<1>6. V = done[n]
  BY DEF MapOf, ForEach
<1> HIDE DEF done, n, W0
<1>7. done[0] = W0 /\ \A i \in 1..n : done[i] = next(i, done[i - 1])
  <2>1. \A i \in 0..n : done[i] = IF i = 0 THEN W0 ELSE next(i, done[i - 1])
    BY <1>5 DEF next
  <2>2. 0 \in 0..n /\ \A i \in 1..n : i \in 0..n /\ i # 0
    BY <1>1
  <2> QED BY <2>1, <2>2
<1> DEFINE R == {i \in 0..n : done[i] \in On(i)}
<1>8. \A i \in 0..n : i \in R
  <2>1. 0 \in R
    BY <1>1, <1>2, <1>7
  <2>2. \A i \in 1..n : i - 1 \in R => i \in R
    BY <1>1, <1>3, <1>7
  <2> HIDE DEF R
  <2> QED BY <1>1, <2>1, <2>2, CountingUp
<1>9. V \in On(n)
  BY <1>1, <1>6, <1>8
<1> HIDE DEF Up
<1> QED BY <1>1, <1>9 DEF On, IsMapOf

\* Only the list, the map and the light sources are different.
Stored(W, V, s, g, li) ==
    /\ V \in Worlds /\ V.fmon = s /\ V.grid = g /\ V.light = li /\ V.mydogs = W.mydogs
    /\ V.migrating_mons = W.migrating_mons /\ V.mon = W.mon /\ V.you = W.you
    /\ V.purge = W.purge
LEMMA StoredIs ==
    ASSUME NEW W \in Worlds, NEW s \in Seq(MonId), NEW g \in [Square -> MonId \cup {NoMon}],
           NEW li \in [MonId -> Nat], NEW V,
           V = [W EXCEPT !.fmon = s, !.grid = g, !.light = li]
    PROVE  Stored(W, V, s, g, li)
BY DEF Worlds, Stored

\* What is in the file of the level that is left, and in memory.
Saved(L, S, E) ==
    /\ Books(S, Range(L.mydogs), E \cup Local(L), L.mon)
    /\ S.fmon = <<>> /\ S.mydogs = L.mydogs /\ S.migrating_mons = L.migrating_mons
    /\ S.mon = L.mon /\ S.you = L.you /\ S.purge = 0
    /\ LocalLights(L) \in [MonId -> Nat]
    /\ \A m \in MonId : LocalLights(L)[m] =
          IF m \in Local(L) /\ L.mon[m].data \in Lights THEN 1 ELSE 0

LEMMA SaveLevGood ==
    ASSUME NEW W, NEW E, NEW B, NEW L, Leaving(W, L, E, B), NEW S, S = SaveLev(L)
    PROVE  Saved(L, S, E)
<1> DEFINE H  == Range(L.mydogs)
           li == [m \in MonId |-> L.light[m] - LocalLights(L)[m]]
<1>1. /\ L \in Worlds /\ Books(L, H, E, B) /\ Mapped(L, Local(L)) /\ L.purge = 0
      /\ Local(L) \in SUBSET MonId /\ L.light \in [MonId -> Nat] /\ Dead(L) = {}
      /\ \A m \in H : L.mon[m].mx = Nowhere /\ L.mon[m].alive
      /\ \A m \in Local(L) : ~L.mon[m].mleashed
  BY Parts DEF Leaving, Books
<1>2. \A m \in MonId : Accounted(L, H, E, B, m)
  BY <1>1 DEF Books
<1>3. \A m \in Local(L) : L.mon[m].alive /\ L.mon[m].mx \in Square /\ L.mon[m].mx # Nowhere
  BY <1>1, PlaceAssumption DEF Dead, Mapped
<1>4. /\ Local(L) \cap Moving(L) = {} /\ Local(L) \cap H = {} /\ Local(L) \cap E = {}
      /\ Moving(L) \cap H = {} /\ Moving(L) \cap E = {} /\ H \cap E = {}
      /\ Once(L.migrating_mons)
  BY <1>1 DEF Books, Apart
<1> HIDE DEF H
<1>5. ASSUME NEW m \in MonId
      PROVE  /\ LocalLights(L)[m] = IF m \in Local(L) /\ L.mon[m].data \in Lights THEN 1 ELSE 0
             /\ L.light[m] - LocalLights(L)[m] = Glow01(L, m, E \cup Local(L))
  <2>1. LocalLights(L)[m] = IF L.mon[m].mx = Nowhere THEN 0 ELSE L.light[m]
    BY DEF LocalLights
  <2>2. L.light[m] = Glow01(L, m, E) /\ L.light[m] \in Nat
    BY <1>1, <1>2 DEF Accounted
  <2>3. CASE m \in Local(L)
    BY <1>3, <1>4, <2>1, <2>2, <2>3 DEF Glow01
  <2>4. CASE m \in H \cup Moving(L)
    <3>1. L.mon[m].mx = Nowhere /\ m \notin Local(L) /\ m \notin E
      BY <1>1, <1>2, <1>4, <2>4 DEF Accounted
    <3> QED BY <2>1, <2>2, <3>1 DEF Glow01
  <2>5. CASE m \in E
    BY <1>4, <2>1, <2>2, <2>5 DEF Glow01
  <2>6. CASE m \notin Local(L) \cup Moving(L) \cup H \cup E
    <3>1. ~L.mon[m].alive
      BY <1>2, <2>6 DEF Accounted
    <3> QED BY <2>1, <2>2, <2>6, <3>1 DEF Glow01
  <2> QED BY <2>3, <2>4, <2>5, <2>6
<1>6. li \in [MonId -> Nat] /\ LocalLights(L) \in [MonId -> Nat]
      /\ \A m \in MonId : li[m] = Glow01(L, m, E \cup Local(L))
  <2>1. \A m \in MonId : Glow01(L, m, E \cup Local(L)) \in Nat
    BY DEF Glow01
  <2>2. LocalLights(L) = [m \in MonId |-> LocalLights(L)[m]]
    BY DEF LocalLights
  <2>3. \A m \in MonId : LocalLights(L)[m] \in Nat
    BY <1>5
  <2>4. \A m \in MonId : li[m] = L.light[m] - LocalLights(L)[m]
    OBVIOUS
  <2>5. \A m \in MonId : li[m] = Glow01(L, m, E \cup Local(L)) /\ li[m] \in Nat
    BY <1>5, <2>1, <2>4
  <2>6. li = [m \in MonId |-> li[m]]
    OBVIOUS
  <2> HIDE DEF li
  <2> QED BY <2>2, <2>3, <2>5, <2>6
<1>7. Stored(L, S, <<>>, Bare, li)
  <2>1. Bare \in [Square -> MonId \cup {NoMon}]
    BY DEF Bare
  <2>2. S = [L EXCEPT !.fmon = <<>>, !.grid = Bare, !.light = li]
    BY DEF SaveLev
  <2>3. <<>> \in Seq(MonId)
    BY EmptyList
  <2> HIDE DEF li
  <2> QED BY <1>1, <1>6, <2>1, <2>2, <2>3, StoredIs
<1> HIDE DEF li
<1>8. /\ S \in Worlds /\ S.fmon = <<>> /\ Local(S) = {} /\ Once(S.fmon) /\ S.mydogs = L.mydogs
      /\ Moving(S) = Moving(L) /\ S.migrating_mons = L.migrating_mons /\ S.mon = L.mon
      /\ S.you = L.you /\ S.purge = 0 /\ S.light = li
  BY <1>1, <1>7, EmptyList DEF Stored, Local, Moving
<1>9. Apart(S, H, E \cup Local(L))
  BY <1>4, <1>8 DEF Apart
<1>10. ASSUME NEW m \in MonId PROVE Accounted(S, H, E \cup Local(L), L.mon, m)
  <2>1. Accounted(L, H, E, B, m)
    BY <1>2
  <2>2. S.light[m] = Glow01(S, m, E \cup Local(L))
    BY <1>6, <1>8 DEF Glow01
  <2>3. S.mon[m].mleashed => S.mon[m].alive /\ m \in H
    BY <1>1, <1>8, <2>1 DEF Accounted
  <2>4. S.mon[m].alive <=> m \in Moving(S) \cup H \cup E \cup Local(L)
    BY <1>3, <1>8, <2>1 DEF Accounted
  <2> QED BY <1>8, <2>1, <2>2, <2>3, <2>4 DEF Accounted
<1>11. S.purge = Cardinality(Dead(S)) /\ Living(S) = Living(L)
  <2>1. Dead(S) = {}
    BY <1>8 DEF Dead
  <2> QED BY <1>8, <2>1, FS_EmptySet DEF Living
<1>12. Books(S, H, E \cup Local(L), L.mon)
  BY <1>1, <1>8, <1>9, <1>10, <1>11 DEF Books
<1> QED BY <1>5, <1>6, <1>8, <1>12 DEF Saved, H

\* The file holds the monsters of F, and can be read into W.
Fits(W, file, F) ==
    /\ file.fmon \in Seq(MonId) /\ Once(file.fmon) /\ Range(file.fmon) = F
    /\ file.light \in [MonId -> Nat]
    /\ \A m \in F : W.mon[m].mx \in Square
    /\ \A m, k \in F : W.mon[m].mx = W.mon[k].mx => m = k
    /\ \A m \in MonId : file.light[m] = IF m \in F /\ W.mon[m].data \in Lights THEN 1 ELSE 0

LEMMA GetLevGood ==
    ASSUME NEW W, NEW H, NEW E, NEW B, Books(W, H, E, B), W.fmon = <<>>, W.purge = 0,
           NEW F, F \subseteq E, NEW file, Fits(W, file, F),
           W.you.usteed # NoMon => W.you.usteed \in H, NEW V, V = GetLev(W, file)
    PROVE  /\ Books(V, H, E \ F, B) /\ Local(V) = F /\ Mapped(V, F) /\ V.mon = W.mon
           /\ V.you = W.you /\ V.mydogs = W.mydogs /\ V.migrating_mons = W.migrating_mons
           /\ V.purge = 0
<1> DEFINE li == [m \in MonId |-> W.light[m] + file.light[m]]
           U  == [W EXCEPT !.fmon = file.fmon, !.light = li]
<1>1. /\ W \in Worlds /\ W.light \in [MonId -> Nat] /\ W.grid \in [Square -> MonId \cup {NoMon}]
      /\ Local(W) = {} /\ NoMon \notin MonId
  BY Parts, EmptyList, PlaceAssumption DEF Books, Local
<1>2. \A m \in MonId : Accounted(W, H, E, B, m)
  BY DEF Books
<1>3. /\ Moving(W) \cap H = {} /\ Moving(W) \cap E = {} /\ H \cap E = {} /\ Once(W.migrating_mons)
  BY DEF Books, Apart
<1>4. /\ file.fmon \in Seq(MonId) /\ Once(file.fmon) /\ Range(file.fmon) = F
      /\ file.light \in [MonId -> Nat] /\ F \subseteq MonId
      /\ \A m \in MonId : file.light[m] = IF m \in F /\ W.mon[m].data \in Lights THEN 1 ELSE 0
  BY RangeIs DEF Fits
<1>5. li \in [MonId -> Nat] /\ \A m \in MonId : li[m] = W.light[m] + file.light[m]
  BY <1>1, <1>4
<1>6. Stored(W, U, file.fmon, W.grid, li)
  <2>1. U = [W EXCEPT !.fmon = file.fmon, !.grid = W.grid, !.light = li]
    BY <1>1 DEF Worlds
  <2> HIDE DEF U, li
  <2> QED BY <1>1, <1>4, <1>5, <2>1, StoredIs
<1>7. V = MapOf(U)
  BY DEF GetLev
<1> HIDE DEF U, li
<1>8. /\ U \in Worlds /\ U.fmon = file.fmon /\ Local(U) = F /\ Once(U.fmon) /\ U.mydogs = W.mydogs
      /\ Moving(U) = Moving(W) /\ U.migrating_mons = W.migrating_mons /\ U.mon = W.mon
      /\ U.you = W.you /\ U.purge = 0 /\ U.light = li
  BY <1>4, <1>6 DEF Stored, Local, Moving
<1>9. \A m \in F : /\ m \in MonId /\ m \in E /\ W.mon[m].alive /\ ~W.mon[m].mleashed
                   /\ m \notin H /\ m \notin Moving(W)
  BY <1>1, <1>2, <1>3, <1>4 DEF Accounted
<1>10. Apart(U, H, E \ F)
  BY <1>3, <1>8, <1>9 DEF Apart
<1>11. ASSUME NEW m \in MonId PROVE Accounted(U, H, E \ F, B, m)
  <2>1. Accounted(W, H, E, B, m)
    BY <1>2
  <2>2. U.light[m] = W.light[m] + (IF m \in F /\ W.mon[m].data \in Lights THEN 1 ELSE 0)
    BY <1>4, <1>5, <1>8
  <2>3. W.light[m] = Glow01(W, m, E)
    BY <2>1 DEF Accounted
  <2>4. U.light[m] = Glow01(U, m, E \ F)
    <3>1. CASE m \in F
      BY <1>8, <1>9, <2>2, <2>3, <3>1 DEF Glow01
    <3>2. CASE m \notin F
      <4>1. W.light[m] \in Nat
        BY <1>1
      <4> QED BY <1>8, <2>2, <2>3, <3>2, <4>1 DEF Glow01
    <3> QED BY <3>1, <3>2
  <2> QED BY <1>1, <1>8, <1>9, <2>1, <2>4 DEF Accounted
<1>12. U.purge = Cardinality(Dead(U)) /\ Living(U) = Living(W)
  <2>1. Dead(U) = {}
    BY <1>8, <1>9 DEF Dead
  <2> QED BY <1>8, <2>1, FS_EmptySet DEF Living
<1>13. Books(U, H, E \ F, B)
  BY <1>8, <1>10, <1>11, <1>12 DEF Books
<1>14. IsMapOf(U, V)
  <2>1. \A m \in Local(U) : U.mon[m].alive /\ U.mon[m].mx \in Square /\ m # U.you.usteed
    BY <1>1, <1>8, <1>9 DEF Fits
  <2>2. \A m, k \in Local(U) : U.mon[m].mx = U.mon[k].mx => m = k
    BY <1>8 DEF Fits
  <2> QED BY <1>7, <1>8, <2>1, <2>2, MapOfDoes
<1>15. Moved(U, V, {})
  BY <1>14 DEF IsMapOf, Moved, Kin
<1>16. Books(V, H, E \ F, B) /\ Local(V) = Local(U)
  BY <1>13, <1>15, MovedBooks
<1> QED BY <1>8, <1>14, <1>16 DEF IsMapOf, Elsewhere

(***************************************************************************)
(* mon_arrive and losedogs.  Meanwhile H are the monsters in hand, and K   *)
(* those of them that are on the map already: a steed that its rider fell  *)
(* from.                                                                   *)
(***************************************************************************)
Arriving(W, H, E, B, K) ==
    /\ Books(W, H, E, B) /\ Stands(W, H, Afoot(W) \cup K) /\ W.purge = 0 /\ W.mydogs = <<>>
    /\ W.you.ustuck = NoMon /\ W.you.uswallow = FALSE
    /\ H \subseteq MonId /\ K \subseteq H /\ W.you.usteed \notin K
    /\ \A m \in H : m \in K \/ m = W.you.usteed \/ W.mon[m].mx = Nowhere

\* m is on the list, and not yet on the map.
TakenIn(W, V, m) ==
    /\ V \in Worlds /\ Local(V) = Local(W) \cup {m} /\ Once(V.fmon)
    /\ V.mydogs = W.mydogs /\ V.migrating_mons = W.migrating_mons /\ V.light = W.light
    /\ V.you = W.you /\ V.purge = W.purge /\ V.grid = W.grid
    /\ \A n \in MonId : n # m => V.mon[n] = W.mon[n]
    /\ V.mon[m].data = W.mon[m].data /\ V.mon[m].alive = W.mon[m].alive
    /\ V.mon[m].mx = W.mon[m].mx /\ V.mon[m].mleashed = W.mon[m].mleashed

LEMMA TakesIn ==
    ASSUME NEW W \in Worlds, Once(W.fmon), NEW m \in MonId, m \notin Local(W),
           NEW V, V = [W EXCEPT !.fmon = <<m>> \o @, !.mon[m].dest = NoLev]
    PROVE  TakenIn(W, V, m)
<1> DEFINE s == <<m>> \o W.fmon
           r == [W.mon[m] EXCEPT !.dest = NoLev]
           U == [W EXCEPT !.fmon = s]
<1>1. W.fmon \in Seq(MonId) /\ W.mon[m] \in Monst /\ NoLev \in Level
  BY Parts, FreedIs
<1>2. s \in Seq(MonId) /\ Range(s) = Local(W) \cup {m} /\ Once(s)
  BY <1>1, Pushed DEF Local
<1>3. /\ r \in Monst /\ r.data = W.mon[m].data /\ r.alive = W.mon[m].alive
      /\ r.mx = W.mon[m].mx /\ r.mleashed = W.mon[m].mleashed
  <2>1. r \in Monst
    BY <1>1, MonstSet
  <2> QED BY <1>1, <2>1 DEF Monst
<1>4. V = [U EXCEPT !.mon[m] = r]
  BY DEF Worlds
<1> HIDE DEF s, r
<1>5. Listed(W, U, s)
  BY <1>2, ListChanged
<1> HIDE DEF U
<1>6. U \in Worlds
  BY <1>5 DEF Listed
<1>7. IsNow(U, V, m, r)
  BY <1>3, <1>4, <1>6, OneChanged
<1> QED BY <1>2, <1>3, <1>5, <1>7 DEF TakenIn, Listed, IsNow, Elsewhere, Local

LEMMA TakenInBooks ==
    ASSUME NEW W, NEW H, NEW E, NEW B, Books(W, H, E, B), NEW m \in H, m \in MonId,
           NEW V, TakenIn(W, V, m)
    PROVE  /\ Books(V, H \ {m}, E, B) /\ Living(V) = Living(W) /\ V.mon[m].alive
           /\ Afoot(V) = Afoot(W) \cup ({m} \ {W.you.usteed})
<1>1. /\ W \in Worlds /\ V \in Worlds /\ Local(W) \in SUBSET MonId
      /\ \A n \in MonId : Accounted(W, H, E, B, n)
  BY Parts DEF Books, TakenIn
<1>2. m \notin Local(W) /\ m \notin Moving(W) /\ m \notin E /\ W.mon[m].alive
  BY <1>1 DEF Books, Apart, Accounted
<1>3. /\ Local(V) = Local(W) \cup {m} /\ Moving(V) = Moving(W) /\ V.light = W.light
      /\ V.purge = W.purge /\ V.you = W.you
      /\ \A n \in MonId : /\ V.mon[n].data = W.mon[n].data /\ V.mon[n].alive = W.mon[n].alive
                          /\ V.mon[n].mx = W.mon[n].mx /\ V.mon[n].mleashed = W.mon[n].mleashed
                          /\ n # m => V.mon[n] = W.mon[n]
  BY DEF TakenIn, Moving
<1>4. Living(V) = Living(W) /\ Dead(V) = Dead(W)
  BY <1>1, <1>2, <1>3 DEF Living, Dead
<1>5. Apart(V, H \ {m}, E)
  BY <1>2, <1>3 DEF TakenIn, Books, Apart
<1>6. ASSUME NEW n \in MonId PROVE Accounted(V, H \ {m}, E, B, n)
  <2>1. Accounted(W, H, E, B, n)
    BY <1>1
  <2>2. CASE n = m
    BY <1>2, <1>3, <2>1, <2>2 DEF Accounted, Glow01
  <2>3. CASE n # m
    BY <1>2, <1>3, <2>1, <2>3 DEF Accounted, Glow01
  <2> QED BY <2>2, <2>3
<1>7. Books(V, H \ {m}, E, B)
  BY <1>1, <1>3, <1>4, <1>5, <1>6 DEF Books
<1>8. Afoot(V) = Afoot(W) \cup ({m} \ {W.you.usteed})
  BY <1>1, <1>2, <1>3 DEF Afoot
<1> QED BY <1>2, <1>3, <1>4, <1>7, <1>8

\* What mon_arrive does for one monster.
HasArrived(W, V, H, E, B, K, m) ==
    /\ Arriving(V, H \ {m}, E, B, K \ {m}) /\ SameTurn(W, V)
    /\ Local(V) = Local(W) \cup {m} /\ V.migrating_mons = W.migrating_mons

LEMMA MonArriveGood ==
    ASSUME NEW W, NEW H, NEW E, NEW B, NEW K, Arriving(W, H, E, B, K), NEW m \in H,
           NEW with_you \in BOOLEAN, with_you \/ (m \notin K /\ m # W.you.usteed), NEW bold,
           NEW V, V = MonArrive(W, m, with_you, bold)
    PROVE  HasArrived(W, V, H, E, B, K, m)
<1> DEFINE U  == [W EXCEPT !.fmon = <<m>> \o @, !.mon[m].dest = NoLev]
           P  == Afoot(W) \cup K
           H1 == H \ {m}
           K1 == K \ {m}
<1>1. V = IF m = W.you.usteed THEN U
          ELSE IF with_you
               THEN IF U.grid[U.you.at] = NoMon /\ m \in bold THEN RlocTo(U, m, U.you.at)
                    ELSE Mnexto(U, m)
          ELSE IF Enexto(U) = {} THEN MonDead(U, m)
          ELSE RlocTo(U, m, Spot(U))
  BY DEF MonArrive
<1>2. /\ W \in Worlds /\ Books(W, H, E, B) /\ Stands(W, H, P) /\ Once(W.fmon)
      /\ Local(W) \in SUBSET MonId /\ m \notin Local(W) /\ W.mon[m].alive /\ NoMon \notin MonId
      /\ W.you.ustuck = NoMon /\ W.you.uswallow = FALSE /\ W.purge = 0 /\ W.mydogs = <<>>
      /\ H \subseteq MonId /\ m \in MonId /\ K \subseteq H /\ W.you.usteed \notin K
      /\ \A n \in H : n \in K \/ n = W.you.usteed \/ W.mon[n].mx = Nowhere
      /\ W.you.usteed \in MonId \cup {NoMon}
  <2>1. /\ Books(W, H, E, B) /\ W \in Worlds /\ Apart(W, H, E) /\ Accounted(W, H, E, B, m)
        /\ H \subseteq MonId /\ m \in MonId
    BY DEF Arriving, Books
  <2>2. m \notin Local(W) /\ W.mon[m].alive
    BY <2>1 DEF Apart, Accounted
  <2>3. W.you.usteed \in MonId \cup {NoMon}
    BY <2>1, Parts, YouParts
  <2> QED BY <2>1, <2>2, <2>3, Parts, PlaceAssumption DEF Arriving, Apart
<1>3. TakenIn(W, U, m)
  <2>1. U = [W EXCEPT !.fmon = <<m>> \o @, !.mon[m].dest = NoLev]
    OBVIOUS
  <2> HIDE DEF U
  <2> QED BY <1>2, <2>1, TakesIn
<1> HIDE DEF U
<1>4. /\ Books(U, H1, E, B) /\ U.mon[m].alive /\ Living(U) = Living(W)
      /\ Afoot(U) = Afoot(W) \cup ({m} \ {W.you.usteed})
  <2> HIDE DEF P
  <2> QED BY <1>2, <1>3, TakenInBooks
<1>5. /\ U \in Worlds /\ U.you = W.you /\ U.grid = W.grid /\ U.purge = 0 /\ U.mydogs = <<>>
      /\ Local(U) = Local(W) \cup {m} /\ U.migrating_mons = W.migrating_mons
      /\ \A n \in MonId : n # m => U.mon[n] = W.mon[n]
      /\ U.mon[m].mx = W.mon[m].mx /\ U.mon[m].alive = W.mon[m].alive
      /\ U.mon[m].mleashed = W.mon[m].mleashed
  BY <1>2, <1>3 DEF TakenIn
<1>6. \A n \in MonId : /\ U.mon[n].mx = W.mon[n].mx /\ U.mon[n].alive = W.mon[n].alive
                       /\ U.mon[n].mleashed = W.mon[n].mleashed
  BY <1>5
<1>7. Stands(U, H1, P)
  <2>1. P \subseteq MonId
    BY <1>2 DEF Stands, Mapped
  <2> HIDE DEF P
  <2>2. Mapped(U, P)
    BY <1>2, <1>5, <1>6, <2>1 DEF Stands, Mapped
  <2>3. Rides(U, H1)
    BY <1>2, <1>5, <1>6 DEF Stands, Rides
  <2>4. Held(U, P)
    BY <1>2, <1>5 DEF Stands, Held
  <2> QED BY <2>2, <2>3, <2>4 DEF Stands
<1>8. P \subseteq MonId /\ W.you.usteed \notin P
  BY <1>2 DEF Stands, Mapped, Afoot
<1>9. H1 \subseteq MonId /\ K1 \subseteq H1 /\ W.you.usteed \notin K1
      /\ \A n \in H1 : n \in K1 \/ n = W.you.usteed \/ W.mon[n].mx = Nowhere
  BY <1>2
\* m stays where it is: it is the steed, or there is no other square for it.
<1>10. CASE V = U /\ Afoot(U) \cup K1 = P
  <2>1. /\ U.you.ustuck = NoMon /\ U.you.uswallow = FALSE /\ U.you.usteed \notin K1
        /\ \A n \in H1 : n \in K1 \/ n = U.you.usteed \/ U.mon[n].mx = Nowhere
    <3>1. \A n \in H1 : n # m /\ n \in MonId
      BY <1>9
    <3> QED BY <1>2, <1>5, <1>9, <3>1
  <2> QED BY <1>4, <1>5, <1>7, <1>9, <1>10, <2>1 DEF HasArrived, Arriving, SameTurn
\* m is put on a free square.
<1>11. ASSUME NEW x \in Square, U.grid[x] = NoMon, V = RlocTo(U, m, x), m # W.you.usteed
       PROVE  HasArrived(W, V, H, E, B, K, m)
  <2>1. Relocated(U, V, H1, P, m, x)
    <3>1. m \in P \/ U.mon[m].mx = Nowhere
      BY <1>2, <1>5, <1>11
    <3>2. m # U.you.usteed
      BY <1>5, <1>11
    <3> HIDE DEF P, H1
    <3> QED BY <1>2, <1>4, <1>5, <1>7, <1>11, <3>1, <3>2, RlocMoves
  <2>2. /\ Stands(V, H1, P \cup {m}) /\ Moved(U, V, {m}) /\ SameTurn(U, V)
        /\ V.you.usteed = U.you.usteed /\ V.you.uswallow = U.you.uswallow
        /\ V.you.ustuck = NoMon
    BY <1>2, <1>5, <2>1 DEF Relocated
  <2>3. Books(V, H1, E, B) /\ Local(V) = Local(U)
    <3>1. {m} \subseteq Local(U) \cup H1
      BY <1>5
    <3> HIDE DEF H1
    <3> QED BY <1>4, <2>2, <3>1, MovedBooks
  <2>4. /\ V.mydogs = U.mydogs /\ V.migrating_mons = U.migrating_mons /\ V.purge = U.purge
        /\ \A n \in MonId : V.mon[n].alive = U.mon[n].alive /\ (n # m => V.mon[n] = U.mon[n])
    BY <2>2 DEF Moved, Elsewhere, Kin
  <2>5. Afoot(V) = Afoot(U)
    BY <1>2, <1>5, <2>2, <2>3, <2>4 DEF Afoot
  <2>6. Afoot(V) \cup K1 = P \cup {m}
    BY <1>4, <1>11, <2>5

  <2>7. \A n \in H1 : n \in K1 \/ n = V.you.usteed \/ V.mon[n].mx = Nowhere
    <3>1. \A n \in H1 : n # m /\ n \in MonId
      BY <1>9
    <3> QED BY <1>5, <1>9, <2>2, <2>4, <3>1
  <2>8. SameTurn(W, V) /\ V.you.uswallow = FALSE /\ V.you.usteed \notin K1
    BY <1>2, <1>5, <1>9, <2>2 DEF SameTurn
  <2> QED BY <1>5, <1>9, <2>2, <2>3, <2>4, <2>6, <2>7, <2>8 DEF HasArrived, Arriving
\* There is a free square for whoever is not on the map.
<1>12. m \notin P => Enexto(U) # {}
  <2>1. CASE m \notin P
    <3>1. P \cup {m} \subseteq Living(W)
      <4>1. \A n \in P : n \in MonId /\ W.mon[n].alive
        <5>1. \A n \in K : n \in MonId => Accounted(W, H, E, B, n) /\ n \notin Local(W)
          BY <1>2 DEF Books, Apart
        <5> QED BY <1>2, <1>8, <5>1 DEF Afoot, Accounted
      <4> QED BY <1>2, <4>1 DEF Living
    <3>2. Living(W) \in SUBSET MonId /\ Cardinality(Living(W)) <= MaxMonsters
      BY <1>2 DEF Books, Living
    <3> HIDE DEF P
    <3>3. Cardinality(P) < Cardinality(P \cup {m}) /\ Cardinality(P \cup {m}) <= Cardinality(Living(W))
      <4>1. P \cup {m} \in SUBSET MonId /\ P \in SUBSET (P \cup {m}) /\ P # P \cup {m}
        BY <1>2, <1>8, <2>1
      <4> QED BY <3>1, <3>2, <4>1, FewIn
    <3>4. /\ Cardinality(P) \in Nat /\ Cardinality(P \cup {m}) \in Nat
          /\ Cardinality(Living(W)) \in Nat
      BY <1>2, <1>8, <3>2, Few
    <3>5. Cardinality(P) < MaxMonsters /\ Cardinality(P) <= MaxMonsters
      BY <3>2, <3>3, <3>4, PlaceAssumption
    <3> QED BY <1>5, <1>7, <3>5, RoomLeft DEF Stands
  <2> QED BY <2>1
<1>13. CASE m = W.you.usteed
  <2>1. V = U /\ m \notin K
    BY <1>1, <1>2, <1>13
  <2>2. Afoot(U) \cup K1 = P
    BY <1>4, <1>13, <2>1
  <2> QED BY <1>10, <2>1, <2>2
<1>14. CASE m # W.you.usteed /\ with_you
  <2>1. CASE U.grid[U.you.at] = NoMon /\ m \in bold
    <3>1. U.you.at \in Square /\ V = RlocTo(U, m, U.you.at)
      BY <1>1, <1>5, <1>14, <2>1, Parts, YouParts
    <3> QED BY <1>11, <1>14, <2>1, <3>1
  <2>2. CASE ~(U.grid[U.you.at] = NoMon /\ m \in bold) /\ Enexto(U) # {}
    <3>1. V = RlocTo(U, m, Spot(U))
      BY <1>1, <1>5, <1>14, <2>2 DEF Mnexto
    <3>2. Spot(U) \in Square /\ U.grid[Spot(U)] = NoMon
      BY <2>2, SpotFree
    <3> QED BY <1>11, <1>14, <3>1, <3>2
  <2>3. CASE ~(U.grid[U.you.at] = NoMon /\ m \in bold) /\ Enexto(U) = {}
    <3>1. V = U
      BY <1>1, <1>5, <1>14, <2>3 DEF Mnexto
    <3>2. m \in K
      BY <1>2, <1>12, <2>3 DEF Afoot
    <3>3. Afoot(U) \cup K1 = P
      BY <1>4, <1>14, <3>2
    <3> QED BY <1>10, <3>1, <3>3
  <2> QED BY <2>1, <2>2, <2>3
<1>15. CASE m # W.you.usteed /\ ~with_you
  <2>1. m \notin P
    BY <1>2, <1>15 DEF Afoot
  <2>2. Enexto(U) # {} /\ V = RlocTo(U, m, Spot(U))
    BY <1>1, <1>12, <1>15, <2>1
  <2>3. Spot(U) \in Square /\ U.grid[Spot(U)] = NoMon
    BY <2>2, SpotFree
  <2> QED BY <1>11, <1>15, <2>2, <2>3
<1> QED BY <1>13, <1>14, <1>15

\* A monster is taken off migrating_mons to be delivered.
LEMMA HandedOver ==
    ASSUME NEW W, NEW E, NEW B, Arriving(W, {}, E, B, {}), NEW m \in Moving(W),
           NEW V, V = [W EXCEPT !.migrating_mons = Without(@, {m})]
    PROVE  /\ Arriving(V, {m}, E, B, {}) /\ SameTurn(W, V) /\ Local(V) = Local(W)
           /\ Moving(V) = Moving(W) \ {m} /\ m # V.you.usteed
<1> DEFINE s == Without(W.migrating_mons, {m})
<1>1. /\ W \in Worlds /\ Books(W, {}, E, B) /\ Apart(W, {}, E)
      /\ \A n \in MonId : Accounted(W, {}, E, B, n)
      /\ W.migrating_mons \in Seq(MonId) /\ Once(W.migrating_mons) /\ Moving(W) \in SUBSET MonId
      /\ Local(W) \in SUBSET MonId /\ W.you.usteed \in MonId \cup {NoMon}
  <2>1. W \in Worlds /\ Books(W, {}, E, B)
    BY DEF Arriving, Books
  <2> QED BY <2>1, Parts, YouParts DEF Books, Apart
<1>2. s \in Seq(MonId) /\ Range(s) = Moving(W) \ {m} /\ Once(s)
  BY <1>1, Unlinked DEF Moving
<1>3. Migrants(W, V, s)
  <2>1. V = [W EXCEPT !.migrating_mons = s]
    BY DEF Worlds
  <2> HIDE DEF s
  <2> QED BY <1>1, <1>2, <2>1, MigrantsChanged
<1> HIDE DEF s
<1>4. /\ V \in Worlds /\ V.grid = W.grid /\ V.you = W.you /\ V.mon = W.mon /\ V.mydogs = W.mydogs
      /\ Local(V) = Local(W) /\ V.fmon = W.fmon /\ V.purge = W.purge /\ V.light = W.light
      /\ Moving(V) = Moving(W) \ {m} /\ Once(V.migrating_mons)
  BY <1>2, <1>3 DEF Migrants, Local, Moving
<1>5. m \in MonId /\ m \notin Local(W) /\ m \notin E /\ W.mon[m].alive /\ W.mon[m].mx = Nowhere
  BY <1>1 DEF Apart, Accounted
<1>6. Living(V) = Living(W) /\ Dead(V) = Dead(W) /\ Afoot(V) = Afoot(W)
  BY <1>4 DEF Living, Dead, Afoot
<1>7. Apart(V, {m}, E)
  BY <1>1, <1>4, <1>5 DEF Apart
<1>8. ASSUME NEW n \in MonId PROVE Accounted(V, {m}, E, B, n)
  <2>1. Accounted(W, {}, E, B, n)
    BY <1>1
  <2>2. CASE n = m
    BY <1>4, <1>5, <2>1, <2>2 DEF Accounted, Glow01
  <2>3. CASE n # m
    BY <1>4, <1>5, <2>1, <2>3 DEF Accounted, Glow01
  <2> QED BY <2>2, <2>3
<1>9. Books(V, {m}, E, B)
  BY <1>1, <1>4, <1>6, <1>7, <1>8 DEF Books
<1>10. Stands(V, {m}, Afoot(V) \cup {})
  <2>1. Stands(W, {}, Afoot(W) \cup {})
    BY DEF Arriving
  <2>2. Mapped(V, Afoot(V) \cup {}) /\ Held(V, Afoot(V) \cup {})
    BY <1>4, <1>6, <2>1 DEF Stands, Mapped, Held
  <2>3. Rides(V, {m})
    BY <1>4, <2>1 DEF Stands, Rides
  <2> QED BY <2>2, <2>3 DEF Stands
<1>11. m # W.you.usteed
  <2>1. W.you.usteed # NoMon => W.you.usteed \in Local(W) \cup {}
    BY DEF Arriving, Stands, Rides
  <2> QED BY <1>5, <2>1, PlaceAssumption
<1>12. /\ V.purge = 0 /\ V.mydogs = <<>> /\ V.you.ustuck = NoMon /\ V.you.uswallow = FALSE
  BY <1>4 DEF Arriving
<1>13. \A n \in {m} : n \in {} \/ n = V.you.usteed \/ V.mon[n].mx = Nowhere
  BY <1>4, <1>5
<1> QED BY <1>4, <1>5, <1>9, <1>10, <1>11, <1>12, <1>13 DEF Arriving, SameTurn

\* The loop over mydogs.
AllWithYou(W, s, bold) ==
    LET done[i \in 0..Len(s)] == IF i = 0 THEN W ELSE MonArrive(done[i - 1], s[i], TRUE, bold)
    IN  done[Len(s)]

LEMMA WithYouGood ==
    ASSUME NEW W, NEW H, NEW E, NEW B, NEW K, Arriving(W, H, E, B, K),
           NEW s \in Seq(MonId), Range(s) = H, Once(s), NEW bold,
           NEW V, V = AllWithYou(W, s, bold)
    PROVE  /\ Arriving(V, {}, E, B, {}) /\ SameTurn(W, V)
           /\ V.migrating_mons = W.migrating_mons
<1> DEFINE n       == Len(s)
           Up(k)   == {s[i] : i \in 1..k}
           On(k)   == {U \in Worlds : /\ Arriving(U, H \ Up(k), E, B, K \ Up(k)) /\ SameTurn(W, U)
                                      /\ U.migrating_mons = W.migrating_mons}
           S       == [k \in 0..n |-> On(k)]
           next(k, U) == MonArrive(U, s[k], TRUE, bold)
           step    == [k \in 1..n |-> [U \in S[k - 1] |-> next(k, U)]]
           Is(f)   == f = [i \in 0..n |-> IF i = 0 THEN W ELSE MonArrive(f[i - 1], s[i], TRUE, bold)]
<1>1. n \in Nat /\ H = Up(n) /\ \A i \in 1..n : s[i] \in MonId /\ s[i] \in H
  BY RangeIs, ElementOfSeq
<1>2. W \in On(0)
  <2>1. Up(0) = {}
    OBVIOUS
  <2>2. H \ Up(0) = H /\ K \ Up(0) = K
    BY <2>1
  <2>3. W \in Worlds
    BY DEF Arriving, Books
  <2> HIDE DEF Up
  <2> QED BY <2>2, <2>3 DEF SameTurn
<1>3. ASSUME NEW k \in 1..n, NEW U \in On(k - 1) PROVE next(k, U) \in On(k)
  <2> DEFINE m == s[k]
             X == next(k, U)
             H1 == H \ Up(k - 1)
             K1 == K \ Up(k - 1)
  <2>1. Up(k) = Up(k - 1) \cup {m}
    <3>1. 1..k = (1..k - 1) \cup {k}
      OBVIOUS
    <3> QED BY <3>1
  <2>2. m \notin Up(k - 1)
    <3>1. ASSUME NEW i \in 1..k - 1, s[i] = s[k] PROVE FALSE
      <4>1. i \in 1..n /\ i # k
        BY <1>1
      <4> QED BY <3>1, <4>1 DEF Once
    <3> QED BY <3>1
  <2>3. m \in H1 /\ H1 \ {m} = H \ Up(k) /\ K1 \ {m} = K \ Up(k)
    <3>1. m \in H
      BY <1>1
    <3> HIDE DEF Up, m
    <3> QED BY <2>1, <2>2, <3>1
  <2>4. /\ Arriving(U, H1, E, B, K1) /\ SameTurn(W, U)
        /\ U.migrating_mons = W.migrating_mons
    OBVIOUS
  <2>5. X = MonArrive(U, m, TRUE, bold)
    OBVIOUS
  <2> HIDE DEF X, m, n, Up, H1, K1
  <2>6. HasArrived(U, X, H1, E, B, K1, m)
    BY <2>3, <2>4, <2>5, MonArriveGood
  <2>7. Arriving(X, H \ Up(k), E, B, K \ Up(k)) /\ SameTurn(U, X)
        /\ X.migrating_mons = U.migrating_mons
    BY <2>3, <2>6 DEF HasArrived
  <2>8. X \in Worlds /\ SameTurn(W, X)
    BY <2>4, <2>7 DEF Arriving, Books, SameTurn
  <2>9. X \in On(k)
    BY <2>4, <2>7, <2>8
  <2> QED BY <2>9 DEF X
<1> HIDE DEF On, next
<1>4. \E f : Is(f)
  <2>1. W \in S[0] /\ \A k \in 1..n : k - 1 \in 0..n /\ S[k - 1] = On(k - 1) /\ S[k] = On(k)
    BY <1>1, <1>2
  <2>2. \A k \in 1..n : \A U \in S[k - 1] : step[k][U] \in S[k]
    BY <1>3, <2>1
  <2> HIDE DEF n, S
  <2>3. \A k \in 1..n : \A U \in S[k - 1] : step[k][U] = next(k, U)
    BY <2>1
  <2> HIDE DEF step
  <2>4. PICK f : Runs(f, n, W, step) /\ \A i \in 0..n : f[i] \in S[i]
    BY <1>1, <2>1, <2>2, LoopRuns
  <2>5. ASSUME NEW i \in 0..n
        PROVE  f[i] = IF i = 0 THEN W ELSE next(i, f[i - 1])
    <3>1. f[i] = IF i = 0 THEN W ELSE step[i][f[i - 1]]
      BY <2>4 DEF Runs
    <3>2. i # 0 => i \in 1..n /\ i - 1 \in 0..n
      BY <1>1
    <3>3. i # 0 => step[i][f[i - 1]] = next(i, f[i - 1])
      BY <2>3, <2>4, <3>2
    <3> QED BY <3>1, <3>3
  <2>6. f = [i \in 0..n |-> f[i]]
    BY <2>4 DEF Runs
  <2>7. f = [i \in 0..n |-> IF i = 0 THEN W ELSE next(i, f[i - 1])]
    BY <2>5, <2>6
  <2> QED BY <2>7 DEF next
<1> DEFINE done == CHOOSE f : Is(f)
<1>5. Is(done)
  BY <1>4
<1>6. V = done[n]
  BY DEF AllWithYou
<1> HIDE DEF done, n
<1>7. done[0] = W /\ \A i \in 1..n : done[i] = next(i, done[i - 1])
  <2>1. \A i \in 0..n : done[i] = IF i = 0 THEN W ELSE next(i, done[i - 1])
    BY <1>5 DEF next
  <2>2. 0 \in 0..n /\ \A i \in 1..n : i \in 0..n /\ i # 0
    BY <1>1
  <2> QED BY <2>1, <2>2
<1> DEFINE R == {i \in 0..n : done[i] \in On(i)}
<1>8. \A i \in 0..n : i \in R
  <2>1. 0 \in R
    BY <1>1, <1>2, <1>7
  <2>2. \A i \in 1..n : i - 1 \in R => i \in R
    BY <1>1, <1>3, <1>7
  <2> HIDE DEF R
  <2> QED BY <1>1, <2>1, <2>2, CountingUp
<1>9. V \in On(n)
  BY <1>1, <1>6, <1>8
<1> HIDE DEF Up
<1>10. H \ Up(n) = {} /\ K \ Up(n) = {}
  BY <1>1 DEF Arriving
<1> QED BY <1>9, <1>10 DEF On

\* The loop over those of migrating_mons whose level this is.
AllOwnLevel(W, s, bold) ==
    LET done[i \in 0..Len(s)] ==
            IF i = 0 THEN W
            ELSE MonArrive([done[i - 1] EXCEPT !.migrating_mons = Without(@, {s[i]})],
                           s[i], FALSE, bold)
    IN  done[Len(s)]

LEMMA OwnLevelGood ==
    ASSUME NEW W, NEW E, NEW B, Arriving(W, {}, E, B, {}),
           NEW s \in Seq(MonId), Range(s) \subseteq Moving(W), Once(s), NEW bold,
           NEW V, V = AllOwnLevel(W, s, bold)
    PROVE  Arriving(V, {}, E, B, {}) /\ SameTurn(W, V)
<1> DEFINE n       == Len(s)
           Up(k)   == {s[i] : i \in 1..k}
           On(k)   == {U \in Worlds : /\ Arriving(U, {}, E, B, {}) /\ SameTurn(W, U)
                                      /\ Moving(U) = Moving(W) \ Up(k)}
           S       == [k \in 0..n |-> On(k)]
           Off(U, m)  == [U EXCEPT !.migrating_mons = Without(@, {m})]
           next(k, U) == MonArrive(Off(U, s[k]), s[k], FALSE, bold)
           step    == [k \in 1..n |-> [U \in S[k - 1] |-> next(k, U)]]
           Is(f)   == f = [i \in 0..n |-> IF i = 0 THEN W
                             ELSE MonArrive([f[i - 1] EXCEPT !.migrating_mons = Without(@, {s[i]})],
                                            s[i], FALSE, bold)]
<1>1. n \in Nat /\ Range(s) = Up(n) /\ \A i \in 1..n : s[i] \in MonId /\ s[i] \in Moving(W)
  BY RangeIs, ElementOfSeq
<1>2. W \in On(0)
  <2>1. Up(0) = {}
    OBVIOUS
  <2>2. Moving(W) = Moving(W) \ Up(0)
    BY <2>1
  <2>3. W \in Worlds
    BY DEF Arriving, Books
  <2> HIDE DEF Up
  <2> QED BY <2>2, <2>3 DEF SameTurn
<1>3. ASSUME NEW k \in 1..n, NEW U \in On(k - 1) PROVE next(k, U) \in On(k)
  <2> DEFINE m == s[k]
             Y == Off(U, m)
             X == next(k, U)
  <2>1. Up(k) = Up(k - 1) \cup {m}
    <3>1. 1..k = (1..k - 1) \cup {k}
      OBVIOUS
    <3> QED BY <3>1
  <2>2. m \notin Up(k - 1)
    <3>1. ASSUME NEW i \in 1..k - 1, s[i] = s[k] PROVE FALSE
      <4>1. i \in 1..n /\ i # k
        BY <1>1
      <4> QED BY <3>1, <4>1 DEF Once
    <3> QED BY <3>1
  <2>3. Arriving(U, {}, E, B, {}) /\ SameTurn(W, U) /\ Moving(U) = Moving(W) \ Up(k - 1)
    OBVIOUS
  <2>4. m \in Moving(U) /\ Moving(U) \ {m} = Moving(W) \ Up(k)
    <3>1. m \in Moving(W)
      BY <1>1
    <3> HIDE DEF Up, m
    <3> QED BY <2>1, <2>2, <2>3, <3>1
  <2>5. X = MonArrive(Y, m, FALSE, bold) /\ Y = [U EXCEPT !.migrating_mons = Without(@, {m})]
    OBVIOUS
  <2> HIDE DEF X, Y, m, n, Up
  <2>6. /\ Arriving(Y, {m}, E, B, {}) /\ SameTurn(U, Y) /\ Moving(Y) = Moving(U) \ {m}
        /\ m # Y.you.usteed
    BY <2>3, <2>4, <2>5, HandedOver
  <2>7. HasArrived(Y, X, {m}, E, B, {}, m)
    <3>1. m \in {m} /\ m \notin {} /\ FALSE \in BOOLEAN
      OBVIOUS
    <3> QED BY <2>5, <2>6, <3>1, MonArriveGood
  <2>8. Arriving(X, {}, E, B, {}) /\ SameTurn(Y, X) /\ X.migrating_mons = Y.migrating_mons
    <3>1. {m} \ {m} = {} /\ {} \ {m} = {}
      OBVIOUS
    <3> QED BY <2>7, <3>1 DEF HasArrived
  <2>9. X \in Worlds /\ SameTurn(W, X) /\ Moving(X) = Moving(W) \ Up(k)
    BY <2>3, <2>4, <2>6, <2>8 DEF Arriving, Books, SameTurn, Moving
  <2>10. X \in On(k)
    BY <2>8, <2>9
  <2> QED BY <2>10 DEF X
<1> HIDE DEF On, next
<1>4. \E f : Is(f)
  <2>1. W \in S[0] /\ \A k \in 1..n : k - 1 \in 0..n /\ S[k - 1] = On(k - 1) /\ S[k] = On(k)
    BY <1>1, <1>2
  <2>2. \A k \in 1..n : \A U \in S[k - 1] : step[k][U] \in S[k]
    BY <1>3, <2>1
  <2> HIDE DEF n, S
  <2>3. \A k \in 1..n : \A U \in S[k - 1] : step[k][U] = next(k, U)
    BY <2>1
  <2> HIDE DEF step
  <2>4. PICK f : Runs(f, n, W, step) /\ \A i \in 0..n : f[i] \in S[i]
    BY <1>1, <2>1, <2>2, LoopRuns
  <2>5. ASSUME NEW i \in 0..n
        PROVE  f[i] = IF i = 0 THEN W ELSE next(i, f[i - 1])
    <3>1. f[i] = IF i = 0 THEN W ELSE step[i][f[i - 1]]
      BY <2>4 DEF Runs
    <3>2. i # 0 => i \in 1..n /\ i - 1 \in 0..n
      BY <1>1
    <3>3. i # 0 => step[i][f[i - 1]] = next(i, f[i - 1])
      BY <2>3, <2>4, <3>2
    <3> QED BY <3>1, <3>3
  <2>6. f = [i \in 0..n |-> f[i]]
    BY <2>4 DEF Runs
  <2>7. f = [i \in 0..n |-> IF i = 0 THEN W ELSE next(i, f[i - 1])]
    BY <2>5, <2>6
  <2> QED BY <2>7 DEF next
<1> DEFINE done == CHOOSE f : Is(f)
<1>5. Is(done)
  BY <1>4
<1>6. V = done[n]
  BY DEF AllOwnLevel
<1> HIDE DEF done, n
<1>7. done[0] = W /\ \A i \in 1..n : done[i] = next(i, done[i - 1])
  <2>1. \A i \in 0..n : done[i] = IF i = 0 THEN W ELSE next(i, done[i - 1])
    BY <1>5 DEF next
  <2>2. 0 \in 0..n /\ \A i \in 1..n : i \in 0..n /\ i # 0
    BY <1>1
  <2> QED BY <2>1, <2>2
<1> DEFINE R == {i \in 0..n : done[i] \in On(i)}
<1>8. \A i \in 0..n : i \in R
  <2>1. 0 \in R
    BY <1>1, <1>2, <1>7
  <2>2. \A i \in 1..n : i - 1 \in R => i \in R
    BY <1>1, <1>3, <1>7
  <2> HIDE DEF R
  <2> QED BY <1>1, <2>1, <2>2, CountingUp
<1>9. V \in On(n)
  BY <1>1, <1>6, <1>8
<1> HIDE DEF Up
<1> QED BY <1>9 DEF On

LEMMA LoseDogsGood ==
    ASSUME NEW W, W.mydogs \in Seq(MonId), Once(W.mydogs), NEW E, NEW B, NEW K,
           NEW W0, W0 = [W EXCEPT !.mydogs = <<>>], Arriving(W0, Range(W.mydogs), E, B, K),
           W0.migrating_mons = W.migrating_mons, NEW l, NEW bold,
           NEW V, V = LoseDogs(W, l, bold)
    PROVE  Arriving(V, {}, E, B, {}) /\ SameTurn(W0, V)
<1> DEFINE others == {m \in MonId : W.mon[m].dest # l}
           X == AllWithYou(W0, W.mydogs, bold)
           s == Without(W.migrating_mons, others)
<1>1. V = AllOwnLevel(X, s, bold)
  BY DEF LoseDogs, ForEach, AllWithYou, AllOwnLevel
<1> HIDE DEF others
<1>2. /\ Arriving(X, {}, E, B, {}) /\ SameTurn(W0, X)
      /\ X.migrating_mons = W0.migrating_mons
  <2> DEFINE d == W.mydogs
             H == Range(W.mydogs)
  <2>1. /\ X = AllWithYou(W0, d, bold) /\ Arriving(W0, H, E, B, K)
        /\ d \in Seq(MonId) /\ Range(d) = H /\ Once(d)
    OBVIOUS
  <2> HIDE DEF X, d, H
  <2> QED BY ONLY <2>1, WithYouGood
<1> HIDE DEF X
<1>3. s \in Seq(MonId) /\ Range(s) = Moving(X) \ others /\ Once(s)
  <2>1. X.migrating_mons \in Seq(MonId) /\ Once(X.migrating_mons)
    <3>1. X \in Worlds /\ Apart(X, {}, E)
      BY <1>2 DEF Arriving, Books
    <3> QED BY <3>1, Parts DEF Apart
  <2>2. W.migrating_mons = X.migrating_mons
    BY <1>2
  <2> QED BY <2>1, <2>2, Unlinked DEF Moving
<1> HIDE DEF s
<1>4. Range(s) \subseteq Moving(X)
  BY <1>3
<1>5. Arriving(V, {}, E, B, {}) /\ SameTurn(X, V)
  BY <1>1, <1>2, <1>3, <1>4, OwnLevelGood
<1> QED BY <1>2, <1>5 DEF SameTurn

(***************************************************************************)
(* goto_level from getlev on.                                              *)
(***************************************************************************)
\* Whoever is on the hero's square gives way, or the hero does.
LEMMA CollisionGood ==
    ASSUME NEW W, NEW E, NEW B, Arriving(W, {}, E, B, {}), NEW shove, NEW V, V = Collision(W, shove)
    PROVE  Good(V, E, B) /\ SameTurn(W, V) /\ V.mydogs = <<>> /\ Dead(V) = {} /\ V.purge = 0
<1> DEFINE m == W.grid[W.you.at]
           P == Afoot(W)
<1>1. /\ W \in Worlds /\ Books(W, {}, E, B) /\ Mapped(W, P) /\ Rides(W, {}) /\ Held(W, P)
      /\ W.you.ustuck = NoMon /\ W.you.uswallow = FALSE /\ W.purge = 0 /\ W.mydogs = <<>>
      /\ W.you.at \in Square /\ W.you.usteed \in MonId \cup {NoMon} /\ NoMon \notin MonId
  <2>1. P \cup {} = P
    OBVIOUS
  <2>2. W \in Worlds
    BY DEF Arriving, Books
  <2> QED BY <2>1, <2>2, Parts, YouParts, PlaceAssumption DEF Arriving, Stands
<1>2. Stands(W, {}, P) /\ Dead(W) = {}
  <2>1. Dead(W) \in SUBSET MonId /\ Cardinality(Dead(W)) = 0
    BY <1>1, Parts DEF Books, Dead
  <2> QED BY <1>1, <2>1, Few, FS_EmptySet DEF Stands
<1>3. CASE m = NoMon
  <2>1. V = W
    BY <1>3 DEF Collision
  <2> QED BY <1>1, <1>2, <1>3, <2>1 DEF Good, Clear, SameTurn
<1>4. CASE m # NoMon
  <2>1. m \in P /\ m \in MonId /\ m \in Local(W) /\ W.mon[m].alive /\ m # W.you.usteed
        /\ W.mon[m].mx = W.you.at
    BY <1>1, <1>4 DEF Mapped, Afoot
  <2>2. Enexto(W) # {}
    <3>1. Cardinality(P) <= MaxMonsters
      BY <1>1, AfootFew
    <3> QED BY <1>1, <1>4, <3>1, RoomLeft
  <2>3. Spot(W) \in Square /\ W.grid[Spot(W)] = NoMon /\ Spot(W) # W.you.at
    BY <2>2, SpotFree
  <2> DEFINE x == Spot(W)
             U == IF shove THEN RlocTo(W, m, x) ELSE UOnNewpos(W, x)
  <2>4. V = IF U.grid[U.you.at] = NoMon THEN U ELSE Rloc(Impossible(U), U.grid[U.you.at])
    BY <1>4, <2>1, <2>2 DEF Collision, Mnexto
  <2>5. Follows(W, U, {}, E, B) /\ Local(U) = Local(W) /\ U.grid[U.you.at] = NoMon
        /\ Elsewhere(W, U)
    <3>1. CASE shove
      <4>1. U = RlocTo(W, m, x)
        BY <3>1
      <4> HIDE DEF U, x, P
      <4>2. Relocated(W, U, {}, P, m, x) /\ Clear(U)
        <5>1. W.grid[W.you.at] = m /\ ~W.you.uswallow
          BY <1>1
        <5> HIDE DEF m
        <5>2. Spot(W) = x
          BY DEF x
        <5> QED BY <1>1, <1>2, <2>1, <2>3, <4>1, <5>1, <5>2, RlocClears
      <4>3. /\ Stands(U, {}, P \cup {m}) /\ Moved(W, U, {m}) /\ SameTurn(W, U)
            /\ U.you.usteed = W.you.usteed /\ U.you.uswallow = W.you.uswallow
        BY <4>2 DEF Relocated
      <4>4. P \cup {m} = P /\ {m} \ {NoMon} \subseteq Local(W)
        BY <2>1
      <4> HIDE DEF m
      <4>5. Follows(W, U, {}, E, B) /\ Local(U) = Local(W)
        BY <1>1, <4>2, <4>3, <4>4, MovedGood DEF P
      <4> QED BY <1>1, <4>2, <4>3, <4>5 DEF Clear, Moved
    <3>2. CASE ~shove
      <4>1. U = UOnNewpos(W, x)
        BY <3>2
      <4>2. x \in Square /\ W.grid[x] = NoMon
        BY <2>3
      <4> HIDE DEF U, x, m
      <4>3. HeroAt(W, U, x) /\ U.you.ustuck = NoMon /\ U.you.uswallow = FALSE
        BY <1>1, <4>1, <4>2, NewposMoves
      <4>4. Stands(U, {}, P) /\ Clear(U)
        <5>1. W.you.usteed \notin P
          BY DEF Afoot
        <5>2. W.you.usteed # NoMon => W.you.usteed \in Local(W) \cup {} /\ W.mon[W.you.usteed].alive
          BY <1>1 DEF Rides
        <5> HIDE DEF P
        <5> QED BY <1>1, <4>2, <4>3, <5>1, <5>2, HeroStands
      <4>5. /\ Moved(W, U, {W.you.usteed}) /\ U.you.usteed = W.you.usteed /\ SameTurn(W, U)
            /\ Elsewhere(W, U)
        BY <4>3 DEF HeroAt
      <4>6. {W.you.usteed} \ {NoMon} \subseteq Local(W)
        BY <1>1 DEF Rides
      <4>7. Follows(W, U, {}, E, B) /\ Local(U) = Local(W)
        BY <1>1, <4>4, <4>5, <4>6, MovedGood
      <4> QED BY <4>3, <4>4, <4>5, <4>7 DEF Clear
    <3> QED BY <3>1, <3>2
  <2> HIDE DEF U, m
  <2>6. V = U
    BY <2>4, <2>5
  <2>7. U.purge = 0 /\ U.mydogs = <<>>
    BY <1>1, <2>5 DEF Elsewhere
  <2>8. Dead(U) = {}
    <3>1. Books(U, {}, E, B) /\ U \in Worlds
      BY <2>5 DEF Follows, Good, Books
    <3>2. Dead(U) \in SUBSET MonId /\ Cardinality(Dead(U)) = 0
      BY <2>7, <3>1, Parts DEF Books, Dead
    <3> QED BY <3>2, Few, FS_EmptySet
  <2> QED BY <2>5, <2>6, <2>7, <2>8 DEF Follows
<1> QED BY <1>3, <1>4

\* V is W but for mydogs.
DogsTaken(W, V) ==
    /\ V \in Worlds /\ V.fmon = W.fmon /\ V.mydogs = <<>> /\ V.grid = W.grid /\ V.mon = W.mon
    /\ V.migrating_mons = W.migrating_mons /\ V.light = W.light /\ V.you = W.you
    /\ V.purge = W.purge

LEMMA DogsAreTaken ==
    ASSUME NEW W \in Worlds, NEW V, V = [W EXCEPT !.mydogs = <<>>]
    PROVE  DogsTaken(W, V)
<1>1. <<>> \in Seq(MonId)
  BY EmptyList
<1> QED BY <1>1 DEF Worlds, DogsTaken

LEMMA DogsTakenBooks ==
    ASSUME NEW W, NEW H, NEW E, NEW B, Books(W, H, E, B), NEW V, DogsTaken(W, V)
    PROVE  Books(V, H, E, B) /\ Afoot(V) = Afoot(W)
<1>1. Local(V) = Local(W) /\ Moving(V) = Moving(W) /\ Dead(V) = Dead(W) /\ Living(V) = Living(W)
      /\ Afoot(V) = Afoot(W)
  BY DEF DogsTaken, Local, Moving, Dead, Living, Afoot
<1>2. Apart(V, H, E)
  BY <1>1 DEF Books, Apart, DogsTaken
<1>3. ASSUME NEW m \in MonId PROVE Accounted(V, H, E, B, m)
  <2>1. Accounted(W, H, E, B, m)
    BY DEF Books
  <2> QED BY <1>1, <2>1 DEF Accounted, Glow01, DogsTaken
<1> QED BY <1>1, <1>2, <1>3 DEF Books, DogsTaken

\* Before losedogs, with the steed in hand or on the map.
LEMMA DogsReady ==
    ASSUME NEW W, NEW H, NEW E, NEW B, NEW K, Books(W, H, E, B), H \subseteq MonId,
           Stands(W, H, Afoot(W) \cup K), W.purge = 0, W.you.ustuck = NoMon,
           W.you.uswallow = FALSE, K \subseteq H, W.you.usteed \notin K,
           \A m \in H : m \in K \/ m = W.you.usteed \/ W.mon[m].mx = Nowhere,
           NEW V, V = [W EXCEPT !.mydogs = <<>>]
    PROVE  Arriving(V, H, E, B, K) /\ SameTurn(W, V) /\ V.migrating_mons = W.migrating_mons
<1>1. DogsTaken(W, V)
  BY DogsAreTaken DEF Books
<1>2. Books(V, H, E, B) /\ Afoot(V) = Afoot(W)
  BY <1>1, DogsTakenBooks
<1>3. Stands(V, H, Afoot(V) \cup K)
  <2>1. Mapped(V, Afoot(V) \cup K)
    BY <1>1, <1>2 DEF DogsTaken, Stands, Mapped
  <2>2. Rides(V, H)
    BY <1>1 DEF DogsTaken, Stands, Rides, Local
  <2>3. Held(V, Afoot(V) \cup K)
    BY <1>1, <1>2 DEF DogsTaken, Stands, Held
  <2> QED BY <2>1, <2>2, <2>3 DEF Stands
<1> QED BY <1>1, <1>2, <1>3 DEF Arriving, SameTurn, DogsTaken

\* The hero has arrived on a level, with those who came along.
Landed(L, V, E, B) ==
    Good(V, E, B) /\ SameTurn(L, V) /\ V.mydogs = <<>> /\ Dead(V) = {} /\ V.purge = 0

LEMMA ArriveGood ==
    ASSUME NEW W, NEW E, NEW B, NEW L, Leaving(W, L, E, B), NEW l, NEW F, F \subseteq E,
           Fits(L, levelfile[l], F), NEW c, c.at \in Square,
           c.fell => /\ L.you.usteed # NoMon
                     /\ \A m \in F : L.mon[m].mx # c.at,
           NEW V, V = Arrive(L, l, c)
    PROVE  Landed(L, V, (E \cup Local(L)) \ F, L.mon)
<1> DEFINE H  == Range(L.mydogs)
           E2 == (E \cup Local(L)) \ F
           S  == SaveLev(L)
           G  == GetLev(S, levelfile[l])
           A  == UOnNewpos(G, c.at)
           D  == IF c.fell THEN DismountSteed(A, c.have_spot, FALSE) ELSE A
           X  == LoseDogs(D, l, c.bold)
           s  == L.you.usteed
<1>1. V = Collision(X, c.shove)
  BY DEF Arrive
<1>2. /\ Books(L, H, E, B) /\ Once(L.mydogs) /\ L \in Worlds /\ L.mydogs \in Seq(MonId)
      /\ L.you.ustuck = NoMon /\ L.you.uswallow = FALSE /\ H \subseteq MonId
      /\ s # NoMon => s \in H
      /\ \A m \in H : L.mon[m].mx = Nowhere /\ L.mon[m].alive
  <2>1. L \in Worlds
    BY DEF Leaving, Books
  <2>2. L.mydogs \in Seq(MonId)
    BY <2>1, Parts
  <2> QED BY <2>1, <2>2, RangeIs DEF Leaving
<1>3. Saved(L, S, E)
  <2>1. S = SaveLev(L)
    OBVIOUS
  <2> HIDE DEF S
  <2> QED BY <2>1, SaveLevGood
<1> HIDE DEF S, H
<1>4. /\ Books(S, H, E \cup Local(L), L.mon) /\ S.fmon = <<>> /\ S.purge = 0 /\ S.mydogs = L.mydogs
      /\ S.migrating_mons = L.migrating_mons /\ S.mon = L.mon /\ S.you = L.you
  BY <1>3 DEF Saved, H
<1>5. /\ Books(G, H, E2, L.mon) /\ Local(G) = F /\ Mapped(G, F) /\ G.mon = L.mon
      /\ G.you = L.you /\ G.mydogs = L.mydogs /\ G.purge = 0
  <2>1. Fits(S, levelfile[l], F)
    BY <1>4 DEF Fits
  <2>2. F \subseteq E \cup Local(L)
    OBVIOUS
  <2>3. G = GetLev(S, levelfile[l])
    OBVIOUS
  <2>4. S.you.usteed # NoMon => S.you.usteed \in H
    BY <1>2, <1>4
  <2> HIDE DEF G, E2
  <2>5. /\ Books(G, H, (E \cup Local(L)) \ F, L.mon) /\ Local(G) = F /\ Mapped(G, F) /\ G.mon = S.mon
        /\ G.you = S.you /\ G.mydogs = S.mydogs /\ G.purge = 0
    BY <1>4, <2>1, <2>2, <2>3, <2>4, GetLevGood
  <2> QED BY <1>4, <2>5 DEF E2
<1> HIDE DEF G, E2
<1>6. /\ HeroAt(G, A, c.at) /\ A.you.ustuck = NoMon /\ A.you.uswallow = FALSE
  <2>1. A = UOnNewpos(G, c.at) /\ G \in Worlds
    BY <1>5 DEF Books
  <2> HIDE DEF A
  <2> QED BY <1>2, <1>5, <2>1, NewposMoves
<1> HIDE DEF A
<1>7. /\ A \in Worlds /\ A.grid = G.grid /\ A.you.at = c.at /\ A.you.usteed = s /\ SameTurn(L, A)
      /\ Elsewhere(G, A) /\ Moved(G, A, {s} \ {NoMon})
      /\ s # NoMon => A.mon[s].mx = c.at
  <2>1. /\ A \in Worlds /\ A.grid = G.grid /\ A.you.at = c.at /\ A.you.usteed = s /\ SameTurn(L, A)
        /\ Elsewhere(G, A) /\ Moved(G, A, {s})
        /\ s # NoMon => A.mon[s].mx = c.at
    BY <1>5, <1>6 DEF HeroAt, SameTurn
  <2>2. Moved(G, A, {s} \ {NoMon})
    BY <2>1, PlaceAssumption DEF Moved
  <2> QED BY <2>1, <2>2
<1> HIDE DEF s
<1>8. Books(A, H, E2, L.mon) /\ Local(A) = F
  <2>1. {s} \ {NoMon} \subseteq Local(G) \cup H
    BY <1>2
  <2> QED BY <1>5, <1>7, <2>1, MovedBooks
<1>9. \A m \in MonId : A.mon[m].alive = L.mon[m].alive /\ (m # s => A.mon[m] = L.mon[m])
  BY <1>5, <1>7 DEF Moved, Kin
<1>10. F \subseteq MonId /\ F \cap H = {} /\ s \notin F /\ NoMon \notin MonId
       /\ A.purge = 0 /\ A.mydogs = L.mydogs
  BY <1>2, <1>5, <1>7, <1>8, PlaceAssumption DEF Books, Apart, Mapped, Elsewhere
<1>11. Afoot(A) = F
  <2>1. Dead(A) \in SUBSET MonId /\ A.purge = Cardinality(Dead(A))
    BY <1>8, <1>10 DEF Books, Dead
  <2>2. Dead(A) = {}
    BY <1>10, <2>1, Few, FS_EmptySet
  <2> QED BY <1>7, <1>8, <1>10, <2>2 DEF Afoot, Dead
<1>12. Stands(A, H, F)
  <2>1. Mapped(A, F)
    <3>1. \A m \in F : m \in MonId /\ A.mon[m] = G.mon[m]
      BY <1>5, <1>9, <1>10
    <3> QED BY <1>5, <1>7, <1>10, <3>1 DEF Mapped
  <2>2. Rides(A, H)
    BY <1>2, <1>7, <1>9 DEF Rides
  <2>3. Held(A, F)
    BY <1>6 DEF Held
  <2> QED BY <2>1, <2>2, <2>3 DEF Stands
\* A rider who fell down the stairs.
<1>13. CASE c.fell
  <2>1. D = DismountSteed(A, c.have_spot, FALSE) /\ s # NoMon /\ s \in H
    BY <1>2, <1>13 DEF s
  <2> HIDE DEF D
  <2>2. Clear(A)
    <3>1. \A m \in F : A.mon[m] = L.mon[m] /\ L.mon[m].mx # c.at
      BY <1>9, <1>10, <1>13
    <3>2. A.grid[c.at] = NoMon
      BY <1>12, <3>1 DEF Stands, Mapped
    <3> QED BY <1>6, <1>7, <3>2 DEF Clear
  <2>3. Cardinality(F \cup {s}) <= MaxMonsters
    <3>1. F \cup {s} \subseteq Living(A)
      BY <1>2, <1>9, <1>10, <1>11, <2>1 DEF Afoot, Living
    <3>2. Living(A) \in SUBSET MonId /\ Cardinality(Living(A)) <= MaxMonsters
      BY <1>8 DEF Books, Living
    <3>3. /\ Cardinality(F \cup {s}) <= Cardinality(Living(A))
          /\ Cardinality(F \cup {s}) \in Nat /\ Cardinality(Living(A)) \in Nat
      BY <3>1, <3>2, Few, FewIn
    <3> QED BY <3>2, <3>3, PlaceAssumption
  <2>4. Unmounted(A, D, H, F, s)
    <3>1. A.you.usteed = s
      BY <1>7
    <3> QED BY <1>7, <1>10, <1>12, <2>1, <2>2, <2>3, <3>1, DismountMoves
  <2>5. /\ Stands(D, H, F \cup {s}) /\ Moved(A, D, {s}) /\ SameTurn(A, D)
        /\ D.you.usteed = NoMon /\ D.you.ustuck = NoMon
    BY <1>6, <2>4 DEF Unmounted
  <2>6. Books(D, H, E2, L.mon) /\ Local(D) = F
    <3>1. {s} \subseteq Local(A) \cup H
      BY <2>1
    <3> QED BY <1>8, <2>5, <3>1, MovedBooks
  <2>7. /\ D.purge = 0 /\ D.mydogs = L.mydogs
        /\ \A m \in MonId : D.mon[m].alive = A.mon[m].alive /\ (m # s => D.mon[m] = A.mon[m])
    BY <1>10, <2>5 DEF Moved, Elsewhere, Kin
  <2>8. Afoot(D) = F
    BY <1>10, <1>11, <2>5, <2>6, <2>7 DEF Afoot
  <2>9. D.you.uswallow = FALSE
    <3>1. D \in Worlds
      BY <2>6 DEF Books
    <3>2. D.you.uswallow \in BOOLEAN
      BY <3>1, Parts, YouParts
    <3> QED BY <2>5, <3>2 DEF Stands, Held
  <2>10. \A m \in H : m \in {s} \/ m = D.you.usteed \/ D.mon[m].mx = Nowhere
    BY <1>2, <1>9, <2>7
  <2> DEFINE D0 == [D EXCEPT !.mydogs = <<>>]
  <2>11. /\ Arriving(D0, H, E2, L.mon, {s}) /\ SameTurn(D, D0)
         /\ D0.migrating_mons = D.migrating_mons
    <3>1. Stands(D, H, Afoot(D) \cup {s})
      BY <2>5, <2>8
    <3>2. {s} \subseteq H /\ D.you.usteed \notin {s}
      BY <2>1, <2>5
    <3>3. D0 = [D EXCEPT !.mydogs = <<>>]
      OBVIOUS
    <3>4. /\ Books(D, H, E2, L.mon) /\ H \subseteq MonId /\ Stands(D, H, Afoot(D) \cup {s})
          /\ D.purge = 0 /\ D.you.ustuck = NoMon /\ D.you.uswallow = FALSE
          /\ {s} \subseteq H /\ D.you.usteed \notin {s}
          /\ \A m \in H : m \in {s} \/ m = D.you.usteed \/ D.mon[m].mx = Nowhere
      BY <1>2, <2>5, <2>6, <2>7, <2>9, <2>10, <3>1, <3>2
    <3> HIDE DEF D0
    <3> DEFINE B1 == L.mon
               K1 == {s}
    <3> HIDE DEF B1, K1
    <3>5. /\ Books(D, H, E2, B1) /\ H \subseteq MonId /\ Stands(D, H, Afoot(D) \cup K1)
          /\ D.purge = 0 /\ D.you.ustuck = NoMon /\ D.you.uswallow = FALSE
          /\ K1 \subseteq H /\ D.you.usteed \notin K1
          /\ \A m \in H : m \in K1 \/ m = D.you.usteed \/ D.mon[m].mx = Nowhere
      BY <3>4 DEF B1, K1
    <3>6. Arriving(D0, H, E2, B1, K1) /\ SameTurn(D, D0) /\ D0.migrating_mons = D.migrating_mons
      BY ONLY <3>3, <3>5, DogsReady
    <3> QED BY <3>6 DEF B1, K1
  <2>12. D0 = [D EXCEPT !.mydogs = <<>>] /\ Range(D.mydogs) = H /\ D.mydogs \in Seq(MonId)
         /\ Once(D.mydogs)
    BY <1>2, <2>7 DEF H
  <2>13. Arriving(X, {}, E2, L.mon, {}) /\ SameTurn(D0, X)
    <3>1. X = LoseDogs(D, l, c.bold)
      OBVIOUS
    <3> HIDE DEF X, D0
    <3>2. Arriving(D0, Range(D.mydogs), E2, L.mon, {s})
      BY <2>11, <2>12
    <3> QED BY <2>11, <2>12, <3>1, <3>2, LoseDogsGood
  <2> HIDE DEF X, D0
  <2>14. /\ Good(V, E2, L.mon) /\ SameTurn(X, V) /\ V.mydogs = <<>> /\ Dead(V) = {}
         /\ V.purge = 0
    BY <1>1, <2>13, CollisionGood
  <2> QED BY <1>7, <2>5, <2>11, <2>13, <2>14 DEF Landed, SameTurn, E2
<1>14. CASE ~c.fell
  <2>1. D = A
    BY <1>14
  <2> HIDE DEF D
  <2> DEFINE D0 == [D EXCEPT !.mydogs = <<>>]
  <2>2. /\ Arriving(D0, H, E2, L.mon, {}) /\ SameTurn(D, D0)
        /\ D0.migrating_mons = D.migrating_mons
    <3>1. Stands(D, H, Afoot(D) \cup {})
      <4>1. F \cup {} = F
        OBVIOUS
      <4> QED BY <1>11, <1>12, <2>1, <4>1
    <3>2. {} \subseteq H /\ D.you.usteed \notin {}
      OBVIOUS
    <3>3. D0 = [D EXCEPT !.mydogs = <<>>]
      OBVIOUS
    <3>4. \A m \in H : m \in {} \/ m = D.you.usteed \/ D.mon[m].mx = Nowhere
      BY <1>2, <1>7, <1>9, <2>1
    <3>5. /\ Books(D, H, E2, L.mon) /\ D.purge = 0 /\ D.you.ustuck = NoMon
          /\ D.you.uswallow = FALSE
      BY <1>6, <1>8, <1>10, <2>1
    <3> HIDE DEF D0
    <3> DEFINE B1 == L.mon
               K1 == {}
    <3> HIDE DEF B1, K1
    <3>6. /\ Books(D, H, E2, B1) /\ H \subseteq MonId /\ Stands(D, H, Afoot(D) \cup K1)
          /\ D.purge = 0 /\ D.you.ustuck = NoMon /\ D.you.uswallow = FALSE
          /\ K1 \subseteq H /\ D.you.usteed \notin K1
          /\ \A m \in H : m \in K1 \/ m = D.you.usteed \/ D.mon[m].mx = Nowhere
      BY <1>2, <3>1, <3>2, <3>4, <3>5 DEF B1, K1
    <3>7. Arriving(D0, H, E2, B1, K1) /\ SameTurn(D, D0) /\ D0.migrating_mons = D.migrating_mons
      BY ONLY <3>3, <3>6, DogsReady
    <3> QED BY <3>7 DEF B1, K1
  <2>3. D0 = [D EXCEPT !.mydogs = <<>>] /\ Range(D.mydogs) = H /\ D.mydogs \in Seq(MonId)
        /\ Once(D.mydogs)
    BY <1>2, <1>10, <2>1 DEF H
  <2>4. Arriving(X, {}, E2, L.mon, {}) /\ SameTurn(D0, X)
    <3>1. X = LoseDogs(D, l, c.bold)
      OBVIOUS
    <3> HIDE DEF X, D0
    <3>2. Arriving(D0, Range(D.mydogs), E2, L.mon, {})
      BY <2>2, <2>3
    <3> QED BY <2>2, <2>3, <3>1, <3>2, LoseDogsGood
  <2> HIDE DEF X, D0
  <2>5. /\ Good(V, E2, L.mon) /\ SameTurn(X, V) /\ V.mydogs = <<>> /\ Dead(V) = {}
        /\ V.purge = 0
    BY <1>1, <2>4, CollisionGood
  <2> QED BY <1>7, <2>1, <2>2, <2>4, <2>5 DEF Landed, SameTurn, E2
<1> QED BY <1>13, <1>14

(***************************************************************************)
(* A step of the specification: the world after it is good again.          *)
(***************************************************************************)
LEMMA WorldIs ==
    /\ World.mon = mon /\ World.fmon = fmon /\ World.mydogs = <<>>
    /\ World.migrating_mons = migrating_mons /\ World.grid = grid /\ World.light = light
    /\ World.you = you /\ World.purge = purge /\ World.impossible = impossible
BY DEF World

LEMMA WorldNext ==
    ASSUME NEW V \in Worlds, V.mydogs = <<>>, Becomes(V)
    PROVE  World' = V
BY DEF World, Becomes, Worlds

\* What a level file holds is now what it was then.
LEMMA GoodNow ==
    ASSUME NEW W, NEW E, NEW B, Good(W, E, B)
    PROVE  Good(W, E, W.mon) /\ \A m \in MonId : m \in E => W.mon[m] = B[m]
<1>1. Books(W, {}, E, B)
  BY DEF Good
<1>2. \A m \in MonId : Accounted(W, {}, E, B, m)
  BY <1>1 DEF Books
<1>3. \A m \in MonId : Accounted(W, {}, E, W.mon, m)
  BY <1>2 DEF Accounted
<1>4. Books(W, {}, E, W.mon)
  BY <1>1, <1>3 DEF Books
<1> QED BY <1>2, <1>4 DEF Good, Accounted

LEMMA FilesIn ==
    ASSUME Files
    PROVE  /\ InFiles = UNION {Filed(l) : l \in Level} /\ InFiles \subseteq MonId
           /\ \A l \in Level : Filed(l) \subseteq InFiles /\ levelfile[l].fmon \in Seq(MonId)
<1>1. \A l \in Level : levelfile[l].fmon \in Seq(MonId)
  BY DEF Files
<1>2. \A l \in Level : Filed(l) \in SUBSET MonId
  BY <1>1, RangeIs DEF Filed
<1> QED BY <1>1, <1>2 DEF InFiles, Filed

\* The level files do not change.
LEMMA FilesStay ==
    ASSUME Files, here' = here, levelfile' = levelfile,
           \A m \in MonId : m \in InFiles => mon'[m] = mon[m]
    PROVE  Files' /\ InFiles' = InFiles
<1>1. InFiles' = InFiles /\ \A l \in Level : Filed(l)' = Filed(l)
  BY DEF InFiles, Filed
<1>2. \A l \in Level : \A m \in Filed(l) : m \in MonId /\ mon'[m] = mon[m]
  BY FilesIn
<1>3. ASSUME NEW l \in Level PROVE FileGood(l)'
  <2>1. FileGood(l)
    BY DEF Files
  <2>2. levelfile'[l] = levelfile[l] /\ Filed(l)' = Filed(l)
    BY <1>1
  <2>3. \A m \in Filed(l) : mon'[m] = mon[m]
    BY <1>2
  <2>4. \A k \in Level \ {l} : Filed(k)' = Filed(k)
    BY <1>1
  <2> QED BY <2>1, <2>2, <2>3, <2>4 DEF FileGood
<1> QED BY <1>1, <1>3 DEF Files

LEMMA Stays ==
    ASSUME IInv, NEW V, Good(V, InFiles, mon), V.mydogs = <<>>, Becomes(V),
           here' = here, levelfile' = levelfile
    PROVE  /\ Good(World, InFiles, mon)' /\ Files' /\ World' = V /\ InFiles' = InFiles
           /\ mon' = V.mon /\ fmon' = V.fmon /\ you' = V.you /\ purge' = V.purge
<1>1. World' = V
  BY WorldNext DEF Good, Books
<1>2. mon' = V.mon /\ fmon' = V.fmon /\ you' = V.you /\ purge' = V.purge
  BY DEF Becomes
<1>3. Good(V, InFiles, V.mon) /\ \A m \in MonId : m \in InFiles => V.mon[m] = mon[m]
  BY GoodNow
<1>4. Files' /\ InFiles' = InFiles
  BY <1>2, <1>3, FilesStay DEF IInv
<1>5. Good(World', InFiles', mon')
  BY <1>1, <1>2, <1>3, <1>4
<1> QED BY <1>1, <1>2, <1>4, <1>5

\* The walk: where it starts, and where it goes on.
LEMMA FirstIs ==
    ASSUME NEW s \in Seq(MonId)
    PROVE  First(s) \in Range(s) \cup {NoMon}
<1>1. Range(s) = {s[i] : i \in 1..Len(s)} /\ Len(s) \in Nat
  BY RangeIs
<1>2. CASE s = <<>>
  BY <1>2 DEF First
<1>3. CASE s # <<>>
  <2>1. Head(s) = s[1] /\ 1 \in 1..Len(s)
    BY <1>1, <1>3
  <2> QED BY <1>1, <1>3, <2>1 DEF First
<1> QED BY <1>2, <1>3

LEMMA NextIs ==
    ASSUME NEW s \in Seq(MonId), Once(s), NEW m \in Range(s)
    PROVE  Next_(m, s) \in (Range(s) \ {m}) \cup {NoMon}
<1> DEFINE i == CHOOSE i \in 1..Len(s) : s[i] = m
<1>1. Range(s) = {s[k] : k \in 1..Len(s)} /\ Len(s) \in Nat
  BY RangeIs
<1>2. i \in 1..Len(s) /\ s[i] = m
  BY <1>1
<1>3. Next_(m, s) = IF i = Len(s) THEN NoMon ELSE s[i + 1]
  BY DEF Next_
<1> HIDE DEF i
<1>4. i # Len(s) => i + 1 \in 1..Len(s) /\ i + 1 # i
  BY <1>1, <1>2
<1>5. i # Len(s) => s[i + 1] # m /\ s[i + 1] \in Range(s)
  BY <1>1, <1>2, <1>4 DEF Once
<1> QED BY <1>3, <1>5

(***************************************************************************)
(* What touches only the books of a monster or of the hero.                *)
(***************************************************************************)
\* An action costs the hero movement.
HeroPaid(W) == [W EXCEPT !.you.movement = @ - NORMAL_SPEED]
LEMMA HeroPays ==
    ASSUME NEW W, NEW E, NEW B, Good(W, E, B), W.you.movement >= NORMAL_SPEED,
           NEW V, V = HeroPaid(W)
    PROVE  Touched(W, V) /\ V.you.utolev = W.you.utolev /\ V.fmon = W.fmon /\ V.mon = W.mon
<1> DEFINE k == W.you.movement - NORMAL_SPEED
           y == [W.you EXCEPT !.movement = k]
<1>1. /\ W \in Worlds /\ W.you \in You /\ Books(W, {}, E, B) /\ Stands(W, {}, Afoot(W))
      /\ NORMAL_SPEED \in Nat /\ W.you.movement \in Nat
  BY GoodParts, GoodIds, YouParts, FormAssumption
<1>2. k \in Nat
  BY <1>1
<1>3. V = [W EXCEPT !.you = y]
  BY DEF HeroPaid
<1> HIDE DEF k
<1>4. y \in You /\ y.at = W.you.at /\ y.ustuck = W.you.ustuck /\ y.uswallow = W.you.uswallow
      /\ y.usteed = W.you.usteed /\ y.utolev = W.you.utolev
  BY <1>1, <1>2, YouTurn
<1> HIDE DEF y
<1>5. IsHeroChanged(W, V, y)
  BY <1>1, <1>3, <1>4, HeroChanged
<1>6. \A n \in MonId : W.mon[n].mleashed => W.mon[n].alive /\ n \in Local(W)
  BY <1>1 DEF Books, Accounted
<1>7. W.you.uswallow => \A n \in MonId : ~W.mon[n].mleashed
  BY <1>1 DEF Stands, Held
<1> QED BY <1>4, <1>5, <1>6, <1>7 DEF Touched, IsHeroChanged, Elsewhere

LEMMA CommandGood ==
    ASSUME IInv, phase = "hero", NEW W, NEW S, Follows(World, W, S, InFiles, mon), Command(W)
    PROVE  IInv'
<1> DEFINE V == HeroPaid(W)
<1>1. /\ Good(W, InFiles, mon) /\ W.mydogs = <<>> /\ W.you.utolev = "stay"
      /\ W.you.movement >= NORMAL_SPEED /\ here \in Level
  BY WorldIs DEF Follows, SameTurn, IInv, Loop, Files
<1>2. Touched(W, V) /\ V.you.utolev = "stay" /\ V.fmon = W.fmon
  <2>1. V = HeroPaid(W)
    OBVIOUS
  <2> HIDE DEF V
  <2> QED BY <1>1, <2>1, HeroPays
<1>3. Becomes(V) /\ StartWalk(V) /\ here' = here /\ levelfile' = levelfile
  BY DEF Command, Takes, HeroPaid
<1> HIDE DEF V
<1>4. Good(V, InFiles, mon) /\ V.mydogs = <<>>
  BY <1>1, <1>2, TouchedGood
<1>5. Good(World, InFiles, mon)' /\ Files' /\ World' = V /\ you' = V.you
  BY <1>3, <1>4, Stays
<1>6. phase' = "monsters" /\ somebody' = FALSE /\ walk' \in Local(V) \cup {NoMon}
  <2>1. V.fmon \in Seq(MonId)
    BY <1>4, Parts DEF Good, Books
  <2> QED BY <1>3, <2>1, FirstIs DEF StartWalk, Local
<1>7. Loop'
  <2>1. walk' \in Local(World') \cup {NoMon} /\ you'.utolev = "stay"
    BY <1>2, <1>5, <1>6
  <2>2. you'.utolev # here'
    BY <1>1, <1>3, <2>1, PlaceAssumption
  <2> QED BY <1>6, <2>1, <2>2 DEF Loop
<1> QED BY <1>5, <1>7 DEF IInv

(***************************************************************************)
(* Who is listed, and who is free.                                         *)
(***************************************************************************)
LEMMA OwnedAre ==
    ASSUME NEW V, V.mydogs = <<>>
    PROVE  Owned(V) = Local(V) \cup Moving(V) \cup InFiles
<1>1. Range(V.mydogs) = {}
  BY EmptyList
<1> QED BY <1>1 DEF Owned, Local, Moving

LEMMA GoodOwned ==
    ASSUME Files, NEW V, NEW B, Good(V, InFiles, B), V.mydogs = <<>>
    PROVE  /\ Owned(V) = Local(V) \cup Moving(V) \cup InFiles
           /\ Owned(V) \in SUBSET MonId
<1>1. Local(V) \in SUBSET MonId /\ Moving(V) \in SUBSET MonId
  BY Parts DEF Good, Books
<1> QED BY <1>1, OwnedAre, FilesIn

\* Without dead monsters the bound on the living is one on the listed.
LEMMA AllAliveIn ==
    ASSUME NEW V, NEW E \in SUBSET MonId, NEW B, Good(V, E, B), Dead(V) = {}
    PROVE  /\ Local(V) \cup Moving(V) \cup E = Living(V)
           /\ Cardinality(Local(V) \cup Moving(V) \cup E) <= MaxMonsters
<1>1. Books(V, {}, E, B) /\ Local(V) \in SUBSET MonId /\ Moving(V) \in SUBSET MonId
  BY Parts DEF Good, Books
<1>2. \A m \in MonId : Accounted(V, {}, E, B, m)
  BY <1>1 DEF Books
<1>3. ASSUME NEW m \in MonId PROVE m \in Local(V) \cup Moving(V) \cup E <=> V.mon[m].alive
  <2>1. m \in Local(V) => V.mon[m].alive
    BY DEF Dead
  <2>2. m \notin Local(V) => (V.mon[m].alive <=> m \in Moving(V) \cup E)
    BY <1>2 DEF Accounted
  <2> QED BY <2>1, <2>2
<1>4. Local(V) \cup Moving(V) \cup E = Living(V)
  BY <1>1, <1>3 DEF Living
<1> QED BY <1>1, <1>4 DEF Books

LEMMA AllAlive ==
    ASSUME Files, NEW V, NEW B, Good(V, InFiles, B), V.mydogs = <<>>, Dead(V) = {}
    PROVE  Owned(V) = Living(V) /\ Cardinality(Owned(V)) <= MaxMonsters
<1>1. InFiles \in SUBSET MonId
  BY FilesIn
<1>2. Local(V) \cup Moving(V) \cup InFiles = Living(V)
      /\ Cardinality(Local(V) \cup Moving(V) \cup InFiles) <= MaxMonsters
  BY <1>1, AllAliveIn
<1> QED BY <1>2, OwnedAre

LEMMA FreshOf ==
    ASSUME NEW V, V.mydogs = <<>>, NEW k \in MonId, k \notin Owned(V)
    PROVE  Fresh(V, InFiles, NewMonst(V))
<1>1. NewMonst(V) \in MonId /\ NewMonst(V) \notin Owned(V)
  BY DEF NewMonst
<1> QED BY <1>1, OwnedAre DEF Fresh

LEMMA FreshOne ==
    ASSUME Files, NEW V, NEW B, Good(V, InFiles, B), V.mydogs = <<>>,
           Cardinality(Owned(V)) < Cardinality(MonId)
    PROVE  Fresh(V, InFiles, NewMonst(V))
<1>1. Owned(V) \in SUBSET MonId
  BY GoodOwned
<1>2. PICK k \in MonId : k \notin Owned(V)
  <2>1. CASE Owned(V) = MonId
    <3>1. Cardinality(MonId) \in Nat
      BY FS_CardinalityType, PlaceAssumption
    <3> QED BY <2>1, <3>1
  <2> QED BY <1>1, <2>1
<1> QED BY <1>2, FreshOf

(***************************************************************************)
(* A command that takes no time.                                           *)
(***************************************************************************)
LEMMA FreeCommandGood ==
    ASSUME IInv, NEW V, Good(V, InFiles, mon), V.mydogs = <<>>, V.you.utolev = "stay",
           V.you.movement >= NORMAL_SPEED, Cardinality(Owned(V)) <= MaxMonsters,
           FreeCommand(V)
    PROVE  IInv'
<1>1. /\ phase = "hero" /\ Becomes(V) /\ here' = here /\ levelfile' = levelfile
      /\ phase' = phase /\ walk' = walk /\ somebody' = somebody
  BY DEF FreeCommand
<1>2. /\ Good(World, InFiles, mon)' /\ Files' /\ World' = V /\ InFiles' = InFiles
      /\ you' = V.you
  BY <1>1, Stays
<1>3. walk = NoMon /\ you.utolev = "stay" /\ you.utolev # here /\ somebody \in BOOLEAN
  BY <1>1 DEF IInv, Loop
<1>4. Owned(World)' = Owned(V)
  BY <1>2 DEF Owned
<1>5. Loop'
  BY <1>1, <1>2, <1>3, <1>4 DEF Loop
<1> QED BY <1>2, <1>5 DEF IInv

(***************************************************************************)
(* A monster pays for its move, and the walk goes on.                      *)
(***************************************************************************)
LEMMA PaidGood ==
    ASSUME IInv, CanMove
    PROVE  /\ Good(Paid, InFiles, mon) /\ Paid.mydogs = <<>> /\ Paid.you = you
           /\ Local(Paid) = Local(World) /\ Afoot(Paid) = OnMap /\ Enexto(Paid) = Enexto(World)
           /\ walk \in Local(Paid) /\ walk \in MonId /\ Living(Paid) = Living(World)
           /\ Moving(Paid) = Moving(World) /\ Spot(Paid) = Spot(World)
           /\ \A m \in MonId : /\ Paid.mon[m].alive = mon[m].alive
                               /\ Paid.mon[m].data = mon[m].data
                               /\ Paid.mon[m].mx = mon[m].mx
<1> DEFINE k == mon[walk].movement - NORMAL_SPEED
           r == [mon[walk] EXCEPT !.movement = k]
<1>1. /\ Good(World, InFiles, mon) /\ walk \in Local(World) /\ mon[walk].alive
      /\ mon[walk].movement >= NORMAL_SPEED
  BY DEF IInv, Loop, CanMove
<1>2. /\ World \in Worlds /\ World.mon = mon /\ World.you = you /\ World.mydogs = <<>>
      /\ walk \in MonId /\ mon[walk] \in Monst /\ Books(World, {}, InFiles, mon)
      /\ Stands(World, {}, Afoot(World))
  BY <1>1, WorldIs, GoodIds, GoodParts
<1>3. k \in Nat
  BY <1>1, <1>2, FormAssumption DEF Monst
<1>4. Paid = [World EXCEPT !.mon[walk] = r]
  BY <1>2 DEF Paid
<1> HIDE DEF k
<1>5. /\ r \in Monst /\ r.alive = mon[walk].alive /\ r.data = mon[walk].data
      /\ r.mx = mon[walk].mx /\ r.mleashed = mon[walk].mleashed
  BY <1>2, <1>3 DEF Monst
<1> HIDE DEF r
<1>6. IsNow(World, Paid, walk, r)
  BY <1>2, <1>4, <1>5, OneChanged
<1>7. \A n \in MonId : mon[n].mleashed => mon[n].alive /\ n \in Local(World)
  BY <1>2 DEF Books, Accounted
<1>8. you.uswallow => \A n \in MonId : ~mon[n].mleashed
  BY <1>2 DEF Stands, Held
<1>9. Touched(World, Paid) /\ Paid.you = you
  BY <1>1, <1>2, <1>5, <1>6, <1>7, <1>8 DEF Touched, IsNow
<1>10. /\ Good(Paid, InFiles, mon) /\ Local(Paid) = Local(World) /\ Moving(Paid) = Moving(World)
       /\ Living(Paid) = Living(World) /\ Afoot(Paid) = Afoot(World)
       /\ Enexto(Paid) = Enexto(World) /\ Paid.mydogs = <<>>
  BY <1>1, <1>2, <1>9, TouchedGood
<1>11. Afoot(World) = OnMap
  BY WorldIs DEF Afoot, OnMap, Local
<1> QED BY <1>1, <1>2, <1>9, <1>10, <1>11 DEF Touched, Spot

\* Only the monster whose turn it is may have left the level.
WalkGoesOn == /\ Range(fmon) \ Range(fmon') \subseteq {walk}
              /\ walk' = NoMon \/ walk' \in Range(fmon')

LEMMA PaysGood ==
    ASSUME IInv, CanMove, NEW V, Good(V, InFiles, mon), V.mydogs = <<>>,
           V.you.utolev # here, Local(World) \ {walk} \subseteq Local(V), Pays(V)
    PROVE  IInv' /\ WalkGoesOn
<1>1. /\ Becomes(V) /\ walk' = Next_(walk, fmon) /\ here' = here /\ levelfile' = levelfile
      /\ phase' = phase /\ somebody' \in BOOLEAN
  BY DEF Pays, IInv, Loop
<1>2. /\ Good(World, InFiles, mon)' /\ Files' /\ World' = V /\ fmon' = V.fmon /\ you' = V.you
  BY <1>1, Stays
<1>3. Local(World) = Range(fmon) /\ Local(V) = Range(fmon')
  BY <1>2, WorldIs DEF Local
<1>4. fmon \in Seq(MonId) /\ Once(fmon) /\ walk \in Range(fmon)
  <2>1. World \in Worlds /\ Once(World.fmon)
    BY DEF IInv, Good, Books, Apart
  <2>2. walk \in Local(World)
    BY DEF IInv, Loop, CanMove
  <2> QED BY <1>3, <2>1, <2>2, WorldIs, Parts
<1>5. walk' \in (Range(fmon) \ {walk}) \cup {NoMon}
  BY <1>1, <1>4, NextIs
<1>6. WalkGoesOn
  BY <1>3, <1>5 DEF WalkGoesOn
<1>7. Loop'
  <2>1. walk' \in Local(World') \cup {NoMon}
    BY <1>2, <1>3, <1>5
  <2>2. phase' = "monsters"
    BY <1>1 DEF CanMove
  <2> QED BY <1>1, <1>2, <2>1, <2>2 DEF Loop
<1> QED BY <1>2, <1>6, <1>7 DEF IInv

LEMMA PaysFollows ==
    ASSUME IInv, CanMove, NEW V, NEW S, S \subseteq {walk}, Follows(Paid, V, S, InFiles, mon),
           Pays(V)
    PROVE  IInv' /\ WalkGoesOn
<1>1. /\ Paid.mydogs = <<>> /\ Paid.you = you /\ Local(Paid) = Local(World)
  BY PaidGood
<1>2. /\ Good(V, InFiles, mon) /\ V.mydogs = <<>> /\ V.you.utolev = you.utolev
      /\ Local(World) \ {walk} \subseteq Local(V)
  BY <1>1 DEF Follows, SameTurn
<1>3. you.utolev # here
  BY DEF IInv, Loop
<1> QED BY <1>2, <1>3, PaysGood

(***************************************************************************)
(* The hero's commands, one lemma each.                                    *)
(***************************************************************************)
LEMMA HeroGood ==
    ASSUME IInv
    PROVE  /\ Good(World, InFiles, mon) /\ Files /\ Afoot(World) = OnMap
           /\ OnMap \subseteq Local(World) /\ Local(World) = Range(fmon)
           /\ \A m \in OnMap : m \in MonId /\ mon[m].alive /\ m # you.usteed
           /\ Enexto(World) = {x \in Square : grid[x] = NoMon /\ x # you.at}
           /\ \A m \in Reach : m \in Local(World) /\ mon[m].alive /\ m \in OnMap
<1>1. Good(World, InFiles, mon) /\ Files
  BY DEF IInv
<1>2. Afoot(World) = OnMap /\ Local(World) = Range(fmon)
  BY WorldIs DEF Afoot, OnMap, Local
<1>3. \A m \in OnMap : m \in MonId /\ m \in Local(World) /\ mon[m].alive /\ m # you.usteed
  BY <1>1, <1>2, WorldIs, GoodParts
<1>4. you.uswallow => you.ustuck \in OnMap
  BY <1>1, <1>2, WorldIs, GoodParts
<1>5. \A m \in Reach : m \in OnMap
  BY <1>4 DEF Reach
<1>6. Enexto(World) = {x \in Square : grid[x] = NoMon /\ x # you.at}
  BY WorldIs DEF Enexto
<1> QED BY <1>1, <1>2, <1>3, <1>5, <1>6

LEMMA SearchGood ==
    ASSUME IInv, Search PROVE IInv'
<1>1. phase = "hero" /\ Command(World)
  BY DEF Search, Command
<1>2. Follows(World, World, {}, InFiles, mon)
  BY HeroGood DEF Follows, SameTurn
<1> QED BY <1>1, <1>2, CommandGood

LEMMA MoveGood ==
    ASSUME IInv, Move PROVE IInv'
<1> DEFINE x == Spot(World)
           V == Teleds(World, x)
<1>1. phase = "hero" /\ Command(V) /\ Enexto(World) # {}
  BY DEF Move, Command
<1>2. x \in Square /\ World.grid[x] = NoMon
  BY <1>1, SpotFree
<1>3. V = Teleds(World, x) /\ Good(World, InFiles, mon)
  BY HeroGood
<1> HIDE DEF x, V
<1>4. Follows(World, V, {}, InFiles, mon)
  BY <1>2, <1>3, TeledsGood
<1> QED BY <1>1, <1>4, CommandGood

LEMMA AttackGood ==
    ASSUME IInv, Attack PROVE IInv'
<1>1. PICK m \in Reach : Command(MonDead(World, m))
  BY DEF Attack
<1> DEFINE V == MonDead(World, m)
<1>2. phase = "hero" /\ Command(V) /\ V = MonDead(World, m)
  BY <1>1 DEF Command
<1> HIDE DEF V
<1>3. Good(World, InFiles, mon) /\ m \in Local(World) /\ World.mon[m].alive
  BY HeroGood, WorldIs
<1>4. Follows(World, V, {}, InFiles, mon)
  BY <1>2, <1>3, MonDeadGood
<1> QED BY <1>2, <1>4, CommandGood

LEMMA ZapTeleGood ==
    ASSUME IInv, ZapTele PROVE IInv'
<1>1. PICK m \in Reach : Command(Rloc(World, m))
  BY DEF ZapTele
<1> DEFINE V == Rloc(World, m)
<1>2. phase = "hero" /\ Command(V) /\ V = Rloc(World, m)
  BY <1>1 DEF Command
<1> HIDE DEF V
<1>3. Good(World, InFiles, mon) /\ m \in Local(World) /\ World.mon[m].alive
  BY HeroGood, WorldIs
<1>4. Follows(World, V, {}, InFiles, mon)
  BY <1>2, <1>3, RlocGood
<1> QED BY <1>2, <1>4, CommandGood

LEMMA ZapPolyGood ==
    ASSUME IInv, ZapPoly PROVE IInv'
<1>1. PICK m \in Reach, f \in Form : Command(NewCham(World, m, f))
  BY DEF ZapPoly
<1> DEFINE V == NewCham(World, m, f)
<1>2. phase = "hero" /\ Command(V) /\ V = NewCham(World, m, f)
  BY <1>1 DEF Command
<1> HIDE DEF V
<1>3. Good(World, InFiles, mon) /\ m \in Local(World) /\ World.mon[m].alive
  BY HeroGood, WorldIs
<1>4. Follows(World, V, {}, InFiles, mon)
  BY <1>2, <1>3, NewChamGood
<1> QED BY <1>2, <1>4, CommandGood

LEMMA DoLeashGood ==
    ASSUME IInv, DoLeash PROVE IInv'
<1>1. PICK m \in OnMap : ~you.uswallow /\ Command([World EXCEPT !.mon[m].mleashed = ~@])
  BY DEF DoLeash
<1> DEFINE b == ~mon[m].mleashed
           r == [mon[m] EXCEPT !.mleashed = b]
           V == [World EXCEPT !.mon[m].mleashed = ~@]
<1>2. phase = "hero" /\ Command(V)
  BY <1>1 DEF Command
<1>3. /\ Good(World, InFiles, mon) /\ m \in Local(World) /\ mon[m].alive /\ m \in MonId
      /\ mon[m] \in Monst /\ World \in Worlds /\ World.mon = mon /\ World.you = you
      /\ Books(World, {}, InFiles, mon) /\ World.mydogs = <<>>
  BY HeroGood, WorldIs, GoodParts, GoodIds
<1>4. V = [World EXCEPT !.mon[m] = r]
  BY <1>3
<1> HIDE DEF V
<1>5. b \in BOOLEAN
  OBVIOUS
<1> HIDE DEF b
<1>6. r \in Monst /\ r.alive = mon[m].alive /\ r.data = mon[m].data /\ r.mx = mon[m].mx
  BY <1>3, <1>5 DEF Monst
<1> HIDE DEF r
<1>7. IsNow(World, V, m, r)
  BY <1>3, <1>4, <1>6, OneChanged
<1>8. \A n \in MonId : mon[n].mleashed => mon[n].alive /\ n \in Local(World)
  BY <1>3 DEF Books, Accounted
<1>9. Touched(World, V) /\ V.you = you
  BY <1>1, <1>3, <1>6, <1>7, <1>8 DEF Touched, IsNow
<1>10. Good(V, InFiles, mon) /\ Local(V) = Local(World) /\ V.mydogs = World.mydogs
  BY <1>3, <1>9, TouchedGood
<1>11. Follows(World, V, {}, InFiles, mon)
  BY <1>3, <1>9, <1>10 DEF Follows, SameTurn
<1> QED BY <1>2, <1>11, CommandGood

LEMMA DigHoleGood ==
    ASSUME IInv, DigHole PROVE IInv'
<1>1. PICK m \in OnMap \ {you.ustuck}, l \in Level : Command(MigrateToLevel(World, m, l))
  BY DEF DigHole
<1> DEFINE V == MigrateToLevel(World, m, l)
<1>2. phase = "hero" /\ Command(V) /\ V = MigrateToLevel(World, m, l)
  BY <1>1 DEF Command
<1> HIDE DEF V
<1>3. Good(World, InFiles, mon) /\ m \in Afoot(World) /\ m # World.you.ustuck
  BY HeroGood, WorldIs
<1>4. Follows(World, V, {m}, InFiles, mon)
  BY <1>2, <1>3, MigrateGood
<1> QED BY <1>2, <1>4, CommandGood

LEMMA MountingGood ==
    ASSUME IInv, Mount PROVE IInv'
<1>1. PICK m \in OnMap :
          /\ you.usteed = NoMon /\ you.ustuck = NoMon
          /\ Command(Teleds(RemoveMonster([World EXCEPT !.you.usteed = m], mon[m].mx),
                            mon[m].mx))
  BY DEF Mount
<1> DEFINE x == World.mon[m].mx
           V == Teleds(RemoveMonster([World EXCEPT !.you.usteed = m], x), x)
<1>2. phase = "hero" /\ Command(V)
  BY <1>1, WorldIs DEF Command
<1>3. V = Teleds(RemoveMonster([World EXCEPT !.you.usteed = m], x), x) /\ x = World.mon[m].mx
  OBVIOUS
<1> HIDE DEF V, x
<1>4. /\ Good(World, InFiles, mon) /\ m \in Afoot(World)
      /\ World.you.usteed = NoMon /\ World.you.ustuck = NoMon
  BY <1>1, HeroGood, WorldIs
<1>5. Follows(World, V, {}, InFiles, mon)
  BY <1>3, <1>4, MountGood
<1> QED BY <1>2, <1>5, CommandGood

LEMMA DismountingGood ==
    ASSUME IInv, Dismount PROVE IInv'
<1>1. PICK have_spot \in BOOLEAN, drowns \in BOOLEAN :
          you.usteed # NoMon /\ Command(DismountSteed(World, have_spot, drowns))
  BY DEF Dismount
<1> DEFINE V == DismountSteed(World, have_spot, drowns)
<1>2. phase = "hero" /\ Command(V) /\ V = DismountSteed(World, have_spot, drowns)
  BY <1>1 DEF Command
<1> HIDE DEF V
<1>3. Good(World, InFiles, mon) /\ World.you.usteed # NoMon
  BY <1>1, HeroGood, WorldIs
<1>4. Follows(World, V, {}, InFiles, mon)
  BY <1>2, <1>3, DismountGood
<1> QED BY <1>2, <1>4, CommandGood

LEMMA SwapPetGood ==
    ASSUME IInv, Oversights = {}, SwapPet PROVE IInv'
<1>1. PICK m \in OnMap \ {you.ustuck} :
          /\ ~you.uswallow
          /\ \/ Command(Swapped(World, m))
             \/ Command(MonDead(Swapped(World, m), m))
             \/ \E l \in Level \ {here} : Command(MigrateToLevel(Swapped(World, m), m, l))
  BY WorldIs DEF SwapPet, Swapped
<1> DEFINE S == Swapped(World, m)
<1>2. S = Swapped(World, m)
  OBVIOUS
<1> HIDE DEF S
<1>3. Good(World, InFiles, mon) /\ m \in Afoot(World) /\ ~World.you.uswallow
  BY <1>1, HeroGood, WorldIs
<1>4. /\ Follows(World, S, {}, InFiles, mon) /\ m \in Afoot(S) /\ S.you.ustuck = NoMon
      /\ Local(S) = Local(World)
  BY <1>2, <1>3, SwapGood
<1>5. Good(S, InFiles, mon) /\ m \in Local(S) /\ S.mon[m].alive /\ m # S.you.ustuck
  <2>1. Good(S, InFiles, mon)
    BY <1>4 DEF Follows
  <2> QED BY <1>4, <2>1, GoodParts
<1>6. CASE Command(Swapped(World, m))
  <2>1. phase = "hero" /\ Command(S)
    BY <1>2, <1>6 DEF Command
  <2> QED BY <1>4, <2>1, CommandGood
<1>7. CASE Command(MonDead(Swapped(World, m), m))
  <2> DEFINE V == MonDead(S, m)
  <2>1. phase = "hero" /\ Command(V) /\ V = MonDead(S, m)
    BY <1>2, <1>7 DEF Command
  <2> HIDE DEF V
  <2>2. Follows(S, V, {}, InFiles, mon)
    BY <1>5, <2>1, MonDeadGood
  <2>3. Follows(World, V, {}, InFiles, mon)
    BY <1>4, <2>2, FollowsOn
  <2> QED BY <2>1, <2>3, CommandGood
<1>8. CASE \E l \in Level \ {here} : Command(MigrateToLevel(Swapped(World, m), m, l))
  <2>0. PICK l \in Level : Command(MigrateToLevel(Swapped(World, m), m, l))
    BY <1>8
  <2> DEFINE V == MigrateToLevel(S, m, l)
  <2>1. phase = "hero" /\ Command(V) /\ V = MigrateToLevel(S, m, l)
    BY <1>2, <2>0 DEF Command
  <2> HIDE DEF V
  <2>2. Follows(S, V, {m}, InFiles, mon)
    BY <1>4, <1>5, <2>1, MigrateGood
  <2>3. Follows(World, V, {m}, InFiles, mon)
    BY <1>4, <2>2, FollowsOn
  <2> QED BY <2>1, <2>3, CommandGood
<1> QED BY <1>1, <1>6, <1>7, <1>8

\* One identity in, one out.
LEMMA Traded ==
    ASSUME NEW S \in SUBSET MonId, NEW m \in S, NEW n \in MonId
    PROVE  Cardinality((S \ {m}) \cup {n}) <= Cardinality(S)
<1>1. IsFiniteSet(S) /\ Cardinality(S) \in Nat
  BY Few
<1>2. IsFiniteSet(S \ {m}) /\ Cardinality(S \ {m}) = Cardinality(S) - 1
  BY <1>1, FS_RemoveElement
<1>3. Cardinality((S \ {m}) \cup {n}) = IF n \in S \ {m} THEN Cardinality(S \ {m})
                                        ELSE Cardinality(S \ {m}) + 1
  BY <1>2, FS_AddElement
<1> QED BY <1>1, <1>2, <1>3

LEMMA ChristenGood ==
    ASSUME IInv, Christen PROVE IInv'
<1> DEFINE n == NewMonst(World)
<1>1. PICK m \in Reach \cup ({you.usteed} \ {NoMon}) : FreeCommand(ReplMon(World, m, n))
  BY DEF Christen
<1> DEFINE V == ReplMon(World, m, n)
<1>2. phase = "hero" /\ FreeCommand(V) /\ V = ReplMon(World, m, n)
  BY <1>1 DEF FreeCommand
<1> HIDE DEF V
<1>3. /\ Good(World, InFiles, mon) /\ Files /\ m \in Local(World) /\ World.mon[m].alive
      /\ World.mydogs = <<>>
  BY <1>1, HeroGood, WorldIs, GoodParts
<1>4. /\ you.utolev = "stay" /\ you.movement >= NORMAL_SPEED
      /\ Cardinality(Owned(World)) <= MaxMonsters
  BY <1>2 DEF IInv, Loop
<1>5. Owned(World) \in SUBSET MonId /\ Owned(World) = Local(World) \cup Moving(World) \cup InFiles
  BY <1>3, GoodOwned
<1>6. Fresh(World, InFiles, n)
  <2>1. Cardinality(Owned(World)) < Cardinality(MonId)
    <3>1. Cardinality(MonId) \in Nat /\ Cardinality(Owned(World)) \in Nat
      BY <1>5, Few
    <3> QED BY <1>4, <3>1, PlaceAssumption
  <2> QED BY <1>3, <2>1, FreshOne
<1> HIDE DEF n
<1>7. Follows(World, V, {m}, InFiles, mon) /\ Replaced(World, V, m, n)
  BY <1>2, <1>3, <1>6, ReplMonGood
<1>8. Good(V, InFiles, mon) /\ V.mydogs = <<>>
  BY <1>3, <1>7 DEF Follows
<1>9. V.you.utolev = "stay" /\ V.you.movement >= NORMAL_SPEED
  BY <1>4, <1>7, WorldIs DEF Follows, SameTurn
<1>10. Owned(V) \in SUBSET ((Owned(World) \ {m}) \cup {n})
  <2>1. Owned(V) = Local(V) \cup Moving(V) \cup InFiles
    BY <1>8, OwnedAre
  <2>2. Local(V) = (Local(World) \ {m}) \cup {n} /\ Moving(V) = Moving(World)
    BY <1>7 DEF Replaced, Moving
  <2>3. m \notin Moving(World) /\ m \notin InFiles
    BY <1>3 DEF Good, Books, Apart
  <2> QED BY <1>5, <2>1, <2>2, <2>3
<1>11. Cardinality(Owned(V)) <= MaxMonsters
  <2>1. n \in MonId /\ m \in Owned(World)
    BY <1>3, <1>5, <1>6 DEF Fresh
  <2>2. Cardinality((Owned(World) \ {m}) \cup {n}) <= Cardinality(Owned(World))
    BY <1>5, <2>1, Traded
  <2>3. (Owned(World) \ {m}) \cup {n} \in SUBSET MonId
    BY <1>5, <2>1
  <2>4. Cardinality(Owned(V)) <= Cardinality((Owned(World) \ {m}) \cup {n})
    BY <1>10, <2>3, FewIn
  <2>5. Cardinality(Owned(World)) \in Nat /\ Cardinality((Owned(World) \ {m}) \cup {n}) \in Nat
    BY <1>5, <2>3, Few
  <2>6. Cardinality(Owned(V)) \in Nat
    BY <1>10, <2>3, Few
  <2> QED BY <1>4, <2>2, <2>4, <2>5, <2>6, PlaceAssumption
<1> QED BY <1>2, <1>8, <1>9, <1>11, FreeCommandGood

\* The saved game: the map is made again, and the pointers are found.
Restored(W) ==
    RestLevelState(MapOf([W EXCEPT !.you.usteed = NoMon, !.you.ustuck = NoMon,
                                   !.you.movement = NORMAL_SPEED]),
                   W.you.ustuck, W.you.usteed)

LEMMA NobodyDead ==
    ASSUME NEW W, NEW E, NEW B, Good(W, E, B), W.purge = 0
    PROVE  Dead(W) = {}
<1>1. Local(W) \in SUBSET MonId /\ W.purge = Cardinality(Dead(W))
  BY GoodIds DEF Good, Books
<1>2. Dead(W) \in SUBSET MonId
  BY <1>1 DEF Dead
<1>3. IsFiniteSet(Dead(W))
  BY <1>2, Few
<1> QED BY <1>1, <1>3, FS_EmptySet

LEMMA RestoredGood ==
    ASSUME NEW W, NEW E, NEW B, Good(W, E, B), Dead(W) = {}, NEW V, V = Restored(W)
    PROVE  /\ Good(V, E, B) /\ Local(V) = Local(W) /\ Moving(V) = Moving(W)
           /\ V.mydogs = W.mydogs /\ V.you.utolev = W.you.utolev
           /\ V.you.movement = NORMAL_SPEED
<1> DEFINE y  == [W.you EXCEPT !.movement = NORMAL_SPEED]
           D  == [W EXCEPT !.you = y]
           y1 == [y EXCEPT !.usteed = NoMon]
           y2 == [y1 EXCEPT !.ustuck = NoMon]
           R0 == [D EXCEPT !.you = y2]
           R  == MapOf(R0)
           s  == W.you.usteed
<1>1. /\ W \in Worlds /\ W.you \in You /\ Books(W, {}, E, B) /\ Stands(W, {}, Afoot(W))
      /\ NORMAL_SPEED \in Nat /\ Clear(W) /\ NoMon \notin MonId
  BY GoodParts, GoodIds, FormAssumption
<1>2. /\ y \in You /\ y.at = W.you.at /\ y.ustuck = W.you.ustuck /\ y.uswallow = W.you.uswallow
      /\ y.usteed = s /\ y.utolev = W.you.utolev /\ y.movement = NORMAL_SPEED
  <2>1. y = [W.you EXCEPT !.movement = NORMAL_SPEED]
    OBVIOUS
  <2> HIDE DEF y
  <2> QED BY <1>1, <2>1, YouTurn
<1>3. V = RestLevelState(R, W.you.ustuck, s)
  <2>1. [W EXCEPT !.you.usteed = NoMon, !.you.ustuck = NoMon, !.you.movement = NORMAL_SPEED] = R0
    BY <1>1 DEF Worlds, You
  <2> QED BY <2>1 DEF Restored
<1> HIDE DEF y
<1>4. IsHeroChanged(W, D, y)
  <2>1. D = [W EXCEPT !.you = y]
    OBVIOUS
  <2> HIDE DEF D
  <2> QED BY <1>1, <1>2, <2>1, HeroChanged
<1> HIDE DEF D
<1>5. Touched(W, D) /\ D.you = y /\ D.mon = W.mon /\ D.grid = W.grid
  <2>1. \A n \in MonId : W.mon[n].mleashed => W.mon[n].alive /\ n \in Local(W)
    BY <1>1 DEF Books, Accounted
  <2>2. W.you.uswallow => \A n \in MonId : ~W.mon[n].mleashed
    BY <1>1 DEF Stands, Held
  <2> QED BY <1>2, <1>4, <2>1, <2>2 DEF Touched, IsHeroChanged, Elsewhere
<1>6. /\ Good(D, E, B) /\ Local(D) = Local(W) /\ Moving(D) = Moving(W)
      /\ Afoot(D) = Afoot(W) /\ Dead(D) = {} /\ D.mydogs = W.mydogs
  BY <1>5, TouchedGood
<1>7. /\ D \in Worlds /\ Books(D, {}, E, B) /\ Stands(D, {}, Afoot(D)) /\ Clear(D)
      /\ D.you.usteed = s /\ D.you.ustuck = W.you.ustuck
  BY <1>2, <1>5, <1>6, GoodParts
<1>8. /\ y2 \in You /\ y2.at = y.at /\ y2.ustuck = NoMon /\ y2.uswallow = y.uswallow
      /\ y2.usteed = NoMon /\ y2.utolev = y.utolev /\ y2.movement = y.movement
  <2>1. /\ y1 \in You /\ y1.at = y.at /\ y1.ustuck = y.ustuck /\ y1.uswallow = y.uswallow
        /\ y1.usteed = NoMon /\ y1.utolev = y.utolev /\ y1.movement = y.movement
    <3>1. y1 = [y EXCEPT !.usteed = NoMon]
      OBVIOUS
    <3> HIDE DEF y1
    <3> QED BY <1>2, <3>1, YouSteed
  <2>2. y2 = [y1 EXCEPT !.ustuck = NoMon]
    OBVIOUS
  <2> HIDE DEF y1, y2
  <2> QED BY <2>1, <2>2, YouStuck
<1> HIDE DEF y2
<1>9. IsHeroChanged(D, R0, y2)
  <2>1. R0 = [D EXCEPT !.you = y2]
    OBVIOUS
  <2> HIDE DEF R0
  <2> QED BY <1>7, <1>8, <2>1, HeroChanged
<1> HIDE DEF R0
<1>10. /\ R0 \in Worlds /\ R0.mon = D.mon /\ R0.you = y2 /\ Local(R0) = Local(D)
       /\ Once(R0.fmon)
  BY <1>7, <1>9 DEF IsHeroChanged, Elsewhere, Local, Books, Apart
<1>11. /\ \A m \in Local(D) : m \in Afoot(D) \/ m = s
       /\ \A m \in Local(D) : D.mon[m].alive
  BY <1>6, <1>7 DEF Afoot, Dead
<1>12. \A m \in Afoot(D) : /\ D.mon[m].mx \in Square /\ D.grid[D.mon[m].mx] = m /\ m # s
                           /\ m \in MonId
  BY <1>6, <1>7, GoodParts DEF Stands, Mapped
<1>13. /\ s # NoMon => s \in Local(D) /\ D.mon[s].mx = D.you.at
       /\ D.you.at \in Square
       /\ s # NoMon => ~D.you.uswallow /\ D.grid[D.you.at] = NoMon
  BY <1>6, <1>7, GoodParts DEF Stands, Held, Clear
<1>14. IsMapOf(R0, R)
  <2>1. \A m \in Local(R0) : /\ R0.mon[m].alive /\ R0.mon[m].mx \in Square
                             /\ m # R0.you.usteed
    <3>1. \A m \in Local(D) : D.mon[m].mx \in Square
      <4>1. ASSUME NEW m \in Local(D), m \notin Afoot(D) PROVE D.mon[m].mx \in Square
        <5>1. m = s /\ m # NoMon
          BY <1>1, <1>6, <1>11, <4>1, GoodIds
        <5> QED BY <1>13, <5>1
      <4> QED BY <1>12, <4>1
    <3>2. \A m \in Local(D) : m # NoMon
      BY <1>6, GoodIds
    <3> QED BY <1>8, <1>10, <1>11, <3>1, <3>2
  <2>2. \A m, k \in Local(R0) : R0.mon[m].mx = R0.mon[k].mx => m = k
    <3>1. ASSUME NEW m \in Local(D), NEW k \in Local(D), D.mon[m].mx = D.mon[k].mx
          PROVE  m = k
      <4>1. m # NoMon /\ k # NoMon /\ m \in MonId /\ k \in MonId
        BY <1>6, GoodIds
      <4>2. CASE m \in Afoot(D) /\ k \in Afoot(D)
        BY <1>12, <3>1, <4>2
      <4>3. CASE m \in Afoot(D) /\ k = s
        BY <1>1, <1>12, <1>13, <3>1, <4>1, <4>3
      <4>4. CASE m = s /\ k \in Afoot(D)
        BY <1>1, <1>12, <1>13, <3>1, <4>1, <4>4
      <4> QED BY <1>11, <4>2, <4>3, <4>4
    <3> QED BY <1>10, <3>1
  <2>3. R = MapOf(R0)
    OBVIOUS
  <2> HIDE DEF R
  <2> QED BY <1>10, <2>1, <2>2, <2>3, MapOfDoes
<1> HIDE DEF R
<1>15. /\ R \in Worlds /\ Mapped(R, Local(D)) /\ R.mon = D.mon /\ R.you = y2
       /\ Elsewhere(D, R) /\ Local(R) = Local(D)
  BY <1>9, <1>10, <1>14 DEF IsMapOf, IsHeroChanged, Elsewhere, Local
<1> DEFINE st == W.you.ustuck
           y3 == [y2 EXCEPT !.ustuck = st]
           S  == [R EXCEPT !.you = y3]
<1>16. st = NoMon \/ st \in Range(R.fmon)
  <2>1. st # NoMon => st \in Afoot(D)
    BY <1>7 DEF Stands, Held
  <2> QED BY <1>15, <2>1 DEF Afoot, Local
<1>17. V = IF s = NoMon THEN S
           ELSE RemoveMonster([S EXCEPT !.you.usteed = s], S.mon[s].mx)
  <2>1. [R EXCEPT !.you.ustuck = st] = S
    BY <1>15
  <2>2. s # NoMon => s \in Range(R.fmon) /\ Range(S.fmon) = Range(R.fmon)
    BY <1>13, <1>15 DEF Local
  <2>3. V = IF s = NoMon THEN S ELSE IF s \notin Range(R.fmon) THEN Impossible(S)
            ELSE RemoveMonster([S EXCEPT !.you.usteed = s], S.mon[s].mx)
    BY <1>3, <1>16, <2>1 DEF RestLevelState
  <2> QED BY <2>2, <2>3
<1>18. /\ y3 \in You /\ y3.at = y.at /\ y3.ustuck = st /\ y3.uswallow = y.uswallow
       /\ y3.usteed = NoMon /\ y3.utolev = y.utolev /\ y3.movement = y.movement
  <2>1. st \in MonId \cup {NoMon}
    BY <1>1, YouParts
  <2>2. y3 = [y2 EXCEPT !.ustuck = st]
    OBVIOUS
  <2> HIDE DEF y3
  <2> QED BY <1>8, <2>1, <2>2, YouStuck
<1> HIDE DEF y3
<1>19. IsHeroChanged(R, S, y3)
  <2>1. S = [R EXCEPT !.you = y3]
    OBVIOUS
  <2> HIDE DEF S
  <2> QED BY <1>15, <1>18, <2>1, HeroChanged
<1>20. /\ S \in Worlds /\ Mapped(S, Local(D)) /\ S.mon = D.mon /\ S.you = y3
       /\ Elsewhere(D, S) /\ S.grid = R.grid
  BY <1>15, <1>19 DEF IsHeroChanged, Elsewhere, Mapped
<1>21. /\ V \in Worlds /\ Mapped(V, Afoot(D)) /\ V.mon = D.mon /\ Elsewhere(D, V)
       /\ V.you.at = y.at /\ V.you.ustuck = st /\ V.you.uswallow = y.uswallow
       /\ V.you.usteed = s /\ V.you.utolev = y.utolev /\ V.you.movement = y.movement
       /\ s # NoMon => V.grid[D.you.at] = NoMon
  <2>1. CASE s = NoMon
    <3>1. V = S
      BY <1>17, <2>1
    <3>2. Local(D) = Afoot(D)
      <4>1. \A m \in Local(D) : m \in Afoot(D)
        BY <1>1, <1>6, <1>11, <2>1, GoodIds
      <4> QED BY <4>1 DEF Afoot
    <3> QED BY <1>18, <1>20, <2>1, <3>1, <3>2
  <2>2. CASE s # NoMon
    <3> DEFINE y4 == [y3 EXCEPT !.usteed = s]
               T  == [S EXCEPT !.you = y4]
               x  == T.mon[s].mx
    <3>0. s \in Local(D) /\ s \in MonId
      BY <1>1, <1>6, <1>13, <2>2, GoodIds
    <3>1. /\ y4 \in You /\ y4.at = y3.at /\ y4.ustuck = y3.ustuck /\ y4.uswallow = y3.uswallow
          /\ y4.usteed = s /\ y4.utolev = y3.utolev /\ y4.movement = y3.movement
      <4>1. y4 = [y3 EXCEPT !.usteed = s]
        OBVIOUS
      <4> HIDE DEF y4
      <4> QED BY <1>18, <3>0, <4>1, YouSteed
    <3>2. V = RemoveMonster(T, S.mon[s].mx)
      BY <1>17, <1>20, <2>2
    <3> HIDE DEF y4, S
    <3>3. IsHeroChanged(S, T, y4)
      <4>1. T = [S EXCEPT !.you = y4]
        OBVIOUS
      <4> HIDE DEF T
      <4> QED BY <1>20, <3>1, <4>1, HeroChanged
    <3> HIDE DEF T
    <3>4. T \in Worlds /\ Mapped(T, Local(D)) /\ T.mon = D.mon /\ T.you = y4 /\ Elsewhere(D, T)
      BY <1>20, <3>3 DEF IsHeroChanged, Elsewhere, Mapped
    <3>5. V = RemoveMonster(T, T.mon[s].mx)
      BY <1>20, <3>2, <3>4
    <3>6. TakenOff(T, V, Local(D), s)
      BY <3>0, <3>4, <3>5, MapRemoved
    <3>7. V.mon = D.mon /\ V.you = y4 /\ Mapped(V, Local(D) \ {s}) /\ V \in Worlds /\ Elsewhere(D, V)
      BY <3>4, <3>6 DEF TakenOff, Moved, Elsewhere
    <3>8. Local(D) \ {s} = Afoot(D)
      <4>1. \A m \in Local(D) \ {s} : m \in Afoot(D)
        BY <1>11
      <4>2. \A m \in Afoot(D) : m \in Local(D) \ {s}
        BY <1>12 DEF Afoot
      <4> QED BY <4>1, <4>2
    <3>9. V.grid[D.you.at] = NoMon
      <4>1. T.grid[D.you.at] = s
        BY <1>13, <2>2, <3>0, <3>4 DEF Mapped
      <4> QED BY <1>13, <3>6, <4>1 DEF TakenOff
    <3> QED BY <1>18, <3>1, <3>7, <3>8, <3>9
  <2> QED BY <2>1, <2>2
<1> HIDE DEF S
<1>22. V.you.at = D.you.at /\ V.you.ustuck = D.you.ustuck /\ V.you.uswallow = D.you.uswallow
       /\ V.you.usteed = D.you.usteed /\ V.you.utolev = D.you.utolev
       /\ V.you.movement = D.you.movement
  BY <1>2, <1>5, <1>21
<1>23. Stands(V, {}, Afoot(D))
  <2>1. Local(V) = Local(D)
    BY <1>21 DEF Elsewhere, Local
  <2> QED BY <1>7, <1>21, <1>22, <2>1 DEF Stands, Rides, Held
<1>24. Clear(V)
  <2>1. CASE s # NoMon
    BY <1>13, <1>21, <1>22, <2>1 DEF Clear
  <2>2. CASE V.you.uswallow
    <3>1. D.you.ustuck \in Afoot(D) /\ D.mon[D.you.ustuck].mx = D.you.at
      BY <1>6, <1>22, <2>2, GoodParts
    <3> QED BY <1>21, <1>22, <2>2, <3>1 DEF Clear, Mapped
  <2>3. CASE ~V.you.uswallow
    <3>1. D.grid[D.you.at] = NoMon
      BY <1>7, <1>22, <2>3 DEF Clear
    <3>2. V.grid[D.you.at] # NoMon => FALSE
      <4>1. V.grid[D.you.at] # NoMon => /\ V.grid[D.you.at] \in Afoot(D)
                                        /\ V.mon[V.grid[D.you.at]].mx = D.you.at
        BY <1>13, <1>21 DEF Mapped
      <4> QED BY <1>12, <1>21, <3>1, <4>1
    <3> QED BY <1>22, <2>3, <3>2 DEF Clear
  <2> QED BY <2>2, <2>3
<1>25. Moved(D, V, {}) /\ SameTurn(D, V)
  BY <1>21, <1>22 DEF Moved, Kin, SameTurn
<1>26. Follows(D, V, {}, E, B) /\ Local(V) = Local(D)
  BY <1>7, <1>22, <1>23, <1>24, <1>25, MovedGood
<1> QED BY <1>2, <1>6, <1>21, <1>26 DEF Follows, Elsewhere, Moving

LEMMA SaveRestoreGood ==
    ASSUME IInv, SaveRestore PROVE IInv'
<1> DEFINE D == IF purge = 0 THEN World ELSE DMonsFree(World)
<1>1. /\ Good(World, InFiles, mon) /\ Files /\ World.mydogs = <<>> /\ World.you = you
      /\ World.purge = purge
  BY HeroGood, WorldIs
<1>2. /\ Good(D, InFiles, mon) /\ D.mydogs = <<>> /\ Dead(D) = {} /\ D.you = you
  <2>1. CASE purge = 0
    BY <1>1, <2>1, NobodyDead
  <2>2. CASE purge # 0
    <3>1. D = DMonsFree(World)
      BY <2>2
    <3> HIDE DEF D
    <3> QED BY <1>1, <3>1, DMonsFreeGood DEF Follows, Cleaned
  <2> QED BY <2>1, <2>2
<1> DEFINE V == Restored(D)
<1>3. FreeCommand(V)
  BY <1>2 DEF SaveRestore, Restored
<1>4. V = Restored(D)
  OBVIOUS
<1> HIDE DEF V, D
<1>5. /\ Good(V, InFiles, mon) /\ Local(V) = Local(D) /\ Moving(V) = Moving(D)
      /\ V.mydogs = <<>> /\ V.you.utolev = you.utolev /\ V.you.movement = NORMAL_SPEED
  BY <1>2, <1>4, RestoredGood
<1>6. Cardinality(Owned(V)) <= MaxMonsters
  <2>1. Owned(V) = Owned(D)
    BY <1>2, <1>5, OwnedAre
  <2> QED BY <1>1, <1>2, <2>1, AllAlive
<1>7. you.utolev = "stay" /\ NORMAL_SPEED \in Nat
  BY <1>3, FormAssumption DEF IInv, Loop, FreeCommand
<1> QED BY <1>3, <1>5, <1>6, <1>7, FreeCommandGood

(***************************************************************************)
(* The walk of movemon, one lemma for each thing a monster may do.         *)
(***************************************************************************)
LEMMA SkipGood ==
    ASSUME IInv, Skip PROVE IInv' /\ WalkGoesOn
<1>1. /\ phase = "monsters" /\ walk # NoMon /\ walk' = Next_(walk, fmon) /\ Becomes(World)
      /\ here' = here /\ levelfile' = levelfile /\ phase' = phase /\ somebody' = somebody
  BY WorldIs DEF Skip, Becomes
<1>2. Good(World, InFiles, mon) /\ World.mydogs = <<>> /\ World.fmon = fmon
  BY WorldIs DEF IInv
<1>3. /\ Good(World, InFiles, mon)' /\ Files' /\ World' = World /\ fmon' = fmon /\ you' = you
  BY <1>1, <1>2, Stays, WorldIs
<1>4. fmon \in Seq(MonId) /\ Once(fmon) /\ walk \in Range(fmon) /\ Local(World) = Range(fmon)
  <2>1. World \in Worlds /\ Once(World.fmon)
    BY <1>2 DEF Good, Books, Apart
  <2>2. walk \in Local(World)
    BY <1>1 DEF IInv, Loop
  <2> QED BY <1>2, <2>1, <2>2, Parts DEF Local
<1>5. walk' \in (Range(fmon) \ {walk}) \cup {NoMon}
  BY <1>1, <1>4, NextIs
<1>6. WalkGoesOn
  BY <1>3, <1>5 DEF WalkGoesOn
<1>7. Loop'
  <2>1. you.utolev # here /\ somebody \in BOOLEAN
    BY DEF IInv, Loop
  <2> QED BY <1>1, <1>3, <1>4, <1>5, <2>1 DEF Loop
<1> QED BY <1>3, <1>6, <1>7 DEF IInv

\* The monster whose turn it is.
LEMMA Mover ==
    ASSUME IInv, CanMove
    PROVE  /\ Good(Paid, InFiles, mon) /\ walk \in Local(Paid) /\ walk \in MonId
           /\ Paid.mon[walk].alive /\ Paid.you = you /\ Paid.mon[walk].data = mon[walk].data
           /\ walk # you.usteed => walk \in Afoot(Paid)
<1>1. /\ Good(Paid, InFiles, mon) /\ walk \in Local(Paid) /\ walk \in MonId
      /\ Paid.mon[walk].alive = mon[walk].alive /\ Paid.you = you
      /\ Paid.mon[walk].data = mon[walk].data
  BY PaidGood
<1>2. mon[walk].alive
  BY DEF CanMove
<1> QED BY <1>1, <1>2 DEF Afoot

LEMMA MonRestsGood ==
    ASSUME IInv, CanMove, MonRests PROVE IInv' /\ WalkGoesOn
<1>1. Follows(Paid, Paid, {}, InFiles, mon) /\ Pays(Paid)
  BY PaidGood DEF Follows, SameTurn, MonRests
<1> QED BY <1>1, PaysFollows

LEMMA MonMovesGood ==
    ASSUME IInv, CanMove, MonMoves PROVE IInv' /\ WalkGoesOn
<1> DEFINE x == Spot(World)
           V == MMove(Paid, walk, x)
<1>1. walk # you.usteed /\ Enexto(World) # {} /\ Pays(V)
  BY DEF MonMoves
<1>2. x \in Square /\ Paid.grid[x] = NoMon /\ x # Paid.you.at
  BY <1>1, PaidGood, SpotFree
<1>3. V = MMove(Paid, walk, x) /\ Good(Paid, InFiles, mon) /\ walk \in Afoot(Paid)
  BY <1>1, Mover
<1> HIDE DEF x, V
<1>4. Follows(Paid, V, {}, InFiles, mon)
  BY <1>2, <1>3, MMoveGood
<1> QED BY <1>1, <1>4, PaysFollows

LEMMA MonTelesGood ==
    ASSUME IInv, CanMove, MonTeles PROVE IInv' /\ WalkGoesOn
<1> DEFINE V == Rloc(Paid, walk)
<1>1. Pays(V) /\ V = Rloc(Paid, walk)
  BY DEF MonTeles
<1> HIDE DEF V
<1>2. Follows(Paid, V, {}, InFiles, mon)
  BY <1>1, Mover, RlocGood
<1> QED BY <1>1, <1>2, PaysFollows

LEMMA MonDiesGood ==
    ASSUME IInv, CanMove, MonDies PROVE IInv' /\ WalkGoesOn
<1> DEFINE V == MonDead(Paid, walk)
<1>1. Pays(V) /\ V = MonDead(Paid, walk)
  BY DEF MonDies
<1> HIDE DEF V
<1>2. Follows(Paid, V, {}, InFiles, mon)
  BY <1>1, Mover, MonDeadGood
<1> QED BY <1>1, <1>2, PaysFollows

LEMMA MonKillsGood ==
    ASSUME IInv, CanMove, MonKills PROVE IInv' /\ WalkGoesOn
<1>1. PICK d \in Range(fmon) : mon[d].alive /\ Pays(MonDead(Paid, d))
  BY DEF MonKills
<1> DEFINE V == MonDead(Paid, d)
<1>2. Pays(V) /\ V = MonDead(Paid, d)
  BY <1>1
<1> HIDE DEF V
<1>3. Good(Paid, InFiles, mon) /\ d \in Local(Paid) /\ Paid.mon[d].alive
  <2>1. d \in Local(World)
    BY WorldIs DEF Local
  <2>2. Good(World, InFiles, mon)
    BY DEF IInv
  <2>3. d \in MonId
    BY <2>1, <2>2, GoodIds
  <2> QED BY <1>1, <2>1, <2>3, PaidGood
<1>4. Follows(Paid, V, {}, InFiles, mon)
  BY <1>2, <1>3, MonDeadGood
<1> QED BY <1>2, <1>4, PaysFollows

LEMMA MonChangesGood ==
    ASSUME IInv, CanMove, MonChanges PROVE IInv' /\ WalkGoesOn
<1>1. PICK f \in Form : Pays(NewCham(Paid, walk, f))
  BY DEF MonChanges
<1> DEFINE V == NewCham(Paid, walk, f)
<1>2. Pays(V) /\ V = NewCham(Paid, walk, f)
  BY <1>1
<1> HIDE DEF V
<1>3. Follows(Paid, V, {}, InFiles, mon)
  BY <1>2, Mover, NewChamGood
<1> QED BY <1>2, <1>3, PaysFollows

LEMMA MonClonesGood ==
    ASSUME IInv, CanMove, MonClones PROVE IInv' /\ WalkGoesOn
<1> DEFINE n == NewMonst(Paid)
           k == Cardinality(MonId \ Owned(World))
<1>1. PICK christened \in BOOLEAN : k >= (IF christened THEN 2 ELSE 1)
                                    /\ Pays(CloneMon(Paid, walk, christened))
  BY DEF MonClones
<1> DEFINE V == CloneMon(Paid, walk, christened)
<1>2. Pays(V) /\ V = CloneMon(Paid, walk, christened)
  BY <1>1
<1> HIDE DEF V
<1>3. walk # you.usteed /\ Cardinality(Living(Paid)) < MaxMonsters
  BY PaidGood DEF MonClones, Room
<1>4. /\ Good(Paid, InFiles, mon) /\ Paid.mydogs = <<>> /\ Files /\ walk \in Afoot(Paid)
  BY <1>3, Mover, PaidGood DEF IInv
<1>5. /\ Owned(Paid) = Owned(World) /\ Owned(Paid) \in SUBSET MonId
      /\ Owned(Paid) = Local(Paid) \cup Moving(Paid) \cup InFiles
  <2>1. Owned(World) = Local(World) \cup Moving(World) \cup InFiles
    BY WorldIs, OwnedAre
  <2> QED BY <1>4, <2>1, PaidGood, GoodOwned
<1> DEFINE X == MonId \ Owned(Paid)
<1>6. IsFiniteSet(X) /\ k = Cardinality(X) /\ k \in Nat
  BY <1>5, Few
<1>7. PICK c \in X : c \notin {}
  <2>1. X # {}
    <3>1. X = {} => k = 0
      BY <1>6, FS_EmptySet
    <3>2. k >= 1
      BY <1>1, <1>6
    <3> HIDE DEF k, X
    <3> QED BY <3>1, <3>2
  <2> QED BY <2>1
<1>8. Fresh(Paid, InFiles, n)
  BY <1>4, <1>7, FreshOf
<1>9. ASSUME christened, NEW C, IsAdded(Paid, C, n) PROVE Fresh(C, InFiles, NewMonst(C))
  <2>1. n \in X
    <3>1. n \in MonId /\ n \notin Local(Paid) \cup Moving(Paid) \cup InFiles
      BY <1>8 DEF Fresh
    <3> QED BY <1>5, <3>1
  <2>2. Cardinality(X \ {n}) = k - 1 /\ IsFiniteSet(X \ {n})
    BY <1>6, <2>1, FS_RemoveElement
  <2>3. k >= 2
    BY <1>1, <1>9
  <2>4. X \ {n} # {}
    <3>1. X \ {n} = {} => k - 1 = 0
      BY <2>2, FS_EmptySet
    <3> HIDE DEF k, X, n
    <3> QED BY <1>6, <2>3, <3>1
  <2>5. PICK p \in X : p # n
    BY <2>4
  <2>6. C.mydogs = <<>> /\ Local(C) = Local(Paid) \cup {n} /\ Moving(C) = Moving(Paid)
    BY <1>4, <1>9 DEF IsAdded, Moving
  <2>7. Owned(C) = Local(C) \cup Moving(C) \cup InFiles
    BY <2>6, OwnedAre
  <2>8. p \in MonId /\ p \notin Owned(C)
    <3> HIDE DEF n
    <3> QED BY <1>5, <2>5, <2>6, <2>7
  <2> QED BY <2>6, <2>8, FreshOf
<1> HIDE DEF k, X
<1>10. christened => \A C : IsAdded(Paid, C, NewMonst(Paid)) => Fresh(C, InFiles, NewMonst(C))
  BY <1>9
<1>11. Follows(Paid, V, {}, InFiles, mon)
  BY <1>2, <1>3, <1>4, <1>8, <1>10, CloneMonGood
<1> QED BY <1>2, <1>11, PaysFollows

LEMMA MonHoldsGood ==
    ASSUME IInv, CanMove, MonHolds PROVE IInv' /\ WalkGoesOn
<1> DEFINE V == [Paid EXCEPT !.you.ustuck = walk]
<1>1. walk # you.usteed /\ you.ustuck = NoMon /\ Pays(V) /\ V = [Paid EXCEPT !.you.ustuck = walk]
  BY DEF MonHolds
<1> HIDE DEF V
<1>2. Follows(Paid, V, {}, InFiles, mon)
  BY <1>1, Mover, HoldGood
<1> QED BY <1>1, <1>2, PaysFollows

LEMMA MonEngulfsGood ==
    ASSUME IInv, CanMove, Oversights = {}, MonEngulfs PROVE IInv' /\ WalkGoesOn
<1>1. PICK have_spot \in BOOLEAN : Pays(GulpMU(Paid, walk, have_spot))
  BY DEF MonEngulfs
<1> DEFINE V == GulpMU(Paid, walk, have_spot)
<1>2. Pays(V) /\ V = GulpMU(Paid, walk, have_spot)
  BY <1>1
<1> HIDE DEF V
<1>3. walk # you.usteed /\ ~you.uswallow /\ you.usteed = NoMon
  BY DEF MonEngulfs
<1>4. Follows(Paid, V, {}, InFiles, mon)
  BY <1>2, <1>3, Mover, EngulfGood
<1> QED BY <1>2, <1>4, PaysFollows

LEMMA MonLetsGoGood ==
    ASSUME IInv, CanMove, MonLetsGo PROVE IInv' /\ WalkGoesOn
<1>1. CASE you.uswallow
  <2> DEFINE V == Expels(Paid, walk)
  <2>1. Pays(V) /\ V = Expels(Paid, walk) /\ you.ustuck = walk
    BY <1>1 DEF MonLetsGo
  <2> HIDE DEF V
  <2>2. Carries(Paid, walk)
    BY <1>1, <2>1, Mover DEF Carries
  <2>3. Follows(Paid, V, {}, InFiles, mon)
    BY <2>1, <2>2, Mover, ExpelsGood
  <2> QED BY <2>1, <2>3, PaysFollows
<1>2. CASE ~you.uswallow
  <2> DEFINE V == Unstuck(Paid, walk)
  <2>1. Pays(V) /\ V = Unstuck(Paid, walk)
    BY <1>2 DEF MonLetsGo
  <2> HIDE DEF V
  <2>2. Follows(Paid, V, {}, InFiles, mon)
    BY <1>2, <2>1, Mover, UnstuckGood
  <2> QED BY <2>1, <2>2, PaysFollows
<1> QED BY <1>1, <1>2

LEMMA MonGulpsGood ==
    ASSUME IInv, CanMove, Oversights = {}, MonGulps PROVE IInv' /\ WalkGoesOn
<1>0. PICK d \in OnMap \ {walk} :
          /\ ~Swallowing(d)
          /\ \E died \in SUBSET {walk, d} : Pays(GulpMM(Paid, walk, d, died))
  BY DEF MonGulps
<1>1. PICK died \in SUBSET {walk, d} : ~Swallowing(d) /\ Pays(GulpMM(Paid, walk, d, died))
  BY <1>0
<1> DEFINE V == GulpMM(Paid, walk, d, died)
<1>2. Pays(V) /\ V = GulpMM(Paid, walk, d, died)
  BY <1>1
<1> HIDE DEF V
<1>3. walk # you.usteed /\ ~Swallowing(walk)
  BY DEF MonGulps
<1>4. d \in Afoot(Paid) /\ walk \in Afoot(Paid) /\ walk # d /\ Good(Paid, InFiles, mon)
  BY <1>1, <1>3, Mover, PaidGood
<1>5. ~Carries(Paid, walk) /\ ~Carries(Paid, d)
  BY <1>1, <1>3, Mover DEF Carries, Swallowing
<1>6. Follows(Paid, V, {}, InFiles, mon)
  BY <1>1, <1>2, <1>4, <1>5, GulpMMGood
<1> QED BY <1>2, <1>6, PaysFollows

LEMMA MonLeavesGood ==
    ASSUME IInv, CanMove, Oversights = {}, MonLeaves PROVE IInv' /\ WalkGoesOn
<1>1. PICK l \in Level : Pays(MigrateToLevel(Paid, walk, l))
  BY DEF MonLeaves
<1> DEFINE V == MigrateToLevel(Paid, walk, l)
<1>2. Pays(V) /\ V = MigrateToLevel(Paid, walk, l)
  BY <1>1
<1> HIDE DEF V
<1>3. walk # you.usteed /\ you.ustuck # walk
  BY DEF MonLeaves
<1>4. Follows(Paid, V, {walk}, InFiles, mon)
  BY <1>2, <1>3, Mover, MigrateGood
<1> QED BY <1>2, <1>4, PaysFollows

LEMMA MonSendsGood ==
    ASSUME IInv, CanMove, MonSends PROVE IInv' /\ WalkGoesOn
<1>1. PICK to \in ToLevel \ {here} :
          Pays([Teleds(Paid, Spot(Paid)) EXCEPT !.you.utolev = to])
  BY DEF MonSends
<1> DEFINE x == Spot(Paid)
           U == Teleds(Paid, x)
           y == [U.you EXCEPT !.utolev = to]
           V == [U EXCEPT !.you = y]
<1>2. Pays(V)
  BY <1>1
<1>3. x \in Square /\ Paid.grid[x] = NoMon
  <2>1. Enexto(Paid) # {}
    BY PaidGood DEF MonSends
  <2> QED BY <2>1, SpotFree
<1>4. U = Teleds(Paid, x) /\ V = [U EXCEPT !.you = y] /\ y = [U.you EXCEPT !.utolev = to]
  OBVIOUS
<1> HIDE DEF x, U, y, V
<1>5. Follows(Paid, U, {}, InFiles, mon)
  BY <1>3, <1>4, Mover, TeledsGood
<1>6. Good(U, InFiles, mon) /\ U.mydogs = <<>> /\ Local(World) \ {} \subseteq Local(U)
  BY <1>5, PaidGood DEF Follows
<1>7. /\ U \in Worlds /\ U.you \in You /\ Books(U, {}, InFiles, mon) /\ Stands(U, {}, Afoot(U))
  BY <1>6, GoodParts, GoodIds
<1>8. /\ y \in You /\ y.at = U.you.at /\ y.ustuck = U.you.ustuck
      /\ y.uswallow = U.you.uswallow /\ y.usteed = U.you.usteed /\ y.utolev = to
  BY <1>4, <1>7, YouLevel
<1>9. IsHeroChanged(U, V, y)
  BY <1>4, <1>7, <1>8, HeroChanged
<1>10. Touched(U, V)
  <2>1. \A n \in MonId : U.mon[n].mleashed => U.mon[n].alive /\ n \in Local(U)
    BY <1>7 DEF Books, Accounted
  <2>2. U.you.uswallow => \A n \in MonId : ~U.mon[n].mleashed
    BY <1>7 DEF Stands, Held
  <2> QED BY <1>8, <1>9, <2>1, <2>2 DEF Touched, IsHeroChanged, Elsewhere
<1>11. Good(V, InFiles, mon) /\ V.mydogs = <<>> /\ Local(V) = Local(U)
  BY <1>6, <1>10, TouchedGood
<1>12. V.you.utolev # here
  BY <1>8, <1>9 DEF IsHeroChanged
<1> QED BY <1>2, <1>6, <1>11, <1>12, PaysGood

LEMMA MonActsGood ==
    ASSUME IInv, Oversights = {}, MonActs PROVE IInv' /\ WalkGoesOn
<1>1. CanMove
  BY DEF MonActs
<1>2. CASE MonRests BY <1>1, <1>2, MonRestsGood
<1>3. CASE MonMoves BY <1>1, <1>3, MonMovesGood
<1>4. CASE MonTeles BY <1>1, <1>4, MonTelesGood
<1>5. CASE MonDies BY <1>1, <1>5, MonDiesGood
<1>6. CASE MonKills BY <1>1, <1>6, MonKillsGood
<1>7. CASE MonChanges BY <1>1, <1>7, MonChangesGood
<1>8. CASE MonClones BY <1>1, <1>8, MonClonesGood
<1>9. CASE MonHolds BY <1>1, <1>9, MonHoldsGood
<1>10. CASE MonEngulfs BY <1>1, <1>10, MonEngulfsGood
<1>11. CASE MonLetsGo BY <1>1, <1>11, MonLetsGoGood
<1>12. CASE MonGulps BY <1>1, <1>12, MonGulpsGood
<1>13. CASE MonLeaves BY <1>1, <1>13, MonLeavesGood
<1>14. CASE MonSends BY <1>1, <1>14, MonSendsGood
<1> QED BY <1>2, <1>3, <1>4, <1>5, <1>6, <1>7, <1>8, <1>9, <1>10, <1>11, <1>12, <1>13, <1>14
        DEF MonActs

(***************************************************************************)
(* The end of a pass of movemon, and a new turn.                           *)
(***************************************************************************)
\* Where the loop is after a step that leaves the world V.
InLoop(V) ==
    /\ phase' \in {"hero", "monsters", "newturn"} /\ somebody' \in BOOLEAN
    /\ walk' \in Local(V) \cup {NoMon}
    /\ phase' # "monsters" => walk' = NoMon
    /\ phase' = "hero" => V.you.movement >= NORMAL_SPEED

LEMMA StartsWalk ==
    ASSUME NEW V \in Worlds, StartWalk(V) PROVE InLoop(V) /\ phase' = "monsters"
<1>1. V.fmon \in Seq(MonId)
  BY Parts
<1>2. First(V.fmon) \in Local(V) \cup {NoMon}
  BY <1>1, FirstIs DEF Local
<1> QED BY <1>2 DEF StartWalk, InLoop

LEMMA AfterPassIs ==
    ASSUME NEW V \in Worlds, NEW b \in BOOLEAN, AfterPass(V, b)
    PROVE  InLoop(V)
<1> DEFINE k == V.you.movement
<1>1. k \in Nat /\ NORMAL_SPEED \in Nat
  BY Parts, YouParts, FormAssumption
<1>2. \/ k > NORMAL_SPEED /\ phase' = "hero" /\ walk' = NoMon /\ somebody' = FALSE
      \/ StartWalk(V)
      \/ k = NORMAL_SPEED /\ phase' = "hero" /\ walk' = NoMon /\ somebody' = FALSE
      \/ phase' = "newturn" /\ walk' = NoMon /\ somebody' = FALSE
  <2>1. CASE k > NORMAL_SPEED
    <3>1. ~(k <= NORMAL_SPEED) /\ k # NORMAL_SPEED /\ ~(k < NORMAL_SPEED)
      BY <1>1, <2>1
    <3> HIDE DEF k
    <3>2. phase' = "hero" /\ walk' = NoMon /\ somebody' = FALSE
      BY <2>1, <3>1 DEF AfterPass, k
    <3> QED BY <2>1, <3>2
  <2>2. CASE b = TRUE /\ k <= NORMAL_SPEED
    <3>1. ~(k > NORMAL_SPEED)
      BY <1>1, <2>2
    <3> QED BY <2>2, <3>1 DEF AfterPass
  <2>3. CASE b = FALSE /\ k = NORMAL_SPEED
    <3>1. ~(k > NORMAL_SPEED) /\ ~(k < NORMAL_SPEED)
      BY <1>1, <2>3
    <3>2. phase' = "hero" /\ walk' = NoMon /\ somebody' = FALSE
      BY <2>3, <3>1 DEF AfterPass
    <3> QED BY <2>3, <3>2
  <2>4. CASE b = FALSE /\ k < NORMAL_SPEED
    <3>1. ~(k > NORMAL_SPEED) /\ k # NORMAL_SPEED
      BY <1>1, <2>4
    <3>2. phase' = "newturn" /\ walk' = NoMon /\ somebody' = FALSE
      BY <2>4, <3>1 DEF AfterPass
    <3> QED BY <3>2
  <2>5. b = TRUE \/ b = FALSE
    OBVIOUS
  <2>6. k > NORMAL_SPEED \/ k <= NORMAL_SPEED
    BY <1>1
  <2>7. k > NORMAL_SPEED \/ k = NORMAL_SPEED \/ k < NORMAL_SPEED
    BY <1>1
  <2> HIDE DEF k
  <2> QED BY <2>1, <2>2, <2>3, <2>4, <2>5, <2>6, <2>7
<1>3. k > NORMAL_SPEED \/ k = NORMAL_SPEED => k >= NORMAL_SPEED
  BY <1>1
<1>4. CASE phase' = "hero" /\ walk' = NoMon /\ somebody' = FALSE /\ k >= NORMAL_SPEED
  BY <1>4 DEF InLoop
<1>5. CASE phase' = "newturn" /\ walk' = NoMon /\ somebody' = FALSE
  BY <1>5 DEF InLoop
<1>6. CASE StartWalk(V)
  BY <1>6, StartsWalk
<1> QED BY <1>2, <1>3, <1>4, <1>5, <1>6

\* The loop is right again: the world is V, on the level here'.
LEMMA LoopAgain ==
    ASSUME NEW V, World' = V, you' = V.you, purge' = V.purge, InLoop(V), V.you.utolev = "stay",
           here' \in Level, V.mydogs = <<>>,
           phase' # "monsters" =>
               Cardinality(Local(V) \cup Moving(V) \cup InFiles') <= MaxMonsters,
           phase' = "newturn" => V.purge = 0
    PROVE  Loop'
<1>1. "stay" # here'
  BY PlaceAssumption
<1>2. Owned(World)' = Local(V) \cup Moving(V) \cup InFiles'
  <2>1. Range(V.mydogs) = {}
    BY EmptyList
  <2> QED BY <2>1 DEF Owned, Local, Moving
<1> QED BY <1>1, <1>2 DEF Loop, InLoop

LEMMA EndPassGood ==
    ASSUME IInv, EndPass PROVE IInv'
<1> DEFINE V == DMonsFree(World)
<1>1. Becomes(V) /\ AfterPass(V, somebody) /\ here' = here /\ levelfile' = levelfile
  BY DEF EndPass
<1>2. V = DMonsFree(World) /\ Good(World, InFiles, mon) /\ Files /\ World.mydogs = <<>>
      /\ World.you = you /\ you.utolev = "stay" /\ somebody \in BOOLEAN
  BY HeroGood, WorldIs DEF EndPass, IInv, Loop
<1> HIDE DEF V
<1>3. Follows(World, V, Dead(World), InFiles, mon) /\ Cleaned(World, V) /\ Dead(V) = {}
  BY <1>2, DMonsFreeGood
<1>4. Good(V, InFiles, mon) /\ V.mydogs = <<>> /\ V.you = you /\ V.purge = 0 /\ V \in Worlds
  BY <1>2, <1>3 DEF Follows, Cleaned
<1>5. /\ Good(World, InFiles, mon)' /\ Files' /\ World' = V /\ InFiles' = InFiles
      /\ you' = V.you /\ purge' = V.purge
  BY <1>1, <1>4, Stays
<1>6. Cardinality(Owned(V)) <= MaxMonsters
  BY <1>2, <1>3, <1>4, AllAlive
<1>7. Owned(V) = Local(V) \cup Moving(V) \cup InFiles'
  BY <1>4, <1>5, OwnedAre
<1>8. InLoop(V)
  BY <1>1, <1>2, <1>4, AfterPassIs
<1>9. here' \in Level
  BY <1>1, <1>2 DEF Files
<1>10. Loop'
  BY <1>2, <1>4, <1>5, <1>6, <1>7, <1>8, <1>9, LoopAgain
<1> QED BY <1>5, <1>10 DEF IInv

LEMMA AllotGood ==
    ASSUME NEW W, NEW E, NEW B, Good(W, E, B), NEW V, V = Allot(W)
    PROVE  Touched(W, V) /\ V.you = W.you
<1> DEFINE k(m) == CapMovement(W.mon[m].movement + Speed[W.mon[m].data])
           f == [m \in MonId |-> IF m \in Range(W.fmon)
                                 THEN [W.mon[m] EXCEPT !.movement = k(m)] ELSE W.mon[m]]
<1>1. /\ W \in Worlds /\ W.mon \in [MonId -> Monst] /\ Books(W, {}, E, B)
      /\ Stands(W, {}, Afoot(W))
  BY GoodParts, Parts
<1>2. \A m \in MonId : k(m) \in Nat
  <2>1. MaxMovement \in Nat /\ Speed \in [Form -> Nat]
    BY PlaceAssumption, FormAssumption
  <2>2. ASSUME NEW m \in MonId PROVE W.mon[m].movement + Speed[W.mon[m].data] \in Nat
    <3>1. W.mon[m].movement \in Nat /\ W.mon[m].data \in Form
      BY <1>1 DEF Monst
    <3> QED BY <2>1, <3>1
  <2> QED BY <2>1, <2>2 DEF CapMovement
<1>3. V = [W EXCEPT !.mon = f]
  BY DEF Allot
<1>4. \A m \in MonId : /\ f[m] \in Monst /\ f[m].alive = W.mon[m].alive
                       /\ f[m].data = W.mon[m].data /\ f[m].mx = W.mon[m].mx
                       /\ f[m].mleashed = W.mon[m].mleashed
                       /\ m \notin Local(W) => f[m] = W.mon[m]
  <2>1. ASSUME NEW m \in MonId, m \in Range(W.fmon)
        PROVE  /\ f[m] \in Monst /\ f[m].alive = W.mon[m].alive
               /\ f[m].data = W.mon[m].data /\ f[m].mx = W.mon[m].mx
               /\ f[m].mleashed = W.mon[m].mleashed
    <3>1. f[m] = [W.mon[m] EXCEPT !.movement = k(m)] /\ k(m) \in Nat /\ W.mon[m] \in Monst
      BY <1>1, <1>2, <2>1
    <3> HIDE DEF f, k
    <3> QED BY <3>1 DEF Monst
  <2>2. \A m \in MonId : m \notin Range(W.fmon) => f[m] = W.mon[m] /\ f[m] \in Monst
    BY <1>1
  <2> QED BY <2>1, <2>2 DEF Local
<1>5. f \in [MonId -> Monst]
  <2>1. f = [m \in MonId |-> f[m]]
    OBVIOUS
  <2> HIDE DEF f
  <2> QED BY <1>4, <2>1
<1> HIDE DEF f
<1>6. IsMonChanged(W, V, f)
  BY <1>1, <1>3, <1>5, MonChanged
<1>7. \A n \in MonId : W.mon[n].mleashed => W.mon[n].alive /\ n \in Local(W)
  BY <1>1 DEF Books, Accounted
<1>8. W.you.uswallow => \A n \in MonId : ~W.mon[n].mleashed
  BY <1>1 DEF Stands, Held
<1> QED BY <1>4, <1>6, <1>7, <1>8 DEF Touched, IsMonChanged, Elsewhere

\* The hero's movement for the turn.
Started(W, n) == [W EXCEPT !.you.movement = @ + n]
TurnStarts(V) == IF V.you.movement < NORMAL_SPEED THEN StartWalk(V)
                 ELSE phase' = "hero" /\ walk' = NoMon /\ somebody' = FALSE

LEMMA StartsGood ==
    ASSUME IInv, NEW W, Good(W, InFiles, mon), W.mydogs = <<>>, W.you.utolev = "stay",
           Cardinality(Owned(W)) <= MaxMonsters, NEW n \in HeroSpeeds,
           Becomes(Started(W, n)), TurnStarts(Started(W, n)),
           here' = here, levelfile' = levelfile
    PROVE  IInv'
<1> DEFINE V == Started(W, n)
           k == W.you.movement + n
           y == [W.you EXCEPT !.movement = k]
<1>1. /\ W \in Worlds /\ W.you \in You /\ Books(W, {}, InFiles, mon)
      /\ Stands(W, {}, Afoot(W)) /\ NORMAL_SPEED \in Nat /\ W.you.movement \in Nat
      /\ n \in Nat
  BY GoodParts, GoodIds, YouParts, FormAssumption
<1>2. k \in Nat
  BY <1>1
<1>3. V = [W EXCEPT !.you = y] /\ Becomes(V) /\ TurnStarts(V)
  BY DEF Started
<1> HIDE DEF k, V
<1>4. y \in You /\ y.at = W.you.at /\ y.ustuck = W.you.ustuck /\ y.uswallow = W.you.uswallow
      /\ y.usteed = W.you.usteed /\ y.utolev = W.you.utolev /\ y.movement = k
  BY <1>1, <1>2, YouTurn
<1> HIDE DEF y
<1>5. IsHeroChanged(W, V, y)
  BY <1>1, <1>3, <1>4, HeroChanged
<1>6. \A m \in MonId : W.mon[m].mleashed => W.mon[m].alive /\ m \in Local(W)
  BY <1>1 DEF Books, Accounted
<1>7. W.you.uswallow => \A m \in MonId : ~W.mon[m].mleashed
  BY <1>1 DEF Stands, Held
<1>8. Touched(W, V) /\ V.you = y /\ V \in Worlds
  BY <1>4, <1>5, <1>6, <1>7 DEF Touched, IsHeroChanged, Elsewhere
<1>9. /\ Good(V, InFiles, mon) /\ V.mydogs = <<>> /\ Local(V) = Local(W)
      /\ Moving(V) = Moving(W)
  BY <1>8, TouchedGood
<1>10. /\ Good(World, InFiles, mon)' /\ Files' /\ World' = V /\ InFiles' = InFiles
       /\ you' = V.you /\ purge' = V.purge
  BY <1>3, <1>9, Stays
<1>11. Owned(W) = Local(V) \cup Moving(V) \cup InFiles'
  BY <1>9, <1>10, OwnedAre
<1>12. InLoop(V) /\ phase' # "newturn"
  <2>1. CASE V.you.movement < NORMAL_SPEED
    <3>1. StartWalk(V)
      BY <1>3, <2>1 DEF TurnStarts
    <3> QED BY <1>8, <3>1, StartsWalk
  <2>2. CASE ~(V.you.movement < NORMAL_SPEED)
    <3>1. phase' = "hero" /\ walk' = NoMon /\ somebody' = FALSE
      BY <1>3, <2>2 DEF TurnStarts
    <3>2. V.you.movement >= NORMAL_SPEED
      BY <1>1, <1>2, <1>4, <1>8, <2>2
    <3> QED BY <3>1, <3>2 DEF InLoop
  <2> QED BY <2>1, <2>2
<1>13. here' \in Level
  BY DEF IInv, Files
<1>14. Loop'
  BY <1>4, <1>8, <1>9, <1>10, <1>11, <1>12, <1>13, LoopAgain
<1> QED BY <1>10, <1>14 DEF IInv

\* A turn whose movement is dealt out in the world U.
LEMMA AllotStarts ==
    ASSUME IInv, NEW U, Good(U, InFiles, mon), U.mydogs = <<>>, U.you.utolev = "stay",
           Cardinality(Owned(U)) <= MaxMonsters, NEW n \in HeroSpeeds,
           Becomes(Started(Allot(U), n)), TurnStarts(Started(Allot(U), n)),
           here' = here, levelfile' = levelfile
    PROVE  IInv'
<1> DEFINE W == Allot(U)
<1>1. W = Allot(U) /\ Becomes(Started(W, n)) /\ TurnStarts(Started(W, n))
  OBVIOUS
<1> HIDE DEF W
<1>2. Touched(U, W) /\ W.you = U.you
  BY <1>1, AllotGood
<1>3. /\ Good(W, InFiles, mon) /\ W.mydogs = <<>> /\ Local(W) = Local(U)
      /\ Moving(W) = Moving(U)
  BY <1>2, TouchedGood
<1>4. Owned(W) = Owned(U)
  BY <1>3, OwnedAre
<1> QED BY <1>1, <1>2, <1>3, <1>4, StartsGood

LEMMA NewTurnGood ==
    ASSUME IInv, NewTurn PROVE IInv'
<1>1. PICK n \in HeroSpeeds :
          \/ Becomes(Started(Allot(World), n)) /\ TurnStarts(Started(Allot(World), n))
          \/ \E m \in OnMap : /\ Becomes(Started(Allot(MonDead(World, m)), n))
                              /\ TurnStarts(Started(Allot(MonDead(World, m)), n))
          \/ \E m \in OnMap : \E f \in Form :
                 /\ Becomes(Started(Allot(NewCham(World, m, f)), n))
                 /\ TurnStarts(Started(Allot(NewCham(World, m, f)), n))
          \/ \E f \in Form : /\ Room /\ Enexto(World) # {}
                             /\ Becomes(Started(MakeMon(Allot(World), f), n))
                             /\ TurnStarts(Started(MakeMon(Allot(World), f), n))
  BY DEF NewTurn, Started, TurnStarts
<1>2. /\ Good(World, InFiles, mon) /\ Files /\ World.mydogs = <<>> /\ World.you = you
      /\ you.utolev = "stay" /\ purge = 0 /\ World.purge = purge
      /\ Cardinality(Owned(World)) <= MaxMonsters /\ here' = here /\ levelfile' = levelfile
      /\ \A m \in OnMap : m \in Local(World) /\ World.mon[m].alive
  BY HeroGood, WorldIs DEF NewTurn, IInv, Loop
<1>3. CASE Becomes(Started(Allot(World), n)) /\ TurnStarts(Started(Allot(World), n))
  BY <1>2, <1>3, AllotStarts
<1>4. CASE \E m \in OnMap : /\ Becomes(Started(Allot(MonDead(World, m)), n))
                            /\ TurnStarts(Started(Allot(MonDead(World, m)), n))
  <2>1. PICK m \in OnMap : /\ Becomes(Started(Allot(MonDead(World, m)), n))
                           /\ TurnStarts(Started(Allot(MonDead(World, m)), n))
    BY <1>4
  <2> DEFINE U == MonDead(World, m)
  <2>2. /\ U = MonDead(World, m) /\ Becomes(Started(Allot(U), n))
        /\ TurnStarts(Started(Allot(U), n))
    BY <2>1
  <2> HIDE DEF U
  <2>3. Follows(World, U, {}, InFiles, mon) /\ Local(U) = Local(World) /\ Died(World, U, m)
    BY <1>2, <2>2, MonDeadGood
  <2>4. Good(U, InFiles, mon) /\ U.mydogs = <<>> /\ U.you.utolev = "stay"
    BY <1>2, <2>3 DEF Follows, SameTurn
  <2>5. Owned(U) = Owned(World)
    <3>1. Moving(U) = Moving(World)
      BY <2>3 DEF Died, Moving
    <3> QED BY <1>2, <2>3, <2>4, <3>1, OwnedAre
  <2> QED BY <1>2, <2>2, <2>4, <2>5, AllotStarts
<1>5. CASE \E m \in OnMap : \E f \in Form :
               /\ Becomes(Started(Allot(NewCham(World, m, f)), n))
               /\ TurnStarts(Started(Allot(NewCham(World, m, f)), n))
  <2>1. PICK m \in OnMap, f \in Form : /\ Becomes(Started(Allot(NewCham(World, m, f)), n))
                                       /\ TurnStarts(Started(Allot(NewCham(World, m, f)), n))
    BY <1>5
  <2> DEFINE U == NewCham(World, m, f)
  <2>2. /\ U = NewCham(World, m, f) /\ Becomes(Started(Allot(U), n))
        /\ TurnStarts(Started(Allot(U), n))
    BY <2>1
  <2> HIDE DEF U
  <2>3. /\ Follows(World, U, {}, InFiles, mon) /\ Local(U) = Local(World)
        /\ Moving(U) = Moving(World)
    BY <1>2, <2>2, NewChamGood
  <2>4. Good(U, InFiles, mon) /\ U.mydogs = <<>> /\ U.you.utolev = "stay"
    BY <1>2, <2>3 DEF Follows, SameTurn
  <2>5. Owned(U) = Owned(World)
    BY <1>2, <2>3, <2>4, OwnedAre
  <2> QED BY <1>2, <2>2, <2>4, <2>5, AllotStarts
<1>6. CASE \E f \in Form : /\ Room /\ Enexto(World) # {}
                           /\ Becomes(Started(MakeMon(Allot(World), f), n))
                           /\ TurnStarts(Started(MakeMon(Allot(World), f), n))
  <2>1. PICK f \in Form : /\ Room /\ Enexto(World) # {}
                          /\ Becomes(Started(MakeMon(Allot(World), f), n))
                          /\ TurnStarts(Started(MakeMon(Allot(World), f), n))
    BY <1>6
  <2> DEFINE A == Allot(World)
             U == MakeMon(A, f)
  <2>2. /\ A = Allot(World) /\ U = MakeMon(A, f) /\ Becomes(Started(U, n))
        /\ TurnStarts(Started(U, n))
    BY <2>1
  <2> HIDE DEF U, A
  <2>3. Touched(World, A) /\ A.you = you
    BY <1>2, <2>2, AllotGood
  <2>4. /\ Good(A, InFiles, mon) /\ A.mydogs = <<>> /\ Local(A) = Local(World)
        /\ Moving(A) = Moving(World) /\ Living(A) = Living(World)
        /\ Enexto(A) = Enexto(World) /\ Dead(A) = Dead(World)
    BY <1>2, <2>3, TouchedGood
  <2>5. Owned(A) = Owned(World)
    BY <1>2, <2>4, OwnedAre
  <2>6. Fresh(A, InFiles, NewMonst(A))
    <3>1. Owned(World) \in SUBSET MonId
      BY <1>2, GoodOwned
    <3>2. Cardinality(MonId) \in Nat /\ Cardinality(Owned(World)) \in Nat
      BY <3>1, Few
    <3>3. Cardinality(Owned(A)) < Cardinality(MonId)
      BY <1>2, <2>5, <3>2, PlaceAssumption
    <3> QED BY <1>2, <2>4, <3>3, FreshOne
  <2>7. Follows(A, U, {}, InFiles, mon) /\ IsAdded(A, U, NewMonst(A))
    BY <2>1, <2>2, <2>4, <2>6, MakeMonGood DEF Room
  <2>8. /\ Good(U, InFiles, mon) /\ U.mydogs = <<>> /\ U.you.utolev = "stay"
        /\ U.purge = 0
    BY <1>2, <2>3, <2>4, <2>7 DEF Follows, SameTurn, IsAdded, Touched, Elsewhere
  <2>9. Dead(U) = {}
    BY <2>8, NobodyDead
  <2>10. Cardinality(Owned(U)) <= MaxMonsters
    BY <1>2, <2>8, <2>9, AllAlive
  <2> QED BY <1>2, <2>2, <2>8, <2>10, StartsGood
<1> QED BY <1>1, <1>3, <1>4, <1>5, <1>6

(***************************************************************************)
(* Level changes: the level left is in its file, that of the hero is not.  *)
(***************************************************************************)
\* What the world is worth after goto_level.
LEMMA LevelChanged ==
    ASSUME IInv, NEW D, Good(D, InFiles, mon), NEW l \in Level, l # here, NEW c,
           NEW L, Leaving(D, L, InFiles, mon), L = Leave(D, c.followers),
           NEW V, Good(V, (InFiles \cup Local(L)) \ Filed(l), L.mon), V.mydogs = <<>>,
           Becomes(V), GotoLevel(D, l, c)
    PROVE  /\ Good(World, InFiles, mon)' /\ Files' /\ World' = V /\ you' = V.you
           /\ purge' = V.purge /\ InFiles' = (InFiles \cup Local(L)) \ Filed(l)
<1> DEFINE E2 == (InFiles \cup Local(L)) \ Filed(l)
<1>1. World' = V /\ mon' = V.mon /\ you' = V.you /\ purge' = V.purge
  BY WorldNext DEF Good, Books, Becomes
<1>2. Files /\ here \in Level /\ Filed(here) = {} /\ InFiles \subseteq MonId
      /\ InFiles = UNION {Filed(k) : k \in Level}
      /\ levelfile \in [Level -> [fmon : Seq(MonId), light : [MonId -> Nat]]]
  BY FilesIn DEF IInv, Files
<1>3. /\ L \in Worlds /\ Books(L, Range(L.mydogs), InFiles, mon) /\ Local(L) \in SUBSET MonId
      /\ L.fmon \in Seq(MonId) /\ Once(L.fmon) /\ Local(L) \cap InFiles = {}
      /\ Mapped(L, Local(L))
  BY Parts DEF Leaving, Books, Apart
<1>4. \A m \in MonId : m \in InFiles => L.mon[m] = mon[m]
  BY <1>3 DEF Books, Accounted
<1>5. Good(V, E2, V.mon) /\ \A m \in MonId : m \in E2 => V.mon[m] = L.mon[m]
  BY GoodNow
<1>6. /\ LocalLights(L) \in [MonId -> Nat]
      /\ \A m \in MonId : LocalLights(L)[m] =
             IF m \in Local(L) /\ L.mon[m].data \in Lights THEN 1 ELSE 0
  <2> DEFINE S == SaveLev(L)
  <2>1. S = SaveLev(L)
    OBVIOUS
  <2> HIDE DEF S
  <2>2. Saved(L, S, InFiles)
    BY <2>1, SaveLevGood
  <2> QED BY <2>2 DEF Saved
<1> DEFINE file == [fmon |-> L.fmon, light |-> LocalLights(L)]
<1>7. /\ here' = l /\ levelfile' = [levelfile EXCEPT ![here] = file, ![l] = EmptyFile]
  BY DEF GotoLevel, LevelFile
<1>8. file \in [fmon : Seq(MonId), light : [MonId -> Nat]] /\ Range(file.fmon) = Local(L)
  BY <1>3, <1>6 DEF Local
<1>9. EmptyFile \in [fmon : Seq(MonId), light : [MonId -> Nat]] /\ Range(EmptyFile.fmon) = {}
      /\ Once(EmptyFile.fmon) /\ \A m \in MonId : EmptyFile.light[m] = 0
  BY EmptyList DEF EmptyFile
<1>10. /\ levelfile'[here] = file /\ levelfile'[l] = EmptyFile
       /\ \A k \in Level : k # here /\ k # l => levelfile'[k] = levelfile[k]
       /\ levelfile' \in [Level -> [fmon : Seq(MonId), light : [MonId -> Nat]]]
  <2> HIDE DEF file
  <2> QED BY <1>2, <1>7, <1>8, <1>9
<1>11. PICK h \in Level : h = here
  BY <1>2
<1>12. /\ Filed(h)' = Local(L) /\ Filed(l)' = {} /\ h # l
       /\ \A k \in Level : k # h /\ k # l => Filed(k)' = Filed(k)
  <2>1. Range(levelfile'[h].fmon) = Local(L) /\ Range(levelfile'[l].fmon) = {}
    BY <1>8, <1>9, <1>10, <1>11
  <2>2. \A k \in Level : k # h /\ k # l => Range(levelfile'[k].fmon) = Range(levelfile[k].fmon)
    BY <1>10, <1>11
  <2> HIDE DEF file
  <2> QED BY <1>11, <2>1, <2>2 DEF Filed
<1> HIDE DEF file
<1>13. \A k \in Level \ {l} : Filed(l) \cap Filed(k) = {}
  BY <1>2 DEF Files, FileGood
<1>14. InFiles' = E2
  <2>1. InFiles' = UNION {Filed(k)' : k \in Level}
    BY <1>10 DEF InFiles, Filed
  <2>2. ASSUME NEW m PROVE m \in UNION {Filed(k)' : k \in Level} <=> m \in E2
    <3>1. ASSUME NEW k \in Level, m \in Filed(k)' PROVE m \in E2
      <4>1. CASE k = h
        BY <1>2, <1>3, <1>12, <3>1, <4>1
      <4>2. CASE k # h /\ k # l
        BY <1>2, <1>12, <1>13, <3>1, <4>2
      <4> QED BY <1>12, <3>1, <4>1, <4>2
    <3>2. ASSUME m \in E2 PROVE \E k \in Level : m \in Filed(k)'
      <4>1. CASE m \in Local(L)
        BY <1>12, <4>1
      <4>2. CASE m \notin Local(L)
        <5>1. PICK k \in Level : m \in Filed(k)
          BY <1>2, <3>2, <4>2
        <5>2. k # l /\ k # h
          BY <1>2, <1>11, <3>2, <5>1
        <5> QED BY <1>12, <5>1, <5>2
      <4> QED BY <4>1, <4>2
    <3> QED BY <3>1, <3>2
  <2> QED BY <2>1, <2>2
<1>15. \A m \in Local(L) : m \in MonId /\ mon'[m] = L.mon[m]
  <2>1. \A m \in Local(L) : m \in MonId /\ m \in E2
    BY <1>2, <1>3
  <2> QED BY <1>1, <1>5, <2>1
<1>16. \A k \in Level : k # h /\ k # l => \A m \in Filed(k) : m \in MonId /\ mon'[m] = mon[m]
  <2>1. ASSUME NEW k \in Level, k # h, k # l, NEW m \in Filed(k)
        PROVE  m \in MonId /\ m \in E2 /\ m \in InFiles
    BY <1>2, <1>13, <2>1
  <2> HIDE DEF E2
  <2> QED BY <1>1, <1>4, <1>5, <2>1
<1> HIDE DEF E2
<1>17. ASSUME NEW k \in Level PROVE FileGood(k)'
  <2>1. CASE k = h
    <3>1. levelfile'[k] = file /\ Filed(k)' = Local(L)
      BY <1>10, <1>11, <1>12, <2>1
    <3>2. /\ file \in [fmon : Seq(MonId), light : [MonId -> Nat]] /\ Once(file.fmon)
          /\ file.light = LocalLights(L)
      BY <1>3, <1>8 DEF file
    <3>3. \A j \in Level \ {k} : Local(L) \cap Filed(j)' = {}
      <4>1. ASSUME NEW j \in Level, j # h PROVE Local(L) \cap Filed(j)' = {}
        <5>1. CASE j = l
          BY <1>12, <5>1
        <5>2. CASE j # l
          <6>1. Filed(j)' = Filed(j) /\ Filed(j) \subseteq InFiles
            BY <1>2, <1>12, <4>1, <5>2
          <6> QED BY <1>3, <6>1
        <5> QED BY <5>1, <5>2
      <4> QED BY <2>1, <4>1
    <3>4. \A m \in Local(L) : mon'[m].mx \in Square
      BY <1>3, <1>15 DEF Mapped
    <3>5. \A m, n \in Local(L) : mon'[m].mx = mon'[n].mx => m = n
      BY <1>3, <1>15 DEF Mapped
    <3>6. \A m \in MonId : file.light[m] =
              IF m \in Local(L) /\ mon'[m].data \in Lights THEN 1 ELSE 0
      BY <1>6, <1>15, <3>2
    <3> QED BY <3>1, <3>2, <3>3, <3>4, <3>5, <3>6 DEF FileGood
  <2>2. CASE k = l
    <3>1. levelfile'[k] = EmptyFile /\ Filed(k)' = {}
      BY <1>10, <1>12, <2>2
    <3> QED BY <1>9, <3>1 DEF FileGood
  <2>3. CASE k # h /\ k # l
    <3>1. levelfile'[k] = levelfile[k] /\ Filed(k)' = Filed(k)
      BY <1>10, <1>11, <1>12, <2>3
    <3>2. FileGood(k)
      BY <1>2 DEF Files
    <3>3. \A m \in Filed(k) : mon'[m] = mon[m]
      BY <1>16, <2>3
    <3>4. \A j \in Level \ {k} : Filed(k) \cap Filed(j)' = {}
      <4>1. ASSUME NEW j \in Level, j # k PROVE Filed(k) \cap Filed(j)' = {}
        <5>1. CASE j = h
          <6>1. Filed(k) \subseteq InFiles
            BY <1>2
          <6> QED BY <1>3, <1>12, <5>1, <6>1
        <5>2. CASE j = l
          BY <1>12, <5>2
        <5>3. CASE j # h /\ j # l
          BY <1>12, <3>2, <4>1, <5>3 DEF FileGood
        <5> QED BY <5>1, <5>2, <5>3
      <4> QED BY <4>1
    <3> QED BY <3>1, <3>2, <3>3, <3>4 DEF FileGood
  <2> QED BY <2>1, <2>2, <2>3
<1>18. Files'
  <2>1. Range(levelfile'[here'].fmon) = {}
    BY <1>7, <1>12 DEF Filed
  <2> QED BY <1>7, <1>10, <1>12, <1>17 DEF Files, Filed
<1>19. Good(World', InFiles', mon')
  BY <1>1, <1>5, <1>14 DEF E2
<1> QED BY <1>1, <1>14, <1>18, <1>19 DEF E2

\* The file of the level fits into the world that is left.
LEMMA FileFits ==
    ASSUME IInv, NEW D, NEW L, Leaving(D, L, InFiles, mon), NEW l \in Level
    PROVE  /\ Fits(L, levelfile[l], Filed(l)) /\ Filed(l) \subseteq InFiles
           /\ \A m \in Filed(l) : L.mon[m] = mon[m]
<1>1. FileGood(l) /\ Filed(l) \subseteq InFiles /\ InFiles \subseteq MonId
  BY FilesIn DEF IInv, Files
<1>2. \A m \in MonId : m \in InFiles => L.mon[m] = mon[m]
  BY DEF Leaving, Books, Accounted
<1>3. \A m \in Filed(l) : L.mon[m] = mon[m]
  BY <1>1, <1>2
<1>4. Fits(L, levelfile[l], Filed(l))
  <2>1. \A m \in MonId : levelfile[l].light[m] =
            IF m \in Filed(l) /\ L.mon[m].data \in Lights THEN 1 ELSE 0
    BY <1>1, <1>3 DEF FileGood
  <2> QED BY <1>1, <1>3, <2>1 DEF FileGood, Fits, Filed
<1> QED BY <1>1, <1>3, <1>4

\* Where the hero may arrive: on a square, and off the stairs only on a free one.
LEMMA TripIs ==
    ASSUME IInv, NEW l \in Level, NEW c \in Trips(l)
    PROVE  /\ c.at \in Square
           /\ c.fell /\ Oversights = {} =>
                  you.usteed # NoMon /\ \A m \in Filed(l) : mon[m].mx # c.at
<1> DEFINE taken == {mon[m].mx : m \in Filed(l)}
           x     == CHOOSE x \in Square : x \notin taken
<1>1. /\ c.at \in taken \cup {x}
      /\ c.fell => you.usteed # NoMon /\ (c.at \in taken => "fall" \in Oversights)
  BY DEF Trips, Filed
<1>2. FileGood(l) /\ Filed(l) \subseteq InFiles /\ InFiles \subseteq MonId
  BY FilesIn DEF IInv, Files
<1>3. taken \subseteq Square
  BY <1>2 DEF FileGood
<1>4. x \in Square
  <2>1. taken # Square
    <3>1. SUFFICES ASSUME taken = Square PROVE FALSE
      OBVIOUS
    <3>2. Filed(l) \subseteq Living(World)
      <4>1. \A m \in MonId : m \in InFiles => m \notin Local(World) /\ mon[m].alive
        BY WorldIs DEF IInv, Good, Books, Apart, Accounted
      <4> QED BY <1>2, <4>1, WorldIs DEF Living
    <3>3. Living(World) \in SUBSET MonId /\ Cardinality(Living(World)) <= MaxMonsters
      BY AfootFew DEF IInv, Good, Books
    <3>4. Cardinality(Filed(l)) <= Cardinality(Living(World))
      BY <3>2, <3>3, FewIn
    <3>5. IsFiniteSet(Filed(l)) /\ Cardinality(Filed(l)) \in Nat
      BY <1>2, Few
    <3>6. Cardinality(Living(World)) \in Nat /\ Cardinality(Square) \in Nat
      BY <3>3, Few, FS_CardinalityType, PlaceAssumption
    <3>7. Cardinality(Square) <= Cardinality(Filed(l))
      <4> DEFINE f == [m \in Filed(l) |-> mon[m].mx]
      <4>1. f \in Surjection(Filed(l), Square)
        BY <3>1 DEF Surjection
      <4> HIDE DEF f
      <4> QED BY <3>5, <4>1, FS_Surjection
    <3> QED BY <3>3, <3>4, <3>5, <3>6, <3>7, PlaceAssumption
  <2>2. \E z \in Square : z \notin taken
    BY <1>3, <2>1
  <2> QED BY <2>2
<1> HIDE DEF x
<1>5. c.fell /\ Oversights = {} => c.at \notin taken
  BY <1>1
<1> QED BY <1>1, <1>3, <1>4, <1>5

\* goto_level: the hero arrives on the new level in the world A.
LEMMA GoneGood ==
    ASSUME IInv, Oversights = {}, NEW D, Good(D, InFiles, mon), D.you.usteed = you.usteed,
           NEW l \in Level, NEW c \in Trips(l), NEW L, L = Leave(D, c.followers),
           NEW A, A = Arrive(L, l, c)
    PROVE  /\ Leaving(D, L, InFiles, mon)
           /\ Landed(L, A, (InFiles \cup Local(L)) \ Filed(l), L.mon) /\ SameTurn(D, A)
<1>1. Leaving(D, L, InFiles, mon)
  BY LeaveGood
<1>2. /\ Fits(L, levelfile[l], Filed(l)) /\ Filed(l) \subseteq InFiles
      /\ \A m \in Filed(l) : L.mon[m] = mon[m]
  BY <1>1, FileFits
<1>3. c.at \in Square
  BY TripIs
<1>4. c.fell => L.you.usteed # NoMon /\ \A m \in Filed(l) : L.mon[m].mx # c.at
  <2>1. L.you.usteed = D.you.usteed
    BY <1>1 DEF Leaving
  <2> QED BY <1>2, <2>1, TripIs
<1>5. Landed(L, A, (InFiles \cup Local(L)) \ Filed(l), L.mon)
  BY <1>1, <1>2, <1>3, <1>4, ArriveGood
<1> QED BY <1>1, <1>5 DEF Leaving, Landed, SameTurn

LEMMA ChangeLevelGood ==
    ASSUME IInv, Oversights = {}, ChangeLevel PROVE IInv'
<1>0. PICK l \in Level \ {here} : \E c \in Trips(l) :
          /\ Takes(Arrive(Leave(World, c.followers), l, c)) /\ GotoLevel(World, l, c)
  BY DEF ChangeLevel
<1>1. PICK c \in Trips(l) :
          /\ Takes(Arrive(Leave(World, c.followers), l, c)) /\ GotoLevel(World, l, c)
  BY <1>0
<1> DEFINE L  == Leave(World, c.followers)
           A  == Arrive(L, l, c)
           V  == HeroPaid(A)
           E2 == (InFiles \cup Local(L)) \ Filed(l)
<1>2. /\ Good(World, InFiles, mon) /\ World.you = you /\ you.utolev = "stay"
      /\ you.movement >= NORMAL_SPEED /\ l \in Level /\ l # here
  BY HeroGood, WorldIs DEF ChangeLevel, IInv, Loop
<1>3. Becomes(V) /\ StartWalk(V) /\ GotoLevel(World, l, c)
  BY <1>1 DEF Takes, HeroPaid
<1>4. L = Leave(World, c.followers) /\ A = Arrive(L, l, c) /\ V = HeroPaid(A)
  OBVIOUS
<1> HIDE DEF L, A, V
<1>5. Leaving(World, L, InFiles, mon) /\ Landed(L, A, E2, L.mon) /\ SameTurn(World, A)
  BY <1>2, <1>4, GoneGood
<1> HIDE DEF E2
<1>6. Good(A, E2, L.mon) /\ A.mydogs = <<>> /\ A.you.movement >= NORMAL_SPEED
      /\ A.you.utolev = "stay"
  BY <1>2, <1>5 DEF Landed, SameTurn
<1>7. Touched(A, V) /\ V.you.utolev = "stay"
  BY <1>4, <1>6, HeroPays
<1>8. Good(V, E2, L.mon) /\ V.mydogs = <<>> /\ V \in Worlds
  BY <1>6, <1>7, TouchedGood DEF Touched
<1>9. /\ Good(World, InFiles, mon)' /\ Files' /\ World' = V /\ you' = V.you
      /\ purge' = V.purge
  BY <1>2, <1>3, <1>4, <1>5, <1>8, LevelChanged DEF E2
<1>10. InLoop(V) /\ phase' = "monsters"
  BY <1>3, <1>8, StartsWalk
<1>11. here' \in Level
  BY <1>2, <1>3 DEF GotoLevel
<1>12. Loop'
  BY <1>7, <1>8, <1>9, <1>10, <1>11, LoopAgain
<1> QED BY <1>9, <1>12 DEF IInv

LEMMA EndPassElsewhereGood ==
    ASSUME IInv, Oversights = {}, EndPassElsewhere PROVE IInv'
<1> DEFINE l  == you.utolev
           D0 == DMonsFree(World)
           y  == [D0.you EXCEPT !.utolev = "stay"]
           D  == [D0 EXCEPT !.you = y]
<1>1. PICK c \in Trips(l) :
          /\ Becomes(Arrive(Leave(D, c.followers), l, c))
          /\ AfterPass(Arrive(Leave(D, c.followers), l, c), FALSE)
          /\ GotoLevel(D, l, c)
  BY DEF EndPassElsewhere
<1>2. /\ Good(World, InFiles, mon) /\ World.you = you /\ l \in Level /\ l # here
      /\ World.mydogs = <<>> /\ Files /\ D0 = DMonsFree(World)
  BY HeroGood, WorldIs DEF EndPassElsewhere, IInv, Loop
<1> HIDE DEF D0
<1>3. Follows(World, D0, Dead(World), InFiles, mon) /\ Cleaned(World, D0)
  BY <1>2, DMonsFreeGood
<1>4. /\ Good(D0, InFiles, mon) /\ D0.mydogs = <<>> /\ D0.you = you /\ D0 \in Worlds
      /\ D0.you \in You /\ Books(D0, {}, InFiles, mon) /\ Stands(D0, {}, Afoot(D0))
  BY <1>2, <1>3, GoodParts, GoodIds DEF Follows, Cleaned
<1>5. /\ y \in You /\ y.at = D0.you.at /\ y.ustuck = D0.you.ustuck
      /\ y.uswallow = D0.you.uswallow /\ y.usteed = D0.you.usteed /\ y.utolev = "stay"
  <2>1. "stay" \in ToLevel /\ y = [D0.you EXCEPT !.utolev = "stay"]
    BY DEF ToLevel
  <2> HIDE DEF y
  <2> QED BY <1>4, <2>1, YouLevel
<1> HIDE DEF y
<1>6. IsHeroChanged(D0, D, y)
  <2>1. D = [D0 EXCEPT !.you = y]
    OBVIOUS
  <2> HIDE DEF D
  <2> QED BY <1>4, <1>5, <2>1, HeroChanged
<1> HIDE DEF D
<1>7. Touched(D0, D) /\ D.you = y
  <2>1. \A n \in MonId : D0.mon[n].mleashed => D0.mon[n].alive /\ n \in Local(D0)
    BY <1>4 DEF Books, Accounted
  <2>2. D0.you.uswallow => \A n \in MonId : ~D0.mon[n].mleashed
    BY <1>4 DEF Stands, Held
  <2> QED BY <1>5, <1>6, <2>1, <2>2 DEF Touched, IsHeroChanged, Elsewhere
<1>8. Good(D, InFiles, mon) /\ D.you.usteed = you.usteed /\ D.you.utolev = "stay"
  BY <1>4, <1>5, <1>7, TouchedGood
<1> DEFINE L  == Leave(D, c.followers)
           V  == Arrive(L, l, c)
           E2 == (InFiles \cup Local(L)) \ Filed(l)
<1>9. Becomes(V) /\ AfterPass(V, FALSE) /\ GotoLevel(D, l, c)
  BY <1>1
<1>10. L = Leave(D, c.followers) /\ V = Arrive(L, l, c)
  OBVIOUS
<1> HIDE DEF L, V, l
<1>11. Leaving(D, L, InFiles, mon) /\ Landed(L, V, E2, L.mon) /\ SameTurn(D, V)
  BY <1>2, <1>8, <1>10, GoneGood
<1> HIDE DEF E2
<1>12. Good(V, E2, L.mon) /\ V.mydogs = <<>> /\ Dead(V) = {} /\ V.purge = 0
       /\ V.you.utolev = "stay" /\ V \in Worlds
  BY <1>8, <1>11 DEF Landed, SameTurn, Good, Books
<1>13. /\ Good(World, InFiles, mon)' /\ Files' /\ World' = V /\ you' = V.you
       /\ purge' = V.purge /\ InFiles' = E2
  BY <1>2, <1>8, <1>9, <1>10, <1>11, <1>12, LevelChanged DEF E2
<1>14. InLoop(V)
  BY <1>9, <1>12, AfterPassIs
<1>15. Cardinality(Local(V) \cup Moving(V) \cup InFiles') <= MaxMonsters
  <2>1. E2 \in SUBSET MonId
    <3>1. Local(L) \in SUBSET MonId
      BY <1>11, Parts DEF Leaving, Books
    <3> QED BY <1>2, <3>1, FilesIn DEF E2
  <2>2. Cardinality(Local(V) \cup Moving(V) \cup E2) <= MaxMonsters
    BY <1>12, <2>1, AllAliveIn
  <2> QED BY <1>13, <2>2
<1>16. here' \in Level
  BY <1>2, <1>9 DEF GotoLevel
<1>17. Loop'
  BY <1>12, <1>13, <1>14, <1>15, <1>16, LoopAgain
<1> QED BY <1>13, <1>17 DEF IInv

(***************************************************************************)
(* Every step.                                                             *)
(***************************************************************************)
LEMMA HeroSteps ==
    ASSUME IInv, Oversights = {}, Hero PROVE IInv'
<1>1. CASE Search BY <1>1, SearchGood
<1>2. CASE Move BY <1>2, MoveGood
<1>3. CASE Attack BY <1>3, AttackGood
<1>4. CASE ZapTele BY <1>4, ZapTeleGood
<1>5. CASE ZapPoly BY <1>5, ZapPolyGood
<1>6. CASE DoLeash BY <1>6, DoLeashGood
<1>7. CASE DigHole BY <1>7, DigHoleGood
<1>8. CASE Christen BY <1>8, ChristenGood
<1>9. CASE SwapPet BY <1>9, SwapPetGood
<1>10. CASE Mount BY <1>10, MountingGood
<1>11. CASE Dismount BY <1>11, DismountingGood
<1>12. CASE ChangeLevel BY <1>12, ChangeLevelGood
<1>13. CASE SaveRestore BY <1>13, SaveRestoreGood
<1> QED BY <1>1, <1>2, <1>3, <1>4, <1>5, <1>6, <1>7, <1>8, <1>9, <1>10, <1>11, <1>12, <1>13
        DEF Hero

LEMMA IdleStep ==
    ASSUME IInv, UNCHANGED vars PROVE IInv'
<1>1. /\ Becomes(World) /\ here' = here /\ levelfile' = levelfile /\ phase' = phase
      /\ walk' = walk /\ somebody' = somebody /\ InFiles' = InFiles /\ purge' = purge
  BY WorldIs DEF vars, Becomes, InFiles
<1>2. Good(World, InFiles, mon) /\ World.mydogs = <<>>
  BY WorldIs DEF IInv
<1>3. /\ Good(World, InFiles, mon)' /\ Files' /\ World' = World /\ you' = you
  BY <1>1, <1>2, Stays, WorldIs
<1>4. Owned(World)' = Owned(World)
  BY <1>1, <1>3 DEF Owned
<1>5. Loop'
  BY <1>1, <1>3, <1>4 DEF IInv, Loop
<1> QED BY <1>3, <1>5 DEF IInv

LEMMA Steps ==
    ASSUME IInv, Oversights = {}, [Next]_vars PROVE IInv'
<1>1. CASE Hero BY <1>1, HeroSteps
<1>2. CASE Skip BY <1>2, SkipGood
<1>3. CASE MonActs BY <1>3, MonActsGood
<1>4. CASE EndPass BY <1>4, EndPassGood
<1>5. CASE EndPassElsewhere BY <1>5, EndPassElsewhereGood
<1>6. CASE NewTurn BY <1>6, NewTurnGood
<1>7. CASE UNCHANGED vars BY <1>7, IdleStep
<1> QED BY <1>1, <1>2, <1>3, <1>4, <1>5, <1>6, <1>7 DEF Next, Monsters

(***************************************************************************)
(* The first state.                                                        *)
(***************************************************************************)
LEMMA NthIs ==
    /\ Nth \in [1..Cardinality(Square) -> Square] /\ Cardinality(Square) \in Nat
    /\ \A i, j \in 1..Cardinality(Square) : Nth[i] = Nth[j] => i = j
<1> DEFINE n == Cardinality(Square)
<1>1. n \in Nat /\ ExistsBijection(1..n, Square)
  BY FS_CardinalityType, PlaceAssumption
<1>2. PICK f : f \in Bijection(1..n, Square)
  BY <1>1 DEF ExistsBijection
<1>3. f \in [1..n -> Square] /\ IsInjective(f)
  BY <1>2 DEF Bijection, Injection
<1>4. Nth = CHOOSE g \in [1..n -> Square] : IsInjective(g)
  BY DEF Nth, SetToSeq
<1> HIDE DEF n
<1>5. Nth \in [1..n -> Square] /\ IsInjective(Nth)
  BY <1>3, <1>4
<1> QED BY <1>1, <1>5 DEF IsInjective, n

\* The monsters a level is made with.
CastOf(l) == {Cast[l][i].id : i \in 1..Len(Cast[l])}

LEMMA CastIs ==
    ASSUME NEW l \in Level
    PROVE  /\ Len(Cast[l]) \in Nat /\ Ids(l) \in Seq(MonId) /\ Range(Ids(l)) = CastOf(l)
           /\ Len(Ids(l)) = Len(Cast[l]) /\ Once(Ids(l)) /\ CastOf(l) \in SUBSET MonId
           /\ \A i \in 1..Len(Cast[l]) : Cast[l][i].id \in MonId /\ Cast[l][i].data \in Form
           /\ \A i \in 1..Len(Cast[l]) : Cast[l][i].id \in CastOf(l)
<1>1. Cast[l] \in Seq([id : MonId, data : Form])
  BY FormAssumption
<1>2. /\ Len(Cast[l]) \in Nat
      /\ \A i \in 1..Len(Cast[l]) : Cast[l][i] \in [id : MonId, data : Form]
  <2> DEFINE D == [id : MonId, data : Form]
             s == Cast[l]
  <2>1. s \in Seq(D)
    BY <1>1
  <2> HIDE DEF D, s
  <2>2. Len(s) \in Nat /\ \A i \in 1..Len(s) : s[i] \in D
    BY <2>1, LenProperties, ElementOfSeq
  <2> QED BY <2>2 DEF D, s
<1>3. \A i \in 1..Len(Cast[l]) : Cast[l][i].id \in MonId /\ Cast[l][i].data \in Form
  BY <1>2
<1>4. Ids(l) \in Seq(MonId) /\ Len(Ids(l)) = Len(Cast[l])
      /\ \A i \in 1..Len(Cast[l]) : Ids(l)[i] = Cast[l][i].id
  BY <1>2, <1>3 DEF Ids
<1>5. Range(Ids(l)) = {Ids(l)[i] : i \in 1..Len(Ids(l))}
  BY <1>4, RangeIs
<1>6. Range(Ids(l)) = CastOf(l)
  BY <1>4, <1>5 DEF CastOf
<1>7. Once(Ids(l))
  BY <1>4, PlaceAssumption DEF Once
<1> QED BY <1>2, <1>3, <1>4, <1>6, <1>7 DEF CastOf

LEMMA CastApart ==
    ASSUME NEW l \in Level, NEW k \in Level, l # k
    PROVE  CastOf(l) \cap CastOf(k) = {}
BY PlaceAssumption DEF CastOf

AllCast == UNION {CastOf(l) : l \in Level}
LEMMA FewCast ==
    /\ AllCast \in SUBSET MonId /\ Cardinality(AllCast) <= MaxMonsters
    /\ \A l \in Level : Len(Cast[l]) < Cardinality(Square)
<1>1. AllCast \in SUBSET MonId /\ AllCast = UNION {Range(Ids(l)) : l \in Level}
  BY CastIs DEF AllCast
<1>2. Cardinality(AllCast) <= MaxMonsters /\ Cardinality(Square) \in Nat
      /\ IsFiniteSet(AllCast) /\ Cardinality(AllCast) \in Nat
  BY <1>1, PlaceAssumption, Few, NthIs
<1>3. ASSUME NEW l \in Level PROVE Len(Cast[l]) < Cardinality(Square)
  <2> DEFINE n == Len(Cast[l])
             f == [i \in 1..n |-> Cast[l][i].id]
  <2>1. n \in Nat
    BY CastIs
  <2>2. f \in Injection(1..n, AllCast)
    <3>1. f \in [1..n -> AllCast]
      BY CastIs DEF AllCast
    <3>2. \A a, b \in 1..n : f[a] = f[b] => a = b
      BY PlaceAssumption
    <3> HIDE DEF f
    <3> QED BY <3>1, <3>2 DEF Injection, IsInjective
  <2> HIDE DEF f
  <2>3. Cardinality(1..n) <= Cardinality(AllCast)
    BY <1>2, <2>2, FS_Injection
  <2>4. Cardinality(1..n) = n
    <3>1. Cardinality(1..n) = IF 1 > n THEN 0 ELSE n - 1 + 1
      BY <2>1, FS_Interval
    <3> QED BY <2>1, <3>1
  <2> HIDE DEF n
  <2>5. n < Cardinality(Square)
    BY <1>2, <2>1, <2>3, <2>4, PlaceAssumption
  <2> QED BY <2>5 DEF n
<1> QED BY <1>1, <1>2, <1>3

\* What a monster is like in the beginning.
LEMMA StartMon ==
    ASSUME Init, NEW l \in Level, NEW i \in 1..Len(Cast[l]), NEW m, m = Cast[l][i].id
    PROVE  /\ mon[m] \in Monst /\ mon[m].data = Cast[l][i].data /\ mon[m].alive
           /\ mon[m].mx = Nth[i] /\ ~mon[m].mleashed /\ mon[m].mx \in Square
<1> DEFINE k == CHOOSE k \in Level : m \in Range(Ids(k))
           j == CHOOSE j \in 1..Len(Cast[k]) : Cast[k][j].id = m
<1>1. m \in CastOf(l) /\ m \in MonId /\ Cast[l][i].data \in Form
  BY CastIs
<1>2. \A h \in Level : m \in Range(Ids(h)) <=> h = l
  BY <1>1, CastIs, CastApart
<1>3. k = l
  BY <1>2
<1> HIDE DEF k
<1>4. j = i
  <2>1. \A h \in 1..Len(Cast[l]) : Cast[l][h].id = m <=> h = i
    BY PlaceAssumption
  <2> QED BY <1>3, <2>1
<1>5. mon[m] = [Freed EXCEPT !.data = Cast[k][j].data, !.alive = TRUE, !.mx = Nth[j]]
  BY <1>1, <1>2 DEF Init, k
<1> HIDE DEF j
<1>6. Nth[i] \in Square
  <2>1. Len(Cast[l]) \in Nat /\ Len(Cast[l]) < Cardinality(Square) /\ Cardinality(Square) \in Nat
    BY CastIs, FewCast, NthIs
  <2>2. i \in 1..Cardinality(Square)
    BY <2>1
  <2> QED BY <2>2, NthIs
<1> DEFINE d == Cast[l][i].data
           x == Nth[i]
<1>7. mon[m] = [Freed EXCEPT !.data = d, !.alive = TRUE, !.mx = x] /\ d \in Form /\ x \in Square
  BY <1>1, <1>3, <1>4, <1>5, <1>6
<1> HIDE DEF d, x
<1>8. /\ mon[m] \in Monst /\ mon[m].data = d /\ mon[m].alive /\ mon[m].mx = x
      /\ ~mon[m].mleashed
  BY <1>7, FreedIs DEF Monst
<1> QED BY <1>6, <1>8 DEF d, x

LEMMA StartFreed ==
    ASSUME Init, NEW m \in MonId, m \notin AllCast
    PROVE  mon[m] = Freed
<1>1. \A l \in Level : m \notin Range(Ids(l))
  BY CastIs DEF AllCast
<1> QED BY <1>1 DEF Init

LEMMA StartFiles ==
    ASSUME Init
    PROVE  /\ here \in Level /\ fmon = Ids(here) /\ Range(fmon) = CastOf(here)
           /\ \A l \in Level : Filed(l) = IF l = here THEN {} ELSE CastOf(l)
           /\ InFiles = AllCast \ CastOf(here)
           /\ \A l \in Level : levelfile[l] =
                  IF l = here THEN EmptyFile ELSE [fmon |-> Ids(l), light |-> Glow(l)]
           /\ levelfile = [l \in Level |-> levelfile[l]]
<1>1. /\ here \in Level /\ fmon = Ids(here)
      /\ \A l \in Level : levelfile[l] =
             IF l = here THEN EmptyFile ELSE [fmon |-> Ids(l), light |-> Glow(l)]
      /\ levelfile = [l \in Level |-> levelfile[l]]
  BY FreedIs DEF Init
<1>2. Range(fmon) = CastOf(here)
  BY <1>1, CastIs
<1>3. ASSUME NEW l \in Level PROVE Filed(l) = IF l = here THEN {} ELSE CastOf(l)
  <2>1. Range(EmptyFile.fmon) = {}
    BY EmptyList DEF EmptyFile
  <2>2. CASE l = here
    <3>1. levelfile[l] = EmptyFile
      BY <1>1, <2>2
    <3> QED BY <2>1, <2>2, <3>1 DEF Filed
  <2>3. CASE l # here
    <3>1. levelfile[l].fmon = Ids(l)
      BY <1>1, <2>3
    <3> QED BY <2>3, <3>1, CastIs DEF Filed
  <2> QED BY <2>2, <2>3
<1>4. InFiles = AllCast \ CastOf(here)
  <2>1. InFiles = UNION {Filed(l) : l \in Level}
    BY DEF InFiles, Filed
  <2>2. ASSUME NEW m PROVE m \in InFiles <=> m \in AllCast \ CastOf(here)
    <3>1. ASSUME NEW l \in Level, m \in Filed(l) PROVE m \in AllCast \ CastOf(here)
      <4>1. l # here /\ m \in CastOf(l)
        BY <1>3, <3>1
      <4> QED BY <1>1, <4>1, CastApart DEF AllCast
    <3>2. ASSUME m \in AllCast, m \notin CastOf(here) PROVE \E l \in Level : m \in Filed(l)
      <4>1. PICK l \in Level : m \in CastOf(l)
        BY <3>2 DEF AllCast
      <4> QED BY <1>3, <3>2, <4>1
    <3> QED BY <2>1, <3>1, <3>2
  <2> QED BY <2>2
<1> QED BY <1>1, <1>2, <1>3, <1>4

LEMMA GlowIs ==
    ASSUME Init, NEW l \in Level
    PROVE  /\ Glow(l) \in [MonId -> Nat]
           /\ \A m \in MonId : Glow(l)[m] =
                  IF m \in CastOf(l) /\ mon[m].data \in Lights THEN 1 ELSE 0
<1>1. \A m \in MonId : Glow(l)[m] =
          IF \E i \in 1..Len(Cast[l]) : Cast[l][i].id = m /\ Cast[l][i].data \in Lights
          THEN 1 ELSE 0
  BY DEF Glow
<1>2. \A i \in 1..Len(Cast[l]) : mon[Cast[l][i].id].data = Cast[l][i].data
  BY StartMon
<1>3. ASSUME NEW m \in MonId
      PROVE  (\E i \in 1..Len(Cast[l]) : Cast[l][i].id = m /\ Cast[l][i].data \in Lights)
             <=> m \in CastOf(l) /\ mon[m].data \in Lights
  BY <1>2 DEF CastOf
<1> QED BY <1>1, <1>3 DEF Glow

\* No two monsters of a level start on one square.
LEMMA StartApart ==
    ASSUME Init, NEW l \in Level
    PROVE  /\ \A m \in CastOf(l) : m \in MonId /\ mon[m].alive /\ mon[m].mx \in Square
           /\ \A m, n \in CastOf(l) : mon[m].mx = mon[n].mx => m = n
           /\ \A m \in CastOf(l) : mon[m].mx # Nth[Len(Cast[l]) + 1]
           /\ Nth[Len(Cast[l]) + 1] \in Square
<1>1. /\ Len(Cast[l]) \in Nat /\ Len(Cast[l]) < Cardinality(Square)
      /\ Cardinality(Square) \in Nat
  BY CastIs, FewCast, NthIs
<1>2. \A i \in 1..Len(Cast[l]) + 1 : i \in 1..Cardinality(Square)
  BY <1>1
<1>3. \A i \in 1..Len(Cast[l]) : i \in 1..Len(Cast[l]) + 1 /\ i # Len(Cast[l]) + 1
  BY <1>1
<1>4. Len(Cast[l]) + 1 \in 1..Len(Cast[l]) + 1
  BY <1>1
<1>5. \A m \in CastOf(l) : \E i \in 1..Len(Cast[l]) :
          m = Cast[l][i].id /\ mon[m].mx = Nth[i] /\ mon[m].alive /\ mon[m].mx \in Square
  <2>1. ASSUME NEW i \in 1..Len(Cast[l]), NEW m, m = Cast[l][i].id
        PROVE  mon[m].mx = Nth[i] /\ mon[m].alive /\ mon[m].mx \in Square
    BY <2>1, StartMon
  <2> QED BY <2>1 DEF CastOf
<1>6. \A m \in CastOf(l) : m \in MonId
  BY CastIs
<1>7. \A m, n \in CastOf(l) : mon[m].mx = mon[n].mx => m = n
  BY <1>2, <1>3, <1>5, NthIs
<1>8. \A m \in CastOf(l) : mon[m].mx # Nth[Len(Cast[l]) + 1]
  BY <1>2, <1>3, <1>4, <1>5, NthIs
<1>9. Nth[Len(Cast[l]) + 1] \in Square
  BY <1>2, <1>4, NthIs
<1> QED BY <1>5, <1>6, <1>7, <1>8, <1>9

LEMMA StartWorld ==
    ASSUME Init
    PROVE  /\ World \in Worlds /\ Local(World) = CastOf(here) /\ Moving(World) = {}
           /\ Dead(World) = {} /\ Afoot(World) = CastOf(here) /\ Once(fmon)
           /\ Living(World) = AllCast
<1>1. /\ here \in Level /\ fmon = Ids(here) /\ Range(fmon) = CastOf(here)
      /\ fmon \in Seq(MonId) /\ Once(fmon) /\ Len(fmon) = Len(Cast[here])
  BY StartFiles, CastIs
<1>2. /\ migrating_mons = <<>> /\ light = Glow(here) /\ purge = 0 /\ impossible = FALSE
      /\ you = [at |-> Nth[Len(fmon) + 1], ustuck |-> NoMon, uswallow |-> FALSE,
                usteed |-> NoMon, utolev |-> "stay", movement |-> NORMAL_SPEED]
  BY DEF Init
<1>3. \A m \in CastOf(here) : m \in MonId /\ mon[m].alive
  BY <1>1, StartApart
<1>4. mon \in [MonId -> Monst]
  <2>1. ASSUME NEW m \in MonId PROVE mon[m] \in Monst
    <3>1. CASE m \in AllCast
      <4>1. PICK l \in Level : m \in CastOf(l)
        BY <3>1 DEF AllCast
      <4>2. PICK i \in 1..Len(Cast[l]) : m = Cast[l][i].id
        BY <4>1 DEF CastOf
      <4> QED BY <4>2, StartMon
    <3>2. CASE m \notin AllCast
      BY <3>2, StartFreed, FreedIs
    <3> QED BY <3>1, <3>2
  <2> DEFINE r(m) ==
        IF \E l \in Level : m \in Range(Ids(l))
        THEN LET l == CHOOSE l \in Level : m \in Range(Ids(l))
                 i == CHOOSE i \in 1..Len(Cast[l]) : Cast[l][i].id = m
             IN  [Freed EXCEPT !.data = Cast[l][i].data, !.alive = TRUE, !.mx = Nth[i]]
        ELSE Freed
  <2>2. mon = [m \in MonId |-> r(m)]
    BY DEF Init
  <2> HIDE DEF r
  <2>3. mon = [m \in MonId |-> mon[m]]
    BY <2>2
  <2> QED BY <2>1, <2>3
<1>5. grid \in [Square -> MonId \cup {NoMon}]
  <2>1. \A x \in Square : grid[x] \in MonId \cup {NoMon}
    BY <1>1, <1>3 DEF Init
  <2>2. grid = [x \in Square |-> grid[x]]
    BY DEF Init
  <2> QED BY <2>1, <2>2
<1>6. light \in [MonId -> Nat]
  BY <1>1, <1>2, GlowIs
<1>7. you \in You
  <2>1. Nth[Len(fmon) + 1] \in Square
    BY <1>1, StartApart
  <2>2. NORMAL_SPEED \in Nat
    BY FormAssumption
  <2> DEFINE x == Nth[Len(fmon) + 1]
  <2> HIDE DEF x
  <2> QED BY <1>2, <2>1, <2>2 DEF You, ToLevel, x
<1>8. migrating_mons \in Seq(MonId) /\ Range(migrating_mons) = {}
  BY <1>2, EmptyList
<1>9. World \in Worlds
  BY <1>1, <1>2, <1>4, <1>5, <1>6, <1>7, <1>8 DEF World, Worlds
<1>10. Local(World) = CastOf(here) /\ Moving(World) = {}
  BY <1>1, <1>8, WorldIs DEF Local, Moving
<1>11. Dead(World) = {} /\ Afoot(World) = CastOf(here)
  <2>1. \A m \in Local(World) : World.mon[m].alive
    BY <1>3, <1>10, WorldIs
  <2>2. World.you.usteed = NoMon /\ \A m \in Local(World) : m # NoMon
    BY <1>2, <1>3, <1>10, WorldIs, PlaceAssumption
  <2> QED BY <1>10, <2>1, <2>2 DEF Dead, Afoot
<1>12. Living(World) = AllCast
  <2>1. ASSUME NEW m \in AllCast PROVE m \in MonId /\ mon[m].alive
    <3>1. PICK l \in Level : m \in CastOf(l)
      BY DEF AllCast
    <3> QED BY <3>1, StartApart
  <2>2. ASSUME NEW m \in MonId, m \notin AllCast PROVE ~mon[m].alive
    BY <2>2, StartFreed, FreedIs
  <2> QED BY <2>1, <2>2, WorldIs DEF Living
<1> QED BY <1>1, <1>9, <1>10, <1>11, <1>12

LEMMA StartGood ==
    ASSUME Init PROVE Good(World, InFiles, mon)
<1>1. /\ World \in Worlds /\ Local(World) = CastOf(here) /\ Moving(World) = {}
      /\ Dead(World) = {} /\ Afoot(World) = CastOf(here) /\ Once(fmon)
      /\ Living(World) = AllCast
  BY StartWorld
<1>2. here \in Level /\ InFiles = AllCast \ CastOf(here) /\ Len(fmon) = Len(Cast[here])
  BY StartFiles, CastIs
<1>3. /\ migrating_mons = <<>> /\ light = Glow(here) /\ purge = 0
      /\ you.at = Nth[Len(fmon) + 1] /\ you.ustuck = NoMon /\ you.uswallow = FALSE
      /\ you.usteed = NoMon
  BY DEF Init
<1>4. Apart(World, {}, InFiles)
  <2>1. Once(World.fmon) /\ Once(World.migrating_mons)
    BY <1>1, <1>3, EmptyList, WorldIs
  <2> QED BY <1>1, <1>2, <2>1 DEF Apart
<1>5. \A m \in AllCast : m \in MonId /\ mon[m].alive /\ ~mon[m].mleashed
  <2>1. ASSUME NEW m \in AllCast PROVE m \in MonId /\ mon[m].alive /\ ~mon[m].mleashed
    <3>1. PICK l \in Level : m \in CastOf(l)
      BY DEF AllCast
    <3>2. PICK i \in 1..Len(Cast[l]) : m = Cast[l][i].id
      BY <3>1 DEF CastOf
    <3>3. mon[m].alive /\ ~mon[m].mleashed
      BY <3>2, StartMon
    <3> QED BY <3>1, <3>3, CastIs
  <2> QED BY <2>1
<1>6. \A m \in MonId : m \notin AllCast => mon[m] = Freed /\ ~mon[m].alive /\ ~mon[m].mleashed
  BY StartFreed, FreedIs
<1>7. CastOf(here) \in SUBSET AllCast
  BY <1>2 DEF AllCast
<1>8. \A m \in MonId : light[m] = IF m \in CastOf(here) /\ mon[m].data \in Lights THEN 1 ELSE 0
  BY <1>2, <1>3, GlowIs
<1>9. ASSUME NEW m \in MonId PROVE Accounted(World, {}, InFiles, mon, m)
  <2>1. m \notin Local(World) => (mon[m].alive <=> m \in InFiles)
    BY <1>1, <1>2, <1>5, <1>6
  <2>2. m \notin Local(World) \cup InFiles => mon[m] = Freed
    BY <1>1, <1>2, <1>6
  <2>3. ~mon[m].mleashed
    BY <1>5, <1>6
  <2>4. light[m] = Glow01(World, m, InFiles)
    <3>1. m \in CastOf(here) <=> mon[m].alive /\ m \notin InFiles
      BY <1>2, <1>5, <1>6, <1>7
    <3> QED BY <1>8, <3>1, WorldIs DEF Glow01
  <2> QED BY <1>1, <2>1, <2>2, <2>3, <2>4, WorldIs DEF Accounted
<1>10. World.purge = Cardinality(Dead(World))
  BY <1>1, <1>3, FS_EmptySet, WorldIs
<1>11. Cardinality(Living(World)) <= MaxMonsters
  BY <1>1, FewCast
<1>12. Books(World, {}, InFiles, mon)
  BY <1>1, <1>4, <1>9, <1>10, <1>11 DEF Books
<1>13. /\ \A m \in CastOf(here) : m \in MonId /\ mon[m].mx \in Square
       /\ \A m, n \in CastOf(here) : mon[m].mx = mon[n].mx => m = n
       /\ \A m \in CastOf(here) : mon[m].mx # you.at
       /\ you.at \in Square
  BY <1>2, <1>3, StartApart
<1>14. \A x \in Square : grid[x] =
           IF \E m \in CastOf(here) : mon[m].mx = x
           THEN CHOOSE m \in CastOf(here) : mon[m].mx = x ELSE NoMon
  <2>1. Range(fmon) = CastOf(here)
    BY <1>1, WorldIs DEF Local
  <2> DEFINE S == CastOf(here)
  <2> HIDE DEF S
  <2>2. Range(fmon) = S
    BY <2>1 DEF S
  <2>3. grid = [x \in Square |-> IF \E m \in Range(fmon) : mon[m].mx = x
                                 THEN CHOOSE m \in Range(fmon) : mon[m].mx = x ELSE NoMon]
    BY DEF Init
  <2>4. grid = [x \in Square |-> IF \E m \in S : mon[m].mx = x
                                 THEN CHOOSE m \in S : mon[m].mx = x ELSE NoMon]
    BY <2>2, <2>3
  <2>5. \A x \in Square : grid[x] = IF \E m \in S : mon[m].mx = x
                                    THEN CHOOSE m \in S : mon[m].mx = x ELSE NoMon
    BY <2>4
  <2> QED BY <2>5 DEF S
<1>15. \A x \in Square : /\ grid[x] # NoMon => grid[x] \in CastOf(here) /\ mon[grid[x]].mx = x
                         /\ (\A m \in CastOf(here) : mon[m].mx # x) => grid[x] = NoMon
  BY <1>14
<1>16. \A m \in CastOf(here) : grid[mon[m].mx] = m
  BY <1>13, <1>14
<1>17. Mapped(World, CastOf(here))
  BY <1>13, <1>15, <1>16, WorldIs DEF Mapped
<1>18. Rides(World, {}) /\ Held(World, CastOf(here)) /\ Clear(World)
  BY <1>3, <1>13, <1>15, WorldIs DEF Rides, Held, Clear
<1> QED BY <1>1, <1>12, <1>17, <1>18 DEF Good

LEMMA StartFilesGood ==
    ASSUME Init PROVE Files
<1>1. /\ here \in Level
      /\ \A l \in Level : Filed(l) = IF l = here THEN {} ELSE CastOf(l)
      /\ \A l \in Level : levelfile[l] =
             IF l = here THEN EmptyFile ELSE [fmon |-> Ids(l), light |-> Glow(l)]
      /\ levelfile = [l \in Level |-> levelfile[l]]
  BY StartFiles
<1>2. ASSUME NEW l \in Level PROVE FileGood(l)
  <2>1. /\ levelfile[l] \in [fmon : Seq(MonId), light : [MonId -> Nat]]
        /\ Once(levelfile[l].fmon)
        /\ \A m \in MonId : levelfile[l].light[m] =
              IF m \in Filed(l) /\ mon[m].data \in Lights THEN 1 ELSE 0
    <3>1. CASE l = here
      <4>1. levelfile[l] = EmptyFile /\ Filed(l) = {}
        BY <1>1, <3>1
      <4> QED BY <4>1, EmptyList DEF EmptyFile
    <3>2. CASE l # here
      <4>1. levelfile[l] = [fmon |-> Ids(l), light |-> Glow(l)] /\ Filed(l) = CastOf(l)
        BY <1>1, <3>2
      <4>2. Ids(l) \in Seq(MonId) /\ Once(Ids(l)) /\ Glow(l) \in [MonId -> Nat]
        BY CastIs, GlowIs
      <4>3. \A m \in MonId : Glow(l)[m] = IF m \in Filed(l) /\ mon[m].data \in Lights THEN 1 ELSE 0
        BY <4>1, GlowIs
      <4> QED BY <4>1, <4>2, <4>3
    <3> QED BY <3>1, <3>2
  <2>2. \A k \in Level \ {l} : Filed(l) \cap Filed(k) = {}
    BY <1>1, CastApart
  <2>3. Filed(l) \in SUBSET CastOf(l)
    BY <1>1
  <2>4. /\ \A m \in CastOf(l) : mon[m].mx \in Square
        /\ \A m, n \in CastOf(l) : mon[m].mx = mon[n].mx => m = n
    BY StartApart
  <2> QED BY <2>1, <2>2, <2>3, <2>4 DEF FileGood
<1>3. levelfile \in [Level -> [fmon : Seq(MonId), light : [MonId -> Nat]]]
  BY <1>1, <1>2 DEF FileGood
<1> QED BY <1>1, <1>2, <1>3 DEF Files

LEMMA StartLoop ==
    ASSUME Init PROVE Loop
<1>1. /\ Local(World) = CastOf(here) /\ Moving(World) = {} /\ InFiles = AllCast \ CastOf(here)
      /\ here \in Level /\ World.mydogs = <<>>
  BY StartWorld, StartFiles, WorldIs
<1>2. Owned(World) = AllCast
  <2>1. CastOf(here) \in SUBSET AllCast
    BY <1>1 DEF AllCast
  <2> QED BY <1>1, <2>1, OwnedAre
<1>3. Cardinality(Owned(World)) <= MaxMonsters
  BY <1>2, FewCast
<1>4. "stay" # here
  BY <1>1, PlaceAssumption
<1>5. /\ you.utolev = "stay" /\ you.movement = NORMAL_SPEED /\ phase = "hero" /\ walk = NoMon
      /\ somebody = FALSE
  BY DEF Init
<1>6. you.movement >= NORMAL_SPEED
  BY <1>5, FormAssumption
<1> QED BY <1>3, <1>4, <1>5, <1>6 DEF Loop

LEMMA Starting ==
    ASSUME Init PROVE IInv
BY StartGood, StartFilesGood, StartLoop DEF IInv

(***************************************************************************)
(* What the invariant says of the lists, the map and the hero.             *)
(***************************************************************************)
LEMMA Ats ==
    ASSUME NEW D, NEW s \in Seq(D), Once(s), NEW m
    PROVE  /\ \A i, j \in At(s, m) : i = j
           /\ m \in Range(s) <=> At(s, m) # {}
<1>1. Range(s) = {s[i] : i \in 1..Len(s)}
  BY RangeIs
<1> QED BY <1>1 DEF At, Once

LEMMA InSpots ==
    ASSUME NEW m, NEW t
    PROVE  t \in Spots(m) <=>
               \/ \E i \in At(fmon, m) : t = <<"fmon", here, i>>
               \/ \E i \in At(migrating_mons, m) : t = <<"migrating_mons", here, i>>
               \/ \E l \in Level : \E i \in At(levelfile[l].fmon, m) : t = <<"levelfile", l, i>>
<1> DEFINE F == At(fmon, m)
           M == At(migrating_mons, m)
           G(l) == At(levelfile[l].fmon, m)
<1>1. Spots(m) = ({"fmon"} \X {here} \X F) \cup ({"migrating_mons"} \X {here} \X M)
                 \cup UNION {{"levelfile"} \X {l} \X G(l) : l \in Level}
  BY DEF Spots
<1> HIDE DEF F, M, G
<1>2. t \in {"fmon"} \X {here} \X F <=> \E i \in F : t = <<"fmon", here, i>>
  OBVIOUS
<1>3. t \in {"migrating_mons"} \X {here} \X M <=> \E i \in M : t = <<"migrating_mons", here, i>>
  OBVIOUS
<1>4. \A l \in Level : t \in {"levelfile"} \X {l} \X G(l) <=> \E i \in G(l) : t = <<"levelfile", l, i>>
  OBVIOUS
<1>5. t \in Spots(m) <=> \/ t \in {"fmon"} \X {here} \X F
                         \/ t \in {"migrating_mons"} \X {here} \X M
                         \/ \E l \in Level : t \in {"levelfile"} \X {l} \X G(l)
  BY <1>1
<1> QED BY <1>2, <1>3, <1>4, <1>5 DEF F, M, G

LEMMA InvOnOneList ==
    ASSUME IInv PROVE OnOneList
<1>1. /\ World \in Worlds /\ Books(World, {}, InFiles, mon) /\ Files
      /\ \A l \in Level : FileGood(l) /\ levelfile[l].fmon \in Seq(MonId)
      /\ InFiles = UNION {Filed(l) : l \in Level}
  BY GoodParts, FilesIn DEF IInv, Files
<1>2. /\ fmon \in Seq(MonId) /\ migrating_mons \in Seq(MonId) /\ Once(fmon) /\ Once(migrating_mons)
      /\ Range(fmon) \cap Range(migrating_mons) = {} /\ Range(fmon) \cap InFiles = {}
      /\ Range(migrating_mons) \cap InFiles = {}
  BY <1>1, Parts, WorldIs DEF Books, Apart, Local, Moving
<1>3. purge = Cardinality({m \in Range(fmon) : ~mon[m].alive})
  BY <1>1, WorldIs DEF Books, Dead, Local
<1>4. ASSUME NEW m \in MonId
      PROVE  /\ \A s, t \in Spots(m) : s = t
             /\ Spots(m) = {} => mon[m] = Freed
             /\ m \notin Range(fmon) => (mon[m].alive <=> Spots(m) # {})
  <2>1. Accounted(World, {}, InFiles, mon, m)
    BY <1>1 DEF Books
  <2>2. /\ m \notin Range(fmon) => (mon[m].alive <=> m \in Range(migrating_mons) \cup InFiles)
        /\ m \notin Range(fmon) \cup Range(migrating_mons) \cup InFiles => mon[m] = Freed
    BY <2>1, WorldIs DEF Accounted, Local, Moving
  <2>3. /\ \A i, j \in At(fmon, m) : i = j
        /\ m \in Range(fmon) <=> At(fmon, m) # {}
    BY <1>2, Ats
  <2>4. /\ \A i, j \in At(migrating_mons, m) : i = j
        /\ m \in Range(migrating_mons) <=> At(migrating_mons, m) # {}
    BY <1>2, Ats
  <2>5. ASSUME NEW l \in Level
        PROVE  /\ \A i, j \in At(levelfile[l].fmon, m) : i = j
               /\ m \in Filed(l) <=> At(levelfile[l].fmon, m) # {}
    <3>1. levelfile[l].fmon \in Seq(MonId) /\ Once(levelfile[l].fmon)
      BY <1>1 DEF FileGood
    <3> QED BY <3>1, Ats DEF Filed
  <2>6. \A l, k \in Level : m \in Filed(l) /\ m \in Filed(k) => l = k
    BY <1>1 DEF FileGood
  <2>7. m \in InFiles <=> \E l \in Level : m \in Filed(l)
    BY <1>1
  <2>8. Spots(m) # {} <=> m \in Range(fmon) \cup Range(migrating_mons) \cup InFiles
    <3>1. Spots(m) # {} <=> \/ \E i \in At(fmon, m) : TRUE
                            \/ \E i \in At(migrating_mons, m) : TRUE
                            \/ \E l \in Level : \E i \in At(levelfile[l].fmon, m) : TRUE
      BY InSpots
    <3> QED BY <2>3, <2>4, <2>5, <2>7, <3>1
  <2>9. ASSUME NEW s \in Spots(m), NEW t \in Spots(m) PROVE s = t
    <3>1. CASE m \in Range(fmon)
      <4>1. At(migrating_mons, m) = {} /\ \A l \in Level : At(levelfile[l].fmon, m) = {}
        BY <1>2, <2>4, <2>5, <2>7, <3>1
      <4> QED BY <2>3, <2>9, <4>1, InSpots
    <3>2. CASE m \in Range(migrating_mons)
      <4>1. At(fmon, m) = {} /\ \A l \in Level : At(levelfile[l].fmon, m) = {}
        BY <1>2, <2>3, <2>5, <2>7, <3>2
      <4> QED BY <2>4, <2>9, <4>1, InSpots
    <3>3. CASE m \notin Range(fmon) /\ m \notin Range(migrating_mons)
      <4>1. At(fmon, m) = {} /\ At(migrating_mons, m) = {}
        BY <2>3, <2>4, <3>3
      <4>2. /\ \E l \in Level : \E i \in At(levelfile[l].fmon, m) : s = <<"levelfile", l, i>>
            /\ \E l \in Level : \E i \in At(levelfile[l].fmon, m) : t = <<"levelfile", l, i>>
        BY <2>9, <4>1, InSpots
      <4>3. PICK l \in Level : \E i \in At(levelfile[l].fmon, m) : s = <<"levelfile", l, i>>
        BY <4>2
      <4>4. PICK k \in Level : \E i \in At(levelfile[k].fmon, m) : t = <<"levelfile", k, i>>
        BY <4>2
      <4>5. l = k
        BY <2>5, <2>6, <4>3, <4>4
      <4> QED BY <2>5, <4>3, <4>4, <4>5
    <3> QED BY <3>1, <3>2, <3>3
  <2> QED BY <2>2, <2>8, <2>9
<1> QED BY <1>3, <1>4 DEF OnOneList

LEMMA InvHero ==
    ASSUME IInv PROVE TypeOK /\ MapAgrees /\ HeroAgrees /\ LeashedIsNear /\ NoImpossible
<1>1. /\ World \in Worlds /\ Books(World, {}, InFiles, mon) /\ Stands(World, {}, Afoot(World))
      /\ Clear(World)
  BY GoodParts DEF IInv
<1>2. Afoot(World) = OnMap /\ Local(World) = Range(fmon)
  BY WorldIs DEF Afoot, OnMap, Local
<1>3. NoImpossible
  BY <1>1, WorldIs DEF Worlds, NoImpossible
<1>4. TypeOK
  <2>1. /\ mon \in [MonId -> Monst] /\ fmon \in Seq(MonId) /\ migrating_mons \in Seq(MonId)
        /\ grid \in [Square -> MonId \cup {NoMon}] /\ light \in [MonId -> Nat] /\ you \in You
        /\ purge \in Nat /\ impossible = FALSE
    BY <1>1, Parts, WorldIs
  <2>2. walk \in MonId \cup {NoMon}
    BY <1>1, <1>2, Parts DEF IInv, Loop
  <2> QED BY <2>1, <2>2 DEF TypeOK, IInv, Files, Loop
<1>5. MapAgrees
  BY <1>1, <1>2, WorldIs DEF Stands, Mapped, MapAgrees
<1>6. HeroAgrees
  BY <1>1, <1>2, WorldIs DEF Stands, Held, Rides, Clear, HeroAgrees
<1>7. LeashedIsNear
  <2>1. ASSUME NEW m \in MonId, mon[m].mleashed PROVE m \in Range(fmon) /\ mon[m].alive
    <3>1. Accounted(World, {}, InFiles, mon, m)
      BY <1>1 DEF Books
    <3> QED BY <1>2, <2>1, <3>1, WorldIs DEF Accounted
  <2>2. you.uswallow => \A m \in MonId : ~mon[m].mleashed
    BY <1>1, WorldIs DEF Stands, Held
  <2> QED BY <2>1, <2>2 DEF LeashedIsNear
<1> QED BY <1>3, <1>4, <1>5, <1>6, <1>7

LEMMA InvLight ==
    ASSUME IInv PROVE LightIffGlowing
<1>1. Books(World, {}, InFiles, mon) /\ \A l \in Level : FileGood(l)
  BY GoodParts DEF IInv, Files
<1>2. ASSUME NEW m \in MonId
      PROVE  light[m] = IF /\ mon[m].alive /\ mon[m].data \in Lights
                           /\ m \notin InFiles THEN 1 ELSE 0
  <2>1. Accounted(World, {}, InFiles, mon, m)
    BY <1>1 DEF Books
  <2> QED BY <2>1, WorldIs DEF Accounted, Glow01
<1> QED BY <1>1, <1>2 DEF LightIffGlowing, FileGood, Filed

LEMMA MoverLeaves ==
    ASSUME IInv, Oversights = {}, [Next]_vars, phase = "monsters", walk # NoMon
    PROVE  WalkGoesOn
<1>1. CASE Hero
  <2>1. phase = "hero"
    BY <1>1 DEF Hero, Search, Move, Attack, ZapTele, ZapPoly, DoLeash, DigHole, Christen,
                SwapPet, Mount, Dismount, ChangeLevel, SaveRestore, Command, FreeCommand
  <2> QED BY <2>1
<1>2. CASE Skip BY <1>2, SkipGood
<1>3. CASE MonActs BY <1>3, MonActsGood
<1>4. CASE EndPass BY <1>4 DEF EndPass
<1>5. CASE EndPassElsewhere BY <1>5 DEF EndPassElsewhere
<1>6. CASE NewTurn BY <1>6 DEF NewTurn
<1>7. CASE UNCHANGED vars
  <2>1. walk \in Range(fmon) /\ walk' = walk /\ fmon' = fmon
    BY <1>7, WorldIs DEF IInv, Loop, Local, vars
  <2> QED BY <2>1 DEF WalkGoesOn
<1> QED BY <1>1, <1>2, <1>3, <1>4, <1>5, <1>6, <1>7 DEF Next, Monsters

(***************************************************************************)
(* The theorems.                                                           *)
(***************************************************************************)
\* IInv holds in every reachable state.
LEMMA Invariance ==
    ASSUME Oversights = {} PROVE Spec => []IInv
<1>1. Init => IInv
  BY Starting
<1>2. IInv /\ [Next]_vars => IInv'
  BY Steps
<1> QED BY <1>1, <1>2, PTL DEF Spec

\* The variables keep their types through everything that moves a monster.
THEOREM MonstersTypes ==
    ASSUME Oversights = {} PROVE Spec => []TypeOK
<1>1. IInv => TypeOK
  BY InvHero
<1> QED BY <1>1, Invariance, PTL

\* However monsters are made, cloned, renamed, killed, taken along or sent to
\* another level, each is on exactly one of fmon, migrating_mons and the
\* lists of the level files, only once; and dmonsfree finds as many dead
\* ones on fmon as iflags.purge_monsters says.
THEOREM EveryMonsterOnOneList ==
    ASSUME Oversights = {} PROVE Spec => []OnOneList
<1>1. IInv => OnOneList
  BY InvOnOneList
<1> QED BY <1>1, Invariance, PTL

\* level.monsters shows just the living monsters of the level, each where
\* its mx says, and never the steed.
THEOREM TheMapIsRight ==
    ASSUME Oversights = {} PROVE Spec => []MapAgrees
<1>1. IInv => MapAgrees
  BY InvHero
<1> QED BY <1>1, Invariance, PTL

\* u.ustuck and u.usteed never point to a monster that is dead, freed or on
\* another level; the steed is where the hero is, and only an engulfer
\* shares the hero's square on the map.
THEOREM HeroPointersHold ==
    ASSUME Oversights = {} PROVE Spec => []HeroAgrees
<1>1. IInv => HeroAgrees
  BY InvHero
<1> QED BY <1>1, Invariance, PTL

\* A monster that emits light has one light source, in memory or in the file
\* of its level, whichever holds the monster; any other monster has none.
THEOREM LightsFollowMonsters ==
    ASSUME Oversights = {} PROVE Spec => []LightIffGlowing
<1>1. IInv => LightIffGlowing
  BY InvLight
<1> QED BY <1>1, Invariance, PTL

\* Every leash holds a living monster of the hero's level.
THEOREM LeashesAreNear ==
    ASSUME Oversights = {} PROVE Spec => []LeashedIsNear
<1>1. IInv => LeashedIsNear
  BY InvHero
<1> QED BY <1>1, Invariance, PTL

\* None of the checks that end in impossible() or panic() fires.
THEOREM NoMonsterPanics ==
    ASSUME Oversights = {} PROVE Spec => []NoImpossible
<1>1. IInv => NoImpossible
  BY InvHero
<1> QED BY <1>1, Invariance, PTL

\* While movemon walks fmon, a step takes no monster but the one that moves
\* off the list, and the next one to visit is still on it.
THEOREM TheWalkIsSafe ==
    ASSUME Oversights = {} PROVE Spec => OnlyTheMoverLeaves
<1>1. IInv /\ [Next]_vars =>
        [phase = "monsters" /\ walk # NoMon =>
           /\ Range(fmon) \ Range(fmon') \subseteq {walk}
           /\ walk' = NoMon \/ walk' \in Range(fmon')]_vars
  BY MoverLeaves DEF WalkGoesOn
<1> QED BY <1>1, Invariance, PTL DEF Spec, OnlyTheMoverLeaves
=============================================================================
