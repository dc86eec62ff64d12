---------------------------- MODULE ListTheorems ----------------------------
(***************************************************************************)
(* Facts about numbers and about the community modules' operations on      *)
(* lists, for the proofs about the code's linked lists.                    *)
(***************************************************************************)
EXTENDS Integers, Sequences, FiniteSets, SequencesExt, SequenceTheorems,
        FiniteSetTheorems, WellFoundedInduction, TLAPS

(***************************************************************************)
(* A set of natural numbers that is not empty has a least element: the     *)
(* sets {y \in T : y <= x} are finite, so one of them is minimal.          *)
(***************************************************************************)
\* Among numbers there is a least one.
LEMMA LeastNumber ==
    ASSUME NEW T \in SUBSET Nat, T # {}
    PROVE  \E x \in T : \A y \in T : x <= y
<1> DEFINE Below(x) == {y \in T : y <= x}
           C        == {Below(x) : x \in T}
<1>1. C \subseteq FiniteSubsetsOf(Nat)
  <2> SUFFICES ASSUME NEW x \in T PROVE Below(x) \in FiniteSubsetsOf(Nat)
    OBVIOUS
  <2>1. IsFiniteSet(Below(x))
    BY FS_BoundedSetOfNaturals
  <2> QED BY <2>1 DEF FiniteSubsetsOf
<1>2. IsWellFoundedOn(StrictSubsetOrdering(Nat), FiniteSubsetsOf(Nat))
  BY FS_StrictSubsetOrderingWellFounded
<1>3. C # {}
  OBVIOUS
<1>4. PICK U \in C : \A V \in C : <<V, U>> \notin StrictSubsetOrdering(Nat)
  <2> HIDE DEF C
  <2> QED BY <1>1, <1>2, <1>3, WFMin
<1>5. PICK x \in T : U = Below(x)
  OBVIOUS
<1>6. ASSUME NEW y \in T, ~ (x <= y) PROVE FALSE
  <2>1. y \in Nat /\ x \in Nat /\ y < x
    BY <1>6
  <2>2. Below(y) \in C
    OBVIOUS
  <2>3. Below(y) \subseteq Below(x)
    <3> SUFFICES ASSUME NEW z \in T, z <= y PROVE z <= x
      OBVIOUS
    <3>1. z \in Nat
      OBVIOUS
    <3> QED BY <2>1, <3>1
  <2>4. x \in Below(x) /\ x \notin Below(y)
    BY <2>1
  <2>5. <<Below(y), Below(x)>> \in StrictSubsetOrdering(Nat)
    BY <2>3, <2>4 DEF StrictSubsetOrdering
  <2> QED BY <1>4, <1>5, <2>2, <2>5
<1> QED BY <1>6

(***************************************************************************)
(* A list with an element put in: what is before keeps its place and what  *)
(* is after moves up by one.                                               *)
(***************************************************************************)
\* InsertAt, by which insert_timer links a timer in.
LEMMA InsertAtFacts ==
    ASSUME NEW S, NEW q \in Seq(S), NEW e \in S, NEW i \in 1 .. Len(q) + 1
    PROVE  /\ InsertAt(q, i, e) \in Seq(S)
           /\ Len(InsertAt(q, i, e)) = Len(q) + 1
           /\ \A k \in 1 .. Len(q) + 1 :
                 InsertAt(q, i, e)[k] = IF k < i THEN q[k]
                                        ELSE IF k = i THEN e ELSE q[k - 1]
<1> DEFINE before == SubSeq(q, 1, i - 1)
           after  == SubSeq(q, i, Len(q))
<1>1. Len(q) \in Nat /\ i \in Int /\ 1 <= i /\ i <= Len(q) + 1
  BY LenProperties
<1>2. \A k \in 1 .. Len(q) : q[k] \in S
  BY ElementOfSeq
<1>3. /\ before \in Seq(S) /\ Len(before) = i - 1
      /\ \A k \in 1 .. i - 1 : before[k] = q[k]
  <2>1. \A k \in 1 .. i - 1 : q[k] \in S
    BY <1>1, <1>2
  <2>2. /\ before \in Seq(S)
        /\ Len(before) = IF 1 <= i - 1 THEN (i - 1) - 1 + 1 ELSE 0
        /\ \A k \in 1 .. (i - 1) - 1 + 1 : before[k] = q[1 + k - 1]
    BY <1>1, <2>1, SubSeqProperties
  <2> HIDE DEF before
  <2> QED BY <1>1, <2>2
<1>4. /\ after \in Seq(S) /\ Len(after) = Len(q) - i + 1
      /\ \A k \in 1 .. Len(q) - i + 1 : after[k] = q[i + k - 1]
  <2>1. \A k \in i .. Len(q) : q[k] \in S
    BY <1>1, <1>2
  <2>2. /\ after \in Seq(S)
        /\ Len(after) = IF i <= Len(q) THEN Len(q) - i + 1 ELSE 0
        /\ \A k \in 1 .. Len(q) - i + 1 : after[k] = q[i + k - 1]
    BY <1>1, <2>1, SubSeqProperties
  <2> HIDE DEF after
  <2> QED BY <1>1, <2>2
<1>5. <<e>> \in Seq(S) /\ Len(<<e>>) = 1 /\ <<e>>[1] = e
  OBVIOUS
<1> DEFINE front == before \o <<e>>
<1>6. /\ front \in Seq(S) /\ Len(front) = i
      /\ \A k \in 1 .. i : front[k] = IF k < i THEN q[k] ELSE e
  <2> HIDE DEF before
  <2>1. /\ front \in Seq(S) /\ Len(front) = Len(before) + Len(<<e>>)
        /\ \A k \in 1 .. Len(before) + Len(<<e>>) :
              front[k] = IF k <= Len(before) THEN before[k] ELSE <<e>>[k - Len(before)]
    BY <1>3, <1>5, ConcatProperties
  <2> HIDE DEF front
  <2>2. ASSUME NEW k \in 1 .. i PROVE front[k] = IF k < i THEN q[k] ELSE e
    BY <1>1, <1>3, <1>5, <2>1
  <2> QED BY <1>1, <1>3, <1>5, <2>1, <2>2
<1>7. InsertAt(q, i, e) = front \o after
  BY DEF InsertAt
<1>8. /\ front \o after \in Seq(S) /\ Len(front \o after) = Len(front) + Len(after)
      /\ \A k \in 1 .. Len(front) + Len(after) :
            (front \o after)[k] = IF k <= Len(front) THEN front[k] ELSE after[k - Len(front)]
  <2> HIDE DEF front, after
  <2> QED BY <1>4, <1>6, ConcatProperties
<1> HIDE DEF front, after, before
<1>9. ASSUME NEW k \in 1 .. Len(q) + 1
      PROVE  (front \o after)[k] = IF k < i THEN q[k] ELSE IF k = i THEN e ELSE q[k - 1]
  <2>1. CASE k <= i
    BY <1>1, <1>4, <1>6, <1>8, <2>1
  <2>2. CASE k > i
    <3>1. k - i \in 1 .. Len(q) - i + 1 /\ i + (k - i) - 1 = k - 1
      BY <1>1, <2>2
    <3>2. (front \o after)[k] = after[k - i]
      BY <1>1, <1>4, <1>6, <1>8, <2>2
    <3> QED BY <1>1, <1>4, <2>2, <3>1, <3>2
  <2>3. k <= i \/ k > i
    BY <1>1
  <2> QED BY <2>1, <2>2, <2>3
<1> QED BY <1>1, <1>4, <1>6, <1>7, <1>8, <1>9

(***************************************************************************)
(* A list with an element taken out: what is after moves down by one.      *)
(***************************************************************************)
\* RemoveAt, by which a timer is unlinked.
LEMMA RemoveAtFacts ==
    ASSUME NEW S, NEW q \in Seq(S), NEW i \in 1 .. Len(q)
    PROVE  /\ RemoveAt(q, i) \in Seq(S)
           /\ Len(RemoveAt(q, i)) = Len(q) - 1
           /\ \A k \in 1 .. Len(q) - 1 :
                 RemoveAt(q, i)[k] = IF k < i THEN q[k] ELSE q[k + 1]
<1> DEFINE before == SubSeq(q, 1, i - 1)
           after  == SubSeq(q, i + 1, Len(q))
<1>1. Len(q) \in Nat /\ i \in Int /\ 1 <= i /\ i <= Len(q)
  BY LenProperties
<1>2. \A k \in 1 .. Len(q) : q[k] \in S
  BY ElementOfSeq
<1>3. /\ before \in Seq(S) /\ Len(before) = i - 1
      /\ \A k \in 1 .. i - 1 : before[k] = q[k]
  <2>1. \A k \in 1 .. i - 1 : q[k] \in S
    BY <1>1, <1>2
  <2>2. /\ before \in Seq(S)
        /\ Len(before) = IF 1 <= i - 1 THEN (i - 1) - 1 + 1 ELSE 0
        /\ \A k \in 1 .. (i - 1) - 1 + 1 : before[k] = q[1 + k - 1]
    BY <1>1, <2>1, SubSeqProperties
  <2> HIDE DEF before
  <2> QED BY <1>1, <2>2
<1>4. /\ after \in Seq(S) /\ Len(after) = Len(q) - i
      /\ \A k \in 1 .. Len(q) - i : after[k] = q[i + k]
  <2>1. \A k \in i + 1 .. Len(q) : q[k] \in S
    BY <1>1, <1>2
  <2>2. /\ after \in Seq(S)
        /\ Len(after) = IF i + 1 <= Len(q) THEN Len(q) - (i + 1) + 1 ELSE 0
        /\ \A k \in 1 .. Len(q) - (i + 1) + 1 : after[k] = q[(i + 1) + k - 1]
    BY <1>1, <2>1, SubSeqProperties
  <2> HIDE DEF after
  <2> QED BY <1>1, <2>2
<1>5. RemoveAt(q, i) = before \o after
  BY DEF RemoveAt
<1>6. /\ before \o after \in Seq(S) /\ Len(before \o after) = Len(before) + Len(after)
      /\ \A k \in 1 .. Len(before) + Len(after) :
            (before \o after)[k] = IF k <= Len(before) THEN before[k]
                                   ELSE after[k - Len(before)]
  <2> HIDE DEF before, after
  <2> QED BY <1>3, <1>4, ConcatProperties
<1> HIDE DEF before, after
<1>7. ASSUME NEW k \in 1 .. Len(q) - 1
      PROVE  (before \o after)[k] = IF k < i THEN q[k] ELSE q[k + 1]
  <2>1. CASE k < i
    BY <1>1, <1>3, <1>4, <1>6, <2>1
  <2>2. CASE k >= i
    <3>1. k - (i - 1) \in 1 .. Len(q) - i /\ i + (k - (i - 1)) = k + 1
      BY <1>1, <2>2
    <3>2. (before \o after)[k] = after[k - (i - 1)]
      BY <1>1, <1>3, <1>4, <1>6, <2>2
    <3> QED BY <1>1, <1>4, <2>2, <3>1, <3>2
  <2>3. k < i \/ k >= i
    BY <1>1
  <2> QED BY <2>1, <2>2, <2>3
<1> QED BY <1>1, <1>3, <1>4, <1>5, <1>6, <1>7

(***************************************************************************)
(* Induction and recursion along 0..n, with sets for what is shown of each *)
(* number.                                                                 *)
(***************************************************************************)
\* A set that has 0 and, with each number up to n, the next one.
LEMMA CountingUp ==
    ASSUME NEW n \in Nat, NEW B, 0 \in B, \A i \in 1..n : i - 1 \in B => i \in B
    PROVE  \A i \in 0..n : i \in B
<1> DEFINE Bad == {i \in 0..n : i \notin B}
<1>1. Bad \in SUBSET Nat
  OBVIOUS
<1>2. ASSUME NEW k \in Bad, \A j \in Bad : k <= j PROVE FALSE
  <2>1. k \in 1..n /\ k - 1 \in 0..n
    OBVIOUS
  <2>2. k - 1 \notin Bad
    BY <1>2, <2>1
  <2> QED BY <2>1, <2>2
<1> HIDE DEF Bad
<1>3. Bad = {}
  BY <1>1, <1>2, LeastNumber
<1> QED BY <1>3 DEF Bad

\* f goes n times through a loop, from w.
Runs(f, n, w, step) == f = [i \in 0..n |-> IF i = 0 THEN w ELSE step[i][f[i - 1]]]

\* A loop that goes n times through its body has an outcome, and whatever it
\* goes through is in the sets that the body leads to one from the other.
LEMMA LoopRuns ==
    ASSUME NEW n \in Nat, NEW S, NEW w \in S[0], NEW step,
           \A i \in 1..n : \A v \in S[i - 1] : step[i][v] \in S[i]
    PROVE  \E f : Runs(f, n, w, step) /\ \A i \in 0..n : f[i] \in S[i]
<1> DEFINE Run(f, k) == /\ f = [i \in 0..k |-> IF i = 0 THEN w ELSE step[i][f[i - 1]]]
                        /\ \A i \in 0..k : f[i] \in S[i]
           B == {k \in 0..n : \E f : Run(f, k)}
<1>1. 0 \in B
  <2> DEFINE f == [i \in 0..0 |-> w]
  <2>1. \A i \in 0..0 : i = 0
    OBVIOUS
  <2>2. f = [i \in 0..0 |-> IF i = 0 THEN w ELSE step[i][f[i - 1]]]
    BY <2>1
  <2>3. \A i \in 0..0 : f[i] \in S[i]
    BY <2>1
  <2> HIDE DEF f
  <2>4. Run(f, 0)
    BY <2>2, <2>3
  <2> QED BY <2>4
<1>2. ASSUME NEW k \in 1..n, k - 1 \in B PROVE k \in B
  <2>1. PICK f : Run(f, k - 1)
    BY <1>2
  <2> DEFINE last == step[k][f[k - 1]]
             g    == [i \in 0..k |-> IF i = k THEN last ELSE f[i]]
  <2>2. k - 1 \in 0..k - 1 /\ k \in Int /\ k >= 1
    OBVIOUS
  <2>3. last \in S[k]
    BY <2>1, <2>2
  <2> HIDE DEF last
  <2>4. ASSUME NEW i \in 0..k
        PROVE  /\ g[i] = IF i = 0 THEN w ELSE step[i][g[i - 1]]
               /\ g[i] \in S[i]
    <3>1. CASE i = k
      <4>1. g[k] = last /\ g[k - 1] = f[k - 1]
        BY <2>2
      <4> QED BY <2>2, <2>3, <3>1, <4>1 DEF last
    <3>2. CASE i # k
      <4>1. i \in 0..k - 1 /\ g[i] = f[i] /\ (i # 0 => g[i - 1] = f[i - 1])
        BY <2>2, <3>2
      <4> HIDE DEF g
      <4> QED BY <2>1, <4>1
    <3> QED BY <3>1, <3>2
  <2>5. Run(g, k)
    BY <2>4
  <2> HIDE DEF g, Run
  <2> QED BY <2>5
<1>3. \A i \in 0..n : i \in B
  <2> HIDE DEF B
  <2> QED BY <1>1, <1>2, CountingUp
<1>4. n \in B
  <2> HIDE DEF B
  <2> QED BY <1>3
<1> QED BY <1>4 DEF Runs
=============================================================================
