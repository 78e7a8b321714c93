--------------------------- MODULE PriqueueProofs ---------------------------
(***************************************************************************)
(* Proofs about module Priqueue, for any number of lists, levels and       *)
(* entries, and any priorities.                                            *)
(***************************************************************************)
EXTENDS Priqueue, SequenceTheorems, TLAPS

\* The time limits of the provers, in seconds.
USE SMTT(30), ZenonT(30)

\* Scaling a priority below levels gives a number below PRIQUEUE_LEVELS (the
\* division in priqueue_insert).
LEMMA DivBound ==
    ASSUME NEW p \in Int, NEW c \in Nat \ {0}, NEW l \in Nat \ {0}, p < l
    PROVE  /\ (p * c) \div l \in Int
           /\ (p * c) \div l < c
<1> DEFINE q == (p * c) \div l
           r == (p * c) % l
<1>1. /\ q \in Int /\ r \in Int
      /\ p * c \in Int /\ l * c \in Int /\ l * q \in Int
    OBVIOUS
<1>2. p * c = l * q + r /\ r >= 0
    OBVIOUS
<1>3. p * c < l * c
    OBVIOUS
<1>4. l * q < l * c
    <2> HIDE DEF q, r
    <2> QED BY <1>1, <1>2, <1>3
<1>5. q < c
    <2> HIDE DEF q, r
    <2>1. q >= c => l * q >= l * c
        BY <1>1
    <2> QED BY <1>1, <1>4, <2>1
<1> QED BY <1>1, <1>5

\* The level that priqueue_insert computes is that of a list, and one that the
\* queue uses.
LEMMA ScaledInRange ==
    ASSUME NEW pri \in Pri
    PROVE  Scaled(pri) \in Level /\ Scaled(pri) < levels
<1> pri \in Int /\ levels \in Nat \ {0} /\ PRIQUEUE_LEVELS \in Nat \ {0}
    BY LevelsAssumption
<1>1. CASE levels > PRIQUEUE_LEVELS
    <2>1. pri < levels
        BY <1>1, PriFits
    <2> DEFINE q == (pri * PRIQUEUE_LEVELS) \div levels
    <2>2. q \in Int /\ q < PRIQUEUE_LEVELS
        BY <2>1, DivBound
    <2>3. Scaled(pri) = IF q < 0 THEN 0 ELSE IF q >= levels THEN levels - 1 ELSE q
        BY <1>1 DEF Scaled
    <2> HIDE DEF q
    <2> QED BY <1>1, <2>2, <2>3 DEF Level
<1>2. CASE ~(levels > PRIQUEUE_LEVELS)
    BY <1>2 DEF Scaled, Level
<1> QED BY <1>1, <1>2

\* A step of the queue keeps the inductive invariant.
LEMMA NextIInv == IInv /\ [Next]_vars => IInv'
<1> SUFFICES ASSUME IInv, [Next]_vars PROVE IInv'
    OBVIOUS
<1> USE DEF IInv
<1>0. /\ PRIQUEUE_LEVELS \in Nat \ {0} /\ levels \in Nat \ {0}
      /\ NULL \notin Item /\ NONE \notin Item /\ NULL # NONE
    BY LevelsAssumption
<1>1. ASSUME NEW x \in Item, NEW pri \in Pri, Insert(x, pri) PROVE IInv'
    <2> DEFINE q == Scaled(pri)
    <2>1. q \in Level /\ q < levels
        BY ScaledInRange
    <2>2. /\ lists' = [lists EXCEPT ![q] = Append(@, x)]
          /\ curhighest' = IF q > curhighest THEN q ELSE curhighest
          /\ out' = NONE
        BY <1>1 DEF Insert
    <2> HIDE DEF q
    <2>3. TypeOK'
        BY <1>0, <2>1, <2>2 DEF TypeOK, Level
    <2>4. AboveEmpty'
        BY <1>0, <2>1, <2>2 DEF TypeOK, AboveEmpty, Level
    <2>5. NullOnlyIfEmpty'
        BY <1>0, <2>2 DEF NullOnlyIfEmpty
    <2> QED BY <2>3, <2>4, <2>5
<1>2. ASSUME NEW i \in 0..curhighest, Found(i) PROVE IInv'
    <2>1. i \in Level /\ lists[i] \in Seq(Item) /\ lists[i] # <<>>
        BY <1>0, <1>2 DEF TypeOK, Found, Level
    <2>2. /\ Head(lists[i]) \in Item /\ Tail(lists[i]) \in Seq(Item)
          /\ Len(lists[i]) = 1 => Tail(lists[i]) = <<>>
        <3>1. /\ Head(lists[i]) \in Item /\ Tail(lists[i]) \in Seq(Item)
              /\ Len(Tail(lists[i])) = Len(lists[i]) - 1
            BY <2>1, HeadTailProperties
        <3>2. ASSUME Len(lists[i]) = 1 PROVE Tail(lists[i]) = <<>>
            <4>1. Len(Tail(lists[i])) = 0
                BY <3>1, <3>2
            <4>2. PICK t \in Seq(Item) : t = Tail(lists[i])
                BY <3>1, ZenonT(40)
            <4>3. Len(t) = 0
                BY <4>1, <4>2
            <4>4. t = <<>>
                BY <4>3, EmptySeq
            <4> QED BY <4>2, <4>4
        <3> QED BY <3>1, <3>2
    <2>3. TypeOK'
        BY <1>0, <1>2, <2>1, <2>2 DEF TypeOK, Found, Level
    <2>4. AboveEmpty'
        <3> SUFFICES ASSUME NEW j \in Level, j > curhighest' \/ j >= levels
                     PROVE  lists'[j] = <<>>
            BY DEF AboveEmpty
        <3>1. CASE j = i
            <4>1. i < levels
                BY <1>0, <2>1 DEF AboveEmpty, Level
            <4>2. Len(lists[i]) = 1
                BY <1>0, <1>2, <3>1, <4>1, <2>1 DEF Found, Level
            <4> QED BY <1>2, <2>1, <2>2, <3>1, <4>2 DEF Found, TypeOK
        <3>2. CASE j # i
            <4>1. lists'[j] = lists[j]
                BY <1>2, <3>2 DEF Found, TypeOK
            <4>2. j > i \/ j >= levels
                BY <1>0, <1>2, <2>1, <3>2 DEF Found, Level
            <4>3. lists[j] = <<>>
                BY <1>0, <1>2, <2>1, <4>2 DEF Found, Level, AboveEmpty, TypeOK
            <4> QED BY <4>1, <4>3
        <3> QED BY <3>1, <3>2
    <2>5. NullOnlyIfEmpty'
        BY <1>0, <1>2, <2>2 DEF NullOnlyIfEmpty, Found
    <2> QED BY <2>3, <2>4, <2>5
<1>3. ASSUME NotFound PROVE IInv'
    <2>1. \A j \in Level : lists[j] = <<>>
        BY <1>0, <1>3 DEF NotFound, AboveEmpty, TypeOK, Level
    <2> QED BY <1>0, <1>3, <2>1 DEF NotFound, TypeOK, AboveEmpty, NullOnlyIfEmpty, Level
<1>4. ASSUME UNCHANGED vars PROVE IInv'
    BY <1>4 DEF vars, TypeOK, AboveEmpty, NullOnlyIfEmpty
<1> QED BY <1>1, <1>2, <1>3, <1>4 DEF Next

\* The inductive invariant of the priority queue.
THEOREM Inductive == Spec => []IInv
<1>1. Init => IInv
    BY LevelsAssumption DEF Init, IInv, TypeOK, AboveEmpty, NullOnlyIfEmpty, Level
<1> QED BY <1>1, NextIInv, PTL DEF Spec

\* What DEBUG_PRIQUEUE asserts always holds.
THEOREM DebugAssertions == Spec => []AboveEmpty
<1>1. IInv => AboveEmpty
    BY DEF IInv
<1> QED BY <1>1, Inductive, PTL

\* priqueue_pop returns NULL only if the queue is empty.
THEOREM PopFinds == Spec => []NullOnlyIfEmpty
<1>1. IInv => NullOnlyIfEmpty
    BY DEF IInv
<1> QED BY <1>1, Inductive, PTL

\* Entries leave the queue by level, and in the order of their insertion.
THEOREM PopOrder == Spec => HighestFirst
<1> DEFINE Ordered == \A i \in Level :
               Len(lists'[i]) < Len(lists[i]) =>
                   /\ lists'[i] = Tail(lists[i])
                   /\ \A j \in Level : j > i => lists[j] = <<>>
<1>1. IInv /\ [Next]_vars => [Ordered]_vars
    <2> SUFFICES ASSUME IInv, Next, NEW i \in Level, Len(lists'[i]) < Len(lists[i])
                 PROVE  /\ lists'[i] = Tail(lists[i])
                        /\ \A j \in Level : j > i => lists[j] = <<>>
        OBVIOUS
    <2>0. lists \in [Level -> Seq(Item)] /\ curhighest \in Int /\ PRIQUEUE_LEVELS \in Nat
        BY LevelsAssumption DEF IInv, TypeOK
    <2>1. ASSUME NEW x \in Item, NEW pri \in Pri, Insert(x, pri) PROVE FALSE
        <3>1. lists' = [lists EXCEPT ![Scaled(pri)] = Append(@, x)]
            BY <2>1 DEF Insert
        <3>2. lists[i] \in Seq(Item) /\ Len(Append(lists[i], x)) = Len(lists[i]) + 1
            BY <2>0, <2>1
        <3>3. lists'[i] = lists[i] \/ lists'[i] = Append(lists[i], x)
            BY <2>0, <3>1
        <3> QED BY <3>2, <3>3
    <2>2. ASSUME NEW k \in 0..curhighest, Found(k)
          PROVE  k = i
        BY <2>0, <2>2 DEF Found, Level
    <2>3. ASSUME NEW k \in 0..curhighest, Found(k)
          PROVE  /\ lists'[i] = Tail(lists[i])
                 /\ \A j \in Level : j > i => lists[j] = <<>>
        <3>1. k = i
            BY <2>2, <2>3
        <3>2. lists'[i] = Tail(lists[i])
            BY <2>0, <2>3, <3>1 DEF Found
        <3>3. \A j \in Level : j > i => lists[j] = <<>>
            BY <2>0, <2>3, <3>1 DEF Found, IInv, AboveEmpty, Level
        <3> QED BY <3>2, <3>3
    <2>4. ~NotFound
        BY <2>0 DEF NotFound
    <2> QED BY <2>1, <2>3, <2>4 DEF Next
<1> QED BY <1>1, Inductive, PTL DEF Spec, HighestFirst
=============================================================================
