------------------------------ MODULE Priqueue ------------------------------
(***************************************************************************)
(* The priority queue of kernel/queue.c, from which a processor takes the  *)
(* next thread to run.  Each level has a list, and curhighest remembers    *)
(* where to start looking.  Both operations hold the lock of the queue, so *)
(* each is one action.                                                     *)
(***************************************************************************)
EXTENDS Integers, Sequences

CONSTANTS
    Item,               \* what is queued
    Pri,                \* the priorities that callers give
    PRIQUEUE_LEVELS,    \* how many lists there are
    levels,             \* how many levels the queue was created with
    NULL,               \* what priqueue_pop returns if it finds nothing
    NONE                \* no pop since the last insertion

ASSUME LevelsAssumption ==
    /\ PRIQUEUE_LEVELS \in Nat \ {0}
    /\ levels \in Nat \ {0}
    /\ Pri \subseteq Int
    /\ NULL \notin Item /\ NONE \notin Item /\ NULL # NONE

\* Callers of a queue with more levels than lists keep to its levels.
ASSUME PriFits == levels > PRIQUEUE_LEVELS => \A p \in Pri : p < levels

VARIABLES
    lists,      \* lists[i], oldest entry first
    curhighest,
    out         \* what the last priqueue_pop returned

vars == <<lists, curhighest, out>>

Level == 0..(PRIQUEUE_LEVELS - 1)

TypeOK ==
    /\ lists \in [Level -> Seq(Item)]
    /\ curhighest \in (-1)..(PRIQUEUE_LEVELS - 1)
    /\ out \in Item \cup {NULL, NONE}

Init ==
    /\ lists = [i \in Level |-> <<>>]
    /\ curhighest = 0
    /\ out = NONE

Queued(x) == \E i \in Level : \E k \in 1..Len(lists[i]) : lists[i][k] = x

\* The level of a priority.
Scaled(pri) ==
    LET q == IF levels > PRIQUEUE_LEVELS THEN (pri * PRIQUEUE_LEVELS) \div levels ELSE pri
    IN  IF q < 0 THEN 0 ELSE IF q >= levels THEN levels - 1 ELSE q

\* An entry is in one list at a time, which is up to the callers.
Insert(x, pri) ==
    /\ ~Queued(x)
    /\ lists' = [lists EXCEPT ![Scaled(pri)] = Append(@, x)]
    /\ curhighest' = IF Scaled(pri) > curhighest THEN Scaled(pri) ELSE curhighest
    /\ out' = NONE

\* Mutant: pop takes the entry that was inserted last.
Found_Newest(i) ==
    /\ lists[i] # <<>>
    /\ \A j \in (i + 1)..curhighest : lists[j] = <<>>
    /\ out' = lists[i][Len(lists[i])]
    /\ lists' = [lists EXCEPT ![i] = SubSeq(@, 1, Len(@) - 1)]
    /\ curhighest' = IF Len(lists[i]) = 1 THEN i - 1 ELSE i

\* The loop of priqueue_pop comes to a list with entries.  It has lowered
\* curhighest past the empty lists above.
Found(i) ==
    /\ lists[i] # <<>>
    /\ \A j \in (i + 1)..curhighest : lists[j] = <<>>
    /\ out' = Head(lists[i])
    /\ lists' = [lists EXCEPT ![i] = Tail(@)]
    /\ curhighest' = IF Len(lists[i]) = 1 THEN i - 1 ELSE i

\* The loop ends without a list with entries.
NotFound ==
    /\ \A j \in 0..curhighest : lists[j] = <<>>
    /\ out' = NULL
    /\ curhighest' = -1
    /\ UNCHANGED lists

Next ==
    \/ \E x \in Item, pri \in Pri : Insert(x, pri)
    \/ \E i \in 0..curhighest : Found(i)
    \/ NotFound

Spec == Init /\ [][Next]_vars

-----------------------------------------------------------------------------
\* What DEBUG_PRIQUEUE asserts after every operation: the lists above
\* curhighest, and those that the queue does not use, are empty.
AboveEmpty == \A i \in Level : i > curhighest \/ i >= levels => lists[i] = <<>>

\* priqueue_pop finds nothing only when the whole queue is empty, although it
\* looks at no list above curhighest: no thread is left in the queue while the
\* processor goes idle.
NullOnlyIfEmpty == out = NULL => \A i \in Level : lists[i] = <<>>

\* An entry that leaves the queue is the oldest of its level, and no higher
\* level has any.
HighestFirst == [][\A i \in Level :
    Len(lists'[i]) < Len(lists[i]) =>
        /\ lists'[i] = Tail(lists[i])
        /\ \A j \in Level : j > i => lists[j] = <<>>]_vars

\* The inductive invariant.
IInv == TypeOK /\ AboveEmpty /\ NullOnlyIfEmpty
=============================================================================
