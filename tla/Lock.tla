-------------------------------- MODULE Lock ---------------------------------
(***************************************************************************)
(* What a mutex promises to its callers: requests are granted one at a     *)
(* time, to threads that asked.                                            *)
(***************************************************************************)
CONSTANTS Thread, NULL

VARIABLES
    holder,     \* the thread between acquire and release, or NULL
    want        \* the threads inside acquire

lvars == <<holder, want>>

LTypeOK ==
    /\ holder \in Thread \cup {NULL}
    /\ want \subseteq Thread

LInit ==
    /\ holder = NULL
    /\ want = {}

Request(t) ==
    /\ t \notin want \cup {holder}
    /\ want' = want \cup {t}
    /\ UNCHANGED holder

Grant(t) ==
    /\ holder = NULL
    /\ t \in want
    /\ holder' = t
    /\ want' = want \ {t}

Free(t) ==
    /\ holder = t
    /\ holder' = NULL
    /\ UNCHANGED want

LNext == \E t \in Thread : Request(t) \/ Grant(t) \/ Free(t)

LSafety == LInit /\ [][LNext]_lvars
=============================================================================
