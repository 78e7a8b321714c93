------------------------------- MODULE Stream --------------------------------
(***************************************************************************)
(* What a character buffer promises to those who write to it and read from *)
(* it: a bounded first-in first-out stream of bytes, from which each read  *)
(* takes the oldest bytes, each byte once.                                 *)
(***************************************************************************)
EXTENDS Naturals, Sequences

CONSTANTS
    Reader,     \* the threads that read
    Byte,       \* the values of a byte
    Capacity    \* the most bytes the stream holds

VARIABLES
    stream,     \* the bytes written and not yet read, the oldest first
    taken       \* the bytes that a read in progress has taken last

Init ==
    /\ stream = << >>
    /\ taken = [r \in Reader |-> << >>]

Put ==
    /\ \E n \in 1..(Capacity - Len(stream)) : \E s \in [1..n -> Byte] : stream' = stream \o s
    /\ UNCHANGED taken

Get(r) ==
    \E n \in 1..Len(stream) :
        /\ taken' = [taken EXCEPT ![r] = SubSeq(stream, 1, n)]
        /\ stream' = SubSeq(stream, n + 1, Len(stream))

Forget(r) ==
    /\ taken' = [taken EXCEPT ![r] = << >>]
    /\ UNCHANGED stream

Next == Put \/ \E r \in Reader : Get(r) \/ Forget(r)

Spec == Init /\ [][Next]_<<stream, taken>>
=============================================================================
