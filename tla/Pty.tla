--------------------------------- MODULE Pty ---------------------------------
(***************************************************************************)
(* The pseudo terminal (kernel/pty.c): the line discipline between a       *)
(* thread that types at the master and one that reads from the slave, the  *)
(* output between the slave and the master, the change of the terminal's   *)
(* settings at any time, and the references to the open terminals, which   *)
(* files and processes (as their controlling terminal) hold.               *)
(*                                                                         *)
(* The two character buffers are sequences here; Pipe has their indices    *)
(* and locks.                                                              *)
(***************************************************************************)
EXTENDS Integers, Sequences, FiniteSets, SequencesExt

CONSTANTS
    Keys,       \* the characters typed
    CBUF,       \* CBUF_SIZE - 1: the longest line
    Cap,        \* capacity of a character buffer
    MaxTyped,   \* bound: characters typed
    MaxWrites,  \* bound: characters the slave writes
    MaxSets,    \* bound: changes of the settings
    Proc,       \* processes, for the references
    MaxFiles    \* bound: files opened

VARIABLES
    icanon, echo,   \* of term.c_lflag
    cbuf,           \* the line being typed
    input, output,  \* the character buffers
    eof,            \* input.eof
    typist,         \* the thread at the master: where it is, what it has to write
    reader,         \* the thread at the slave
    written,        \* characters the slave has written
    sets,           \* changes of the settings
    history,        \* history: what was typed and set, in order
    got,            \* history: what the slave has read
    full,           \* history: a character was ignored because the line was full
    missed,         \* history: the end of file came while the reader was not listed
    refs,           \* references of each pty_file
    fileof,         \* the files that are open: their pty_file
    ctty            \* each process's pty: None, or Dead after its exit

datavars == <<icanon, echo, cbuf, input, output, eof, typist, reader, written, sets,
              history, got, full, missed>>
refvars == <<refs, fileof, ctty>>
ptyvars == <<datavars, refvars>>

None == 0
Dead == -1

PtyInit ==
    /\ icanon \in BOOLEAN /\ echo \in BOOLEAN
    /\ cbuf = <<>> /\ input = <<>> /\ output = <<>>
    /\ eof = FALSE
    /\ typist = [pc |-> "idle", rest |-> <<>>]
    /\ reader = "idle"
    /\ written = 0 /\ sets = 0
    /\ history = <<>> /\ got = <<>>
    /\ full = FALSE /\ missed = FALSE
    /\ refs = [f \in 1 .. MaxFiles |-> 0]
    /\ fileof = {}
    /\ ctty = [p \in Proc |-> None]

-----------------------------------------------------------------------------
(* The master. *)

\* write_char: without blocking, so that what does not fit is lost.
Echoed(chars) ==
    LET room == Cap - Len(output) IN
    IF echo THEN output \o SubSeq(chars, 1, IF room < Len(chars) THEN room ELSE Len(chars))
    ELSE output

Line(c) == Append(cbuf, IF c = "esc" THEN "^" ELSE c)

\* process_input of the character c, up to the blocking charbuffer_write.
process_input(c) ==
    IF Len(cbuf) >= CBUF
    THEN /\ full' = TRUE
         /\ UNCHANGED <<cbuf, output, eof, typist, missed, reader>>
    ELSE
    /\ UNCHANGED full
    /\ \/ /\ c \in {"intr", "susp"}
          /\ output' = Echoed(<<"^", c, "nl">>)
          /\ UNCHANGED <<cbuf, eof, typist, missed, reader>>
       \/ /\ c = "erase"
          /\ IF cbuf = <<>> THEN UNCHANGED <<cbuf, output>>
             ELSE /\ cbuf' = Front(cbuf)
                  /\ output' = Echoed(<<"bs", "sp", "bs">>)
          /\ UNCHANGED <<eof, typist, missed, reader>>
       \/ /\ c = "eof" /\ cbuf # <<>>
          /\ typist' = [pc |-> "push", rest |-> cbuf]
          /\ UNCHANGED <<cbuf, output, eof, missed, reader>>
       \/ /\ c = "eof" /\ cbuf = <<>>
          /\ eof' = TRUE
          /\ missed' = (missed \/ reader = "start")
          /\ reader' = IF reader = "asleep" THEN "test" ELSE reader
          /\ UNCHANGED <<cbuf, output, typist>>
       \/ /\ c \notin {"intr", "susp", "erase", "eof"}
          /\ cbuf' = Line(c)
          /\ output' = Echoed(<<c>>)
          /\ typist' = IF c = "nl" THEN [pc |-> "push", rest |-> Line(c)] ELSE typist
          /\ UNCHANGED <<eof, missed, reader>>

\* pty_write_master of one character.  Without ICANON it goes to both buffers,
\* and waits for room in each; the bool block or'ed into the flags is
\* CHARBUFFER_DO_ANY, so O_NONBLOCK makes no difference.
pty_write_master(c) ==
    /\ typist.pc = "idle" /\ Len(history) < MaxTyped
    /\ IF icanon
       THEN process_input(c)
       ELSE /\ echo => Len(output) < Cap
            /\ output' = Echoed(<<c>>)
            /\ typist' = [pc |-> "raw", rest |-> <<c>>]
            /\ UNCHANGED <<cbuf, eof, full, missed, reader>>
    /\ history' = Append(history, <<IF icanon THEN "line" ELSE "raw", c>>)
    /\ UNCHANGED <<icanon, echo, input, written, sets, got>>

Left(rest, n) == SubSeq(rest, n + 1, Len(rest))
Push ==
    /\ typist.pc \in {"push", "raw"}
    /\ LET room == Cap - Len(input)
           n == IF room < Len(typist.rest) THEN room ELSE Len(typist.rest)
           left == Left(typist.rest, n)
       IN  /\ room > 0
           /\ input' = input \o SubSeq(typist.rest, 1, n)
           /\ cbuf' = IF left = <<>> /\ typist.pc = "push" THEN <<>> ELSE cbuf
           /\ typist' = IF left = <<>> THEN [pc |-> "idle", rest |-> <<>>]
                        ELSE [typist EXCEPT !.rest = left]
    /\ reader' = IF reader = "asleep" THEN "test" ELSE reader
    /\ UNCHANGED <<icanon, echo, output, eof, written, sets, history, got, full, missed>>

\* pty_read_master
pty_read_master ==
    /\ output # <<>>
    /\ output' = Tail(output)
    /\ UNCHANGED <<icanon, echo, cbuf, input, eof, typist, reader, written, sets, history, got,
                   full, missed>>

-----------------------------------------------------------------------------
(* The slave. *)

\* pty_read_slave: charbuffer_read returns what there is, or the end of file ...
pty_read_slave ==
    /\ reader \in {"idle", "test"}
    /\ \/ /\ input # <<>>
          /\ \E n \in 1 .. Len(input) :
               /\ got' = got \o SubSeq(input, 1, n)
               /\ input' = SubSeq(input, n + 1, Len(input))
          /\ reader' = "idle"
          /\ UNCHANGED eof
       \/ /\ input = <<>> /\ eof
          /\ eof' = FALSE
          /\ reader' = "idle"
          /\ UNCHANGED <<got, input>>
       \/ /\ input = <<>> /\ ~eof
          /\ reader' = "start"
          /\ UNCHANGED <<eof, got, input>>
    /\ UNCHANGED <<icanon, echo, cbuf, output, typist, written, sets, history, full, missed>>
Pending == input # <<>>
ReadBlocks ==
    /\ reader = "start"
    /\ reader' = IF Pending THEN "test" ELSE "asleep"
    /\ UNCHANGED <<icanon, echo, cbuf, input, output, eof, typist, written, sets, history, got,
                   full, missed>>
ReadInterrupted ==
    /\ reader = "asleep"
    /\ reader' = "idle"
    /\ UNCHANGED <<icanon, echo, cbuf, input, output, eof, typist, written, sets, history, got,
                   full, missed>>

\* pty_write_slave of one character.
pty_write_slave ==
    /\ written < MaxWrites /\ Len(output) < Cap
    /\ written' = written + 1
    /\ output' = Append(output, "w")
    /\ UNCHANGED <<icanon, echo, cbuf, input, eof, typist, reader, sets, history, got, full,
                   missed>>

\* TCSETS in _pty_fops_ioctl, which takes no lock.
_pty_fops_ioctl ==
    /\ sets < MaxSets
    /\ sets' = sets + 1
    /\ icanon' \in BOOLEAN /\ echo' \in BOOLEAN
    /\ cbuf' = IF icanon' THEN <<>> ELSE cbuf
    /\ history' = IF icanon' THEN Append(history, <<"set", "set">>) ELSE history
    /\ UNCHANGED <<input, output, eof, typist, reader, written, got, full, missed>>

-----------------------------------------------------------------------------
(* The references to a pty_file. *)

Given(r, f) == IF f \in DOMAIN r THEN [r EXCEPT ![f] = @ + 1] ELSE r
Put(r, f) == IF f \in DOMAIN r THEN [r EXCEPT ![f] = @ - 1] ELSE r

\* The process p takes the terminal f for the one it had.
Taken(r, f, old) == Put(Given(r, f), old)

\* _pty_fops_create, and _pty_fops_open without O_NOCTTY.
Open(p) ==
    /\ ctty[p] # Dead
    /\ \E f \in DOMAIN refs \ fileof :
         /\ refs[f] = 0 /\ \A g \in DOMAIN refs \ fileof : refs[g] = 0 => f <= g
         /\ fileof' = fileof \cup {f}
         /\ \/ /\ refs' = Taken([refs EXCEPT ![f] = 1], f, ctty[p])
               /\ ctty' = [ctty EXCEPT ![p] = f]
            \/ /\ refs' = [refs EXCEPT ![f] = 1]
               /\ UNCHANGED ctty
\* TIOCSCTTY
SetCtty(p) ==
    /\ ctty[p] # Dead
    /\ \E f \in fileof :
         /\ refs' = Taken(refs, f, ctty[p])
         /\ ctty' = [ctty EXCEPT ![p] = f]
    /\ UNCHANGED fileof
\* _pty_fops_destroy
Destroy ==
    \E f \in fileof :
      /\ fileof' = fileof \ {f}
      /\ refs' = Put(refs, f)
      /\ UNCHANGED ctty
\* copy_process (sys/fork.c) and _process_put (process.c).
Fork(p, q) ==
    /\ ctty[p] # Dead /\ ctty[q] = Dead
    /\ refs' = Given(refs, ctty[p])
    /\ ctty' = [ctty EXCEPT ![q] = ctty[p]]
    /\ UNCHANGED fileof
Exit(p) ==
    /\ ctty[p] # Dead
    /\ refs' = Put(refs, ctty[p])
    /\ ctty' = [ctty EXCEPT ![p] = Dead]
    /\ UNCHANGED fileof

PtyNext ==
    \/ /\ \/ \E c \in Keys : pty_write_master(c)
          \/ Push
          \/ pty_read_master
          \/ pty_read_slave
          \/ ReadBlocks
          \/ ReadInterrupted
          \/ pty_write_slave
          \/ _pty_fops_ioctl
       /\ UNCHANGED refvars
    \/ /\ \/ \E p \in Proc : Open(p) \/ SetCtty(p) \/ Exit(p) \/ \E q \in Proc : Fork(p, q)
          \/ Destroy
       /\ UNCHANGED datavars

PtySpec == PtyInit /\ [][PtyNext]_ptyvars

-----------------------------------------------------------------------------
\* What a history of typing and settings means: the line it leaves and the
\* characters it lets through, with a line of any length.
Edited(line, c) ==
    CASE c \in {"intr", "susp", "eof"} -> line
      [] c = "erase" -> IF line = <<>> THEN line ELSE Front(line)
      [] c = "esc" -> Append(line, "^")
      [] OTHER -> Append(line, c)
RECURSIVE Meaning(_, _, _)
Meaning(h, line, out) ==
    IF h = <<>> THEN out
    ELSE LET k == Head(h)[1]
             c == Head(h)[2]
             l == Edited(line, c)
         IN  IF k = "set" THEN Meaning(Tail(h), <<>>, out)
             ELSE IF k = "raw" THEN Meaning(Tail(h), line, Append(out, c))
             ELSE IF c \in {"nl", "eof"} THEN Meaning(Tail(h), <<>>, out \o l)
             ELSE Meaning(Tail(h), l, out)


\* charbuffer_read under pty_read_slave: nobody sleeps over characters, nor over an end
\* of file that did not come between its two looks (charbuffer.c:127-144).
ReaderAwake ==
    reader = "asleep" => input = <<>> /\ (eof => missed)

\* _pty_fops_open, _pty_fops_destroy, TIOCSCTTY, fork and exit (pty.c:212-252, 282-287): a
\* pty_file has one reference for its file and one for each process it controls.
TerminalRefs ==
    \A f \in DOMAIN refs :
      refs[f] = (IF f \in fileof THEN 1 ELSE 0) + Cardinality({p \in Proc : ctty[p] = f})
=============================================================================
