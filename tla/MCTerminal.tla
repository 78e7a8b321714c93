----------------------------- MODULE MCTerminal -----------------------------
(***************************************************************************)
(* Pipes, terminals and the console daemon for TLC, each checked on its    *)
(* own in one run. "which" names the part that moves; the variables of     *)
(* the others keep a dummy value. Module Pipe is extended: its             *)
(* constants are those of the part "wake", an unnamed pipe with two        *)
(* writers.  The other parts have their own pc, so that the threads of     *)
(* that one stay outside their calls.                                      *)
(***************************************************************************)
EXTENDS Pipe, TLC

CONSTANTS r1, w1, w2, w3

VARIABLES which, pc_, icanon, echo, cbuf, input, output, typist, reader,
    written, sets, history, got, full, missed, refs, fileof, ctty, tty, made,
    current, screen, cursor, inbuf, inbp, inbcnt, item, todo, main, mods, typed,
    out, scans, raced, shared

allvars == <<which, pc_, state, uninter, onqueue, waitlist, unblocked, result,
    pending, signal, buffer, index, cbpending, term, eof, lock, named, open,
    flags, remaining, moved, chunk, pc, icanon, echo, cbuf, input, output,
    typist, reader, written, sets, history, got, full, missed, refs, fileof,
    ctty, tty, made, current, screen, cursor, inbuf, inbp, inbcnt, item, todo,
    main, mods, typed, out, scans, raced, shared>>

\* What programs write to a terminal.
Moves == {<<"H", 2, 2>>, <<"A", 0, 0>>, <<"B", 1, 0>>, <<"C", 1, 0>>, <<"D", 1, 0>>,
          <<"s", 0, 0>>, <<"S", 0, 0>>}
Edits == {<<"K", 0, 0>>, <<"K", 1, 0>>, <<"J", 0, 0>>, <<"F", 1, 0>>, <<"R", 1, 0>>,
          <<"P", 1, 0>>, <<"M", 1, 0>>, <<"m", 0, 0>>}
Controls == {<<c, 0, 0>> : c \in {"tab", "nl", "cr", "bs", "bell"}}

\* One writer, and a reader that receives signals.
S == INSTANCE Pipe WITH Signalled <- {r1}
\* A named pipe where a read or a write is longer than the buffer.
B == INSTANCE Pipe WITH Reader <- {r1}, Writer <- {w1}, Thread <- {r1, w1}, Byte <- {0, 1},
          Capacity <- 2, Word <- 4, Lens <- {3}, Kinds <- {TRUE},
          ReadFlags <- {{"ANY"}, {"ANY", "NONBLOCK"}}, WriteFlags <- {{"ANY"}}, pc <- pc_
\* An unnamed pipe, written to the end of the request, so that copies start
\* anywhere in the buffer, or not waited for.
F == INSTANCE Pipe WITH Reader <- {r1}, Writer <- {w1}, Thread <- {r1, w1}, Byte <- {0, 1},
          Capacity <- 2, Word <- 4, Lens <- {3}, Kinds <- {FALSE},
          ReadFlags <- {{"ANY"}}, WriteFlags <- {{}, {"ANY", "NONBLOCK"}}, pc <- pc_

\* Lines that are edited while they are typed.
Y1 == INSTANCE Pty WITH Keys <- {"a", "nl", "erase", "eof"}, CBUF <- 3, Cap <- 2, MaxTyped <- 4,
          MaxWrites <- 0, MaxSets <- 0, Proc <- {}, MaxFiles <- 0
\* Every kind of key, with output under way.
Y2 == INSTANCE Pty WITH Keys <- {"a", "nl", "erase", "eof", "intr", "esc", "susp"}, CBUF <- 1, Cap <- 2,
          MaxTyped <- 2, MaxWrites <- 1, MaxSets <- 1, Proc <- {}, MaxFiles <- 0
\* Two processes that open, close and take the terminal.
Y3 == INSTANCE Pty WITH Keys <- {"a"}, CBUF <- 2, Cap <- 1, MaxTyped <- 0, MaxWrites <- 0, MaxSets <- 0,
          Proc <- {"p", "q"}, MaxFiles <- 3

\* A program that moves the cursor.
C1 == INSTANCE Console WITH pc <- pc_, Pty <- {"p1"}, First <- "p1", LINES <- 3, ROWS <- 2, COLS <- 2, TAB <- 2, BUF <- 1,
          Plain <- Controls, Command <- Moves, MaxOut <- 4, Keys <- {}, AutoSpawn <- TRUE, MaxScans <- 0
\* A program that clears and moves lines.
C4 == INSTANCE Console WITH pc <- pc_, Pty <- {"p1"}, First <- "p1", LINES <- 3, ROWS <- 2, COLS <- 2, TAB <- 2, BUF <- 1,
          Plain <- {<<"nl", 0, 0>>}, Command <- Edits, MaxOut <- 4, Keys <- {}, AutoSpawn <- TRUE, MaxScans <- 0
\* Output while the window is moved from the keyboard.
C2 == INSTANCE Console WITH pc <- pc_, Pty <- {"p1"}, First <- "p1", LINES <- 3, ROWS <- 2, COLS <- 2, TAB <- 2, BUF <- 1,
          Plain <- {<<"nl", 0, 0>>}, Command <- {<<"J", 0, 0>>}, MaxOut <- 3,
          Keys <- {"shift", "up", "down", "caps", "a"}, AutoSpawn <- TRUE, MaxScans <- 3
\* Two terminals, and the keys that choose one.
C3 == INSTANCE Console WITH pc <- pc_, Pty <- {"p1", "p2"}, First <- "p1", LINES <- 3, ROWS <- 2, COLS <- 2, TAB <- 2, BUF <- 2,
          Plain <- {}, Command <- {}, MaxOut <- 2, Keys <- {"ctrl", "p2"}, AutoSpawn <- TRUE, MaxScans <- 2

\* Only the variables of Pipe are in use.
OnlyPipe == icanon = NULL /\ echo = NULL /\ cbuf = NULL /\ input = NULL /\
    output = NULL /\ typist = NULL /\ reader = NULL /\ written = NULL /\
    sets = NULL /\ history = NULL /\ got = NULL /\ full = NULL /\ missed = NULL
    /\ refs = NULL /\ fileof = NULL /\ ctty = NULL /\ tty = NULL /\ made = NULL
    /\ current = NULL /\ screen = NULL /\ cursor = NULL /\ inbuf = NULL /\
    inbp = NULL /\ inbcnt = NULL /\ item = NULL /\ todo = NULL /\ main = NULL /\
    mods = NULL /\ typed = NULL /\ out = NULL /\ scans = NULL /\ raced = NULL /\
    shared = NULL
restPipe == <<icanon, echo, cbuf, input, output, typist, reader, written, sets,
    history, got, full, missed, refs, fileof, ctty, tty, made, current, screen,
    cursor, inbuf, inbp, inbcnt, item, todo, main, mods, typed, out, scans,
    raced, shared>>

\* Only the variables of Pty are in use.
OnlyPty == state = NULL /\ uninter = NULL /\ onqueue = NULL /\ waitlist = NULL
    /\ unblocked = NULL /\ result = NULL /\ pending = NULL /\ signal = NULL /\
    buffer = NULL /\ index = NULL /\ cbpending = NULL /\ term = NULL /\
    lock = NULL /\ open = NULL /\ flags = NULL /\ remaining = NULL /\
    moved = NULL /\ chunk = NULL /\ pc_ = NULL /\ tty = NULL /\ made = NULL /\
    current = NULL /\ screen = NULL /\ cursor = NULL /\ inbuf = NULL /\
    inbp = NULL /\ inbcnt = NULL /\ item = NULL /\ todo = NULL /\ main = NULL /\
    mods = NULL /\ typed = NULL /\ out = NULL /\ scans = NULL /\ raced = NULL /\
    shared = NULL
restPty == <<state, uninter, onqueue, waitlist, unblocked, result, pending,
    signal, buffer, index, cbpending, term, lock, named, open, flags, remaining,
    moved, chunk, pc_, tty, made, current, screen, cursor, inbuf, inbp, inbcnt,
    item, todo, main, mods, typed, out, scans, raced, shared>>

\* Only the variables of Console are in use.
OnlyConsole == state = NULL /\ uninter = NULL /\ onqueue = NULL /\
    waitlist = NULL /\ unblocked = NULL /\ result = NULL /\ pending = NULL /\
    signal = NULL /\ buffer = NULL /\ index = NULL /\ cbpending = NULL /\
    term = NULL /\ eof = NULL /\ lock = NULL /\ open = NULL /\ flags = NULL /\
    remaining = NULL /\ moved = NULL /\ chunk = NULL /\ icanon = NULL /\
    echo = NULL /\ cbuf = NULL /\ input = NULL /\ output = NULL /\ typist = NULL
    /\ reader = NULL /\ written = NULL /\ sets = NULL /\ history = NULL /\
    got = NULL /\ full = NULL /\ missed = NULL /\ refs = NULL /\ fileof = NULL
    /\ ctty = NULL
restConsole == <<state, uninter, onqueue, waitlist, unblocked, result, pending,
    signal, buffer, index, cbpending, term, eof, lock, named, open, flags,
    remaining, moved, chunk, icanon, echo, cbuf, input, output, typist, reader,
    written, sets, history, got, full, missed, refs, fileof, ctty>>

MCInit ==
    \/ which = "wake" /\ Init /\ pc_ = NULL /\ OnlyPipe
    \/ which = "signal" /\ S!Init /\ pc_ = NULL /\ OnlyPipe
    \/ /\ pc = [t \in Thread |-> "user"]
       /\ \/ which = "stream" /\ B!Init /\ OnlyPipe
          \/ which = "flags" /\ F!Init /\ OnlyPipe
    \/ /\ pc = [t \in Thread |-> "user"] /\ named = FALSE
       /\ \/ which = "edit" /\ Y1!PtyInit /\ OnlyPty
          \/ which = "keys" /\ Y2!PtyInit /\ OnlyPty
          \/ which = "owner" /\ Y3!PtyInit /\ OnlyPty
          \/ which = "moves" /\ C1!ConsoleInit /\ OnlyConsole
          \/ which = "edits" /\ C4!ConsoleInit /\ OnlyConsole
          \/ which = "scroll" /\ C2!ConsoleInit /\ OnlyConsole
          \/ which = "switch" /\ C3!ConsoleInit /\ OnlyConsole
MCNext ==
    /\ UNCHANGED which
    /\ \/ which = "wake" /\ Next /\ UNCHANGED <<pc_, restPipe>>
       \/ /\ which = "signal" /\ S!Next /\ UNCHANGED <<pc_, restPipe>>
          /\ \E w \in Writer : open' \cap Writer \subseteq {w}
       \/ /\ UNCHANGED pc
          /\ \/ which = "stream" /\ B!Next /\ UNCHANGED restPipe
             \/ which = "flags" /\ F!Next /\ UNCHANGED restPipe
             \/ which = "edit" /\ Y1!PtyNext /\ UNCHANGED restPty
             \/ which = "keys" /\ Y2!PtyNext /\ UNCHANGED restPty
             \/ which = "owner" /\ Y3!PtyNext /\ UNCHANGED restPty
             \/ which = "moves" /\ C1!ConsoleNext /\ UNCHANGED restConsole
             \/ which = "edits" /\ C4!ConsoleNext /\ UNCHANGED restConsole
             \/ which = "scroll" /\ C2!ConsoleNext /\ UNCHANGED restConsole
             \/ which = "switch" /\ C3!ConsoleNext /\ UNCHANGED restConsole
MCSpec == MCInit /\ [][MCNext]_allvars

MCThread == Reader \cup Writer
MCBlockList == {"wait_read", "wait_write"}
OnlyAny == {{"ANY"}}

\* Module Pipe implements module Stream, as Pipe!ImplementsStream says: however
\* reads and writes interleave, the buffer is a first-in first-out stream
\* (charbuffer.c).
BufferIsStream ==
    /\ which = "stream" => B!Abstract!Init
    /\ which = "flags" => F!Abstract!Init
    /\ [][LET taken == [r \in Reader |-> chunk[r]] IN
          /\ which = "stream" => B!Abstract!Next \/ UNCHANGED <<B!Contents, taken>>
          /\ which = "flags" => F!Abstract!Next \/ UNCHANGED <<F!Contents, taken>>]_allvars

\* The writers of that part are interchangeable.
WriterSymmetry == Permutations({w2, w3})
=============================================================================
