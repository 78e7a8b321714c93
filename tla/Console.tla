------------------------------- MODULE Console -------------------------------
(***************************************************************************)
(* The console daemon: sysroot/usr/src/cond (output.c, cond.c,             *)
(* keyboard.c).                                                            *)
(*                                                                         *)
(* One thread per terminal reads what programs write to it and keeps the   *)
(* terminal's lines, a window of which is on the screen while it is the    *)
(* current terminal.  The main thread reads the keyboard, switches         *)
(* terminals and moves the windows.  The threads share the screen,         *)
(* current_pty and the input buffer of output.c, and nothing is locked.    *)
(*                                                                         *)
(* A cell is blank or the terminal whose program wrote it; attributes are  *)
(* left out.  An escape sequence is the item "esc" and an item for the     *)
(* rest of it, its letter and arguments.  A copy to the screen is a step   *)
(* of its own after the test of current_pty.                               *)
(***************************************************************************)
EXTENDS Integers, Sequences, FiniteSets, SequencesExt

CONSTANTS
    Pty,        \* the terminals; ptys[] has one for each function key
    First,      \* the terminal that the command line starts
    LINES, ROWS, COLS,  \* 1000, 25 and 80 in the code
    TAB,        \* 8 in the code
    BUF,        \* the size of the input buffer, 64 in the code
    Plain,      \* the items that programs write: control characters,
    Command,    \* and escape sequences, all <<name, arg, arg>>
    MaxOut,     \* bound: items written to each terminal
    Keys,       \* keys: "ctrl", "shift", "caps", "up", "down", "a" and the
                \* terminals, for the function keys that choose them
    AutoSpawn,  \* whether cond was started with the option for it
    MaxScans,   \* bound: scan codes read
    NULL

VARIABLES
    tty,        \* struct pty: lines, cx, cy, sp, s_cx, s_cy
    made,       \* terminals that spawn_terminal has made
    current,    \* current_pty
    screen, cursor,     \* what the display has
    inbuf, inbp, inbcnt,\* static in output.c, shared by the threads
    pc,         \* where each terminal's thread is
    item,       \* the item it is displaying
    todo,       \* what it is to copy to the screen
    main,       \* where the main thread is
    mods,       \* ctrl, shift and capslock
    typed,      \* history: keys sent to each terminal
    out, scans, \* items and scan codes so far, for the bounds
    raced,      \* history: a copy used a current_pty or sp that had changed
    shared      \* history: two threads have used the buffer at once

convars == <<tty, made, current, screen, cursor, inbuf, inbp, inbcnt, pc, item,
             todo, main, mods, typed, out, scans, raced, shared>>

Line == 0 .. LINES - 1
Col == 0 .. COLS - 1
Row == 0 .. ROWS - 1
Blank == [c \in Col |-> NULL]
\* What a program may write to terminal p: its own characters are its name.
Items(p) == Plain \cup {<<"esc", 0, 0>>, <<p, 0, 0>>} \cup Command

\* create_pty, then clear: the window is at the end of the lines.
create_pty ==
    [lines |-> [l \in Line |-> Blank], cx |-> 0, cy |-> LINES - ROWS,
     sp |-> LINES - ROWS, s_cx |-> 0, s_cy |-> 0]

Window(t) == [r \in Row |-> t.lines[t.sp + r]]
CursorOf(t) == <<t.cx, t.cy - t.sp>>

ConsoleInit ==
    /\ tty = [p \in Pty |-> create_pty]
    /\ made = {First} /\ current = First
    /\ screen = Window(create_pty) /\ cursor = <<0, 0>>
    /\ inbuf = <<>> /\ inbp = 0 /\ inbcnt = 0
    /\ pc = [p \in Pty |-> "read"]
    /\ item = [p \in Pty |-> NULL] /\ todo = [p \in Pty |-> NULL]
    /\ main = NULL /\ mods = {}
    /\ typed = [p \in Pty |-> 0]
    /\ out = [p \in Pty |-> 0] /\ scans = 0
    /\ raced = FALSE /\ shared = FALSE

-----------------------------------------------------------------------------
(* Terminals.  t is a terminal, l a line. *)

ClearFrom(row, a, b) == [c \in Col |-> IF c \in a .. b THEN NULL ELSE row[c]]
clear_line(t, l, mode) ==
    [t EXCEPT !.lines[l] =
        CASE mode = 1 -> ClearFrom(@, 0, t.cx - 1)
          [] mode = 0 -> ClearFrom(@, t.cx, COLS - 1)
          [] OTHER -> Blank]
clear_screen(t) ==
    [t EXCEPT !.lines = [l \in Line |-> IF l >= t.cy THEN Blank ELSE @[l]]]

\* append_scroll_down without its flip and its step of the cursor.
Up(t) == [t EXCEPT !.lines =
              [l \in Line |-> IF l < LINES - 1 THEN @[l + 1] ELSE Blank]]
\* scroll_screen_up without its flip.
Down(t) == [t EXCEPT !.lines = [l \in Line |-> IF l > 0 THEN @[l - 1] ELSE Blank]]

\* 'P': the rest of the line moves left by x, and x cells are cleared at its end.
DeleteChars(t, n) ==
    LET x == IF n + t.cx > COLS THEN COLS - t.cx ELSE n IN
    [t EXCEPT !.lines[t.cy] =
        [c \in Col |-> IF c >= COLS - x THEN NULL
                       ELSE IF c >= t.cx THEN @[c + x] ELSE @[c]]]

\* 'M': the lines below move up; the copy is one line short of the last but one.
DeleteLine(t) ==
    IF t.cy < LINES - 1
    THEN [t EXCEPT !.lines =
             [l \in Line |-> IF l = LINES - 1 THEN Blank
                             ELSE IF l \in t.cy .. LINES - 3 THEN @[l + 1] ELSE @[l]]]
    ELSE clear_line(t, t.cy, 2)

Again(F(_), t, n) == Last(FoldLeft(LAMBDA s, i : Append(s, F(Last(s))),
                                   <<t>>, [i \in 1 .. n |-> i]))
OrOne(n) == IF n = 0 THEN 1 ELSE n
Least(a, b) == IF a < b THEN a ELSE b
Most(a, b) == IF a > b THEN a ELSE b

\* escape_command: the terminal after the command, and the part of the screen it
\* copies.
escape_command(t, cmd) ==
    LET a == cmd[2] b == cmd[3] n == OrOne(a) IN
    CASE cmd[1] = "K" -> <<clear_line(t, t.cy, a), "line">>
      [] cmd[1] = "J" -> <<clear_screen(t), "flip">>
      [] cmd[1] = "H" -> <<[t EXCEPT !.cx = Most(b - 1, 0), !.cy = t.sp + Most(a - 1, 0)], NULL>>
      [] cmd[1] = "A" -> <<[t EXCEPT !.cy = Most(@ - n, t.sp)], NULL>>
      [] cmd[1] = "B" -> <<[t EXCEPT !.cy = Least(@ + n, LINES - 1)], NULL>>
      [] cmd[1] = "C" -> <<[t EXCEPT !.cx = Least(@ + n, COLS - 1)], NULL>>
      [] cmd[1] = "D" -> <<[t EXCEPT !.cx = Most(@ - n, 0)], NULL>>
      [] cmd[1] = "F" -> <<Again(Up, t, a), IF a > 0 THEN "flip" ELSE NULL>>
      [] cmd[1] = "s" -> <<[t EXCEPT !.s_cx = t.cx, !.s_cy = t.cy], NULL>>
      [] cmd[1] = "S" -> <<[t EXCEPT !.cx = t.s_cx, !.cy = t.s_cy], NULL>>
      [] cmd[1] = "R" -> <<Again(Down, t, a), IF a > 0 THEN "flip" ELSE NULL>>
      [] cmd[1] = "P" -> IF a = 0 THEN <<t, NULL>> ELSE <<DeleteChars(t, a), "line">>
      [] cmd[1] = "M" -> <<IF t.cy < LINES - 1 THEN Again(DeleteLine, t, a)
                           ELSE DeleteLine(t), "flip">>
      [] OTHER -> <<t, NULL>>

\* The switch of disp_character.  A printed character is at the cursor, which
\* moves on once the cell has been copied.
Displayed(p, c) ==
    LET t == tty[p] IN
    CASE c = "tab" -> <<[t EXCEPT !.cx = ((t.cx + TAB) \div TAB) * TAB], NULL>>
      [] c = "nl" -> <<[t EXCEPT !.cy = @ + 1], NULL>>
      [] c = "cr" -> <<[t EXCEPT !.cx = 0], NULL>>
      [] c = "bs" -> <<[t EXCEPT !.cx = Most(@ - 1, 0)], NULL>>
      [] c = "bell" -> <<t, NULL>>
      [] OTHER -> <<[t EXCEPT !.lines[t.cy][t.cx] = c], "cell">>

-----------------------------------------------------------------------------
(* The screen. *)

\* What is to be copied, and what that was computed from, at the test of
\* current_pty.
Copy(p, t, kind) ==
    [kind |-> kind, go |-> p = current, sp |-> t.sp, x |-> t.cx, y |-> t.cy]

\* What the test and the computation said is not so any more.
Stale(p, w) ==
    /\ w.go /\ w.kind # NULL
    /\ \/ p # current \/ w.sp # tty[p].sp
       \/ w.kind = "cursor" /\ <<w.x, w.y>> # <<tty[p].cx, tty[p].cy>>

\* flip, flip_line and the copy of one cell.  A line below the window would be
\* past the end of the screen.
flip(p) == Window(tty[p])
flip_line(p, w) ==
    LET r == w.y - w.sp IN
    IF r \in Row THEN [screen EXCEPT ![r] = tty[p].lines[w.y]] ELSE screen
OneCell(p, w) ==
    LET r == w.y - w.sp IN
    IF r \in Row THEN [screen EXCEPT ![r][w.x] = tty[p].lines[w.y][w.x]] ELSE screen

CopyOut(p, w) ==
    /\ screen' = CASE ~w.go \/ w.kind \in {NULL, "cursor"} -> screen
                   [] w.go /\ w.kind = "flip" -> flip(p)
                   [] w.go /\ w.kind = "line" -> flip_line(p, w)
                   [] w.go /\ w.kind = "cell" -> OneCell(p, w)
    /\ cursor' = IF w.go /\ w.kind = "cursor" THEN <<w.x, w.y - w.sp>> ELSE cursor
    /\ raced' = (raced \/ Stale(p, w))

-----------------------------------------------------------------------------
(* The thread of terminal p. *)

Goes(p, l) == pc' = [pc EXCEPT ![p] = l]

\* process_output: the read, then the variables that say what it read.
process_output(p) ==
    /\ p \in made /\ pc[p] = "read"
    /\ \E n \in 1 .. BUF : \E read \in [1 .. n -> Items(p)] :
         /\ out[p] + n <= MaxOut
         /\ out' = [out EXCEPT ![p] = @ + n]
         /\ inbuf' = read \o SubSeq(inbuf, n + 1, Len(inbuf))
         /\ item' = [item EXCEPT ![p] = n]
    /\ shared' = (shared \/ \E q \in made \ {p} : pc[q] # "read")
    /\ Goes(p, "got")
    /\ UNCHANGED <<tty, made, current, screen, cursor, inbp, inbcnt, todo, main,
                   mods, typed, scans, raced>>

Got(p) ==
    /\ pc[p] = "got"
    /\ inbcnt' = item[p] /\ inbp' = 0
    /\ item' = [item EXCEPT ![p] = NULL]
    /\ Goes(p, "next")
    /\ UNCHANGED <<tty, made, current, screen, cursor, inbuf, todo, main, mods, typed,
                   out, scans, raced, shared>>

\* The character c is displayed, up to the test of current_pty.
disp_character(p, effect) ==
    /\ tty' = [tty EXCEPT ![p] = effect[1]]
    /\ todo' = [todo EXCEPT ![p] = Copy(p, effect[1], effect[2])]
    /\ Goes(p, "copy")

\* The loop of process_output.
More == inbp < inbcnt

NextItem(p) ==
    /\ pc[p] = "next"
    /\ IF More /\ inbp < Len(inbuf)
       THEN /\ inbp' = inbp + 1
            /\ LET c == inbuf[inbp + 1][1] IN
               IF c = "esc" THEN Goes(p, "esc") /\ UNCHANGED <<tty, todo>>
               ELSE disp_character(p, Displayed(p, c))
       ELSE Goes(p, "read") /\ UNCHANGED <<inbp, tty, todo>>
    /\ UNCHANGED <<made, current, screen, cursor, inbuf, inbcnt, item, main, mods,
                   typed, out, scans, raced, shared>>

\* escape_code: what follows comes from the buffer, or is read from the terminal
\* where the buffer is at its end, or does not come in time.
escape_code(p) ==
    LET do(c) == disp_character(p, IF c \in Command THEN escape_command(tty[p], c)
                                   ELSE <<tty[p], NULL>>)
    IN
    /\ pc[p] = "esc"
    /\ \/ /\ inbp < inbcnt
          /\ inbp' = inbp + 1
          /\ do(inbuf[inbp + 1])
          /\ UNCHANGED out
       \/ /\ inbp >= inbcnt /\ out[p] < MaxOut
          /\ \E c \in Items(p) : do(c)
          /\ out' = [out EXCEPT ![p] = @ + 1]
          /\ UNCHANGED inbp
       \/ /\ inbp >= inbcnt
          /\ do(<<NULL, 0, 0>>)
          /\ UNCHANGED <<inbp, out>>
    /\ UNCHANGED <<made, current, screen, cursor, inbuf, inbcnt, item, main, mods,
                   typed, scans, raced, shared>>

AtEnd(t) == t.cy >= LINES
Wrapped(t) == IF t.cx >= COLS THEN [t EXCEPT !.cx = 0, !.cy = @ + 1] ELSE t

AfterCopy(p) ==
    LET w == todo[p]
        t == Wrapped(IF w.kind = "cell" THEN [tty[p] EXCEPT !.cx = @ + 1] ELSE tty[p])
    IN
    /\ pc[p] = "copy"
    /\ CopyOut(p, w)
    /\ IF AtEnd(t)
       THEN /\ tty' = [tty EXCEPT ![p] = Up(t)]
            /\ todo' = [todo EXCEPT ![p] = Copy(p, Up(t), "flip")]
            /\ Goes(p, "scroll")
       ELSE /\ tty' = [tty EXCEPT ![p] = t]
            /\ todo' = [todo EXCEPT ![p] = Copy(p, t, "cursor")]
            /\ Goes(p, "cursor")
    /\ UNCHANGED <<made, current, inbuf, inbp, inbcnt, item, main, mods, typed, out,
                   scans, shared>>

append_scroll_down(p) ==
    LET t == [tty[p] EXCEPT !.cy = @ - 1] IN
    /\ pc[p] = "scroll"
    /\ CopyOut(p, todo[p])
    /\ tty' = [tty EXCEPT ![p] = t]
    /\ todo' = [todo EXCEPT ![p] = Copy(p, t, "cursor")]
    /\ Goes(p, "cursor")
    /\ UNCHANGED <<made, current, inbuf, inbp, inbcnt, item, main, mods, typed, out,
                   scans, shared>>

update_cursor(p) ==
    /\ pc[p] = "cursor"
    /\ CopyOut(p, todo[p])
    /\ todo' = [todo EXCEPT ![p] = NULL]
    /\ Goes(p, "next")
    /\ UNCHANGED <<tty, made, current, inbuf, inbp, inbcnt, item, main, mods, typed,
                   out, scans, shared>>

-----------------------------------------------------------------------------
(* The main thread. *)

thread == <<inbuf, inbp, inbcnt, pc, item, todo, out, shared>>

\* Only this thread changes current_pty, so its own tests are sure of it.
MainCopy(p, kind) == [Copy(p, tty[p], kind) EXCEPT !.go = TRUE]

\* scroll_down and scroll_up: nothing more happens where the window stays.
scroll(p, sp) ==
    /\ tty' = [tty EXCEPT ![p].sp = sp]
    /\ main' = IF sp # tty[p].sp THEN MainCopy(p, "flip") ELSE NULL
    /\ UNCHANGED <<made, current, typed>>
scroll_down(p) == scroll(p, Least(tty[p].sp + 1, LINES - ROWS))
scroll_up(p) == scroll(p, Most(tty[p].sp - 1, 0))

switch_console(p) ==
    /\ IF p \notin made /\ ~AutoSpawn
       THEN UNCHANGED <<made, current, main>>
       ELSE made' = made \cup {p} /\ current' = p /\ main' = MainCopy(p, "flip")
    /\ UNCHANGED <<tty, typed>>

sendkey == typed' = [typed EXCEPT ![current] = @ + 1]
           /\ UNCHANGED <<tty, made, current, main>>

\* Keys that are not characters; where none of these, an escape string is sent.
special_key(k) ==
    CASE k = "down" /\ "shift" \in mods -> scroll_down(current)
      [] k = "up" /\ "shift" \in mods -> scroll_up(current)
      [] k \in Pty /\ "ctrl" \in mods -> switch_console(k)
      [] OTHER -> sendkey

\* capslock is toggled by the press and by the release.
keyboard_state_machine(k, release) ==
    /\ mods' = CASE k \in {"ctrl", "shift"} -> IF release THEN mods \ {k} ELSE mods \cup {k}
                 [] k = "caps" -> IF k \in mods THEN mods \ {k} ELSE mods \cup {k}
                 [] OTHER -> mods
    /\ IF release \/ k \in {"ctrl", "shift", "caps"}
       THEN UNCHANGED <<tty, made, current, main, typed>>
       ELSE special_key(k)

read_keyboard ==
    /\ main = NULL /\ scans < MaxScans
    /\ scans' = scans + 1
    /\ \E k \in Keys, release \in BOOLEAN : keyboard_state_machine(k, release)
    /\ UNCHANGED <<thread, screen, cursor, raced>>

\* The flip and the cursor at the end of a scroll or a switch.
MainFlip ==
    /\ main # NULL
    /\ IF main.kind = "flip"
       THEN CopyOut(current, MainCopy(current, "flip")) /\ main' = MainCopy(current, "cursor")
       ELSE CopyOut(current, main) /\ main' = NULL
    /\ UNCHANGED <<thread, tty, made, current, mods, typed, scans>>

ConsoleNext ==
    \/ \E p \in Pty :
         process_output(p) \/ Got(p) \/ NextItem(p) \/ escape_code(p) \/ AfterCopy(p)
           \/ append_scroll_down(p) \/ update_cursor(p)
    \/ read_keyboard \/ MainFlip

ConsoleSpec == ConsoleInit /\ [][ConsoleNext]_convars

-----------------------------------------------------------------------------

\* The window stays on the lines, and whenever a thread takes its next character
\* the cursor is on them too, where rows and columns of 'H' are the screen's
\* (disp_character's assertion and its writes, escape_command, scroll_up).
CursorOnLines ==
    \A p \in Pty :
        /\ tty[p].sp \in 0 .. LINES - ROWS
        /\ pc[p] \in {"read", "got", "next", "esc"} => tty[p].cx \in Col /\ tty[p].cy \in Line
        /\ pc[p] \in {"cursor"} => tty[p].cy \in Line

\* When no thread is displaying anything, the screen is the window of the current
\* terminal and the cursor is the terminal's, unless a thread has used a test of
\* current_pty or a window that the main thread changed before the copy (flip,
\* flip_line, disp_character, switch_console, scroll_up, scroll_down).
ScreenShows ==
    ~raced /\ main = NULL /\ (\A p \in Pty : pc[p] \in {"read", "got", "next", "esc"})
        => /\ screen = Window(tty[current])
           /\ cursor = CursorOf(tty[current])

\* While no two threads have been in process_output together, what a terminal
\* shows was written to it (the buffer that the threads share).
OwnOutput ==
    ~shared => \A p \in Pty, l \in Line, c \in Col : tty[p].lines[l][c] \notin Pty \ {p}
=============================================================================
