------------------------------ MODULE Console ------------------------------
(***************************************************************************)
(* The console of xv6 (console.c, kbd.c, uart.c): keyboard and serial      *)
(* interrupts edit a line in a circular buffer, readers take what was      *)
(* committed, and everything is echoed on the screen.                      *)
(*                                                                         *)
(* What is done under cons.lock is one step.  The indexes of the buffer    *)
(* are unsigned ints that are never reset: they count modulo UINT.  A      *)
(* character is a name; "" is the character 0, "^X" is C('X').             *)
(***************************************************************************)
EXTENDS Integers, Sequences, FiniteSets, SequencesExt, FiniteSetsExt

CONSTANTS Readers,     \* processes that read the console
          Counts,      \* the counts each of them asks for
          INPUT_BUF,
          UINT,        \* number of values of an unsigned int
          Start,       \* the indexes at the start: they are never reset
          COLS, ROWS,  \* 80 and 24: the part of the screen that is used
          Keys,        \* keys of the keyboard
          Received,    \* characters that may come over the serial line
          Texts,       \* texts that processes write
          MaxEvents,   \* bound on keys, characters, writes and kills together
          MaxReads     \* bound on the calls of consoleread

ASSUME ConsoleAssumption ==
    /\ {INPUT_BUF, COLS, ROWS} \subseteq Nat \ {0}
    /\ UINT % INPUT_BUF = 0 /\ UINT > INPUT_BUF
    /\ Start \in 0 .. UINT - 1
    /\ Counts \in [Readers -> SUBSET Nat]
       \* a line that is being edited fits on the screen
    /\ ROWS * COLS > INPUT_BUF

VARIABLES input,    \* buf, r, w, e
          screen,   \* crt, pos, and whether cgaputc panicked
          shift,    \* kbdgetc's static shift state
          kbd,      \* bytes in the keyboard controller
          held,     \* keys that are down
          dump,     \* doprocdump of an interrupt that released the lock
          reader,   \* each process: where it is in consoleread
          typed,    \* ghost: the characters committed so far
          taken,    \* ghost: how many of them were read
          got,      \* ghost: the characters readers got, in order
          zeros,    \* ghost: reads that returned 0
          clean,    \* ghost: nothing was printed since the line was begun
          left      \* what the environment may still do

vars == <<input, screen, shift, kbd, held, dump, reader, typed, taken, got, zeros, clean, left>>
ghosts == <<typed, taken, got, zeros, clean>>

(***************************************************************************)
(* Output.                                                                 *)
(***************************************************************************)

Cells == 0 .. (ROWS + 1) * COLS - 1

\* The end of cgaputc: scroll up, then blank the cursor's cell.
Scroll(s) ==
    LET pos == s.pos - COLS
    IN IF s.pos \div COLS >= ROWS
       THEN [s EXCEPT !.pos = pos,
                      !.crt = [i \in Cells |-> IF i >= pos /\ i < ROWS * COLS THEN " "
                                               ELSE IF i < (ROWS - 1) * COLS THEN s.crt[i + COLS]
                                               ELSE s.crt[i]]]
       ELSE s

\* cgaputc; a write past the end of the screen counts as its panic.
cgaputc(s, c) ==
    LET at == CASE c = "\n" -> [s EXCEPT !.pos = @ + COLS - (@ % COLS)]
                [] c = "BACKSPACE" -> [s EXCEPT !.pos = IF @ > 0 THEN @ - 1 ELSE @]
                [] OTHER -> [s EXCEPT !.crt[s.pos] = c, !.pos = @ + 1]
        end == Scroll(at)
    IN IF at.pos > (ROWS + 1) * COLS \/ end.pos \notin Cells
       THEN [s EXCEPT !.panic = TRUE]
       ELSE [end EXCEPT !.crt[end.pos] = " "]

\* consputc: a processor that prints after a panic spins.
consputc(s, c) == IF s.panic THEN s ELSE cgaputc(s, c)

Printed(s, text) == FoldLeft(consputc, s, text)

(***************************************************************************)
(* Input characters.                                                       *)
(***************************************************************************)

\* kbdgetc's tables.  An index is the code of a key and whether E0 came first.
shiftcode(key) == CASE key.code = "ctl" -> {"CTL"}
                    [] key.code = "shift" /\ ~key.ext -> {"SHIFT"}
                    [] OTHER -> {}
togglecode(key) == IF key.code = "caps" /\ ~key.ext THEN {"CAPSLOCK"} ELSE {}

Upper(c) == CASE c = "d" -> "D" [] c = "u" -> "U" [] OTHER -> c
Lower(c) == CASE c = "D" -> "d" [] c = "U" -> "u" [] OTHER -> c

normalmap(key) == CASE key.code = "enter" -> "\n"
                    [] key.code \in {"d", "u"} /\ ~key.ext -> key.code
                    [] OTHER -> ""
shiftmap(key) == Upper(normalmap(key))
ctlmap(key) == CASE key.code = "enter" -> "\r"
                 [] key.code = "d" /\ ~key.ext -> "^D"
                 [] key.code = "u" /\ ~key.ext -> "^U"
                 [] OTHER -> ""
charcode(s, key) == IF "CTL" \in s THEN ctlmap(key)
                    ELSE IF "SHIFT" \in s THEN shiftmap(key) ELSE normalmap(key)

\* What the controller sends for a key that goes down or up.
E0 == [code |-> "E0", up |-> FALSE]
ScanCodes(key, up) ==
    (IF key.ext THEN <<E0>> ELSE <<>>) \o <<[code |-> key.code, up |-> up]>>

\* The shift state after a key was released.
Released(s, byte) ==
    s \ (shiftcode([code |-> byte.code, ext |-> "E0ESC" \in s]) \cup {"E0ESC"})

\* kbdgetc for a byte: the next shift state and the character.
kbdgetc(s, byte) ==
    LET key == [code |-> byte.code, ext |-> "E0ESC" \in s]
        on == (s \ {"E0ESC"}) \cup shiftcode(key)
        next == (on \ togglecode(key)) \cup (togglecode(key) \ on)
        c == charcode(next, key)
    IN IF byte = E0 THEN [shift |-> s \cup {"E0ESC"}, c |-> ""]
       ELSE IF byte.up THEN [shift |-> Released(s, byte), c |-> ""]
       ELSE [shift |-> next,
             c |-> IF "CAPSLOCK" \notin next THEN c
                   ELSE IF Upper(c) # c THEN Upper(c) ELSE Lower(c)]

(***************************************************************************)
(* consoleintr: one character after the other.                             *)
(***************************************************************************)

Distance(a, b) == (a - b) % UINT
At(i) == i % INPUT_BUF

\* Index arithmetic in unsigned ints.
Plus(i, n) == (i + n) % UINT

\* The characters between two indexes.
Between(in, a, b) == [k \in 1 .. Distance(b, a) |-> in.buf[At(Plus(a, k - 1))]]

\* A backspace stops at what was committed.
Erasable(in) == in.e # in.w

\* Mutant: the erased character stays on the screen.
EraseSilent(st) == [st EXCEPT !.in.e = Plus(@, -1)]

Erase(st) == [st EXCEPT !.in.e = Plus(@, -1), !.scr = consputc(@, "BACKSPACE")]

RECURSIVE KillLine(_)
KillLine(st) ==
    IF Erasable(st.in) /\ st.in.buf[At(Plus(st.in.e, -1))] # "\n" THEN KillLine(Erase(st)) ELSE st

\* Mutant: one character more than the buffer holds.
HasRoomOver(in) == Distance(in.e, in.r) =< INPUT_BUF

HasRoom(in) == Distance(in.e, in.r) < INPUT_BUF

\* Whether the line, which now ends with c, is committed.
EndsLine(in, c) == c \in {"\n", "^D"} \/ in.e = Plus(in.r, INPUT_BUF)

Store(st, ch) ==
    LET c == IF ch = "\r" THEN "\n" ELSE ch
        in == [st.in EXCEPT !.buf[At(st.in.e)] = c, !.e = Plus(@, 1)]
        echoed == [st EXCEPT !.in = in, !.scr = consputc(@, c)]
    IN IF EndsLine(in, c)
       THEN [echoed EXCEPT !.in.w = in.e, !.wakeup = TRUE,
                           !.typed = @ \o Between(in, in.w, in.e)]
       ELSE echoed

InputChar(st, c) ==
    CASE c = "^P" -> [st EXCEPT !.dump = TRUE]
      [] c = "^U" -> KillLine(st)
      [] c \in {"^H", "DEL"} -> IF Erasable(st.in) THEN Erase(st) ELSE st
      [] OTHER -> IF c # "" /\ HasRoom(st.in) THEN Store(st, c) ELSE st

\* Mutant: nobody is woken.
WokenNone == reader

\* wakeup(&input.r).
Woken == [p \in Readers |-> IF reader[p].pc = "asleep" THEN [reader[p] EXCEPT !.pc = "ready"] ELSE reader[p]]

consoleintr(chars) ==
    LET st == FoldLeft(InputChar,
                       [in |-> input, scr |-> screen, typed |-> typed, dump |-> dump, wakeup |-> FALSE],
                       chars)
    IN /\ input' = st.in
       /\ screen' = st.scr
       /\ typed' = st.typed
       /\ dump' = st.dump
       /\ reader' = IF st.wakeup THEN Woken ELSE reader
       /\ clean' = (clean \/ st.in.e = st.in.w)

\* The serial port's FIFO is off: it interrupts for each character.
uartintr(c) ==
    /\ left.events > 0
    /\ left' = [left EXCEPT !.events = @ - 1]
    /\ consoleintr(<<c>>)
    /\ UNCHANGED <<shift, kbd, held, taken, got, zeros>>

\* One byte at a time: the next one may come before the interrupt returns.
kbdintr ==
    LET next == kbdgetc(shift, Head(kbd))
    IN /\ kbd # <<>>
       /\ consoleintr(<<next.c>>)
       /\ shift' = next.shift
       /\ kbd' = Tail(kbd)
       /\ UNCHANGED <<held, taken, got, zeros, left>>

(***************************************************************************)
(* consoleread.                                                            *)
(***************************************************************************)

Idle == [pc |-> "out", n |-> 0, got |-> <<>>, killed |-> FALSE]

Call(p, n) ==
    /\ reader[p].pc = "out" /\ ~reader[p].killed
    /\ left.reads > 0
    /\ reader' = [reader EXCEPT ![p] = [Idle EXCEPT !.pc = "ready", !.n = n]]
    /\ left' = [left EXCEPT !.reads = @ - 1]
    /\ UNCHANGED <<input, screen, shift, kbd, held, dump, ghosts>>

\* Mutant: ^D is not kept for the next read.
KeepEofNot(mine) == FALSE

\* ^D stays in the buffer for the next read if this one has characters.
KeepEof(mine) == mine # <<>>

\* The loop of consoleread from index r, with the characters got so far: where
\* it stops, and whether it returns or sleeps.
RECURSIVE ReadLoop(_, _, _)
ReadLoop(r, mine, n) ==
    LET c == input.buf[At(r)]
    IN IF Len(mine) = n THEN [r |-> r, got |-> mine, end |-> TRUE]
       ELSE IF r = input.w THEN [r |-> r, got |-> mine, end |-> FALSE]
       ELSE IF c = "^D" THEN [r |-> IF KeepEof(mine) THEN r ELSE Plus(r, 1), got |-> mine, end |-> TRUE]
       ELSE IF c = "\n" THEN [r |-> Plus(r, 1), got |-> Append(mine, c), end |-> TRUE]
       ELSE ReadLoop(Plus(r, 1), Append(mine, c), n)

\* From acquire, or from the wakeup, to the next sleep or the return.  A killed
\* reader that would sleep returns -1.
consoleread(p) ==
    LET me == reader[p]
        end == ReadLoop(input.r, me.got, me.n)
    IN /\ me.pc = "ready"
       /\ input' = [input EXCEPT !.r = end.r]
       /\ reader' = [reader EXCEPT ![p] =
                       IF end.end \/ me.killed THEN [Idle EXCEPT !.killed = me.killed]
                       ELSE [me EXCEPT !.pc = "asleep", !.got = end.got]]
       /\ taken' = taken + Distance(end.r, input.r)
       /\ got' = got \o SubSeq(end.got, Len(me.got) + 1, Len(end.got))
       /\ zeros' = IF end.end /\ me.n > 0 /\ end.got = <<>> THEN zeros + 1 ELSE zeros
       /\ UNCHANGED <<screen, shift, kbd, held, dump, typed, clean, left>>

\* kill(p): wakes the process if it sleeps.
Kill(p) ==
    /\ ~reader[p].killed /\ reader[p].pc # "out"
    /\ left.events > 0
    /\ left' = [left EXCEPT !.events = @ - 1]
    /\ reader' = [reader EXCEPT ![p].killed = TRUE, ![p].pc = "ready"]
    /\ UNCHANGED <<input, screen, shift, kbd, held, dump, ghosts>>

(***************************************************************************)
(* consolewrite, cprintf and the environment.                              *)
(***************************************************************************)

Output(text) ==
    /\ screen' = Printed(screen, text)
    /\ clean' = (clean /\ input.e = input.w)
    /\ UNCHANGED <<input, shift, kbd, held, reader, typed, taken, got, zeros>>

consolewrite(text) ==
    /\ left.events > 0
    /\ left' = [left EXCEPT !.events = @ - 1]
    /\ Output(text)
    /\ UNCHANGED dump

\* procdump, called after the interrupt released the lock; its lines as one text.
procdump ==
    /\ dump
    /\ dump' = FALSE
    /\ Output(<<"p", "\n">>)
    /\ UNCHANGED left

KeyEvent(key, up) ==
    /\ left.events > 0 /\ kbd = <<>>
    /\ up <=> key \in held
    /\ held' = IF up THEN held \ {key} ELSE held \cup {key}
    /\ kbd' = kbd \o ScanCodes(key, up)
    /\ left' = [left EXCEPT !.events = @ - 1]
    /\ UNCHANGED <<input, screen, shift, dump, reader, ghosts>>

(***************************************************************************)
(* The system, from a moment when the buffer is empty.                     *)
(***************************************************************************)

Init ==
    /\ input = [buf |-> [k \in 0 .. INPUT_BUF - 1 |-> ""], r |-> Start, w |-> Start, e |-> Start]
    /\ screen = [crt |-> [i \in Cells |-> " "], pos |-> 0, panic |-> FALSE]
    /\ shift = {} /\ kbd = <<>> /\ held = {}
    /\ dump = FALSE
    /\ reader = [p \in Readers |-> Idle]
    /\ typed = <<>> /\ taken = 0 /\ got = <<>> /\ zeros = 0
    /\ clean = TRUE
    /\ left = [events |-> MaxEvents, reads |-> MaxReads]

Next ==
    \/ kbdintr \/ procdump
    \/ \E p \in Readers :
          \/ \E n \in Counts[p] : Call(p, n)
          \/ consoleread(p) \/ Kill(p)
    \/ \E text \in Texts : consolewrite(text)
    \/ \E key \in Keys, up \in BOOLEAN : KeyEvent(key, up)
    \/ \E c \in Received : uartintr(c)

Spec == Init /\ [][Next]_vars
\* Readers that are ready run; interrupts and keys need not come.
FairSpec == Spec /\ \A p \in Readers : WF_vars(consoleread(p))

(***************************************************************************)
(* Properties.                                                             *)
(***************************************************************************)

\* The variables have the types of their declarations.
TypeOK ==
    /\ {input.r, input.w, input.e} \subseteq 0 .. UINT - 1
    /\ shift \subseteq {"SHIFT", "CTL", "CAPSLOCK", "E0ESC"}
    /\ held \subseteq Keys
    /\ \A p \in Readers : reader[p].pc \in {"out", "ready", "asleep"} /\ Len(reader[p].got) =< reader[p].n

\* r, w and e stay in this order and at most a buffer apart, also when they wrap.
IndexesOrdered ==
    /\ Distance(input.w, input.r) =< Distance(input.e, input.r)
    /\ Distance(input.e, input.r) =< INPUT_BUF

\* Nothing that was committed is lost, changed or read twice: the readers together
\* got its first part, without the ^Ds, and the buffer holds the rest.
StreamKept ==
    /\ Between(input, input.r, input.w) = SubSeq(typed, taken + 1, Len(typed))
    /\ got = SelectSeq(SubSeq(typed, 1, taken), LAMBDA c : c # "^D")

\* Each ^D that was read gave exactly one read of length 0.
EofOnce == Len(SelectSeq(SubSeq(typed, 1, taken), LAMBDA c : c = "^D")) = zeros

\* When there is nothing to read a line can still be typed to its end: the editor
\* never waits for the reader while the reader waits for the editor.
LineCanEnd == input.r = input.w => Distance(input.e, input.r) < INPUT_BUF

\* The line that is being edited is what the screen shows before the cursor, unless
\* something else was printed since it was begun.
EchoShowsLine ==
    LET n == Distance(input.e, input.w)
        line == Between(input, input.w, input.e)
    IN clean => \A k \in 1 .. n : screen.crt[screen.pos - n + k - 1] = line[k]

\* The cursor stays in the used rows, everything from it on is blank, and cgaputc
\* does not panic.
ScreenSound ==
    /\ ~screen.panic
    /\ screen.pos \in 0 .. ROWS * COLS - 1
    /\ \A i \in screen.pos .. ROWS * COLS - 1 : screen.crt[i] = " "

\* When no key is down no modifier is on, and no escape is pending.
ModifiersReleased == (held = {} /\ kbd = <<>>) => shift \subseteq {"CAPSLOCK"}

\* A read ends once there is something to read, or another reader took it; a killed
\* reader returns.
ReadersServed ==
    \A p \in Readers :
       (reader[p].pc # "out" /\ (input.r # input.w \/ reader[p].killed)) ~>
          (reader[p].pc = "out" \/ (input.r = input.w /\ ~reader[p].killed))

\* What is typed is edited in the buffer, committed and read, once and in order,
\* and the line can always be ended.
InputDelivered == TypeOK /\ IndexesOrdered /\ StreamKept /\ LineCanEnd

\* The screen shows the line being edited, and the keyboard returns to rest.
ScreenAndKeys == EchoShowsLine /\ ScreenSound /\ ModifiersReleased
=============================================================================
