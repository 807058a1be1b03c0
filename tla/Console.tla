------------------------------- MODULE Console -------------------------------
(***************************************************************************)
(* Console input and output: the keyboard driver, the input buffer and the *)
(* CGA display of kern/console.c, the console device of lib/console.c, and *)
(* readline (lib/readline.c), which echoes what it reads.                  *)
(*                                                                         *)
(* What the keyboard and the serial line deliver is put in the buffer by   *)
(* an interrupt, or by the reader itself when it polls; both hold the      *)
(* kernel lock.  A key sends one or two codes, and an interrupt may come   *)
(* between the two.                                                        *)
(*                                                                         *)
(* Keys: d, both shift keys, both control keys, caps lock, backspace and   *)
(* return.  Control-d is end of file.  The serial line sends letters.      *)
(***************************************************************************)
EXTENDS Integers, Sequences

CONSTANTS CONSBUFSIZE,  \* size of the input buffer
          BUFLEN,       \* size of readline's buffer
          CRT_COLS, CRT_ROWS,
          MaxKeys,      \* bound on the keys pressed
          MaxCodes,     \* bound on the codes not handled yet
          MaxSerial     \* bound on the characters of the serial line

ASSUME SizeAssumption ==
  /\ CONSBUFSIZE \in Nat \ {0} /\ BUFLEN \in Nat \ {0}
  /\ CRT_COLS \in Nat \ {0} /\ CRT_ROWS \in Nat \ {0, 1}
  /\ {MaxKeys, MaxCodes, MaxSerial} \subseteq Nat

CRT_SIZE == CRT_ROWS * CRT_COLS

VARIABLES kbd,       \* codes the keyboard has sent
          keysDown,  \* the keys held down
          presses,   \* how many were pressed so far
          serial,    \* how many characters the serial line has still to send
          shift,     \* the flags of kbd_proc_data
          cons,      \* buf, rpos and wpos
          arrived,   \* every character put in the buffer, oldest first
          taken,     \* how many of them cons_getc has returned
          line,      \* readline's buf[0 .. i - 1], or <<"EOF">>
          crt_pos    \* the cursor

input == <<kbd, keysDown, presses, serial, shift, cons, arrived, taken, line>>
consVars == <<kbd, keysDown, presses, serial, shift, cons, arrived, taken, line, crt_pos>>

Slots == 0 .. CONSBUFSIZE - 1
EmptyBuffer == [buf |-> [i \in Slots |-> "NUL"], rpos |-> 0, wpos |-> 0]

ConsInit ==
  /\ kbd = <<>> /\ keysDown = {} /\ presses = 0 /\ serial = MaxSerial
  /\ shift = {}
  /\ cons = EmptyBuffer
  /\ arrived = <<>> /\ taken = 0 /\ line = <<>>
  /\ crt_pos \in 0 .. CRT_SIZE - 1
-----------------------------------------------------------------------------
(* The keyboard.                                                           *)

Keys == {"d", "lshift", "rshift", "lctl", "rctl", "caps", "bs", "enter"}
E0 == [key |-> "E0", up |-> FALSE]

(* The codes a key sends when it goes down or up.                          *)
Codes(k, up) == IF k = "rctl" THEN <<E0, [key |-> k, up |-> up]>> ELSE <<[key |-> k, up |-> up]>>

Press(k) ==
  /\ presses < MaxKeys /\ Len(kbd) < MaxCodes
  /\ presses' = presses + 1
  /\ keysDown' = keysDown \cup {k}
  /\ kbd' = kbd \o Codes(k, FALSE)
  /\ UNCHANGED <<serial, shift, cons, arrived, taken, line, crt_pos>>

Let_go(k) ==
  /\ k \in keysDown /\ Len(kbd) < MaxCodes
  /\ keysDown' = keysDown \ {k}
  /\ kbd' = kbd \o Codes(k, TRUE)
  /\ UNCHANGED <<presses, serial, shift, cons, arrived, taken, line, crt_pos>>
-----------------------------------------------------------------------------
(* The keyboard driver.                                                    *)

shiftcode(k) ==
  IF k \in {"lshift", "rshift"} THEN {"SHIFT"} ELSE IF k \in {"lctl", "rctl"} THEN {"CTL"} ELSE {}
togglecode(k) == IF k = "caps" THEN {"CAPSLOCK"} ELSE {}

Toggle(s, t) == (s \ t) \cup (t \ s)

(* charcode[shift & (CTL | SHIFT)], and caps lock.                         *)
charcode(s, k) ==
  CASE k = "d" -> IF "CTL" \in s THEN "ctl-d"
                  ELSE IF ("SHIFT" \in s) # ("CAPSLOCK" \in s) THEN "D" ELSE "d"
    [] k = "bs" -> IF "CTL" \in s THEN "NO" ELSE "BS"
    [] k = "enter" -> IF "CTL" \in s THEN "CR" ELSE "LF"
    [] OTHER -> "NO"

(* A variant in which the release of a key with an E0 code is not seen.    *)
kbd_flags_no_e0(s, d) ==
  IF d.key = "E0" THEN s \cup {"E0ESC"}
  ELSE IF d.up THEN IF "E0ESC" \in s THEN s \ {"E0ESC"} ELSE s \ shiftcode(d.key)
  ELSE Toggle((s \ {"E0ESC"}) \cup shiftcode(d.key), togglecode(d.key))

(* kbd_proc_data for the code d: the flags after it, ...                   *)
kbd_flags(s, d) ==
  IF d.key = "E0" THEN s \cup {"E0ESC"}
  ELSE IF d.up THEN s \ (shiftcode(d.key) \cup {"E0ESC"})
  ELSE Toggle((s \ {"E0ESC"}) \cup shiftcode(d.key), togglecode(d.key))

(* ... and the character it makes, if any.                                 *)
kbd_char(s, d) ==
  IF d.key = "E0" \/ d.up THEN "NO" ELSE charcode(kbd_flags(s, d), d.key)

Advance(pos) == IF pos + 1 = CONSBUFSIZE THEN 0 ELSE pos + 1

(* What cons_intr does with a character: it never looks at rpos.           *)
Stash(b, c) ==
  IF c = "NO" THEN b ELSE [b EXCEPT !.buf[b.wpos] = c, !.wpos = Advance(b.wpos)]
Note(s, c) == IF c = "NO" THEN s ELSE Append(s, c)

(* kbd_intr, for the first code that has come.                             *)
kbd_intr ==
  /\ kbd # <<>>
  /\ shift' = kbd_flags(shift, Head(kbd))
  /\ cons' = Stash(cons, kbd_char(shift, Head(kbd)))
  /\ arrived' = Note(arrived, kbd_char(shift, Head(kbd)))
  /\ kbd' = Tail(kbd)
  /\ UNCHANGED <<keysDown, presses, serial, taken, line, crt_pos>>

serial_intr ==
  /\ serial > 0
  /\ serial' = serial - 1
  /\ cons' = Stash(cons, "s")
  /\ arrived' = Note(arrived, "s")
  /\ UNCHANGED <<kbd, keysDown, presses, shift, taken, line, crt_pos>>
-----------------------------------------------------------------------------
(* The display.                                                            *)

Scrolled(pos) == IF pos >= CRT_SIZE THEN pos - CRT_COLS ELSE pos

RowStart(pos) == pos - (pos % CRT_COLS)

(* cga_putc: where the cursor is after c.  A tab is five spaces.           *)
cga_putc(pos, c) ==
  CASE c = "BS" -> Scrolled(IF pos > 0 THEN pos - 1 ELSE pos)
    [] c = "LF" -> Scrolled(RowStart(pos + CRT_COLS))
    [] c = "CR" -> Scrolled(RowStart(pos))
    [] c = "TAB" -> Scrolled(Scrolled(Scrolled(Scrolled(Scrolled(Scrolled(pos + 1) + 1) + 1) + 1) + 1))
    [] OTHER -> Scrolled(pos + 1)

(* sys_cputs, or cprintf in the kernel, of one character.                  *)
sys_cputs(c) == crt_pos' = cga_putc(crt_pos, c) /\ UNCHANGED input
-----------------------------------------------------------------------------
(* readline on the console.                                                *)

Printable == {"d", "D", "s"}

(* The line after c, and what readline echoes.                             *)
Edited(ln, c) ==
  CASE c = "BS" -> IF ln # <<>> THEN SubSeq(ln, 1, Len(ln) - 1) ELSE ln
    [] c \in Printable -> IF Len(ln) < BUFLEN - 1 THEN Append(ln, c) ELSE ln
    [] c \in {"LF", "CR"} -> <<>>
    [] c = "ctl-d" -> <<"EOF">>

Echo(ln, c) ==
  CASE c = "BS" -> IF ln # <<>> THEN {"BS"} ELSE {}
    [] c \in Printable -> IF Len(ln) < BUFLEN - 1 THEN {c} ELSE {}
    [] c \in {"LF", "CR"} -> {"LF"}
    [] OTHER -> {}

(* getchar: devcons_read asks sys_cgetc until there is a character.  The   *)
(* reader that drains the devices first is an interrupt before this step.  *)
cons_getc ==
  LET c == cons.buf[cons.rpos]
  IN  /\ line # <<"EOF">>
      /\ cons.rpos # cons.wpos
      /\ cons' = [cons EXCEPT !.rpos = Advance(@)]
      /\ taken' = taken + 1
      /\ line' = Edited(line, c)
      /\ crt_pos' \in {cga_putc(crt_pos, e) : e \in Echo(line, c)}
                        \cup {p \in {crt_pos} : Echo(line, c) = {}}
      /\ UNCHANGED <<kbd, keysDown, presses, serial, shift, arrived>>
-----------------------------------------------------------------------------
ConsNext ==
  \/ \E k \in Keys : Press(k) \/ Let_go(k)
  \/ kbd_intr \/ serial_intr \/ cons_getc
  \/ \E c \in {"x", "TAB", "CR"} : sys_cputs(c)

ConsSpec == ConsInit /\ [][ConsNext]_consVars
-----------------------------------------------------------------------------
Unread == (cons.wpos - cons.rpos) % CONSBUFSIZE

(* What waits in the buffer are the newest characters, in order; what was  *)
(* lost before them is whole laps of the buffer, for cons_intr overwrites  *)
(* (console.c:402-415).  And once every code has been handled, no shift or *)
(* control stays on without one of its keys held, however presses,         *)
(* releases and interrupts alternate (console.c:334-346).                  *)
InputIntact ==
  /\ \A i \in 1 .. Unread :
       cons.buf[(cons.rpos + i - 1) % CONSBUFSIZE] = arrived[Len(arrived) - Unread + i]
  /\ (Len(arrived) - taken - Unread) % CONSBUFSIZE = 0
  /\ kbd = <<>> => shift \ {"CAPSLOCK"} \subseteq UNION {shiftcode(k) : k \in keysDown}

(* The cursor is a cell of the screen (console.c:200), so that cga_putc    *)
(* writes in crt_buf only.                                                 *)
CursorOnScreen == crt_pos \in 0 .. CRT_SIZE - 1
=============================================================================
