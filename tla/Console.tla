------------------------------ MODULE Console ------------------------------
(***************************************************************************)
(* The kernel's output: kprintf() of libkern/printf.c over                 *)
(* hal_console_putc(), which writes every character to the serial line     *)
(* (serial.c) and, once the boot loader's frame buffer is known, draws it  *)
(* on the screen (fb.c).  The screen is followed by character cells: what  *)
(* put_pixel() does for the 64 pixels of a glyph is one assignment here.   *)
(* A glyph drawn right of the last column, as after a tab, has its pixels  *)
(* one pixel line lower at the left, over parts of two cells.              *)
(***************************************************************************)
EXTENDS Integers, Sequences

CONSTANTS
  TabStop,    \* 8 columns
  IntBits,    \* width of the integers printed
  Printable,  \* the characters 0x20 - 0x7f
  MaxPrinted  \* bound: characters printed

\* The last conjunct spells out what powers are.
ASSUME ConsoleAssumption ==
  /\ TabStop \in Nat \ {0} /\ IntBits \in Nat \ {0} /\ MaxPrinted \in Nat
  /\ "?" \in Printable
  /\ \A b \in {2, 10, 16} : b^0 = 1 /\ \A k \in 1..IntBits : b^k = b^(k-1) * b

VARIABLES
  fb,      \* fb_ready, the geometry, the cursor and the cells of the screen;
           \* history: spoilt, a glyph fell outside its cell, and from, the
           \* characters printed before fb_init()
  serial,  \* what COM1 transmitted
  printed, \* history: the characters given to hal_console_putc()
  last     \* history: the last conversion of a number, and what it put out

consoleVars == <<fb, serial, printed, last>>

Blank == " "

-----------------------------------------------------------------------------
(* fb.c: the operators take and return the frame buffer f.                 *)

BlankRow(f) == [c \in 0 .. f.cols - 1 |-> Blank]

\* font[] has a glyph for the printable characters.
Glyph(c) == IF c \in Printable THEN c ELSE "?"

draw_char(f, col, row, c) ==
  IF col < f.cols
    THEN [f EXCEPT !.cells[row][col] = Glyph(c)]
    ELSE [f EXCEPT !.spoilt = TRUE,
                   !.cells = [r \in DOMAIN @ |-> IF r \in {row, row + 1}
                                                   THEN [@[r] EXCEPT ![col % f.cols] = "#"]
                                                   ELSE @[r]]]

\* Mutant: the last row keeps its text.
scroll_up_unblanked(f) ==
  [f EXCEPT !.cells = [r \in DOMAIN @ |-> IF r + 1 < f.rows THEN @[r + 1] ELSE @[r]]]

scroll_up(f) ==
  [f EXCEPT !.cells = [r \in DOMAIN @ |-> IF r + 1 < f.rows THEN @[r + 1] ELSE BlankRow(f)]]

\* Where the cursor goes with character c; a glyph is drawn before it moves.
CursorMoved(f, c) ==
  CASE c = "\n" -> [f EXCEPT !.col = 0, !.row = @ + 1]
    [] c = "\r" -> [f EXCEPT !.col = 0]
    [] c = "\t" -> [f EXCEPT !.col = ((@ + TabStop) \div TabStop) * TabStop]
    [] c = "BS" -> [f EXCEPT !.col = IF @ > 0 THEN @ - 1 ELSE 0]
    [] OTHER -> LET d == draw_char(f, f.col, f.row, c)
                IN  IF f.col + 1 >= f.cols THEN [d EXCEPT !.col = 0, !.row = @ + 1]
                                           ELSE [d EXCEPT !.col = @ + 1]

\* The scrolling with which fb_putc() ends.
ScrolledIn(f) == IF f.row >= f.rows THEN [scroll_up(f) EXCEPT !.row = f.rows - 1] ELSE f

fb_putc(f, c) == IF f.ready THEN ScrolledIn(CursorMoved(f, c)) ELSE f

fb_init(cols, rows) ==
  [ready |-> TRUE, cols |-> cols, rows |-> rows, col |-> 0, row |-> 0,
   cells |-> [r \in 0 .. rows - 1 |-> [c \in 0 .. cols - 1 |-> Blank]],
   spoilt |-> FALSE, from |-> Len(printed)]

\* The statics of fb.c before fb_init().
NoScreen ==
  [ready |-> FALSE, cols |-> 0, rows |-> 0, col |-> 0, row |-> 0, cells |-> << >>,
   spoilt |-> FALSE, from |-> 0]

-----------------------------------------------------------------------------
\* serial_putc(); the wait for an empty transmitter ends, COM1 being there.
serial_putc(s, c) == s \o IF c = "\n" THEN <<"\r", c>> ELSE <<c>>

\* What the characters of text, one after the other, make of the serial line
\* and of the screen.
Transmitted(s, text) ==
  LET sent[i \in 0..Len(text)] == IF i = 0 THEN s ELSE serial_putc(sent[i-1], text[i])
  IN  sent[Len(text)]

Shown(f, text) ==
  LET drawn[i \in 0..Len(text)] == IF i = 0 THEN f ELSE fb_putc(drawn[i-1], text[i])
  IN  drawn[Len(text)]

\* hal_console_putc() for each character of text.
ConsolePuts(screen, text) ==
  /\ Len(printed) + Len(text) <= MaxPrinted
  /\ serial' = Transmitted(serial, text)
  /\ fb' = Shown(screen, text)
  /\ printed' = printed \o text

-----------------------------------------------------------------------------
(* printf.c: what the conversions put out.                                 *)

Digits(upper) ==
  <<"0", "1", "2", "3", "4", "5", "6", "7", "8", "9">>
    \o IF upper THEN <<"A", "B", "C", "D", "E", "F">> ELSE <<"a", "b", "c", "d", "e", "f">>

Digit(d, upper) == Digits(upper)[d + 1]

\* The turns of the loop that divides val by base until nothing is left.
DigitCount(val, base) ==
  CHOOSE n \in 1 .. IntBits : val \div base^n = 0 /\ val \div base^(n-1) # 0

\* Mutant: the digits come out as they were produced, lowest first.
print_uint_reversed(val, base, upper) ==
  IF val = 0 THEN <<"0">>
  ELSE [i \in 1 .. DigitCount(val, base) |-> Digit((val \div base^(i-1)) % base, upper)]

print_uint(val, base, upper) ==
  LET n == DigitCount(val, base)
  IN  IF val = 0 THEN <<"0">>
      ELSE [i \in 1..n |-> Digit((val \div base^(n-i)) % base, upper)]

\* The negation is made in the machine's arithmetic.
print_int(val) ==
  IF val < 0 THEN <<"-">> \o print_uint((-val) % 2^IntBits, 10, FALSE) ELSE print_uint(val, 10, FALSE)

\* The conversions of signed numbers.
Signed == {"d", "i", "ld", "li"}

\* One conversion of kvprintf() with its argument; a string is a character of
\* its own.  The lengths l and ll are known to d, i, u and x, where they only
\* say how wide the argument is; with any other nothing is printed.
kvprintf(conv, arg) ==
  LET u == arg % 2^IntBits
  IN  CASE conv \in Signed         -> print_int(arg)
        [] conv \in {"u", "lu"} -> print_uint(u, 10, FALSE)
        [] conv \in {"x", "lx"} -> print_uint(u, 16, FALSE)
        [] conv = "X"           -> print_uint(u, 16, TRUE)
        [] conv = "p"           -> <<"0", "x">> \o print_uint(u, 16, FALSE)
        [] conv \in {"c", "s"}  -> <<arg>>
        [] conv = "s null"      -> <<"(null)">>
        [] conv = "lX"          -> << >>
        [] conv = "%"           -> <<"%">>
        [] OTHER                -> <<"%", conv>>

\* A line with one conversion, on the screen given.
kprintf(screen, words, conv, arg) ==
  LET text == kvprintf(conv, arg)
  IN  /\ ConsolePuts(screen, <<words>> \o text \o <<"\n">>)
      /\ last' = [conv |-> conv, arg |-> arg, text |-> text]

kputs(text) == ConsolePuts(fb, text) /\ UNCHANGED last

-----------------------------------------------------------------------------
(* Properties                                                              *)

WithoutReturns(s) ==
  LET kept[i \in 0..Len(s)] == IF i = 0 THEN << >>
                               ELSE IF s[i] = "\r" THEN kept[i-1] ELSE Append(kept[i-1], s[i])
  IN  kept[Len(s)]

(* Serial line and screen show the same text.  The line has a carriage     *)
(* return before each new line and nothing else beside what was printed;   *)
(* and whatever has scrolled away, the screen is the end of what an        *)
(* endless one would show, blank below and right of it (fb.c:170-238,      *)
(* serial.c:26-36) - unless a tab led beyond the last column.              *)
ConsoleFaithful ==
  /\ WithoutReturns(serial) = WithoutReturns(printed)
  /\ \A i \in 1..Len(serial) : serial[i] = "\n" => i > 1 /\ serial[i-1] = "\r"
  /\ fb.ready /\ ~ fb.spoilt =>
       LET text    == SubSeq(printed, fb.from + 1, Len(printed))
           endless == Shown(fb_init(fb.cols, fb.rows + MaxPrinted), text)
       IN  /\ fb.col = endless.col
           /\ \A r \in 0 .. fb.rows - 1 : fb.cells[r] = endless.cells[endless.row - fb.row + r]

ValueOf(text, base, upper) ==
  LET value[i \in 0..Len(text)] ==
        IF i = 0 THEN 0 ELSE value[i-1] * base + (CHOOSE d \in 0..15 : Digit(d, upper) = text[i])
  IN  value[Len(text)]

(* A number that was printed reads back as the value that was passed, the  *)
(* most negative included, without leading zeros (printf.c:21-49).         *)
NumbersReadBack ==
  LET t    == last.text
      sign == last.conv \in Signed /\ t[1] = "-"
      num  == IF sign THEN Tail(t) ELSE IF last.conv = "p" THEN SubSeq(t, 3, Len(t)) ELSE t
      base == IF last.conv \in Signed \cup {"u", "lu"} THEN 10 ELSE 16
      v    == ValueOf(num, base, last.conv = "X")
  IN  last.conv \in Signed \cup {"u", "lu", "x", "X", "lx", "p"} =>
        /\ IF last.conv \in Signed THEN last.arg = (IF sign THEN -v ELSE v)
                                        ELSE v = last.arg % 2^IntBits
        /\ num[1] = "0" => Len(num) = 1
=============================================================================
