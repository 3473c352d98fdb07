---- MODULE Keyboard ----
(***************************************************************************)
(* The scan codes of src/drivers/keyboard.c: the code of a key, and the    *)
(* characters it gives alone and with shift.  Both tables are indexed      *)
(* without a look at their length; what lies behind them is Stray: no      *)
(* character, or one that "?" stands for.                                  *)
(***************************************************************************)
EXTENDS Integers, Sequences

BREAK_MASK == 128
Nul == "nul"
Stray == {Nul, "?"}

(* The main block keeps its numbers; the others are the cursor block, and the
   codes from 96 on. *)
atakbd_keycode ==
  LET cursor == <<102, 103, 0, 74, 105, 0, 106, 78, 0, 108, 0, 110, 111>>
      others == <<86, 131, 138, 179, 180, 98, 55, 71, 72, 73, 75, 76, 77, 79, 80, 81, 82, 83, 96>>
  IN [s \in 0 .. 114 |-> CASE s \in 1 .. 68 -> s
                           [] s \in 71 .. 83 -> cursor[s - 70]
                           [] s \in 96 .. 114 -> others[s - 95]
                           [] OTHER -> 0]

(* A table from its runs of characters: the rows of the keyboard, and the two
   keys that only a Japanese keyboard has. *)
KeyTable(digits, upper, home, lower, ro, yen) ==
  LET keypad == <<"7", "8", "9", "-", "4", "5", "6", "+", "1", "2", "3", "0", ".">>
  IN [k \in 0 .. 127 |-> CASE k \in 2 .. 13 -> digits[k - 1]
                           [] k \in 16 .. 27 -> upper[k - 15]
                           [] k \in 30 .. 40 -> home[k - 29]
                           [] k \in 43 .. 53 -> lower[k - 42]
                           [] k \in 71 .. 83 -> keypad[k - 70]
                           [] k = 55 -> "*"
                           [] k = 57 -> " "
                           [] k = 115 -> ro
                           [] k = 125 -> yen
                           [] OTHER -> Nul]
keytable0 ==
  KeyTable(<<"1", "2", "3", "4", "5", "6", "7", "8", "9", "0", "-", "^">>,
           <<"q", "w", "e", "r", "t", "y", "u", "i", "o", "p", "@", "[">>,
           <<"a", "s", "d", "f", "g", "h", "j", "k", "l", ";", ":">>,
           <<"]", "z", "x", "c", "v", "b", "n", "m", ",", ".", "/">>, "backslash", "backslash")
keytable1 ==
  KeyTable(<<"!", "quote", "#", "$", "%", "&", "'", "(", ")", "~", "=", "~">>,
           <<"Q", "W", "E", "R", "T", "Y", "U", "I", "O", "P", "grave", "{">>,
           <<"A", "S", "D", "F", "G", "H", "J", "K", "L", "+", "*">>,
           <<"}", "Z", "X", "C", "V", "B", "N", "M", "<", ">", "?">>, "_", "|")

(* The characters the call may return: Nul for none.  A key going up gives none. *)
KeyUp(raw) == raw \in BREAK_MASK + 1 .. BREAK_MASK + 114
input_get_char(raw, isShift) ==
  LET code == raw % BREAK_MASK
      table == IF isShift THEN keytable1 ELSE keytable0
  IN CASE KeyUp(raw) -> {Nul}
       [] code \notin DOMAIN atakbd_keycode -> Stray
       [] atakbd_keycode[code] \notin DOMAIN table -> Stray
       [] OTHER -> {table[atakbd_keycode[code]]}
====
