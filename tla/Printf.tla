---- MODULE Printf ----
(***************************************************************************)
(* The formatted output of the kernels (src/util/printf.c) without the     *)
(* floating point: how _vsnprintf reads a directive, the conversion of     *)
(* integers, and the buffer of snprintf_.  A long has the width of an int  *)
(* and a long long twice that, as in the 32-bit build.                     *)
(*                                                                         *)
(* A directive is a record: conv, flags (of "0", "-", "+", " ", "#"),      *)
(* width, prec (-1 when there is none), length and arg.  A literal         *)
(* character is a directive with conv "lit".  Text is a sequence of        *)
(* characters.                                                             *)
(***************************************************************************)
EXTENDS Integers, Sequences, SequencesExt, FiniteSets, FiniteSetsExt

CONSTANTS NtoaBufferSize,          \* PRINTF_NTOA_BUFFER_SIZE
          IntBits,                 \* of an int
          Values, Texts,           \* the arguments
          MaxField,                \* of width and precision
          WideField,               \* a width of two digits
          MaxCount                 \* of snprintf's count

Digits == <<"0", "1", "2", "3", "4", "5", "6", "7", "8", "9", "a", "b", "c", "d", "e", "f">>
UpperDigits == <<"0", "1", "2", "3", "4", "5", "6", "7", "8", "9", "A", "B", "C", "D", "E", "F">>

Copies(c, n) == [i \in 1 .. n |-> c]
Greatest(a, b) == Max({a, b})

----
(* _out_rev: the characters in buf come out last first, between the spaces. *)
out_rev(buf, width, flags) ==
  LET spaces == Copies(" ", Greatest(0, width - Len(buf)))
  IN CASE "-" \in flags -> Reverse(buf) \o spaces
       [] flags \cap {"-", "0"} = {} -> spaces \o Reverse(buf)
       [] OTHER -> Reverse(buf)

(* buf[len++] = c, while there is room. *)
Put(buf, c) == IF Len(buf) < NtoaBufferSize THEN Append(buf, c) ELSE buf
Extend(buf, n) ==
  buf \o Copies("0", Greatest(0, Min({n, NtoaBufferSize}) - Len(buf)))

(* _ntoa_format: zeros up to the precision and the width, the prefix, which
   takes the place of zeros when the text is as long as the width, the sign. *)
PadZeros(buf, prec, width, flags) ==
  IF "-" \in flags THEN buf
  ELSE LET b == Extend(buf, prec) IN IF "0" \in flags THEN Extend(b, width) ELSE b

Hashed(buf, base, upper, prec, width, flags) ==
  LET overwrites == prec = -1 /\ Len(buf) = width /\ buf # <<>>
      dropped == IF ~ overwrites THEN 0 ELSE IF base = 16 /\ Len(buf) > 1 THEN 2 ELSE 1
      b == SubSeq(buf, 1, Len(buf) - dropped)
      x == CASE base = 16 -> Put(b, IF upper THEN "X" ELSE "x")
             [] base = 2 -> Put(b, "b")
             [] OTHER -> b
  IN Put(x, "0")

ntoa_format(buf, negative, base, upper, prec, w, flags) ==
  LET signed == negative \/ flags \cap {"+", " "} # {}
      width == IF "-" \notin flags /\ w > 0 /\ "0" \in flags /\ signed THEN w - 1 ELSE w
      padded == PadZeros(buf, prec, width, flags)
      hashed == IF "#" \in flags THEN Hashed(padded, base, upper, prec, width, flags) ELSE padded
  IN out_rev(CASE negative -> Put(hashed, "-")
               [] ~ negative /\ "+" \in flags -> Put(hashed, "+")
               [] ~ negative /\ "+" \notin flags /\ " " \in flags -> Put(hashed, " ")
               [] OTHER -> hashed,
             width, flags)

(* _ntoa_long and _ntoa_long_long: the digits, the last one first; none for zero
   with a precision. *)
ntoa(value, negative, base, upper, prec, width, flags) ==
  LET count == Min({n \in 1 .. NtoaBufferSize : n = NtoaBufferSize \/ value < base ^ n})
      buf == [i \in 1 .. count |->
                (IF upper THEN UpperDigits ELSE Digits)[((value \div base ^ (i - 1)) % base) + 1]]
  IN ntoa_format(IF prec # -1 /\ value = 0 THEN <<>> ELSE buf, negative, base, upper, prec, width,
                 IF value = 0 THEN flags \ {"#"} ELSE flags)

(* What follows a percent sign, up to the conversion.  A field is digits or "*",
   which takes the next of the arguments in stars. *)
FlagChars == {"0", "-", "+", " ", "#"}
Span(s, C) == Min({k \in 1 .. Len(s) : s[k] \notin C}) - 1
atoi(s) == FoldLeft(LAMBDA n, c : 10 * n + (CHOOSE i \in 1 .. 10 : c = Digits[i]) - 1, 0, s)
Field(s, stars) ==
  LET n == Span(s, ToSet(SubSeq(Digits, 1, 10)))
  IN IF s[1] = "*" THEN [value |-> stars[1], rest |-> Tail(s), stars |-> Tail(stars)]
     ELSE [value |-> atoi(SubSeq(s, 1, n)), rest |-> SubSeq(s, n + 1, Len(s)), stars |-> stars]
LengthSpan(s) ==
  IF s[1] \in {"l", "h"} /\ s[2] = s[1] THEN 2 ELSE IF s[1] \in {"l", "h", "t", "j", "z"} THEN 1 ELSE 0
LengthOf(m) == IF m = <<"j">> THEN <<"l", "l">> ELSE IF m \in {<<"t">>, <<"z">>} THEN <<"l">> ELSE m
ReadDirective(s, stars) ==
  LET n == Span(s, FlagChars)
      width == Field(SubSeq(s, n + 1, Len(s)), stars)
      dotted == width.rest[1] = "."
      prec == IF dotted THEN Field(Tail(width.rest), width.stars) ELSE [rest |-> width.rest]
      l == LengthSpan(prec.rest)
  IN [conv |-> prec.rest[l + 1],
      flags |-> ToSet(SubSeq(s, 1, n)) \cup (IF width.value < 0 THEN {"-"} ELSE {}),
      width |-> Greatest(width.value, 0 - width.value),
      prec |-> IF dotted THEN Greatest(0, prec.value) ELSE -1,
      length |-> LengthOf(SubSeq(prec.rest, 1, l))]

(* One directive of _vsnprintf. *)
Base(conv) == CASE conv \in {"x", "X"} -> 16 [] conv = "o" -> 8 [] conv = "b" -> 2 [] OTHER -> 10
NumberFlags(d) ==
  d.flags \ ((IF d.conv \in {"d", "u"} THEN {"#"} ELSE {})
             \cup (IF d.conv # "d" THEN {"+", " "} ELSE {})
             \cup (IF d.prec # -1 THEN {"0"} ELSE {}))
(* The argument as the type its length names, and its absolute value:
   value > 0 ? value : 0 - value, in that type and then unsigned. *)
TypeBits(length) ==
  CASE length = <<"h", "h">> -> IntBits \div 4
    [] length = <<"h">> -> IntBits \div 2
    [] length = <<"l", "l">> -> 2 * IntBits
    [] OTHER -> IntBits
AsUnsigned(d) == d.arg % 2 ^ TypeBits(d.length)
AsSigned(d) ==
  LET half == 2 ^ (TypeBits(d.length) - 1) IN ((d.arg + half) % (2 * half)) - half
AbsoluteInt(n, bits) == IF n > 0 THEN n ELSE (0 - n) % 2 ^ (bits - 1)
Absolute(n, bits) == IF n > 0 THEN n ELSE (0 - n) % 2 ^ bits

Padded(text, d) ==
  LET spaces == Copies(" ", Greatest(0, d.width - Len(text)))
  IN IF "-" \in d.flags THEN text \o spaces ELSE spaces \o text

ConvertedNumber(d) ==
  CASE d.conv = "d" ->
         ntoa(Absolute(AsSigned(d), TypeBits(d.length)), AsSigned(d) < 0, 10, FALSE,
              d.prec, d.width, NumberFlags(d))
    [] d.conv \in {"u", "x", "X", "o", "b"} ->
         ntoa(AsUnsigned(d), FALSE, Base(d.conv), d.conv = "X", d.prec, d.width, NumberFlags(d))

Converted(d) ==
  CASE d.conv = "lit" -> <<d.arg>>
    [] d.conv \in {"d", "u", "x", "X", "o", "b"} -> ConvertedNumber(d)
    [] d.conv = "p" -> ntoa(d.arg, FALSE, 16, TRUE, d.prec, IntBits \div 4, d.flags \cup {"0"})
    [] d.conv = "c" -> Padded(<<d.arg>>, d)
    [] d.conv = "s" ->
         Padded(IF d.prec = -1 THEN d.arg ELSE SubSeq(d.arg, 1, Min({d.prec, Len(d.arg)})), d)
    [] OTHER -> <<d.conv>>

Output(format) == FoldLeft(LAMBDA text, d : text \o Converted(d), <<>>, format)

(* snprintf_: _out_buffer stores a character when its index is below count; the
   zero goes behind the text or into the last place. *)
out_buffer(text, count) ==
  [i \in 0 .. MaxCount - 1 |-> IF i < count /\ i < Len(text) THEN text[i + 1] ELSE "?"]
Snprintf(text, count) ==
  LET end == IF Len(text) < count THEN Len(text) ELSE count - 1
      stored == out_buffer(text, count)
  IN [ret |-> Len(text), buffer |-> IF end \in 0 .. count - 1 THEN [stored EXCEPT ![end] = "nul"] ELSE stored]

----
(* A conversion and its argument; the property takes every flag and field. *)
VARIABLE sample
printVars == sample
NumberConvs == {"d", "u", "x", "X", "o", "b"}
Lengths == {<<>>, <<"h">>, <<"h", "h">>, <<"l">>, <<"l", "l">>}
PrintInit == sample = [conv |-> "lit", arg |-> "?", length |-> <<>>]
Chosen(conv, length, arg) ==
  sample.conv = "lit" /\ sample' = [conv |-> conv, arg |-> arg, length |-> length]
PrintNumber(conv, length, n) == Chosen(conv, length, n)
PrintText(s) == Chosen("s", <<>>, s)
PrintChar(conv) == Chosen(conv, <<>>, "p")
PrintNext ==
  \/ \E conv \in NumberConvs, l \in Lengths, n \in Values :
       PrintNumber(conv, l, IF l = <<"l", "l">> THEN n * 2 ^ IntBits ELSE n)
  \/ \E n \in Values \cap Nat : PrintNumber("p", <<>>, n)
  \/ \E s \in Texts : PrintText(s)
  \/ \E conv \in {"c", "%"} : PrintChar(conv)

Flags == SUBSET FlagChars
Directives ==
  {[conv |-> sample.conv, arg |-> sample.arg, length |-> sample.length,
    flags |-> f, width |-> w, prec |-> p] :
     f \in Flags, w \in (0 .. MaxField) \cup {WideField}, p \in -1 .. MaxField}

(* A directive as a format spells it, with its fields in digits or starred. *)
Spelled(d, starred) ==
  LET decimal(n) == IF n < 10 THEN <<Digits[n + 1]>>
                    ELSE <<Digits[(n \div 10) + 1], Digits[(n % 10) + 1]>>
      field(n) == IF starred THEN <<"*">> ELSE IF n = 0 THEN <<>> ELSE decimal(n)
  IN SetToSeq(d.flags) \o field(d.width)
       \o (IF d.prec = -1 THEN <<>> ELSE <<".">> \o field(d.prec)) \o d.length \o <<d.conv>>
IsRead(d, starred) ==
  LET stars == IF starred THEN <<d.width, d.prec>> ELSE <<>>
      r == ReadDirective(Spelled(d, starred), stars)
  IN \A k \in DOMAIN r : r[k] = d[k]

(* Reading a number back. *)
Number(d) ==
  LET size == 2 ^ TypeBits(d.length)
      n == d.arg % size
  IN IF d.conv = "d" /\ n >= size \div 2 THEN n - size ELSE n
DigitOf(c) == (CHOOSE i \in 1 .. 16 : c \in {Digits[i], UpperDigits[i]}) - 1
Prefix(d) ==
  IF "#" \in d.flags /\ Number(d) # 0 /\ d.conv \in {"x", "X", "b"} THEN 2 ELSE 0
ReadBack(d, text) ==
  LET core == SelectSeq(text, LAMBDA c : c \notin {" ", "+", "-"})
      digits == SubSeq(core, Prefix(d) + 1, Len(core))
      n == FoldLeft(LAMBDA m, c : m * Base(d.conv) + DigitOf(c), 0, digits)
  IN IF Contains(text, "-") THEN 0 - n ELSE n

(* What the directive asks for, and two limits of the code: everything but
   spaces must fit the conversion buffer, and "#" drops digits when the number
   is as wide as the field. *)
Magnitude10(d) == IF Number(d) < 0 THEN 0 - Number(d) ELSE Number(d)
DigitCount(d) ==
  IF Number(d) = 0 THEN (IF d.prec = -1 THEN 1 ELSE 0)
  ELSE CHOOSE n \in 1 .. 2 * IntBits : /\ Magnitude10(d) < Base(d.conv) ^ n
                                    /\ Magnitude10(d) >= Base(d.conv) ^ (n - 1)
SignWidth(d) == IF d.conv = "d" /\ (Number(d) < 0 \/ d.flags \cap {"+", " "} # {}) THEN 1 ELSE 0
ZeroField(d) == IF "0" \in NumberFlags(d) /\ "-" \notin d.flags THEN d.width ELSE 0
Fits(d) == Max({DigitCount(d), d.prec, ZeroField(d)}) + Prefix(d) + SignWidth(d) =< NtoaBufferSize
HashRoom(d) ==
  "#" \in NumberFlags(d) /\ d.prec = -1 =>
    DigitCount(d) # d.width /\ (ZeroField(d) > 0 => DigitCount(d) + Prefix(d) =< d.width)

(* Formatting loses nothing: a number printed with any flags, width and
   precision that fit reads back as the number, the smallest int included; it
   takes exactly the width or the characters it needs, and is cut to the type
   its length names; a directive is read from the format as it was spelled,
   with digits or with stars; a string keeps the
   characters its precision allows; and snprintf_ stores as much of the text as
   count leaves room for, always ends it with a zero within count, and returns
   the length the whole text has. *)
FormattedOutput ==
  sample.conv # "lit" => \A d \in Directives :
    LET text == Output(<<d>>)
        line == Output(<<[conv |-> "lit", arg |-> "="], d>>)
    IN
    /\ IsRead(d, TRUE) /\ IsRead(d, FALSE)
    /\ d.conv \in NumberConvs /\ Fits(d) /\ HashRoom(d) =>
         /\ ReadBack(d, text) = Number(d)
         /\ "#" \notin NumberFlags(d) /\ ~ ("-" \in d.flags /\ d.prec > DigitCount(d)) =>
              Len(text) = Greatest(d.width, SignWidth(d) + Greatest(DigitCount(d), d.prec))
    /\ d.conv = "s" => SelectSeq(text, LAMBDA c : c # " ") =
         SubSeq(d.arg, 1, IF d.prec = -1 THEN Len(d.arg) ELSE Min({d.prec, Len(d.arg)}))
    /\ \A count \in 0 .. MaxCount :
         LET r == Snprintf(line, count)
             kept == Greatest(0, Min({count - 1, Len(text) + 1}))
         IN /\ r.ret = Len(text) + 1
            /\ count > 0 => r.buffer[kept] = "nul"
            /\ \A i \in 0 .. kept - 1 : r.buffer[i] = (<<"=">> \o text)[i + 1]
            /\ \A i \in count .. MaxCount - 1 : r.buffer[i] = "?"
====
