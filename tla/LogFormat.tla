------------------------------ MODULE LogFormat ------------------------------
(***************************************************************************)
(* The texts of the debug log (app_debug.c): what print_raw makes of one   *)
(* conversion of its format, what print_isr makes of one, and the rows of  *)
(* a dump.  A text is a sequence of characters; upper and lower case are   *)
(* not told apart, and a string argument stands for its length.            *)
(***************************************************************************)
EXTENDS Integers, Sequences

CONSTANTS IntBits, LongBits,  (* the widths of int and of long             *)
          RowBytes,           (* bytes in a row of a dump, 16              *)
          ItoaBytes           (* sizeof(s) in custom_itoa_isr, 20          *)

ASSUME BitsAssumption == IntBits \in Nat \ {0} /\ LongBits \in Nat /\ IntBits <= LongBits
ASSUME RowAssumption  == RowBytes \in Nat \ {0}
ASSUME ItoaAssumption == ItoaBytes \in Nat \ {0}

lower_digits == <<"0", "1", "2", "3", "4", "5", "6", "7", "8", "9",
                  "a", "b", "c", "d", "e", "f">>

Flags == {"ZEROPAD", "SIGN", "PLUS", "SPACE", "LEFT", "HEX_PREP"}

Most(m, n) == IF m > n THEN m ELSE n
Few(m, n)  == IF m < n THEN m ELSE n
Rep(c, n)  == [i \in 1 .. n |-> c]
Spaces(n)  == Rep(" ", n)

Power(base, k) == LET of[j \in Nat] == IF j = 0 THEN 1 ELSE base * of[j - 1] IN of[k]

Unsigned(n, bits) == n % Power(2, bits)
Signed(n, bits)   == LET u == Unsigned(n, bits)
                     IN IF u >= Power(2, bits - 1) THEN u - Power(2, bits) ELSE u

\* The digits of a number, most significant first; zero has one.
Digits(num, base) ==
  LET of[n \in Nat] == LET d == <<lower_digits[(n % base) + 1]>>
                       IN IF n < base THEN d ELSE of[n \div base] \o d
  IN of[num]

-----------------------------------------------------------------------------
(* ee_number: a number with its sign and prefix, in at least precision     *)
(* digits, filled up to size.                                              *)

Sign(num, type) ==
  IF "SIGN" \notin type THEN <<>>
  ELSE IF num < 0 THEN <<"-">>
  ELSE IF "PLUS" \in type THEN <<"+">>
  ELSE IF "SPACE" \in type THEN <<" ">> ELSE <<>>

Prefix(base, type) ==
  IF "HEX_PREP" \notin type THEN <<>>
  ELSE IF base = 16 THEN <<"0", "x">> ELSE IF base = 8 THEN <<"0">> ELSE <<>>

\* Mutant: the sign is not counted.
NumberNoSign(num, base, size, precision, type) ==
  LET zeropad == "ZEROPAD" \in type /\ "LEFT" \notin type
      digits  == Digits(Unsigned(IF "SIGN" \in type /\ num < 0 THEN -num ELSE num,
                                 LongBits), base)
      zeros   == Most(precision - Len(digits), 0)
      room    == Most(size - Len(Prefix(base, type)) - zeros - Len(digits), 0)
  IN (IF zeropad THEN <<>> ELSE Spaces(room)) \o Sign(num, type) \o Prefix(base, type)
       \o (IF zeropad THEN Rep("0", room) ELSE <<>>) \o Rep("0", zeros) \o digits

\* Whatever LEFT says, spaces go in front and no room is left for any behind.
Number(num, base, size, precision, type) ==
  LET zeropad == "ZEROPAD" \in type /\ "LEFT" \notin type
      head    == Sign(num, type) \o Prefix(base, type)
      digits  == Digits(Unsigned(IF "SIGN" \in type /\ num < 0 THEN -num ELSE num,
                                 LongBits), base)
      zeros   == Most(precision - Len(digits), 0)
      room    == Most(size - Len(head) - zeros - Len(digits), 0)
  IN (IF zeropad THEN <<>> ELSE Spaces(room)) \o head
       \o (IF zeropad THEN Rep("0", room) ELSE <<>>) \o Rep("0", zeros) \o digits

-----------------------------------------------------------------------------
(* print_raw: one conversion.  An item is its parsed format, with width and *)
(* precision as sequences of at most one number, and its argument.         *)

NullString == -1

\* What a format can ask for; a dump is not among it.
Conversion ==
  {it \in [conv : STRING, flags : SUBSET Flags, width : Seq(Int), precision : Seq(Int),
           long : BOOLEAN, arg : Int] :
     it.conv # "dump" /\ (it.conv = "s" => it.arg >= NullString)}

Plain == [conv |-> "plain", flags |-> {}, width |-> <<>>, precision |-> <<>>,
          long |-> FALSE, arg |-> 0]

\* A width given as an argument may be negative.
ItemFlags(it) == IF it.width # <<>> /\ it.width[1] < 0 THEN it.flags \cup {"LEFT"}
                 ELSE it.flags
FieldWidth(it) == IF it.width = <<>> THEN -1 ELSE Most(it.width[1], -it.width[1])
Precision(it)  == IF it.precision = <<>> THEN -1 ELSE Most(it.precision[1], 0)

\* __strnlen, and the six characters that stand for NULL.
StrLen(it) == LET n == IF it.arg = NullString THEN 6 ELSE it.arg
              IN IF Precision(it) < 0 THEN n ELSE Few(n, Precision(it))

\* %c and %s
Field(it, n) ==
  LET fill == Spaces(Most(FieldWidth(it) - n, 0))
  IN IF "LEFT" \in ItemFlags(it) THEN Rep("s", n) \o fill ELSE fill \o Rep("s", n)

Base(conv) == CASE conv \in {"A", "o"}      -> 8
                [] conv \in {"X", "x", "p"} -> 16
                [] OTHER                    -> 10

Type(it) == ItemFlags(it) \cup (IF it.conv \in {"d", "i"} THEN {"SIGN"} ELSE {})

\* The argument as it is read: an unsigned long kept in a long, an int, or an
\* unsigned int.
ArgNum(it) == IF it.long \/ it.conv = "p" THEN Signed(it.arg, LongBits)
              ELSE IF "SIGN" \in Type(it) THEN Signed(it.arg, IntBits)
              ELSE Unsigned(it.arg, IntBits)

Integral == {"A", "o", "X", "x", "d", "i", "u", "p"}

\* A pointer without a width has all its digits.
Converted(it) ==
  CASE it.conv = "plain" -> <<"s">>
    [] it.conv = "c"     -> Field(it, 1)
    [] it.conv = "s"     -> Field(it, StrLen(it))
    [] it.conv = "p" /\ it.width = <<>> ->
         Number(ArgNum(it), 16, LongBits \div 4, Precision(it), Type(it) \cup {"ZEROPAD"})
    [] it.conv \in Integral /\ ~(it.conv = "p" /\ it.width = <<>>) ->
         Number(ArgNum(it), Base(it.conv), FieldWidth(it), Precision(it), Type(it))
    [] it.conv \in {"%", ""} -> <<"%">>       \* %%, and a % that ends the format
    [] OTHER -> <<"%", it.conv>>

-----------------------------------------------------------------------------
(* app_debug_dump: rows of hexadecimal bytes, then the same as characters. *)
(* A fixed string counts as one character.                                 *)

Byte(k) == (17 * k) % 256

simple_print_hex(b) == <<lower_digits[(b \div 16) + 1], lower_digits[(b % 16) + 1]>>

\* The first j cells of a row that begins after byte p of n.
HexCells(p, n, RowLen) ==
  LET of[j \in Nat] ==
        IF j = 0 THEN <<>>
        ELSE of[j - 1] \o (IF p + j <= n THEN Append(simple_print_hex(Byte(p + j)), " ")
                           ELSE Spaces(3))
  IN of[RowLen]

Row(p, n) ==
  HexCells(p, n, RowBytes) \o <<"tab">>
    \o [j \in 1 .. RowBytes |-> IF p + j <= n THEN "s" ELSE " "] \o <<"crlf">>

Dump(n) ==
  LET from[p \in Nat] == IF p >= n THEN <<>> ELSE Row(p, n) \o from[p + RowBytes]
  IN <<"head">> \o Digits(n, 10) \o <<"bytes">> \o from[0]

-----------------------------------------------------------------------------
(* print_isr: a conversion is a width, as the digits in the format, with   *)
(* an optional leading zero, and a letter.                                 *)

\* What print_isr can be asked for.
IsrConversion == [conv : STRING, zero : BOOLEAN, width : Seq(0 .. 9), arg : Int]

\* w += w * 10 + d, for each digit
IsrWidth(it) ==
  LET of[k \in 0 .. Len(it.width)] == IF k = 0 THEN 0 ELSE 11 * of[k - 1] + it.width[k]
  IN of[Len(it.width)]

\* The texts that may be put.  The sign is put before the padding, and both are
\* put out backwards.  A width is checked against the array s, the number is
\* not: one that is too long is written behind s, where the program keeps other
\* things, and what is put then may be anything.
custom_itoa_isr(val, radix, len, zero) ==
  LET neg    == radix < 0 /\ val < 0
      digits == Digits(IF neg THEN -val ELSE Unsigned(val, IntBits), Most(radix, -radix))
      body   == (IF neg THEN <<"-">> ELSE <<>>) \o digits
      all    == Rep(IF zero THEN "0" ELSE " ", Most(len - Len(body), 0)) \o body
  IN IF len > ItoaBytes THEN {<<>>}
     ELSE {all} \cup (IF Len(body) > ItoaBytes THEN {<<>>, <<"junk">>} ELSE {})

Radix(conv) == CASE conv = "u" -> 10 [] conv = "d" -> -10 [] conv \in {"x", "X"} -> 16
                 [] conv = "b" -> 2

\* Letters that are none of these end the message.
IsrConverted(it) ==
  CASE it.conv \in {"plain", "c"} -> {<<"s">>}
    [] it.conv = "%" -> {<<"%">>}
    [] it.conv = "s" -> {Rep("s", IF it.arg = NullString THEN 4 ELSE it.arg)}
    [] it.conv \in {"u", "d", "x", "X", "b"} ->
         custom_itoa_isr(Signed(it.arg, IntBits), Radix(it.conv), IsrWidth(it), it.zero)
    [] OTHER -> {<<>>}

-----------------------------------------------------------------------------
(* What the texts must be. *)

\* A digit's value, or -1.
Worth(c) == IF \E d \in 1 .. 16 : lower_digits[d] = c
            THEN (CHOOSE d \in 1 .. 16 : lower_digits[d] = c) - 1 ELSE -1

\* Where the digits at the end of a text begin, and the number they denote.
DigitsFrom(txt) ==
  CHOOSE i \in 1 .. Len(txt) + 1 :
    /\ \A j \in i .. Len(txt) : Worth(txt[j]) >= 0
    /\ i > 1 => Worth(txt[i - 1]) < 0

Denotes(txt, base) ==
  LET of[k \in Nat] == IF k < DigitsFrom(txt) THEN 0 ELSE base * of[k - 1] + Worth(txt[k])
  IN of[Len(txt)]

Magnitude(n) == Most(n, -n)

\* The least number of digits that can denote n.
DigitsNeeded(n, base) == CHOOSE k \in 1 .. LongBits :
                           Power(base, k) > n /\ (k > 1 => Power(base, k - 1) <= n)

\* A number can be read back, has its sign, and takes the width or more only
\* when its sign, prefix and digits need it.  On which side the width is filled
\* is not said: Number does it in front, with LEFT too.
NumberRight(it, txt) ==
  LET n == ArgNum(it)
      v == IF "SIGN" \in Type(it) THEN Magnitude(n) ELSE Unsigned(n, LongBits)
      b == Base(it.conv)
      signs == IF "SIGN" \in Type(it) /\ (n < 0 \/ {"PLUS", "SPACE"} \cap it.flags # {})
               THEN 1 ELSE 0
      heads == IF "HEX_PREP" \in it.flags THEN CASE b = 16 -> 2 [] b = 8 -> 1 [] OTHER -> 0
               ELSE 0
      digs  == Most(DigitsNeeded(v, b), Precision(it))
  IN /\ Denotes(txt, b) = v
     /\ (\E i \in 1 .. Len(txt) : txt[i] = "-") <=> ("SIGN" \in Type(it) /\ n < 0)
     /\ Len(txt) = Most(signs + heads + digs,
                        IF it.conv = "p" /\ it.width = <<>> THEN LongBits \div 4
                        ELSE FieldWidth(it))

\* Strings fill their width, on the side the format says.
StringRight(it, txt) ==
  LET n == IF it.conv = "c" THEN 1 ELSE StrLen(it)
  IN /\ Len(txt) = Most(n, FieldWidth(it))
     /\ \A i \in 1 .. Len(txt) :
          txt[i] = "s" <=> IF "LEFT" \in ItemFlags(it) THEN i <= n ELSE i > Len(txt) - n

\* The digits of a dump, two by two, are its bytes, and the rows are aligned.
DumpRight(n, txt) ==
  LET width   == 4 * RowBytes + 2
      start   == Len(Digits(n, 10)) + 2
      cell(k) == start + ((k - 1) \div RowBytes) * width + 3 * ((k - 1) % RowBytes)
  IN /\ (Len(txt) - start) % width = 0
     /\ \A k \in 1 .. n : 16 * Worth(txt[cell(k) + 1]) + Worth(txt[cell(k) + 2]) = Byte(k)
     /\ \A i \in start + 1 .. Len(txt) : txt[i] = "crlf" <=> (i - start) % width = 0

RawRight(it, txt) ==
  /\ it.conv \in Integral => NumberRight(it, txt)
  /\ it.conv \in {"c", "s"} => StringRight(it, txt)
  /\ it.conv = "dump" => DumpRight(it.arg, txt)

\* The digits alone, or all after a sign, and a sign behind spaces, which a
\* zero-padded negative number does not have.  It is said of what fits in s, and
\* of a width of at most one digit.
IsrRight(it, txt) ==
  LET b == Magnitude(Radix(it.conv))
      n == IF it.conv = "d" THEN Signed(it.arg, IntBits) ELSE Unsigned(it.arg, IntBits)
      need == (IF n < 0 THEN 1 ELSE 0) + DigitsNeeded(Magnitude(n), b)
  IN /\ it.conv \in {"u", "d", "x", "X", "b"}
     /\ Len(it.width) <= 1 /\ Most(need, IsrWidth(it)) <= ItoaBytes
     => /\ Len(txt) = Most(need, IsrWidth(it))
        /\ ~(it.zero /\ n < 0) =>
             /\ Denotes(txt, b) = Magnitude(n)
             /\ (\E i \in 1 .. Len(txt) : txt[i] = "-") <=> n < 0
=============================================================================
