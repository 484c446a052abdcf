------------------------------- MODULE Format -------------------------------
(***************************************************************************)
(* The two formatters of the tree, for one conversion at a time: the one   *)
(* behind printf (clio_vformat in src/stdio.c) and the one of the Lua port *)
(* (cleonos_lua_sprintf).  A conversion is a record                        *)
(*    [conv, left, zero, plus, space, alt, width, prec, value]             *)
(* with prec = -1 where none is written; a text is a sequence of           *)
(* one-character strings.                                                  *)
(***************************************************************************)
LOCAL INSTANCE Integers
LOCAL INSTANCE Sequences

Repeat(ch, n) == [i \in 1..n |-> ch]
Least(a, b) == IF a < b THEN a ELSE b

\* The digits of n, most significant first; 0 has one digit.
ToBase(n, base) ==
    LET digit == <<"0", "1", "2", "3", "4", "5", "6", "7", "8", "9", "a", "b", "c", "d", "e", "f">>
        of[m \in 0..n] == IF m < base THEN <<digit[m + 1]>>
                          ELSE Append(of[m \div base], digit[(m % base) + 1])
    IN  of[n]

\* The magnitude is taken of value + 1, so that the least integer has one.
Magnitude(v) == IF v < 0 THEN -(v + 1) + 1 ELSE v

\* A precision of 0 leaves the value 0 without a digit.
Digits(s, base) ==
    IF s.prec = 0 /\ s.value = 0 THEN <<>> ELSE ToBase(Magnitude(s.value), base)

LeadingZeros(s, digits) == Repeat("0", s.prec - Len(digits))

---------------------------------------------------------------------------
(***************************************************************************)
(* clio_vformat: %s, %c, %d, %u, %x, %p.  The flags are - and 0.           *)
(***************************************************************************)
EmitWithWidth(s, text) ==
    LET pad == Repeat(" ", s.width - Len(text))
    IN  IF s.left THEN text \o pad ELSE pad \o text

EmitText(s) ==
    EmitWithWidth(s, IF s.prec >= 0 THEN SubSeq(s.value, 1, Least(s.prec, Len(s.value))) ELSE s.value)

EmitSigned(s) ==
    LET digits == Digits(s, 10)
        sign   == IF s.value < 0 THEN <<"-">> ELSE <<>>
        core   == LeadingZeros(s, digits) \o digits
        rest   == s.width - Len(sign \o core)
    IN  IF s.left THEN sign \o core \o Repeat(" ", rest)
        ELSE IF s.zero /\ s.prec < 0 THEN sign \o Repeat("0", rest) \o core
        ELSE Repeat(" ", rest) \o sign \o core

EmitUnsigned(s, base) ==
    LET digits == Digits(s, base)
        core   == LeadingZeros(s, digits) \o digits
        pad    == IF s.zero /\ s.prec < 0 /\ ~s.left THEN "0" ELSE " "
        rest   == Repeat(pad, s.width - Len(core))
    IN  IF s.left THEN core \o rest ELSE rest \o core

EmitPointer(s) ==
    LET digits == Digits(s, 16) IN EmitWithWidth(s, <<"0", "x">> \o LeadingZeros(s, digits) \o digits)

VFormat(s) ==
    CASE s.conv \in {"s", "c"} -> EmitText(s)
      [] s.conv = "d" -> EmitSigned(s)
      [] s.conv = "u" -> EmitUnsigned(s, 10)
      [] s.conv = "x" -> EmitUnsigned(s, 16)
      [] s.conv = "p" -> EmitPointer(s)

\* What snprintf leaves in a buffer of the given size: a cell is the NUL's.
Truncated(text, size) == SubSeq(text, 1, Least(Len(text), size - 1))

---------------------------------------------------------------------------
(***************************************************************************)
(* cleonos_lua_sprintf: the flags +, space and # as well, and %o and %f.   *)
(***************************************************************************)
LuaSign(s) ==
    IF s.value < 0 THEN <<"-">> ELSE IF s.plus THEN <<"+">> ELSE IF s.space THEN <<" ">> ELSE <<>>

LuaPadded(s, head, body) ==
    LET rest == s.width - Len(head \o body)
    IN  IF s.left THEN head \o body \o Repeat(" ", rest)
        ELSE IF s.zero /\ s.prec < 0 THEN head \o Repeat("0", rest) \o body
        ELSE Repeat(" ", rest) \o head \o body

LuaFmtSigned(s) ==
    LET digits == Digits(s, 10) IN LuaPadded(s, LuaSign(s), LeadingZeros(s, digits) \o digits)

LuaFmtUnsigned(s, base) ==
    LET digits == Digits(s, base)
        prefix == IF s.alt /\ s.value # 0
                  THEN IF base = 16 THEN <<"0", "x">> ELSE IF base = 8 THEN <<"0">> ELSE <<>>
                  ELSE <<>>
    IN  LuaPadded(s, prefix, LeadingZeros(s, digits) \o digits)

\* The digits of a floating-point value are data; the sign is not kept in
\* front of the zeros of the width.
LuaFmtFloat(s) ==
    LET text == LuaSign(s) \o ToBase(Magnitude(s.value), 10) \o <<".", "0">>
        pad  == Repeat(IF s.zero THEN "0" ELSE " ", s.width - Len(text))
    IN  IF s.left THEN text \o Repeat(" ", s.width - Len(text)) ELSE pad \o text

LuaFormat(s) ==
    CASE s.conv \in {"s", "c"} -> EmitText(s)
      [] s.conv = "d" -> LuaFmtSigned(s)
      [] s.conv = "u" -> LuaFmtUnsigned(s, 10)
      [] s.conv = "o" -> LuaFmtUnsigned(s, 8)
      [] s.conv = "x" -> LuaFmtUnsigned(s, 16)
      [] s.conv = "p" -> LuaFmtUnsigned([s EXCEPT !.alt = TRUE], 16)
      [] s.conv = "f" -> LuaFmtFloat(s)

---------------------------------------------------------------------------
(***************************************************************************)
(* What C asks of a conversion, cell by cell of the printed text: the      *)
(* field is as wide as the longer of the width and the item; the item      *)
(* stands at its right end, or at its left end with -; zeros fill it       *)
(* between sign and digits when 0 is written and neither - nor a precision.*)
(***************************************************************************)
CHead(s) ==
    CASE s.conv \in {"d", "f"} -> LuaSign(s)
      [] s.conv = "p" -> <<"0", "x">>
      [] s.conv = "x" /\ s.alt /\ s.value # 0 -> <<"0", "x">>
      [] OTHER -> <<>>

CBody(s) ==
    IF s.conv \in {"s", "c"} THEN [i \in {j \in DOMAIN s.value : s.prec < 0 \/ j <= s.prec} |-> s.value[i]]
    ELSE LET base  == CASE s.conv = "o" -> 8 [] s.conv \in {"x", "p"} -> 16 [] OTHER -> 10
             all   == ToBase(IF s.value < 0 THEN 0 - s.value ELSE s.value, base)
             least == IF s.prec < 0 \/ s.conv = "f" THEN 1 ELSE s.prec
             n     == IF s.value = 0 /\ least = 0 THEN 0 ELSE IF Len(all) < least THEN least ELSE Len(all)
             whole == [i \in 1..n |-> IF i <= n - Len(all) THEN "0" ELSE all[i - (n - Len(all))]]
         IN  IF s.conv = "f" THEN whole \o <<".", "0">> ELSE whole

CText(s) ==
    LET head == CHead(s)
        body == CBody(s)
        h == Len(head)
        n == h + Len(body)
        w == IF s.width > n THEN s.width ELSE n
        zeros == s.zero /\ ~s.left /\ s.conv \notin {"s", "c", "p"} /\ (s.prec < 0 \/ s.conv = "f")
        At(i) == IF i <= h THEN head[i] ELSE body[i - h]
    IN  [i \in 1..w |->
            IF s.left THEN IF i <= n THEN At(i) ELSE " "
            ELSE IF zeros THEN IF i <= h THEN head[i] ELSE IF i <= w - (n - h) THEN "0" ELSE At(i - (w - n))
            ELSE IF i <= w - n THEN " " ELSE At(i - (w - n))]
=============================================================================
