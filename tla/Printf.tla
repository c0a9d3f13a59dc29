------------------------------- MODULE Printf -------------------------------
(***************************************************************************)
(* printf/printf.c of the manager: how _vsnprintf reads a format, what it  *)
(* writes for every conversion but the floating point ones, and where the  *)
(* characters go.                                                          *)
(*                                                                         *)
(* The format is read character by character, and the model lets the       *)
(* caller choose each one, so that a run goes through all formats.  A      *)
(* written character is a number: a digit is its value, the others are     *)
(* negative.  x stands for X too, z for t and j, and ? for a specifier     *)
(* that is not known.  A format does not end within a directive.           *)
(***************************************************************************)
EXTENDS Integers, Sequences, SequencesExt, FiniteSetsExt

CONSTANTS
  CharBits, ShortBits, IntBits, LongBits,   \* widths of the types
  NTOA_BUFFER_SIZE,
  SIZE_MAX,      \* (size_t)-1
  Letters,       \* the characters formats are made of
  Ints, Longs,   \* arguments, as bit patterns
  Stars,         \* arguments for *
  Strings,       \* lengths of string arguments
  Counts,        \* values of count for snprintf
  MaxDirectives, MaxText, MaxWidth   \* bounds on formats

PrintfAssumption ==
  /\ 0 < CharBits /\ CharBits <= ShortBits /\ ShortBits <= IntBits /\ IntBits <= LongBits
  /\ NTOA_BUFFER_SIZE > LongBits \div 2
  /\ \A n \in Counts : n \in 0 .. SIZE_MAX - 1

VARIABLES
  m,      \* [out, maxlen, idx, buffer, console]
  d,      \* [phase, flags, width, precision] of the directive that is read
  full,   \* history: all characters given to out
  last,   \* history: [kind, flags, width, precision, base, value, field]
  ret,    \* what _vsnprintf returns, -1: not yet
  n       \* directives and other characters so far

vars == <<m, d, full, last, ret, n>>

SPACE == -1
MINUS == -2
PLUS == -3
XB == -4        \* x or b
CHAR == -5      \* any other character
NUL == -6
UNWRITTEN == -7

-----------------------------------------------------------------------------
(* Where characters go.                                                    *)

\* Faulty variant: one character too many.
_out_buffer_over(u, i, c) == IF i <= u.maxlen THEN [u EXCEPT !.buffer[i] = c] ELSE u

_out_buffer(u, i, c) == IF i < u.maxlen THEN [u EXCEPT !.buffer[i] = c] ELSE u
_out_null(u, i, c) == u
_putchar(u, c) == [u EXCEPT !.console = Append(@, c)]
_out_char(u, i, c) == IF c # NUL THEN _putchar(u, c) ELSE u

\* The function of fctprintf gets what _putchar would.
_out_fct(u, i, c) == IF c # NUL THEN [u EXCEPT !.console = Append(@, c)] ELSE u

Out(u, i, c) ==
  CASE u.out = "buffer" -> _out_buffer(u, i, c)
    [] u.out = "char" -> _out_char(u, i, c)
    [] u.out = "fct" -> _out_fct(u, i, c)
    [] u.out = "null" -> _out_null(u, i, c)

RECURSIVE OutAll(_, _)
OutAll(u, s) ==
  IF s = <<>> THEN u
  ELSE OutAll([Out(u, u.idx, Head(s)) EXCEPT !.idx = @ + 1], Tail(s))

-----------------------------------------------------------------------------
(* Fields.                                                                 *)

Times(k, c) == [i \in 1 .. Max({k, 0}) |-> c]

_out_rev(buf, width, flags) ==
  LET pad == Times(width - Len(buf), SPACE)
  IN (IF flags \cap {"LEFT", "ZEROPAD"} = {} THEN pad ELSE <<>>)
     \o Reverse(buf) \o (IF "LEFT" \in flags THEN pad ELSE <<>>)

\* Zeros up to a length, as far as the buffer goes.
ZerosTo(buf, k) == buf \o Times(Min({k, NTOA_BUFFER_SIZE}) - Len(buf), 0)
Room(buf, c) == IF Len(buf) < NTOA_BUFFER_SIZE THEN Append(buf, c) ELSE buf

Signed(negative, flags) == negative \/ flags \cap {"PLUS", "SPACE"} # {}

\* Padding with zeros.
PadZeros(buf, prec, width, flags) ==
  IF "LEFT" \in flags THEN buf
  ELSE LET z == ZerosTo(buf, prec) IN IF "ZEROPAD" \in flags THEN ZerosTo(z, width) ELSE z

\* The prefix of the flag #.
Hash(buf, base, prec, width, flags) ==
  LET fills == "PRECISION" \notin flags /\ buf # <<>> /\ Len(buf) \in {prec, width}
      short == IF ~fills THEN buf
               ELSE SubSeq(buf, 1, Max({0, Len(buf) - (IF base = 16 THEN 2 ELSE 1)}))
  IN IF "HASH" \notin flags THEN buf
     ELSE Room(IF base \in {2, 16} THEN Room(short, XB) ELSE short, 0)

Sign(buf, negative, flags) ==
  IF negative THEN Room(buf, MINUS)
  ELSE IF "PLUS" \in flags THEN Room(buf, PLUS)
  ELSE IF "SPACE" \in flags THEN Room(buf, SPACE) ELSE buf

_ntoa_format(buf, negative, base, prec, width, flags) ==
  LET less == {"LEFT", "ZEROPAD"} \cap flags = {"ZEROPAD"} /\ width > 0 /\ Signed(negative, flags)
      w == IF less THEN width - 1 ELSE width
  IN _out_rev(Sign(Hash(PadZeros(buf, prec, w, flags), base, prec, w, flags),
                   negative, flags), w, flags)

\* The digits of a value, the lowest first, at most room of them.
RECURSIVE Digits(_, _, _)
Digits(v, base, room) ==
  <<v % base>> \o (IF v \div base = 0 \/ room = 1 THEN <<>> ELSE Digits(v \div base, base, room - 1))

_ntoa_long(v, negative, base, prec, width, flags) ==
  _ntoa_format(IF "PRECISION" \notin flags \/ v # 0 THEN Digits(v, base, NTOA_BUFFER_SIZE) ELSE <<>>,
               negative, base, prec, width, IF v = 0 THEN flags \ {"HASH"} ELSE flags)

\* long long has the width of long.
_ntoa_long_long(v, negative, base, prec, width, flags) ==
  _ntoa_long(v, negative, base, prec, width, flags)

-----------------------------------------------------------------------------
(* Arguments.                                                              *)

AsSigned(x, w) == IF x >= 2 ^ (w - 1) THEN x - 2 ^ w ELSE x
Long(flags) == flags \cap {"LONG", "LONG_LONG"} # {}
Args(flags) == IF Long(flags) THEN Longs ELSE Ints

\* The value that is converted.  A plain char has no sign on this machine.
Argument(x, flags, signed) ==
  CASE Long(flags) -> IF signed THEN AsSigned(x, LongBits) ELSE x
    [] ~Long(flags) /\ "CHAR" \in flags -> x % 2 ^ CharBits
    [] ~Long(flags) /\ "CHAR" \notin flags /\ "SHORT" \in flags ->
         IF signed THEN AsSigned(x % 2 ^ ShortBits, ShortBits) ELSE x % 2 ^ ShortBits
    [] OTHER -> IF signed THEN AsSigned(x, IntBits) ELSE x

\* 0 - value wraps for the least one.
Magnitude(v, flags) ==
  (IF v > 0 THEN v ELSE 0 - v) % 2 ^ (IF Long(flags) THEN LongBits ELSE IntBits)

Base(c) == CASE c = "x" -> 16 [] c = "o" -> 8 [] c = "b" -> 2 [] OTHER -> 10

\* What the specifier does to the flags.
IntFlags(c, flags) ==
  flags \ ((IF Base(c) = 10 THEN {"HASH"} ELSE {})
           \cup (IF c # "d" THEN {"PLUS", "SPACE"} ELSE {})
           \cup (IF "PRECISION" \in flags THEN {"ZEROPAD"} ELSE {}))

-----------------------------------------------------------------------------
(* The format.                                                             *)

Idle == [phase |-> "text", flags |-> {}, width |-> 0, precision |-> 0]
NoField == [kind |-> "none"]

\* snprintf, sprintf, printf and fctprintf: the output and maxlen they pass.
Calls ==
  {<<"buffer", k>> : k \in Counts \cup {SIZE_MAX}} \cup {<<"char", SIZE_MAX>>, <<"fct", SIZE_MAX>>}

\* The buffer of snprintf may be NULL.
Init ==
  /\ \E call \in Calls : \E out \in {call[1]} \cup (IF call[1] = "buffer" THEN {"null"} ELSE {}) :
       m = [out |-> out, maxlen |-> call[2], idx |-> 0,
            buffer |-> [i \in 0 .. SIZE_MAX |-> UNWRITTEN], console |-> <<>>]
  /\ d = Idle /\ full = <<>> /\ last = NoField /\ ret = -1
  /\ n = [directives |-> 0, text |-> 0]

Emit(s) == m' = OutAll(m, s) /\ full' = full \o s

Plain ==
  /\ d.phase = "text" /\ "a" \in Letters /\ n.text < MaxText
  /\ Emit(<<CHAR>>)
  /\ n' = [n EXCEPT !.text = @ + 1] /\ last' = NoField /\ UNCHANGED <<d, ret>>

Percent ==
  /\ d.phase = "text" /\ "%" \in Letters /\ n.directives < MaxDirectives
  /\ d' = [Idle EXCEPT !.phase = "flags"]
  /\ n' = [n EXCEPT !.directives = @ + 1] /\ last' = NoField /\ UNCHANGED <<m, full, ret>>

FlagOf == [zero |-> "ZEROPAD", minus |-> "LEFT", plus |-> "PLUS", space |-> "SPACE", hash |-> "HASH"]
Flag(c) ==
  /\ d.phase = "flags" /\ c \in DOMAIN FlagOf
  /\ d' = [d EXCEPT !.flags = @ \cup {FlagOf[c]}]

\* A zero is a flag before the width and a digit in it.
DigitOf == [zero |-> 0, one |-> 1, two |-> 2, three |-> 3, six |-> 6]
_atoi(i, c) == i * 10 + DigitOf[c]

Width(c) ==
  \/ /\ c \in DOMAIN DigitOf /\ (d.phase = "width" \/ (d.phase = "flags" /\ c # "zero"))
     /\ _atoi(d.width, c) <= MaxWidth
     /\ d' = [d EXCEPT !.phase = "width", !.width = _atoi(@, c)]
  \/ /\ c = "star" /\ d.phase = "flags"
     /\ \E w \in Stars : d' = [d EXCEPT !.phase = "wide", !.width = IF w < 0 THEN -w ELSE w,
                                        !.flags = IF w < 0 THEN @ \cup {"LEFT"} ELSE @]

Precision(c) ==
  \/ /\ c = "dot" /\ d.phase \in {"flags", "width", "wide"}
     /\ d' = [d EXCEPT !.phase = "dot", !.flags = @ \cup {"PRECISION"}]
  \/ /\ c \in DOMAIN DigitOf /\ d.phase \in {"dot", "precision"}
     /\ _atoi(d.precision, c) <= MaxWidth
     /\ d' = [d EXCEPT !.phase = "precision", !.precision = _atoi(@, c)]
  \/ /\ c = "star" /\ d.phase = "dot"
     /\ \E w \in Stars : d' = [d EXCEPT !.phase = "precise", !.precision = Max({w, 0})]

Length(c) ==
  \/ /\ c \in {"l", "h", "z"} /\ d.phase \in {"flags", "width", "wide", "dot", "precision", "precise"}
     /\ d' = [d EXCEPT !.phase = c, !.flags = @ \cup {IF c = "h" THEN "SHORT" ELSE "LONG"}]
  \/ /\ c \in {"l", "h"} /\ d.phase = c
     /\ d' = [d EXCEPT !.phase = "long", !.flags = @ \cup {IF c = "h" THEN "CHAR" ELSE "LONG_LONG"}]

\* A field is written, and what it was written for is kept.
Field(kind, flags, width, base, value, field) ==
  /\ Emit(field) /\ d' = Idle
  /\ last' = [kind |-> kind, flags |-> flags, width |-> width, precision |-> d.precision,
              base |-> base, value |-> value, field |-> field]
  /\ UNCHANGED <<ret, n>>

\* A string of length len with its padding, for c and s.
Padded(text, l) ==
  LET pad == Times(d.width - l, SPACE)
  IN IF "LEFT" \in d.flags THEN text \o pad ELSE pad \o text

Number(c) ==
  /\ c \in {"d", "u", "x", "o", "b"}
  /\ \E x \in Args(d.flags) :
       LET flags == IntFlags(c, d.flags)
           v == Argument(x, flags, c = "d")
           magnitude == IF c = "d" THEN Magnitude(v, flags) ELSE v
           field == IF "LONG_LONG" \in flags
                    THEN _ntoa_long_long(magnitude, v < 0, Base(c), d.precision, d.width, flags)
                    ELSE _ntoa_long(magnitude, v < 0, Base(c), d.precision, d.width, flags)
       IN Field("number", flags, d.width, Base(c), v, field)

Char(c) == c = "c" /\ \E x \in {CHAR, NUL} : Field("char", d.flags, d.width, 0, 1, Padded(<<x>>, 1))

_strnlen_s(len, maxsize) == Min({len, maxsize})

String(c) ==
  /\ c = "s"
  /\ \E len \in Strings :
       LET k == _strnlen_s(len, IF d.precision # 0 THEN d.precision ELSE SIZE_MAX)
           l == IF "PRECISION" \in d.flags THEN Min({k, d.precision}) ELSE k
           shown == IF "PRECISION" \in d.flags THEN Min({len, d.precision}) ELSE len
       IN Field("string", d.flags, d.width, 0, len, Padded(Times(shown, CHAR), l))

Pointer(c) ==
  /\ c = "p"
  /\ \E x \in Longs :
       LET width == LongBits \div 4
           flags == d.flags \cup {"ZEROPAD"}
       IN Field("number", flags, width, 16, x,
                _ntoa_long_long(x, FALSE, 16, d.precision, width, flags))

\* %% and a specifier that is not known.
Other(c) == c \in {"percent", "unknown"} /\ Emit(<<CHAR>>) /\ d' = Idle /\ UNCHANGED <<last, ret, n>>

\* A character is for the first of the parts of a directive that takes it.
Directive ==
  /\ d.phase \notin {"text", "done"}
  /\ \E c \in Letters :
       \/ (Flag(c) \/ Width(c) \/ Precision(c) \/ Length(c)) /\ UNCHANGED <<m, full, last, ret, n>>
       \/ Number(c) \/ Char(c) \/ String(c) \/ Pointer(c) \/ Other(c)

End(u) == Out(u, IF u.idx < u.maxlen THEN u.idx ELSE (u.maxlen - 1) % (SIZE_MAX + 1), NUL)

Finish ==
  /\ d.phase = "text"
  /\ m' = End(m) /\ ret' = m.idx /\ d' = [d EXCEPT !.phase = "done"]
  /\ UNCHANGED <<full, last, n>>

Next == Plain \/ Percent \/ Directive \/ Finish
Spec == Init /\ [][Next]_vars

-----------------------------------------------------------------------------
\* snprintf stores no character at count or beyond, stores the text as far as
\* it goes, and terminates it; it returns the length of the whole text, and a
\* result below count means that all of it was stored.  On the console there is
\* the text without its null characters.
OutputExact ==
  /\ \A i \in DOMAIN m.buffer : i >= m.maxlen \/ m.out # "buffer" => m.buffer[i] = UNWRITTEN
  /\ ret # -1 =>
       /\ ret = Len(full)
       /\ (m.out = "buffer" /\ m.maxlen > 0) =>
            LET end == Min({ret, m.maxlen - 1})
            IN m.buffer[end] = NUL /\ \A i \in 0 .. end - 1 : m.buffer[i] = full[i + 1]
       /\ m.out \in {"char", "fct"} => m.console = SelectSeq(full, LAMBDA c : c # NUL)

RECURSIVE Read(_, _, _)
Read(s, base, v) ==
  IF s = <<>> THEN v
  ELSE Read(Tail(s), base, IF Head(s) >= 0 THEN v * base + Head(s) ELSE v)

RECURSIVE Count(_, _)
Count(v, base) == IF v = 0 THEN 0 ELSE 1 + Count(v \div base, base)

Abs(v) == IF v < 0 THEN -v ELSE v

\* The digits _ntoa_long starts from.
Start == IF last.value = 0 THEN IF "PRECISION" \in last.flags THEN 0 ELSE 1
         ELSE Count(Abs(last.value), last.base)

\* The digits, zeros, prefix and sign fit the conversion buffer.
FitsBuffer ==
  /\ Start + 3 <= NTOA_BUFFER_SIZE \/ (Start + 1 <= NTOA_BUFFER_SIZE /\ "HASH" \notin last.flags)
  /\ "LEFT" \notin last.flags =>
       /\ last.precision < NTOA_BUFFER_SIZE
       /\ "ZEROPAD" \in last.flags => last.width <= NTOA_BUFFER_SIZE

\* The flag # takes digits for padding when they fill the width, or all but one
\* place of it.
TakenForPadding ==
  /\ "HASH" \in last.flags /\ "PRECISION" \notin last.flags
  /\ Start \in last.width - 1 .. last.width

\* The number in a field is the argument, for all flags, widths, precisions and
\* lengths, at both ends of its type.
NumberReadsBack ==
  (last.kind = "number" /\ FitsBuffer /\ ~TakenForPadding) =>
    LET v == Read(last.field, last.base, 0)
    IN last.value = (IF Contains(last.field, MINUS) THEN -v ELSE v)

\* "'ntoa' conversion buffer size, this must be big enough to hold one converted
\* numeric number including padded zeros" (printf.c): no digit is missing from
\* a field.
BufferBigEnough ==
  (last.kind = "number" /\ ~TakenForPadding) =>
    Len(SelectSeq(last.field, LAMBDA c : c >= 0)) >= Start
=============================================================================
