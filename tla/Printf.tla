------------------------------- MODULE Printf -------------------------------
(***************************************************************************)
(* Formatted output: kernel/printf.c and usr/liblinux/src/stdio.c, which   *)
(* share format().  A format and what it prints are sequences of           *)
(* characters; a character is a string of length one.  An argument is what *)
(* a register holds, or for %s the characters of a string.                 *)
(***************************************************************************)
EXTENDS Integers, SequencesExt

CONSTANTS IntBits, LongBits     \* widths of int and of long

ASSUME WidthAssumption == IntBits \in Nat /\ LongBits \in Nat /\ 1 < IntBits /\ IntBits <= LongBits

INTMOD == 2 ^ IntBits
LONGMOD == 2 ^ LongBits

number_chars == <<"0", "1", "2", "3", "4", "5", "6", "7", "8", "9", "a", "b", "c", "d", "e", "f">>
number_chars_upcase ==
    <<"0", "1", "2", "3", "4", "5", "6", "7", "8", "9", "A", "B", "C", "D", "E", "F">>
ValueOf(c) == (CHOOSE i \in 1..16 : number_chars[i] = c \/ number_chars_upcase[i] = c) - 1
DIGITS == {number_chars[i] : i \in 1..10}

NULL == <<"NULL">>
Times(c, n) == [i \in 1..n |-> c]
-----------------------------------------------------------------------------
RECURSIVE Digits(_, _, _)
Digits(n, chars, base) ==
    IF n < base THEN <<chars[n + 1]>>
    ELSE Append(Digits(n \div base, chars, base), chars[(n % base) + 1])

format_number(n, chars, base, sign) ==
    IF sign /\ n >= LONGMOD \div 2            \* (int64_t)n < 0; n = -n
    THEN <<"-">> \o Digits(LONGMOD - n, chars, base)
    ELSE Digits(n, chars, base)

(* struct format_state; width is -1 without FMT_WIDTH.                     *)
NoFlags == [long |-> FALSE, zero |-> FALSE, left |-> FALSE, precision |-> FALSE, width |-> -1]

(* A width cuts as well as pads.                                           *)
format_str(s, f) ==
    LET length == IF f.width = -1 \/ Len(s) <= f.width THEN Len(s) ELSE f.width
        body == SubSeq(s, 1, length)
        padding == IF f.width = -1 THEN 0 ELSE f.width - length
    IN  IF f.left THEN body \o Times(" ", padding)
        ELSE Times(IF f.zero THEN "0" ELSE " ", padding) \o body

(* Faulty: an int keeps its sign bit where it is.                          *)
PopIntUnextended(arg, f, unsigned) == IF f.long THEN arg ELSE arg % INTMOD

(* An int is converted to uint64_t: sign-extended, or zero-extended.       *)
pop_int(arg, f, unsigned) ==
    IF f.long THEN arg
    ELSE IF unsigned \/ arg % INTMOD < INTMOD \div 2 THEN arg % INTMOD
    ELSE LONGMOD - INTMOD + (arg % INTMOD)

Field(f, c) ==
    LET width == IF f.width = -1 THEN 0 ELSE f.width
    IN  IF f.precision THEN f
        ELSE [f EXCEPT !.width = width * 10 + ValueOf(c),
                       !.zero = @ \/ (width = 0 /\ c = "0")]

(* What a conversion prints; only the kernel has %c.                       *)
Convert(c, f, arg) ==
    CASE c = "d" -> format_str(format_number(pop_int(arg, f, FALSE), number_chars, 10, TRUE), f)
      [] c = "u" -> format_str(format_number(pop_int(arg, f, TRUE), number_chars, 10, FALSE), f)
      [] c = "x" -> format_str(format_number(pop_int(arg, f, TRUE), number_chars, 16, FALSE), f)
      [] c = "X" -> format_str(format_number(pop_int(arg, f, TRUE), number_chars_upcase, 16, FALSE), f)
      [] c = "c" -> <<arg>>
      [] c = "s" -> format_str(IF arg = NULL THEN <<"<", "n", "u", "l", "l", ">">> ELSE arg, f)
      [] c = "p" -> <<"0", "x">> \o format_str(format_number(arg, number_chars, 16, FALSE), f)

(* format(): the characters after a %, from fmt[i] on, up to and with a    *)
(* conversion: what is printed, and where to go on with which arguments.   *)
RECURSIVE format(_, _, _, _)
format(fmt, i, f, args) ==
    LET c == fmt[i]
        More(g) == format(fmt, i + 1, g, args)
        Done(out, rest) == [out |-> out, next |-> i + 1, args |-> rest]
    IN  CASE c \in DIGITS -> More(Field(f, c))
          [] c = "." -> More([f EXCEPT !.precision = TRUE, !.zero = TRUE])
          [] c = "-" -> More([f EXCEPT !.left = TRUE])
          [] c = "l" -> More([f EXCEPT !.long = TRUE])
          [] c \in {"d", "u", "x", "X", "c", "s", "p"} -> Done(Convert(c, f, Head(args)), Tail(args))
          [] c = "%" -> Done(<<"%">>, args)
          [] OTHER   -> Done(<<"%", c>>, args)

(* The loop of vprintf and vsnprintf: the characters that are output       *)
RECURSIVE Output(_, _, _)
Output(fmt, i, args) ==
    IF i > Len(fmt) THEN << >>
    ELSE IF fmt[i] # "%" THEN <<fmt[i]>> \o Output(fmt, i + 1, args)
    ELSE LET r == format(fmt, i + 1, NoFlags, args)
         IN  r.out \o Output(fmt, r.next, r.args)
Printed(fmt, args) == Output(fmt, 1, args)

(* What vsnprintf leaves in str[size].  The terminator of exactly size     *)
(* characters goes to str[size].                                           *)
Stored(size, out) == SubSeq(out, 1, IF Len(out) > size THEN size - 1 ELSE Len(out))
=============================================================================
