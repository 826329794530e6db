------------------------------- MODULE Printf -------------------------------
(***************************************************************************)
(* The two printfs of the HAL, that of the log and alt_printf(), reading a *)
(* format character by character.  A format is one directive and what      *)
(* follows it, a character of its own and a %c.  Numbers have Word values. *)
(***************************************************************************)
EXTENDS Integers, Sequences

CONSTANTS
  Word,             \* values of an unsigned long
  Values,           \* numbers to print
  Widths            \* widths that directives ask for; 0 asks for none

PrintfAssumption ==
  Word \in Nat /\ Word % 2 = 0 /\ Values \subseteq 0 .. Word - 1
  /\ Widths \subseteq 0 .. 9

VARIABLES
  function,         \* "log" or "alt"
  item, value,      \* the directive, and the argument for it
  fmt, args,        \* format and arguments
  w, next,          \* what was read of each
  st,               \* the state of the log's printf
  out               \* what was printed

asked == <<function, item, value, fmt, args>>
printfVars == <<asked, w, next, st, out>>

Chars == <<"0", "1", "2", "3", "4", "5", "6", "7", "8", "9">>
Lower == Chars \o <<"a", "b", "c", "d", "e", "f">>
Upper == Chars \o <<"A", "B", "C", "D", "E", "F">>
Repeat(c, n) == [k \in 1 .. n |-> c]
Numbers == {"d", "i", "u", "o", "x", "X"}

Items(f) ==
  IF f = "log"
  THEN [conv : Numbers \cup {"c", "s"}, zero : BOOLEAN, width : Widths,
        after : BOOLEAN, long : BOOLEAN]
  ELSE [conv : {"x", "c", "s"}, zero : {FALSE}, width : {0}, after : {FALSE},
        long : {FALSE}]

Arguments(it) ==
  CASE it.conv \in Numbers -> Values
    [] it.conv = "c" -> {"q"}
    [] it.conv = "s" -> {<< >>, <<"q">>, <<"q", "r", "q">>}

Directive(it) ==
  <<"%">> \o (IF it.zero THEN <<"0">> ELSE << >>)
          \o (IF it.width > 0 THEN <<Chars[it.width + 1]>> ELSE << >>)
          \o (IF it.after THEN <<".", "2">> ELSE << >>)
          \o (IF it.long THEN <<"l">> ELSE << >>) \o <<it.conv>>

Start == [state |-> "chars", zero |-> FALSE, before |-> -1, after |-> -1]

Called(f, it, v) ==
  /\ function = f /\ item = it /\ value = v
  /\ fmt = Directive(it) \o <<"%", "%", "y", "%", "c">>
  /\ args = <<v, "z">>
  /\ w = 1 /\ next = 1 /\ st = Start /\ out = << >>

PrintfInit ==
  \E f \in {"log", "alt"} : \E it \in Items(f) : \E v \in Arguments(it) :
    (it.conv \in {"c", "s"} => ~ it.zero) /\ Called(f, it, v)

c == fmt[w]
Read == w <= Len(fmt) /\ w' = w + 1 /\ UNCHANGED asked
InDirective ==
  /\ function = "log" /\ Read
  /\ \/ st.state = "other"
     \/ st.state = "first" /\ c \notin {"0", "%"}
Emit(s) == out' = out \o s

(* The digits of n, as many as its largest power of the base asks for.     *)
DigitCount(n, base) ==
  CHOOSE k \in 1 .. Word : n < base ^ k /\ (k = 1 \/ n >= base ^ (k - 1))
Digits(n, base, digits) ==
  LET count == DigitCount(n, base)
  IN  [k \in 1 .. count |-> digits[((n \div base ^ (count - k)) % base) + 1]]

Number(v, base, signed, digits) ==
  LET sign == signed /\ v >= Word \div 2
      n == IF sign THEN Word - v ELSE v
      minus == IF sign THEN <<"-">> ELSE << >>
      pad == st.before - DigitCount(n, base) - Len(minus)
  IN  IF st.zero THEN minus \o Repeat("0", pad) \o Digits(n, base, digits)
      ELSE Repeat(" ", pad) \o minus \o Digits(n, base, digits)

Text(s) == Repeat(" ", st.before - Len(s)) \o s

LogChars ==
  /\ function = "log" /\ st.state = "chars" /\ Read
  /\ IF c = "%"
     THEN st' = [Start EXCEPT !.state = "first"] /\ UNCHANGED out
     ELSE Emit(<<c>>) /\ UNCHANGED st
  /\ UNCHANGED next

LogFirst ==
  /\ function = "log" /\ st.state = "first" /\ Read /\ c \in {"0", "%"}
  /\ IF c = "0"
     THEN st' = [st EXCEPT !.zero = TRUE, !.state = "other"] /\ UNCHANGED out
     ELSE Emit(<<c>>) /\ st' = [st EXCEPT !.state = "chars"]
  /\ UNCHANGED next

LogWidth ==
  /\ InDirective
  /\ \/ c = "." /\ st' = [st EXCEPT !.state = "other", !.after = 0]
     \/ c = "l" /\ st' = [st EXCEPT !.state = "other"]
     \/ \E d \in 0 .. 9 :
          /\ c = Chars[d + 1]
          /\ st' = IF st.after < 0
                   THEN [st EXCEPT !.state = "other", !.before =
                           IF @ < 0 THEN d ELSE 10 * @ + d]
                   ELSE [st EXCEPT !.state = "other", !.after = 10 * @ + d]
  /\ UNCHANGED <<next, out>>

LogConversion ==
  /\ InDirective
  /\ c \in Numbers \cup {"c", "s"}
  /\ Emit(CASE c \in {"d", "i"} -> Number(args[next], 10, TRUE, Lower)
            [] c = "u" -> Number(args[next], 10, FALSE, Lower)
            [] c = "o" -> Number(args[next], 8, FALSE, Lower)
            [] c = "x" -> Number(args[next], 16, FALSE, Lower)
            [] c = "X" -> Number(args[next], 16, FALSE, Upper)
            [] c = "c" -> Text(<<args[next]>>)
            [] c = "s" -> Text(args[next]))
  /\ next' = next + 1 /\ st' = [st EXCEPT !.state = "chars"]

(* alt_printf(): a loop for every character, that of a directive included. *)
AltChar ==
  /\ function = "alt" /\ w <= Len(fmt) /\ c # "%" /\ Read
  /\ Emit(<<c>>) /\ UNCHANGED <<next, st>>

AltDirective ==
  /\ function = "alt" /\ w < Len(fmt) /\ c = "%"
  /\ w' = w + 2 /\ UNCHANGED <<asked, st>>
  /\ LET d == fmt[w + 1]
     IN  IF d = "%" THEN Emit(<<d>>) /\ UNCHANGED next
         ELSE /\ next' = next + 1
              /\ Emit(CASE d = "c" -> <<args[next]>>
                        [] d = "x" -> Digits(args[next], 16, Lower)
                        [] d = "s" -> args[next])

PrintfNext ==
  \/ LogChars \/ LogFirst \/ LogWidth \/ LogConversion
  \/ AltChar \/ AltDirective

PrintfSpec == PrintfInit /\ [][PrintfNext]_printfVars
-----------------------------------------------------------------------------
Done == w > Len(fmt)
Rest == <<"%", "y", "z">>
Field == SubSeq(out, 1, Len(out) - Len(Rest))

ValueOf(s, base) ==
  LET digit(k) == CHOOSE d \in 0 .. 15 : s[k] \in {Lower[d + 1], Upper[d + 1]}
      sum[k \in 0 .. Len(s)] == IF k = 0 THEN 0 ELSE base * sum[k - 1] + digit(k)
  IN  sum[Len(s)]

(* A field is the number in its base, signed for %d and %i, in as few      *)
(* digits as it needs, filled up to its width in front: with spaces before *)
(* the sign or zeros behind it.                                            *)
NumberRight ==
  LET base == CASE item.conv \in {"d", "i", "u"} -> 10
                [] item.conv = "o" -> 8 [] item.conv \in {"x", "X"} -> 16
      negative == item.conv \in {"d", "i"} /\ 2 * value >= Word
      minus == IF negative THEN <<"-">> ELSE << >>
  IN  \E pad \in 0 .. Len(Field) :
        LET s == SubSeq(Field, pad + Len(minus) + 1, Len(Field))
        IN  /\ Field = IF item.zero THEN minus \o Repeat("0", pad) \o s
                       ELSE Repeat(" ", pad) \o minus \o s
            /\ s # << >> /\ (s[1] = "0" => Len(s) = 1)
            /\ \A k \in DOMAIN s : \E d \in 1 .. base :
                 s[k] = IF item.conv = "X" THEN Upper[d] ELSE Lower[d]
            /\ ValueOf(s, base) = IF negative THEN Word - value ELSE value
            /\ pad > 0 => Len(Field) = item.width

Plain ==
  /\ Len(Field) >= item.width
  /\ IF item.conv \in Numbers THEN NumberRight
     ELSE LET s == IF item.conv = "c" THEN <<value>> ELSE value
          IN  Field = Repeat(" ", item.width - Len(s)) \o s

(* What is printed for a directive without a precision is what C's         *)
(* printf() prints for it (alt_log_printf.c: stripped down printf          *)
(* function; alt_printf.c).                                                *)
FieldRight == Done /\ ~item.after => Plain

(* A precision is read and makes no difference: fmtAfterDecimal tells it   *)
(* from the width, and nothing else.  C's printf() would print the number  *)
(* in at least, and the string in at most, as many characters.             *)
PrecisionReadOver == Done /\ item.after => Plain

(* The precision 2 is C's: two digits at least, two characters at most.    *)
CPrecision ==
  Done /\ item.after =>
    /\ item.conv \in Numbers => Len(SelectSeq(Field, LAMBDA d : d \notin {" ", "-"})) >= 2
    /\ item.conv = "s" => Len(SelectSeq(Field, LAMBDA d : d # " ")) <= 2

(* What follows a directive is printed as if nothing had come before, with *)
(* an argument of its own.                                                 *)
RestRight ==
  Done => /\ Len(out) >= Len(Rest)
          /\ SubSeq(out, Len(out) - Len(Rest) + 1, Len(out)) = Rest
          /\ next = Len(args) + 1
=============================================================================
