-------------------------------- MODULE Printf --------------------------------
(***************************************************************************)
(* Formatted output (vsprintf.c, printf.c, printk.c, sys_write of gate.c): *)
(* the conversions, and the static buffer of printf.  The kernel's pages   *)
(* are mapped into every task and fork does not copy them, so all tasks    *)
(* format into the same buffer, each store by store.                       *)
(*                                                                         *)
(* A format is a sequence of items: a character, or a conversion together  *)
(* with its flags, its width and precision and its argument.               *)
(***************************************************************************)
EXTENDS Integers, SequencesExt

CONSTANTS
  Task,       \* the tasks that call printf
  Masked,     \* those that run with interrupts off, as test_thread does
  Char,       \* the characters
  Programs,   \* what may be printed: sets of formats for every task and for printk
  Kernel,     \* who calls printk
  BufSize,    \* 1024; the code does not check texts against it
  WORD        \* 2^32: unsigned long

ASSUME PrintfAssumption ==
  /\ Masked \subseteq Task /\ Kernel \notin Task
  /\ BufSize \in Nat /\ WORD \in Nat \ {0}
  /\ {"NUL", " ", "+", "%", "?", "*", "s", "o", "p", "x", "i", "u"} \subseteq Char
  /\ {"0", "1", "2", "3", "4", "5", "6", "7", "8", "9"} \subseteq Char
  /\ {"a", "b", "c", "d", "e", "f", "A", "B", "C", "D", "E", "F", "X"} \subseteq Char

VARIABLES
  program,    \* environment: the formats of this execution
  current,    \* the task that runs
  buf,        \* the static buffer of printf.c
  kbuf,       \* the static buffer of printk.c
  call,       \* the printf every task is in
  clean,      \* history: nobody else has stored into buf since that began
  shown       \* the text console_write was called with last, and what it is from

printf_vars == <<program, current, buf, kbuf, call, clean, shown>>

Max2(m, n) == IF m > n THEN m ELSE n
Rep(n, ch) == [i \in 1 .. Max2(n, 0) |-> ch]

-----------------------------------------------------------------------------
(* number()                                                                 *)

Numerals == <<"0", "1", "2", "3", "4", "5", "6", "7", "8", "9">>
digits(flags) ==
  Numerals \o IF "SMALL" \in flags THEN <<"a", "b", "c", "d", "e", "f">>
                                   ELSE <<"A", "B", "C", "D", "E", "F">>

\* the loop that divides num by the base, and its result turned round
InBase(num, base, flags) ==
  LET text[n \in 0 .. num] ==
        IF n < base THEN <<digits(flags)[n + 1]>>
        ELSE Append(text[n \div base], digits(flags)[(n % base) + 1])
  IN text[num]

\* num is unsigned, so num < 0 never holds and there is no minus sign
SignOf(flags) ==
  IF "PLUS" \in flags THEN <<"+">> ELSE IF "SPACE" \in flags THEN <<" ">> ELSE << >>

PrefixOf(base, flags) ==
  IF "SPECIAL" \notin flags THEN << >>
  ELSE IF base = 8 THEN <<"0">>
  ELSE IF base = 16 THEN <<"0", IF "SMALL" \in flags THEN "x" ELSE "X">>
  ELSE << >>

\* mutant: the 0x is not part of the width
number_PrefixExtra(num, base, width, precision, flags) ==
  LET left == "LEFT" \in flags
      zero == "ZEROPAD" \in flags /\ ~ left
      text == InBase(num, base, flags)
      least == Max2(Len(text), precision)
      size == width - Len(SignOf(flags)) - least
  IN Rep(IF left \/ zero THEN 0 ELSE size, " ")
       \o SignOf(flags) \o PrefixOf(base, flags)
       \o Rep(IF zero THEN size ELSE 0, "0")
       \o Rep(least - Len(text), "0") \o text
       \o Rep(IF left THEN size ELSE 0, " ")

\* size is what is left of the width when sign, prefix and digits have their place
number(num, base, width, precision, flags) ==
  LET left == "LEFT" \in flags
      zero == "ZEROPAD" \in flags /\ ~ left
      text == InBase(num, base, flags)
      least == Max2(Len(text), precision)
      size == width - Len(SignOf(flags)) - Len(PrefixOf(base, flags)) - least
  IN Rep(IF left \/ zero THEN 0 ELSE size, " ")
       \o SignOf(flags) \o PrefixOf(base, flags)
       \o Rep(IF zero THEN size ELSE 0, "0")
       \o Rep(least - Len(text), "0") \o text
       \o Rep(IF left THEN size ELSE 0, " ")

-----------------------------------------------------------------------------
(* vsprintf: width and precision are << >> when the format has none.  Only a *)
(* width that is an argument can be negative.  A '*' in the place of the    *)
(* precision is read, but not passed over: it is taken for the conversion,  *)
(* and the conversion after it for text.                                    *)

field_width(item) ==
  IF item.width = << >> THEN -1
  ELSE IF item.width[1] < 0 THEN - item.width[1] ELSE item.width[1]

Flags(item) ==
  item.flags \cup (IF item.width # << >> /\ item.width[1] < 0 THEN {"LEFT"} ELSE {})

precision_of(item) ==
  IF item.precision = << >> THEN -1 ELSE item.precision[1]

\* %c and %s: blanks before or after the text
Justify(text, width, flags) ==
  LET blanks == Rep(width - Len(text), " ")
  IN IF "LEFT" \in flags THEN text \o blanks ELSE blanks \o text

Shortened(text, precision) ==
  IF precision < 0 \/ Len(text) <= precision THEN text ELSE SubSeq(text, 1, precision)

\* what vsprintf stores for one item of the format
Convert(item) ==
  LET flags == Flags(item)
      width == field_width(item)
      precision == precision_of(item)
      num == item.arg % WORD
  IN IF item.starred THEN <<"%", "*", item.conv>> ELSE
     CASE item.conv = "char" -> <<item.arg>>
       [] item.conv = "c" -> Justify(<<item.arg>>, width, flags)
       [] item.conv = "s" -> Justify(Shortened(item.arg, precision), width, flags)
       [] item.conv = "o" -> number(num, 8, width, precision, flags)
       [] item.conv = "p" -> IF width = -1 THEN number(num, 16, 8, precision, flags \cup {"ZEROPAD"})
                             ELSE number(num, 16, width, precision, flags)
       [] item.conv = "x" -> number(num, 16, width, precision, flags \cup {"SMALL"})
       [] item.conv = "X" -> number(num, 16, width, precision, flags)
       [] item.conv \in {"d", "i"} -> number(num, 10, width, precision, flags \cup {"SIGN"})
       [] item.conv = "u" -> number(num, 10, width, precision, flags)
       [] item.conv = "n" -> << >>
       [] item.conv \in {"%", "end"} -> <<"%">>       \* %%, or a % at the end
       [] OTHER -> <<"%", item.conv>>                 \* no such conversion: '?'

\* the text of a format in one piece
vsprintf(fmt) == FlattenSeq([i \in 1 .. Len(fmt) |-> Convert(fmt[i])])

\* Formats are what the scan of '%' leaves of them, with arguments of their types (a
\* precision of less than 0 is set to 0), and their texts fit into the buffers.  starred:
\* the precision is a '*', an argument, and no length modifier follows it.
ItemIsTyped(item) ==
  /\ item.conv \in {"char", "c", "s", "o", "p", "x", "X", "d", "i", "u", "n", "%", "end", "?"}
  /\ item.flags \subseteq {"LEFT", "PLUS", "SPACE", "SPECIAL", "ZEROPAD"}
  /\ item.width \in Seq(Int) /\ Len(item.width) <= 1
  /\ item.precision \in Seq(Nat) /\ Len(item.precision) <= 1
  /\ item.starred \in BOOLEAN
  /\ item.starred => /\ item.precision # << >>
                     /\ item.conv \in {"c", "s", "o", "p", "x", "X", "d", "i", "u", "?"}
  /\ item.conv \in {"char", "c"} => item.arg \in Char
  /\ item.conv = "s" => item.arg \in Seq(Char)
  /\ item.conv \in {"o", "p", "x", "X", "d", "i", "u"} => item.arg \in Int
  /\ item.conv \in {"d", "i"} => - WORD <= 2 * item.arg /\ 2 * item.arg < WORD

IsFormat(fmt) == fmt \in Seq(ToSet(fmt)) /\ \A item \in ToSet(fmt) : ItemIsTyped(item)

ASSUME FormatsAssumption ==
  \A p \in Programs : \A t \in Task \cup {Kernel} : \A fmt \in p[t] :
    IsFormat(fmt) /\ Len(vsprintf(fmt)) < BufSize

-----------------------------------------------------------------------------
Zeros == [i \in 1 .. BufSize |-> "NUL"]
\* ip: for every %n, by its place in the format, the number it has stored
NoCall == [on |-> FALSE, ended |-> FALSE, fmt |-> << >>, rest |-> << >>, out |-> << >>, str |-> 0, ip |-> {}]
NoText == [who |-> Kernel, fmt |-> << >>, text |-> << >>, ip |-> {}, clean |-> TRUE]

PrintfInit ==
  /\ program \in Programs
  /\ current \in Task
  /\ buf = Zeros /\ kbuf = Zeros
  /\ call = [t \in Task |-> NoCall]
  /\ clean = [t \in Task |-> TRUE]
  /\ shown = NoText

-----------------------------------------------------------------------------
(* printf, by the task that runs.                                           *)

Running(t) == current = t /\ call[t].on

printf(t, fmt) ==
  /\ current = t /\ ~ call[t].on
  /\ call' = [call EXCEPT ![t] = [NoCall EXCEPT !.on = TRUE, !.fmt = fmt, !.rest = fmt]]
  /\ clean' = [clean EXCEPT ![t] = TRUE]
  /\ UNCHANGED <<program, current, buf, kbuf, shown>>

\* the place of the next item
At(t) == Len(call[t].fmt) - Len(call[t].rest) + 1

\* mutant: %n counts what the items before it have stored last
NextItem_CountsRest(t) ==
  /\ Running(t) /\ call[t].out = << >> /\ call[t].rest # << >>
  /\ LET item == Head(call[t].rest)
     IN call' = [call EXCEPT ![t].rest = Tail(@), ![t].out = Convert(item),
                             ![t].ip = IF item.conv = "n" THEN @ \cup {<<At(t), Len(call[t].rest)>>} ELSE @]
  /\ UNCHANGED <<program, current, buf, kbuf, clean, shown>>

\* the next item is converted; %n stores the number of characters so far
NextItem(t) ==
  /\ Running(t) /\ call[t].out = << >> /\ call[t].rest # << >>
  /\ LET item == Head(call[t].rest)
     IN call' = [call EXCEPT ![t].rest = Tail(@), ![t].out = Convert(item),
                             ![t].ip = IF item.conv = "n" THEN @ \cup {<<At(t), call[t].str>>} ELSE @]
  /\ UNCHANGED <<program, current, buf, kbuf, clean, shown>>

\* everybody else who is in a printf has a foreign character in the buffer now
StoreChar(t, ch) ==
  /\ buf' = [buf EXCEPT ![call[t].str + 1] = ch]
  /\ clean' = [u \in Task |-> clean[u] /\ (u = t \/ ~ call[u].on)]
  /\ UNCHANGED <<program, current, kbuf>>

Store(t) ==
  /\ Running(t) /\ call[t].out # << >>
  /\ StoreChar(t, Head(call[t].out))
  /\ call' = [call EXCEPT ![t].out = Tail(@), ![t].str = @ + 1]
  /\ UNCHANGED shown

StoreEnd(t) ==
  /\ Running(t) /\ call[t].out = << >> /\ call[t].rest = << >> /\ ~ call[t].ended
  /\ StoreChar(t, "NUL")
  /\ call' = [call EXCEPT ![t].ended = TRUE]
  /\ UNCHANGED shown

\* write(stdout, buf, i): sys_write runs with interrupts off; it passes the i
\* characters from buf on as they are now
sys_write(t) ==
  /\ Running(t) /\ call[t].ended
  /\ shown' = [who |-> t, fmt |-> call[t].fmt, text |-> SubSeq(buf, 1, call[t].str),
               ip |-> call[t].ip, clean |-> clean[t]]
  /\ call' = [call EXCEPT ![t] = NoCall]
  /\ UNCHANGED <<program, current, buf, kbuf, clean>>

-----------------------------------------------------------------------------
(* Other tasks and interrupts.                                              *)

InterruptsOn == current \in Masked => ~ call[current].on

Switch ==
  /\ InterruptsOn
  /\ current' \in Task \ {current}
  /\ UNCHANGED <<program, buf, kbuf, call, clean, shown>>

\* a text in the whole buffer of which the first characters are replaced
Over(text, old) ==
  [i \in 1 .. BufSize |-> IF i <= Len(text) THEN text[i]
                          ELSE IF i = Len(text) + 1 THEN "NUL" ELSE old[i]]

\* the kernel calls printk with interrupts off, in a handler or a system call
printk(fmt) ==
  /\ InterruptsOn
  /\ kbuf' = Over(vsprintf(fmt), kbuf)
  /\ shown' = [NoText EXCEPT !.fmt = fmt, !.text = SubSeq(kbuf', 1, Len(vsprintf(fmt)))]
  /\ UNCHANGED <<program, current, buf, call, clean>>

PrintfNext ==
  \/ \E t \in Task :
       \/ \E fmt \in program[t] : printf(t, fmt)
       \/ NextItem(t) \/ Store(t) \/ StoreEnd(t) \/ sys_write(t)
  \/ Switch
  \/ \E fmt \in program[Kernel] : printk(fmt)

PrintfSpec == PrintfInit /\ [][PrintfNext]_printf_vars

-----------------------------------------------------------------------------
(* What a text has to be, told from the text: it is read, not computed.     *)

Value(ch) == CHOOSE v \in 0 .. 15 :
  IF v < 10 THEN ch = Numerals[v + 1]
  ELSE ch \in {digits({})[v + 1], digits({"SMALL"})[v + 1]}
Numeral(text, base) ==
  LET value[i \in 0 .. Len(text)] == IF i = 0 THEN 0 ELSE value[i - 1] * base + Value(text[i])
  IN value[Len(text)]

AllBlank(text) == \A i \in DOMAIN text : text[i] = " "

\* what the flags of an item and a width that is an argument ask for
Width(item) ==
  IF item.width = << >> THEN 0
  ELSE IF item.width[1] < 0 THEN - item.width[1] ELSE item.width[1]
LeftAligned(item) ==
  \/ "LEFT" \in item.flags
  \/ item.width # << >> /\ item.width[1] < 0

\* a signed number is its sign and its absolute value
Negative(item) == item.conv \in {"d", "i"} /\ item.arg < 0
Sign(item) ==
  IF Negative(item) THEN <<"-">>
  ELSE IF "PLUS" \in item.flags THEN <<"+">>
  ELSE IF "SPACE" \in item.flags THEN <<" ">> ELSE << >>
Prefix(item) ==
  CASE "SPECIAL" \in item.flags /\ item.conv = "o" -> <<"0">>
    [] "SPECIAL" \in item.flags /\ item.conv = "x" -> <<"0", "x">>
    [] "SPECIAL" \in item.flags /\ item.conv \in {"X", "p"} -> <<"0", "X">>
    [] OTHER -> << >>
Magnitude(item) ==
  IF item.conv \notin {"d", "i"} THEN item.arg % WORD
  ELSE IF item.arg < 0 THEN - item.arg ELSE item.arg

\* text has the width asked for, and blanks on the right side of what is in it
Aligned(item, text, inner) ==
  /\ Len(text) = Max2(Width(item), Len(inner))
  /\ LET blanks == Len(text) - Len(inner)
     IN IF LeftAligned(item)
        THEN text = inner \o SubSeq(text, Len(inner) + 1, Len(text))
               /\ AllBlank(SubSeq(text, Len(inner) + 1, Len(text)))
        ELSE AllBlank(SubSeq(text, 1, blanks)) /\ SubSeq(text, blanks + 1, Len(text)) = inner

Base(item) == IF item.conv = "o" THEN 8 ELSE IF item.conv \in {"x", "X", "p"} THEN 16 ELSE 10
Case(item) == IF item.conv = "x" THEN "SMALL" ELSE "CAPITAL"
Pointer(item) == item.conv = "p" /\ item.width = << >>

\* inner is sign, prefix, zeros and the digits of the argument: at least as many
\* digits as the precision says, and with the flag 0 as many as fill the width
IsNumber(item, text) ==
  \E before, after \in 0 .. Len(text) :
    LET inner == SubSeq(text, before + 1, Len(text) - after)
        head == Sign(item) \o Prefix(item)
        number_ == SubSeq(inner, Len(head) + 1, Len(inner))
        width == IF Pointer(item) THEN 8 ELSE Width(item)
        filled == ("ZEROPAD" \in item.flags \/ Pointer(item)) /\ ~ LeftAligned(item)
    IN /\ before + after <= Len(text) /\ Len(head) <= Len(inner)
       /\ SubSeq(inner, 1, Len(head)) = head
       /\ \A i \in DOMAIN number_ : number_[i] \in ToSet(digits({Case(item)}))
       /\ Numeral(number_, Base(item)) = Magnitude(item)
       /\ \E zeros \in 0 .. Len(number_) - 1 :
            LET least == Max2(Len(number_) - zeros, precision_of(item))
            IN /\ \A i \in 1 .. zeros : number_[i] = "0"
               /\ number_[zeros + 1] # "0" \/ zeros = Len(number_) - 1
               /\ Len(number_) = IF filled THEN Max2(least, width - Len(head)) ELSE least
       /\ AllBlank(SubSeq(text, 1, before)) /\ AllBlank(SubSeq(text, Len(text) - after + 1, Len(text)))
       /\ Len(text) = Max2(width, Len(inner))
       /\ IF LeftAligned(item) THEN before = 0 ELSE after = 0

IsText(item, text) ==
  CASE item.conv = "char" -> text = <<item.arg>>
    [] item.conv = "c" -> Aligned(item, text, <<item.arg>>)
    [] item.conv = "s" ->
         \E n \in 0 .. Len(item.arg) :
           /\ n = Len(item.arg) \/ n = precision_of(item)
           /\ item.precision # << >> => n <= precision_of(item)
           /\ Aligned(item, text, SubSeq(item.arg, 1, n))
    [] item.conv = "n" -> text = << >>
    [] item.conv \in {"%", "end"} -> text = <<"%">>
    [] item.conv = "?" -> text = <<"%", item.conv>>
    [] OTHER -> IsNumber(item, text)

\* Of which items nothing is asked: of negative numbers, of a '*' for a precision.
Exempt(item, kinds) ==
  \/ "sign" \in kinds /\ Negative(item)
  \/ "star" \in kinds /\ item.starred

\* text is one text for each item
Reads(fmt, text, kinds) ==
  LET ends[i \in 0 .. Len(fmt)] ==      \* where the text of item i may end
        IF i = 0 THEN {0}
        ELSE UNION {{n \in m .. Len(text) :
                       IsText(fmt[i], SubSeq(text, m + 1, n)) \/ Exempt(fmt[i], kinds)} : m \in ends[i - 1]}
  IN Len(text) \in ends[Len(fmt)]

\* nobody has stored into the buffer in the middle of it: no other printf has run, and
\* none can when a task has interrupts off
Undisturbed == shown.clean \/ shown.who \in Masked

\* An undisturbed printf shows what its format and arguments say - digits, sign, prefix,
\* zeros and blanks, to the width and precision asked for, and what is no conversion as it
\* is written - wherever the number is not negative and the precision is no '*'.
ShowsTheFormat == Undisturbed => Reads(shown.fmt, shown.text, {"sign", "star"})

\* vsprintf.c:59: a signed number less than 0 is shown as a minus sign and its absolute
\* value.  number() takes it as an unsigned long, which is never less than 0.
NegativesHaveASign == Undisturbed => Reads(shown.fmt, shown.text, {"star"})

\* However many tasks store into the buffer, the text has the length of its own
\* format, and every %n has stored the number of characters its own items before it have.
\* What printk has stored there is not kept.
CountsAreItsOwn ==
  /\ Len(shown.text) = Len(vsprintf(shown.fmt))
  /\ shown.who # Kernel =>
       shown.ip = {<<i, Len(vsprintf(SubSeq(shown.fmt, 1, i - 1)))>> :
                     i \in {j \in 1 .. Len(shown.fmt) : shown.fmt[j].conv = "n"}}

=============================================================================
