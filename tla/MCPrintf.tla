------------------------------ MODULE MCPrintf ------------------------------
(* A user task, its child and the test thread that print in the middle of each *)
(* other; or the test thread alone, with every mixture of flags, width and     *)
(* precision in one conversion.  Negative numbers also have programs of their  *)
(* own.                                                                        *)
EXTENDS Printf

CONSTANTS init, child, test, kernel

MCTask == {init, child, test}
MCMasked == {test}

Conversion(conv, flags, width, precision, arg) ==
  [conv |-> conv, flags |-> flags, width |-> width, precision |-> precision, arg |-> arg,
   starred |-> FALSE]
Plain(conv, arg) == Conversion(conv, {}, << >>, << >>, arg)

\* a * can be negative, digits cannot
Widths == {<< >>, <<3>>, <<6>>, <<-5>>}
Precisions == {<< >>, <<0>>, <<4>>}
Flag == {"LEFT", "PLUS", "SPACE", "SPECIAL", "ZEROPAD"}

Specs(convs, flags, args) ==
  {Conversion(c, f, w, p, a) : c \in convs, f \in flags, w \in Widths, p \in Precisions, a \in args}

\* one conversion between two characters, with %n before and after it
Framed(item) == <<Plain("char", "<"), Plain("n", 0), item, Plain("n", 0), Plain("char", ">")>>

AllSpecs ==
  Specs({"o", "p", "x", "X", "d", "u"}, SUBSET Flag, {0, 9, 2748})
    \cup Specs({"c"}, SUBSET {"LEFT", "ZEROPAD"}, {"a"})
    \cup Specs({"s"}, SUBSET {"LEFT", "ZEROPAD"}, {<< >>, <<"a", "b", "c">>})
    \cup {Plain(c, 0) : c \in {"%", "?"}}

\* %d and %i of negative numbers, and conversions whose precision is a *
Negatives == Specs({"d", "i"}, {{}, {"PLUS"}, {"ZEROPAD"}}, {-1, -9})
Starred ==
  {[item EXCEPT !.starred = TRUE] :
     item \in {i \in Specs({"u"}, {{}}, {9}) \cup Specs({"s"}, {{}}, {<<"a", "b">>}) : i.precision # << >>}}

Nobody == [t \in MCTask \cup {kernel} |-> {}]
Lines == {Framed(item) : item \in AllSpecs \cup Negatives \cup Starred} \cup {<<Plain("char", "<"), Plain("end", 0)>>}
OneOf(lines) == {[Nobody EXCEPT ![test] = {line}] : line \in lines}

\* the lines of init, its child and test, cut short, with a number of two digits
\* and one, -1, that has five
Together ==
  [Nobody EXCEPT ![init] = {<<Plain("char", "p"), Plain("d", 12)>>},
                 ![child] = {<<Plain("s", <<"c">>), Plain("n", 0), Plain("d", -1)>>},
                 ![test] = {<<Plain("x", 171)>>},
                 ![kernel] = {<<Plain("char", "k")>>}]

MCPrograms == OneOf(Lines) \cup {Together}
MCNegatives == OneOf({Framed(item) : item \in Negatives})

MCChar == {"NUL", " ", "+", "%", "?", "*", "<", ">", "k", "s", "o", "p", "x", "i", "u", "X"} \cup ToSet(Numerals)
            \cup {"a", "b", "c", "d", "e", "f", "A", "B", "C", "D", "E", "F"}
=============================================================================
