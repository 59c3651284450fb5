----------------------------- MODULE MCConsole ------------------------------
EXTENDS Console, SequencesExt

CONSTANTS c1, c2, p1

MCCores == {c1, c2}
MCProcesses == {p1}
MCPrinters == {c1, c2, p1}

\* How a directive is spelled; min and max are given by "*" when star.
Spell(d, star) ==
  <<"%">> \o SetToSeq(d.flags)
          \o (IF d.min = 0 THEN <<>> ELSE IF star THEN <<"*">> ELSE Numeral(d.min, 10, Digits))
          \o (IF d.max < 0 THEN <<>>
              ELSE <<".">> \o (IF star THEN <<"*">> ELSE Numeral(d.max, 10, Digits)))
          \o <<d.conv>>

Given(d, star) ==
  (IF star /\ d.min # 0 THEN <<d.min>> ELSE <<>>)
  \o (IF star /\ d.max >= 0 THEN <<d.max>> ELSE <<>>) \o <<d.value>>

Directive == [conv : {"d", "i", "u", "x", "X", "o", "p"}, min : {0, 5}, max : {-1, 0, 3},
              flags : {{}, {"-"}, {"+"}, {" "}, {"0"}, {"+", "-"}, {"0", "+"}, {"0", "-"}},
              value : {-128, -1, 0, 7, 127}]
Fraction == [conv : {"f"}, min : {0, 8}, max : {-1, 0, 1, 2, 10},
             flags : {{}, {"-"}, {"+"}, {"0"}, {"0", "-"}, {"0", " "}},
             value : {-150, 0, 5, 50, 96, 125, 199}]
Text == [conv : {"s"}, min : {0, 4, 12}, max : {-1, 0, 2, 5}, flags : {{}, {"-"}},
         value : {<<>>, <<"a">>, <<"a", "b", "c">>}]

PrintOf(d, star) == [kind |-> "printf", fmt |-> Spell(d, star), args |-> Given(d, star),
                   items |-> <<d>>]

Idle == [p \in MCPrinters |-> <<>>]

\* One printer alone with every directive; %i and the lengths are fed by "*".
Alone == {[Idle EXCEPT ![c1] = <<PrintOf(d, d.conv = "i")>>] : d \in Directive}
         \cup {[Idle EXCEPT ![IF d.min = 0 THEN c1 ELSE p1] = <<PrintOf(d, FALSE)>>] : d \in Fraction}
         \cup {[Idle EXCEPT ![p1] = <<PrintOf(d, d.max = 2)>>] : d \in Text}

Item(conv, value) == [conv |-> conv, min |-> 0, max |-> -1, flags |-> {}, value |-> value]

\* Directives among text, one that is not printed, and one behind the limit.
Mixed == [kind |-> "printf",
          fmt |-> <<"a", "%", "%", "%", "h", "d", "%", "c", "%", "n", "%", "G", "%", "s", "b">>,
          args |-> <<-7, <<"z">>, <<"n">>, 99, <<"NUL">>>>,
          items |-> <<Item("%", 0), Item("d", -7), Item("c", <<"z">>), Item("n", 0),
                      Item("G", 99), Item("s", <<"<", "N", "U", "L", "L", ">">>)>>]
Odd == [kind |-> "printf", fmt |-> <<"%", "w", "q", "%", "y", "!", "%">>, args |-> <<>>,
        items |-> <<Item("w", 0), Item("y", 0)>>]
Long == [kind |-> "printf", fmt |-> <<"%", "s", "%", "u", "%", "u", "%", "u", "%", "x", "b">>,
         args |-> <<<<"a", "b", "c">>, 255, 31, 100, 255>>,
         items |-> <<Item("s", <<"a", "b", "c">>), Item("u", 255), Item("u", 31),
                     Item("u", 100), Item("x", 255)>>]

Short(ch, n) == [kind |-> "printf", fmt |-> <<ch, "%", "d">>, args |-> <<n>>,
                 items |-> <<Item("d", n)>>]
Copy == [kind |-> "copy", fmt |-> <<"x", "y", "z">>, args |-> <<>>, items |-> <<>>]

\* Debug::debug(): three messages in a row.
Together == {[p \in MCPrinters |-> IF p = c1 THEN <<Short("a", 1), Short("b", 2)>>
                                   ELSE IF p = c2 THEN <<Short("c", -3)>>
                                   ELSE <<Copy>>],
             [p \in MCPrinters |-> IF p = c1 THEN <<Short("a", 12)>>
                                   ELSE IF p = c2 THEN <<[Short("c", 3) EXCEPT !.kind = "panic"]>>
                                   ELSE <<Short("u", 4)>>]}

MCPlans == Alone \cup {[Idle EXCEPT ![p] = <<Mixed, Long, Odd>>] : p \in {c1, p1}}
           \cup Together
=============================================================================
