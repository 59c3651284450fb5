------------------------------- MODULE Printf -------------------------------
(***************************************************************************)
(* The conversions of kernel/snprintf.cc, as functions that return the     *)
(* characters they put, and its scanner dopr() as a machine that walks     *)
(* through a format.  t0.dir/sbin/printf.c is a copy of the same code with *)
(* another output function: both kinds of printer run this machine.        *)
(*                                                                         *)
(* A character is a string of length 1.  A directive is a record of what   *)
(* the caller wrote and passed; only its spelling is known to the machine, *)
(* the rest is there for the properties.                                   *)
(***************************************************************************)
EXTENDS Integers, Sequences

CONSTANTS Printers,   \* whoever may be in dopr()
          MaxLen,     \* maxlen of snprintf() (1000 in both callers)
          WordBits    \* the width of a long

ASSUME PrintfAssumption == MaxLen \in Nat \ {0} /\ WordBits \in Nat \ {0}

VARIABLES scan,      \* scan[p]: the locals of p's dopr()
          console    \* what the serial line has shown, by whom and in which call

Word(n) == n % 2^WordBits

Larger(m, n) == IF m >= n THEN m ELSE n

Rep(n, ch) == [i \in 1..n |-> ch]

Digits == <<"0", "1", "2", "3", "4", "5", "6", "7", "8", "9",
            "a", "b", "c", "d", "e", "f">>
Capitals == <<"0", "1", "2", "3", "4", "5", "6", "7", "8", "9",
              "A", "B", "C", "D", "E", "F">>

\* The loops that fill convert[] from the last digit to the first.
Numeral(n, base, table) ==
  LET numeral[m \in Nat] ==
        IF m < base THEN <<table[m + 1]>>
        ELSE Append(numeral[m \div base], table[(m % base) + 1])
  IN  numeral[n]

\* The sign of fmtint() and fmtfp(), which may be a plus or a blank.
SignOf(negative, flags) ==
  IF negative THEN <<"-">>
  ELSE IF "+" \in flags THEN <<"+">>
  ELSE IF " " \in flags THEN <<" ">> ELSE <<>>

\* n blanks on the side that the flag "-" chooses.
Padded(n, text, flags) ==
  IF "-" \in flags THEN text \o Rep(n, " ") ELSE Rep(n, " ") \o text

-----------------------------------------------------------------------------
(* fmtstr(): blanks count as part of the precision.                        *)

\* Mutant: the blanks are not counted.
FmtStrBlanksFree(value, min, max, flags) ==
  Padded(min - Len(value),
         SubSeq(value, 1, IF Len(value) < max THEN Len(value) ELSE max), flags)

FmtStr(value, min, max, flags) ==
  LET whole == Padded(min - Len(value), value, flags)
  IN  SubSeq(whole, 1, IF Len(whole) < max THEN Len(whole) ELSE max)

-----------------------------------------------------------------------------
(* fmtint() *)

IsNegative(value, flags) == "unsigned" \notin flags /\ value < 0

\* Mutant: uvalue is not negated when the sign is noted.
IntDigitsOfWord(value, base, flags) ==
  Numeral(Word(value), base, IF "up" \in flags THEN Capitals ELSE Digits)

IntDigits(value, base, flags) ==
  Numeral(Word(IF IsNegative(value, flags) THEN -value ELSE value), base,
          IF "up" \in flags THEN Capitals ELSE Digits)

\* With the flag "0" the blanks become zeros, but no more than they were.
FmtInt(value, base, min, max, flags) ==
  LET digits == IntDigits(value, base, flags)
      sign   == IF "unsigned" \in flags THEN <<>>
                ELSE SignOf(IsNegative(value, flags), flags)
      zeros  == Larger(max - Len(digits), 0)
      blanks == Larger(min - Larger(max, Len(digits)) - Len(sign), 0)
  IN  IF "0" \in flags THEN sign \o Rep(Larger(zeros, blanks), "0") \o digits
      ELSE Padded(blanks, sign \o Rep(zeros, "0") \o digits, flags)

-----------------------------------------------------------------------------
(* fmtfp(): value is in hundredths.  It prints at most 9 places, and 6     *)
(* when no precision is given.  The zeros that the fraction lacks are put  *)
(* behind its digits, although they belong before them.                    *)

\* Mutant: the conversion to an integer cuts off.
RoundedDown(f, places) ==
  IF places >= 2 THEN f * 10^(places - 2) ELSE f \div 10^(2 - places)

\* xround(pow10(places) * f / 100)
Rounded(f, places) ==
  IF places >= 2 THEN f * 10^(places - 2)
  ELSE (f + 10^(2 - places) \div 2) \div 10^(2 - places)

FmtFp(value, min, precision, flags) ==
  LET max    == IF precision < 0 THEN 6 ELSE IF precision > 9 THEN 9 ELSE precision
      amount == IF value < 0 THEN -value ELSE value
      sign   == SignOf(value < 0, flags)
      round  == Rounded(amount % 100, max)
      carry  == IF round >= 10^max THEN 1 ELSE 0
      whole  == Numeral(amount \div 100 + carry, 10, Digits)
      part   == Numeral(round - carry * 10^max, 10, Digits)
      digits == whole \o (IF max > 0 THEN <<".">> \o part ELSE <<>>)
                      \o Rep(max - Len(part), "0")
      fill   == Larger(min - Len(whole) - max - 1 - Len(sign), 0)
  IN  IF "0" \in flags /\ "-" \notin flags /\ fill > 0
      THEN sign \o Rep(fill - Len(sign), "0") \o digits
      ELSE Padded(fill, sign \o digits, flags)

-----------------------------------------------------------------------------
(* dopr(): one action for a state of the scanner.  pend holds characters   *)
(* of a conversion that are not yet put; piece is the whole last one and   *)
(* nth the number of directives converted, for the properties, as is call. *)

ScanStates == {"DEFAULT", "FLAGS", "MIN", "DOT", "MAX", "MOD", "CONV"}

Fresh == [fmt |-> <<>>, args |-> <<>>, call |-> 0, pos |-> 1, state |-> "DEFAULT",
          min |-> 0, max |-> -1, flags |-> {}, currlen |-> 0,
          pend |-> <<>>, piece |-> <<>>, nth |-> 0, noted |-> -1]

\* snprintf() and vsnprintf(): p's next call of dopr().
Begin(p, format, arguments) ==
  scan' = [scan EXCEPT ![p] = [Fresh EXCEPT !.fmt = format, !.args = arguments,
                                            !.call = scan[p].call + 1]]

\* ch: the character that the format pointer has just passed.
Ch(p) == IF scan[p].pos <= Len(scan[p].fmt) THEN scan[p].fmt[scan[p].pos] ELSE "NUL"

Reading(p, state) ==
  /\ scan[p].state = state
  /\ scan[p].pend = <<>>
  /\ scan[p].currlen < MaxLen
  /\ Ch(p) # "NUL"
  /\ UNCHANGED console

\* The loop ends at the end of the format or when maxlen is reached.
Finished(p) ==
  /\ scan[p].pend = <<>>
  /\ Ch(p) = "NUL" \/ scan[p].currlen >= MaxLen

\* dopr_outch(): one character to the sink.
Put(p) ==
  /\ scan[p].pend # <<>>
  /\ console' = Append(console, [by |-> p, call |-> scan[p].call, ch |-> Head(scan[p].pend)])
  /\ scan' = [scan EXCEPT ![p].pend = Tail(@), ![p].currlen = @ + 1]

ReadText(p) ==
  /\ Reading(p, "DEFAULT")
  /\ scan' = IF Ch(p) = "%"
             THEN [scan EXCEPT ![p].pos = @ + 1, ![p].state = "FLAGS"]
             ELSE [scan EXCEPT ![p].pos = @ + 1, ![p].pend = <<Ch(p)>>]

ReadFlags(p) ==
  /\ Reading(p, "FLAGS")
  /\ scan' = IF Ch(p) \in {"-", "+", " ", "#", "0"}
             THEN [scan EXCEPT ![p].pos = @ + 1, ![p].flags = @ \cup {Ch(p)}]
             ELSE [scan EXCEPT ![p].state = "MIN"]

IsDigit(ch) == \E d \in 1..10 : Digits[d] = ch
CharToInt(ch) == (CHOOSE d \in 1..10 : Digits[d] = ch) - 1

ReadMin(p) ==
  /\ Reading(p, "MIN")
  /\ scan' = IF IsDigit(Ch(p))
             THEN [scan EXCEPT ![p].pos = @ + 1, ![p].min = 10 * @ + CharToInt(Ch(p))]
             ELSE IF Ch(p) = "*"
             THEN [scan EXCEPT ![p].pos = @ + 1, ![p].min = Head(scan[p].args),
                               ![p].args = Tail(@), ![p].state = "DOT"]
             ELSE [scan EXCEPT ![p].state = "DOT"]

ReadDot(p) ==
  /\ Reading(p, "DOT")
  /\ scan' = IF Ch(p) = "."
             THEN [scan EXCEPT ![p].pos = @ + 1, ![p].state = "MAX"]
             ELSE [scan EXCEPT ![p].state = "MOD"]

ReadMax(p) ==
  /\ Reading(p, "MAX")
  /\ scan' = IF IsDigit(Ch(p))
             THEN [scan EXCEPT ![p].pos = @ + 1,
                               ![p].max = 10 * Larger(@, 0) + CharToInt(Ch(p))]
             ELSE IF Ch(p) = "*"
             THEN [scan EXCEPT ![p].pos = @ + 1, ![p].max = Head(scan[p].args),
                               ![p].args = Tail(@), ![p].state = "MOD"]
             ELSE [scan EXCEPT ![p].state = "MOD"]

\* int and long have the same width, and a short is passed as an int.
ReadMod(p) ==
  /\ Reading(p, "MOD")
  /\ scan' = IF Ch(p) \in {"h", "l", "L"}
             THEN [scan EXCEPT ![p].pos = @ + 1, ![p].state = "CONV"]
             ELSE [scan EXCEPT ![p].state = "CONV"]

\* The end of the case DP_S_CONV: the scanner starts afresh behind the
\* directive, of which text are the characters to put.
After(p, text, used, skip) ==
          [scan EXCEPT ![p].pos = @ + 1 + skip, ![p].state = "DEFAULT",
                       ![p].min = 0, ![p].max = -1, ![p].flags = {},
                       ![p].args = SubSeq(@, used + 1, Len(@)),
                       ![p].pend = text, ![p].piece = text, ![p].nth = @ + 1]

Base(ch) == IF ch \in {"d", "i", "u"} THEN 10 ELSE IF ch = "o" THEN 8 ELSE 16

ConvFlags(p) == scan[p].flags \cup (IF Ch(p) = "X" THEN {"up"} ELSE {})
                              \cup (IF Ch(p) \in {"o", "u", "x", "X"} THEN {"unsigned"} ELSE {})

ConvertInt(p) ==
  /\ Reading(p, "CONV")
  /\ Ch(p) \in {"d", "i", "o", "u", "x", "X", "p"}
  /\ scan' = After(p, FmtInt(Head(scan[p].args), Base(Ch(p)), scan[p].min, scan[p].max,
                         ConvFlags(p)), 1, 0)

ConvertFp(p) ==
  /\ Reading(p, "CONV")
  /\ Ch(p) = "f"
  /\ scan' = After(p, FmtFp(Head(scan[p].args), scan[p].min, scan[p].max, scan[p].flags), 1, 0)

\* A null pointer is shown as <NULL>; no precision means maxlen.
ConvertStr(p) ==
  /\ Reading(p, "CONV")
  /\ Ch(p) = "s"
  /\ LET s == Head(scan[p].args)
     IN  scan' = After(p, FmtStr(IF s = <<"NUL">> THEN <<"<", "N", "U", "L", "L", ">">> ELSE s,
                             scan[p].min, IF scan[p].max < 0 THEN MaxLen ELSE scan[p].max,
                             scan[p].flags), 1, 0)

\* %c and %%; the widths are not looked at.
ConvertChar(p) ==
  /\ Reading(p, "CONV")
  /\ \/ Ch(p) = "c" /\ scan' = After(p, Head(scan[p].args), 1, 0)
     \/ Ch(p) = "%" /\ scan' = After(p, <<"%">>, 0, 0)

\* Exponents are taken from the arguments and not printed.
ConvertExponent(p) ==
  /\ Reading(p, "CONV")
  /\ Ch(p) \in {"e", "E", "g", "G"}
  /\ scan' = After(p, <<>>, 1, 0)

\* %n stores how much has been put, %w skips a character (a format that ends here
\* is read past its end), and what is unknown is ignored.
ConvertNothing(p) ==
  /\ Reading(p, "CONV")
  /\ \/ Ch(p) = "n" /\ scan' = [After(p, <<>>, 1, 0) EXCEPT ![p].noted = scan[p].currlen]
     \/ Ch(p) = "w" /\ scan' = After(p, <<>>, 0, 1)
     \/ /\ Ch(p) \notin {"d", "i", "o", "u", "x", "X", "p", "f", "s", "c", "n", "%",
                         "e", "E", "g", "G", "w"}
        /\ scan' = After(p, <<>>, 0, 0)

Scan(p) == \/ ReadText(p) \/ ReadFlags(p) \/ ReadMin(p) \/ ReadDot(p) \/ ReadMax(p) \/ ReadMod(p)
           \/ ConvertInt(p) \/ ConvertFp(p) \/ ConvertStr(p) \/ ConvertChar(p)
           \/ ConvertExponent(p) \/ ConvertNothing(p)

Dopr(p) == Scan(p) \/ Put(p)
=============================================================================
