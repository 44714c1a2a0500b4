----------------------------- MODULE Preferences -----------------------------
(***************************************************************************)
(* The preferences file (masterd/core.cc): how a line is taken apart, what *)
(* the lines of a file set, and the file that is written when there is     *)
(* none.                                                                   *)
(*                                                                         *)
(* A line is a sequence of characters.  The name of a setting is a single  *)
(* one, the same in upper and in lower case, and a blank is a space.       *)
(***************************************************************************)
EXTENDS Integers, Sequences

CONSTANT Decimal        \* the digits of the numbers a file may have

Digit == {"0", "1", "2", "3", "4", "5", "6", "7", "8", "9"}

\* A number has digits, which are no other number's.
ASSUME DecimalAssumption == /\ DOMAIN Decimal \subseteq Nat
                            /\ \A n \in DOMAIN Decimal : Decimal[n] \in Seq(Digit) \ {<<>>}
                            /\ \A m, n \in DOMAIN Decimal : Decimal[m] = Decimal[n] => m = n

\* The settings LoadPrefs limits that others depend on.
Setting == {"port", "heartbeat"}

Blank == {" "}

FirstOf(places) == CHOOSE k \in places : \A j \in places : k <= j

-----------------------------------------------------------------------------
(***************************************************************************)
(* A line                                                                  *)
(***************************************************************************)

\* The places strtrim ends the text at: the last, the third last, and so on, as
\* long as there are blanks in all of these.  It does not look at those between.
EndsAt(str) ==
    {k \in 2 .. Len(str) : /\ (Len(str) - k) % 2 = 0
                           /\ \A j \in k .. Len(str) :
                                  (Len(str) - j) % 2 = 0 => str[j] \in Blank}

TrimBack(str) == IF EndsAt(str) = {} THEN str
                 ELSE SubSeq(str, 1, FirstOf(EndsAt(str)) - 1)

\* The loop goes on to the place before the line when those it looks at in the
\* line are all blanks and the first is not one of them: its counter passes 0.
\* There is no more text to end, but a blank that lies there is cleared, and so
\* are those that lie at every second place before it.
Underflows(str) == /\ str # <<>> /\ Len(str) % 2 = 0
                   /\ \A k \in DOMAIN str : k % 2 = 0 => str[k] \in Blank

Text(str) == {k \in DOMAIN str : str[k] \notin Blank}

TrimFront(str) == IF Text(str) = {} THEN <<>>
                  ELSE SubSeq(str, FirstOf(Text(str)), Len(str))

strtrim(line) == TrimFront(TrimBack(line))

IsVariable(line) == strtrim(line) # <<>> /\ Head(strtrim(line)) = "$"

\* The blanks strnextfield looks for.  Without any there is no value, which is
\* not the same as an empty one.
Gap(str) == DOMAIN str \ Text(str)

HasValue(line) == Gap(strtrim(line)) # {}

Name(line) == LET str == strtrim(line)
              IN  SubSeq(str, 2, IF HasValue(line) THEN FirstOf(Gap(str)) - 1 ELSE Len(str))

\* Quotes are dropped wherever they are.
strprocfieldvalue(str) ==
    LET out[n \in 0 .. Len(str)] == IF n = 0 THEN <<>>
                                    ELSE IF str[n] = "\"" THEN out[n - 1]
                                    ELSE Append(out[n - 1], str[n])
    IN  out[Len(str)]

\* Blanks at the end are kept.
Value(line) == LET str == strtrim(line)
               IN  strprocfieldvalue(TrimFront(SubSeq(str, FirstOf(Gap(str)), Len(str))))

Sets(line, s) == IsVariable(line) /\ Name(line) = <<s>>

\* The number a text begins with, behind blanks, or 0.  None is above 32 bits.
Begins(text, n) == /\ Len(Decimal[n]) <= Len(text)
                   /\ SubSeq(text, 1, Len(Decimal[n])) = Decimal[n]

strtoul(text) ==
    LET number  == TrimFront(text)
        longest == {n \in DOMAIN Decimal :
                      /\ Begins(number, n)
                      /\ \A m \in DOMAIN Decimal :
                           Begins(number, m) => Len(Decimal[m]) <= Len(Decimal[n])}
    IN  IF longest = {} THEN 0 ELSE CHOOSE n \in longest : TRUE

-----------------------------------------------------------------------------
(***************************************************************************)
(* A file, as the sequence of its lines                                    *)
(***************************************************************************)

\* A setting without a value: strtoul and strlen are given NULL.
EndsProcess(lines) ==
    \E k \in DOMAIN lines : \E s \in Setting : Sets(lines[k], s) /\ ~HasValue(lines[k])

\* A name that is unknown: the warning prints an argument it is not given.
MayEndProcess(lines) ==
    \/ EndsProcess(lines)
    \/ \E k \in DOMAIN lines :
         IsVariable(lines[k]) /\ \A s \in Setting : Name(lines[k]) # <<s>>

\* The last line that sets a setting counts; those that none sets stay.
Read(prefs, lines) ==
    [s \in Setting |->
       LET at == {k \in DOMAIN lines : Sets(lines[k], s)}
       IN  IF at = {} THEN prefs[s]
           ELSE strtoul(Value(lines[CHOOSE k \in at : \A j \in at : j <= k]))]

\* A line that has strtrim write before the buffer, if a blank lies there.
LooksBefore(lines) == \E k \in DOMAIN lines : Underflows(lines[k])

\* Fault for CreatedIsRead: a blank ends the line.
WrittenSpaced(s, prefs) == <<"$", s, " ">> \o Decimal[prefs[s]] \o <<" ">>

\* The line of a setting.
Written(s, prefs) == <<"$", s, " ">> \o Decimal[prefs[s]]

\* The line of a description, and that of an empty line in it.
Remark == <<"#", " ", "t">>
BareRemark == <<"#", " ">>

\* The header, then each setting below its description.  Of the settings that
\* are left out it is the descriptions that stay, with their empty lines: the
\* verbosity's and that of flood control have some.
CreatePrefs(prefs) ==
    << Remark, <<>>,
       Remark, Written("port", prefs), <<>>,
       Remark, Written("heartbeat", prefs), <<>>,
       Remark, BareRemark, Remark >>

=============================================================================
