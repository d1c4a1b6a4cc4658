-------------------------------- MODULE Words --------------------------------
(***************************************************************************)
(* Amounts of money in words, core/words.go, and a reader that turns the   *)
(* words back into the amount.                                             *)
(*                                                                         *)
(* An integer part is the sequence of its groups of three digits, the      *)
(* lowest first, since the code counts them; mills are the thousandths     *)
(* after it.  A word is a record of its role and its number.               *)
(***************************************************************************)
EXTENDS Integers, Sequences

CONSTANT Computed   \* bound: the integer parts whose value TLC can compute with

Word(role, n) == [role |-> role, n |-> n]

\* Bound: six groups, a number below 10^18, fit an int64.
MaxGroups == 6

\* An amount of money: a sign, the groups of an integer part with no zeros in front, and
\* mills.  How they are rounded and what they are called depends on the rest.
Money == [groups : {g \in Seq(0..999) : Len(g) <= MaxGroups /\ (g # <<>> => g[Len(g)] # 0)},
          mills : 0..999, low : BOOLEAN, minus : BOOLEAN, currency : STRING,
          bengali : BOOLEAN]

Thousand == 1000
Lakh     == 100 * Thousand
Crore    == 100 * Lakh

\* The integer part, from its highest group on.
Value(groups) ==
    LET upto[i \in 0..Len(groups)] ==
            IF i = 0 THEN 0 ELSE upto[i - 1] * Thousand + groups[Len(groups) + 1 - i]
    IN  upto[Len(groups)]

------------------------------------------------------------------------------
(* English *)

\* Up to nineteen there is a word for every number; twenty to ninety are tens.
convertThreeDigitsEn(n) ==
    LET rest == n % 100
    IN  (IF n \div 100 > 0 THEN <<Word("number", n \div 100), Word("hundred", 0)>> ELSE <<>>)
        \o (IF rest = 0 THEN <<>>
            ELSE IF rest < 20 THEN <<Word("number", rest)>>
            ELSE <<Word("tens", rest \div 10)>>
                 \o (IF rest % 10 > 0 THEN <<Word("number", rest % 10)>> ELSE <<>>))

\* The scales end at "Trillion".
Scales == 4

\* A group of zeros has no words; one above the last scale indexes enScales out of its
\* range.
chunkStr(groups, i) ==
    IF groups[i] = 0 THEN <<>>
    ELSE convertThreeDigitsEn(groups[i])
         \o (IF i = 1 THEN <<>>
             ELSE <<Word(IF i - 1 <= Scales THEN "scale" ELSE "panic", i - 1)>>)

\* The words of each group go before those of the groups below it.
convertIntegerToEnWords(groups) ==
    LET parts[i \in 0..Len(groups)] ==
            IF i = 0 THEN <<>> ELSE chunkStr(groups, i) \o parts[i - 1]
    IN  parts[Len(groups)]

------------------------------------------------------------------------------
(* Bengali *)

\* Every number below a hundred has a word.  The crores are converted in turn.
convertIntegerToBnWords[n \in Nat] ==
    LET part(number, scale) ==
            IF number = 0 THEN <<>> ELSE <<Word("number", number), Word(scale, 0)>>
        crore == n \div Crore
        rest  == n % 100
    IN  (IF crore > 0 THEN convertIntegerToBnWords[crore] \o <<Word("crore", 0)>> ELSE <<>>)
        \o part((n % Crore) \div Lakh, "lakh")
        \o part((n % Lakh) \div Thousand, "thousand")
        \o part((n % Thousand) \div 100, "hundred")
        \o (IF rest > 0 THEN <<Word("number", rest)>> ELSE <<>>)

------------------------------------------------------------------------------
(* Amounts *)

\* Group k is the lowest that is not 999, or the one after all of them.
Rises(groups, k) ==
    /\ \A i \in 1..k - 1 : groups[i] = 999
    /\ k <= Len(groups) => groups[k] # 999

\* intPart++: that group goes up, the groups of 999 below it go back to 0.
Increment(groups) ==
    LET k == CHOOSE i \in 1..Len(groups) + 1 : Rises(groups, i)
    IN  [i \in 1..Len(groups) \cup {k} |->
            IF i < k THEN 0
            ELSE IF i > k THEN groups[i]
            ELSE IF i > Len(groups) THEN 1 ELSE groups[i] + 1]

\* math.Round of the hundredths.  Half a hundredth goes up, unless the float that
\* stands for it is below it: a.low says so.
Cents(a) == (a.mills + (IF a.mills % 10 = 5 /\ a.low THEN 4 ELSE 5)) \div 10

\* The units of a currency, singular or plural: all but these three are Taka, and
\* in Bengali all are.
Units(currency, bengali, many, manySub) ==
    CASE ~bengali /\ currency = "USD" -> <<IF many THEN "Dollars" ELSE "Dollar",
                                           IF manySub THEN "Cents" ELSE "Cent">>
      [] ~bengali /\ currency = "EUR" -> <<IF many THEN "Euros" ELSE "Euro",
                                           IF manySub THEN "Cents" ELSE "Cent">>
      [] ~bengali /\ currency = "GBP" -> <<IF many THEN "Pounds" ELSE "Pound", "Pence">>
      [] OTHER -> <<"Taka", "Paisa">>

\* Faulty variant, which nothing uses: without the carry into the integer part.
NumberToWordsUncarried(a) ==
    LET dec   == Cents(a) % 100
        int(groups) == IF a.bengali THEN convertIntegerToBnWords[Value(groups)]
                       ELSE convertIntegerToEnWords(groups)
        units == Units(a.currency, a.bengali, a.groups \notin {<<>>, <<1>>}, dec > 1)
    IN  [minus |-> a.minus, int |-> int(a.groups), dec |-> int(IF dec = 0 THEN <<>> ELSE <<dec>>),
         main |-> units[1], sub |-> units[2]]

\* The words of the amount a, as the parts between which the code writes "and" and
\* "Only".  An amount of zero is "Zero Taka Only".
NumberToWords(a) ==
    LET carry  == Cents(a) >= 100
        groups == IF carry THEN Increment(a.groups) ELSE a.groups
        dec    == Cents(a) % 100
        int(g) == IF a.bengali THEN convertIntegerToBnWords[Value(g)]
                  ELSE convertIntegerToEnWords(g)
        units  == Units(a.currency, a.bengali, groups \notin {<<>>, <<1>>}, dec > 1)
    IN  IF a.groups = <<>> /\ a.mills = 0
        THEN [minus |-> FALSE, int |-> <<Word("zero", 0)>>, dec |-> <<>>,
              main |-> "Taka", sub |-> ""]
        ELSE [minus |-> a.minus, int |-> int(groups),
              dec |-> int(IF dec = 0 THEN <<>> ELSE <<dec>>),
              main |-> units[1], sub |-> units[2]]

------------------------------------------------------------------------------
(* What is promised *)

\* What a reader makes of a word: numbers and tens are added up, a scale multiplies what
\* came since the one before it.  A crore multiplies all; an English scale ends a group.
Hear(s, w) ==
    LET to(sum) == [sum |-> sum, part |-> 0, at |-> s.at]
    IN  CASE w.role = "number"   -> [s EXCEPT !.part = @ + w.n]
          [] w.role = "tens"     -> [s EXCEPT !.part = @ + 10 * w.n]
          [] w.role = "hundred"  -> to(s.sum + s.part * 100)
          [] w.role = "thousand" -> to(s.sum + s.part * Thousand)
          [] w.role = "lakh"     -> to(s.sum + s.part * Lakh)
          [] w.role = "crore"    -> to((s.sum + s.part) * Crore)
          [] w.role = "scale"    -> [sum |-> 0, part |-> 0,
                                     at |-> [s.at EXCEPT ![w.n + 1] = s.sum + s.part]]
          [] OTHER               -> s

\* A reader goes through the words from the first to the last.
Read(start, words) ==
    LET heard[k \in 0..Len(words)] == IF k = 0 THEN start ELSE Hear(heard[k - 1], words[k])
    IN  heard[Len(words)]

Silence == [sum |-> 0, part |-> 0, at |-> [i \in 1..Scales + 1 |-> 0]]

\* The groups an English reader hears, and the number a Bengali reader hears.
ReadEn(words) ==
    LET end == Read(Silence, words) IN [end.at EXCEPT ![1] = end.sum + end.part]
ReadBn(words) ==
    LET end == Read(Silence, words) IN end.sum + end.part

\* The highest integer part that has words in English.
Highest == [i \in 1..Scales + 1 |-> 999]

\* The words say the amount to the nearest hundredth, with the carry from 0.995 on,
\* with the sign, and with a unit in the number that goes with it.  The exceptions:
\* from a thousand trillion on the English conversion panics; an amount that rounds
\* to zero has no number at all; zero is in Taka whatever the currency, as is all
\* Bengali, and every currency the code does not know, BDT among them.
WordsSayTheAmount(a, w) ==
    LET high  == \/ Len(a.groups) > Scales + 1
                 \/ Cents(a) >= 100 /\ a.groups = Highest
        none  == a.groups = <<>> /\ a.mills = 0
        heard(words) == IF a.bengali THEN ReadBn(words) ELSE Value(ReadEn(words))
        one(unit) == unit \in {"Dollar", "Euro", "Pound", "Cent"}
    IN  /\ (\E i \in DOMAIN w.int : w.int[i].role = "panic") <=> ~a.bengali /\ high
        /\ w.minus <=> a.minus /\ ~none
        /\ w.int \o w.dec = <<>> <=> a.groups = <<>> /\ Cents(a) = 0 /\ ~none
        /\ (w.main = "Taka") <=> \/ a.bengali \/ a.currency \notin {"USD", "EUR", "GBP"}
                                \/ none
        /\ a.groups \in Computed /\ (a.bengali \/ ~high) =>
              /\ heard(w.int) = Value(a.groups) + Cents(a) \div 100
              /\ heard(w.dec) = Cents(a) % 100
              /\ one(w.main) => heard(w.int) <= 1
              /\ one(w.sub) => heard(w.dec) <= 1
        /\ ~a.bengali /\ ~high /\ Cents(a) < 100 =>
              \A i \in 1..Scales + 1 :
                  ReadEn(w.int)[i] = IF i <= Len(a.groups) THEN a.groups[i] ELSE 0
==============================================================================
