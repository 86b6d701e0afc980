------------------------------ MODULE Amounts ------------------------------
(***************************************************************************)
(* The one number among the strings: an amount is typed as a text, sent as *)
(* a double, stored as a decimal and shown as a text again; and the checks *)
(* of the request, made by the page and made again by the server.          *)
(*                                                                         *)
(* public/app.js: validate, normalizeDecimal, asPlainDecimal, splitAmount; *)
(* src/validation.ts: parseWithdrawal. A double is a mantissa of Precision *)
(* bits and an exponent, as IEEE-754 has them with more of each: gradual   *)
(* underflow, ties to even, infinity. Decimals are counted in units of the *)
(* last of Places places, of which every double here is a multiple.        *)
(***************************************************************************)
EXTENDS Integers, Sequences, FiniteSetsExt, SequencesExt

CONSTANTS
    Digits,         \* bound: the digits that are typed
    MaxLength,      \* bound: how many symbols are typed
    MaxWhole,       \* bound: how many of them before the dot
    Places,         \* bound: decimal places that are told apart
    Precision,      \* bits of a mantissa, 53 in a double
    MinExp, MaxExp, \* the exponents of a mantissa's last bit
    MaxFraction,    \* maximumFractionDigits, 20 in asPlainDecimal
    TailFit         \* how many digits after the second fit the cell, 4

ASSUME AmountsAssumption ==
    /\ Digits \subseteq 0..9
    /\ MaxLength \in Nat /\ MaxWhole \in Nat /\ Precision \in Nat \ {0}
    /\ Places \in Nat /\ MaxFraction \in 0..Places
    /\ MinExp \in -Places..0 /\ MaxExp \in Nat
    /\ TailFit \in Nat \ {0}

\* A text is a sequence of digits and of these.
Dot == 10
Sign == 11      \* a symbol no amount has: a sign, an exponent, a letter
Comma == 12
Ellipsis == 13
Infinite == -1  \* as a double

VARIABLES
    text,       \* what stands in the field `amount`
    stage,      \* "typing", "refused" by the page for the amount or "misaddressed"
                \* for the address alone, "sent", "rejected" by the server, "stored"
    amount,     \* the double of the request, then the decimal of the row
    dest        \* the destination as it is sent

vars == <<text, stage, amount, dest>>

Networks == {"TRC20", "ERC20"}

\* An address by the network whose pattern it has, if any, and whether there
\* are blanks around it.
Addresses == [form : Networks \cup {"other"}, blanks : BOOLEAN]
Dests == [network : Networks, address : Addresses]
NoDest == [network |-> "none"]

-----------------------------------------------------------------------------
\* Texts.
IsDigit(c) == c \in 0..9
Count(s, c) == Cardinality({i \in DOMAIN s : s[i] = c})

\* The two halves of split('.')
Whole(s) == IF Count(s, Dot) = 0 THEN s ELSE SubSeq(s, 1, SelectInSeq(s, LAMBDA c : c = Dot) - 1)
Fraction(s) == IF Count(s, Dot) = 0 THEN <<>> ELSE SubSeq(s, SelectInSeq(s, LAMBDA c : c = Dot) + 1, Len(s))

\* /^\d*\.?\d*$/ and /\d/
PlainDecimal(s) ==
    /\ \A i \in DOMAIN s : IsDigit(s[i]) \/ s[i] = Dot
    /\ Count(s, Dot) <= 1
    /\ \E i \in DOMAIN s : IsDigit(s[i])

\* What stays of a text without its outer zeros
Significant(s) == {i \in DOMAIN s : s[i] # 0}
TrimStart(s) == IF Significant(s) = {} THEN <<>> ELSE SubSeq(s, Min(Significant(s)), Len(s))
TrimEnd(s) == IF Significant(s) = {} THEN <<>> ELSE SubSeq(s, 1, Max(Significant(s)))

WithFraction(whole, fraction) ==
    IF fraction = <<>> THEN whole ELSE whole \o <<Dot>> \o fraction

\* Fault variant: the fraction is trimmed as the whole part is.
NormalizeDecimalLeft(s) ==
    LET whole == TrimStart(Whole(s))
    IN  WithFraction(IF whole = <<>> THEN <<0>> ELSE whole, TrimStart(Fraction(s)))

\* normalizeDecimal
NormalizeDecimal(s) ==
    LET whole == TrimStart(Whole(s))
    IN  WithFraction(IF whole = <<>> THEN <<0>> ELSE whole, TrimEnd(Fraction(s)))

-----------------------------------------------------------------------------
\* Values, in units. (The provers know nothing of ^, hence Power.)
Power(b, k) == LET p[n \in 0..k] == IF n = 0 THEN 1 ELSE b * p[n - 1] IN p[k]
Tens(k) == Power(10, k)

Numeral(s) == FoldLeft(LAMBDA n, d : 10 * n + d, 0, s)
Value(s) == Numeral(Whole(s)) * Tens(Places) + Numeral(Fraction(s)) * Tens(Places - Len(Fraction(s)))

\* n in decimal, without leading zeros; and w digits wide
Written(n) == LET w[m \in 0..n] == IF m = 0 THEN <<>> ELSE Append(w[m \div 10], m % 10) IN w[n]
Padded(n, w) == [i \in 1..w |-> (n \div Tens(w - i)) % 10]

\* The shortest text of a value: no sign, no outer zeros, no exponent.
Decimal(v) ==
    LET whole == v \div Tens(Places)
    IN  WithFraction(IF whole = 0 THEN <<0>> ELSE Written(whole),
                     TrimEnd(Padded(v % Tens(Places), Places)))

-----------------------------------------------------------------------------
\* Doubles, by their values.
Double(m, e) == IF e >= 0 THEN m * Power(2, e) * Tens(Places) ELSE (m * Tens(Places)) \div Power(2, -e)

Mantissas(e) == (IF e = MinExp THEN 0 ELSE Power(2, Precision - 1))..Power(2, Precision) - 1
Doubles == UNION {{Double(m, e) : m \in Mantissas(e)} : e \in MinExp..MaxExp}

\* Those with the last bit of the mantissa clear are taken in a tie.
Evens == UNION {{Double(m, e) : m \in {n \in Mantissas(e) : n % 2 = 0}} : e \in MinExp..MaxExp}

\* Half a step beyond the largest double there is only infinity.
Largest == Max(Doubles)
Overflow == Largest + (Double(1, MaxExp) + 1) \div 2

\* Number(text)
Nearest(v) ==
    IF v >= Overflow THEN Infinite
    ELSE LET below == Max({d \in Doubles : d <= v})
             above == Min({d \in Doubles : d >= v} \cup {Largest})
         IN  CASE v - below < above - v -> below
               [] v - below > above - v -> above
               [] OTHER -> IF below \in Evens THEN below ELSE above

\* String(d): the decimal of fewest digits that is read as d, and of those the
\* nearest to d.
Shortest == [d \in Doubles |->
    LET Around(step) == {(d \div step) * step, (d \div step + 1) * step}
        Read(step) == {v \in Around(step) : Nearest(v) = d}
        step == Max({Tens(k) : k \in {k \in 0..Places \cup 0..Len(Written(d)) : Read(Tens(k)) # {}}})
        Far(v) == IF v > d THEN v - d ELSE d - v
    IN  CHOOSE v \in Read(step) : \A w \in Read(step) : Far(v) <= Far(w)]

\* Fault variant: as many digits as there are.
AsPlainDecimalExact(d) == IF d = Infinite THEN <<Sign>> ELSE Decimal(d)

\* asPlainDecimal: toLocaleString, which cuts a longer fraction to MaxFraction
\* digits, half up.
AsPlainDecimal(d) ==
    LET last == Tens(Places - MaxFraction)
    IN  IF d = Infinite THEN <<Sign>> ELSE Decimal(((Shortest[d] + last \div 2) \div last) * last)

-----------------------------------------------------------------------------
\* Fault variant: whether the number survives the trip is not asked.
ValidateReadable(s) == PlainDecimal(s) /\ Nearest(Value(s)) # 0

\* validate: the amount
Validate(s) ==
    /\ PlainDecimal(s)
    /\ Nearest(Value(s)) # 0
    /\ NormalizeDecimal(s) = NormalizeDecimal(AsPlainDecimal(Nearest(Value(s))))

\* Every third digit from the right has a comma before it.
Grouped(s) ==
    FoldLeft(LAMBDA out, i : Append(IF i > 1 /\ (Len(s) - i + 1) % 3 = 0 THEN Append(out, Comma) ELSE out, s[i]),
             <<>>, [i \in 1..Len(s) |-> i])

UpTo(s, n) == SubSeq(s, 1, IF Len(s) < n THEN Len(s) ELSE n)

\* Fault variant: an elided tail is not marked.
SplitAmountUnmarked(s) ==
    [int  |-> Grouped(Whole(s)), sent |-> UpTo(Fraction(s), 2),
     pad  |-> [i \in 1..2 - Len(UpTo(Fraction(s), 2)) |-> 0],
     tail |-> UpTo(SubSeq(Fraction(s), 3, Len(Fraction(s))), TailFit)]

\* splitAmount of a balance or an amount the server sent
SplitAmount(s) ==
    LET rest == SubSeq(Fraction(s), 3, Len(Fraction(s)))
    IN  [int  |-> Grouped(Whole(s)), sent |-> UpTo(Fraction(s), 2),
         pad  |-> [i \in 1..2 - Len(UpTo(Fraction(s), 2)) |-> 0],
         tail |-> IF Len(rest) > TailFit THEN UpTo(rest, TailFit - 1) \o <<Ellipsis>> ELSE rest]

-----------------------------------------------------------------------------
Init ==
    /\ text = <<>>
    /\ stage = "typing"
    /\ amount = 0
    /\ dest = NoDest

\* Bound: numbers this small and this large; after a Sign nothing else matters.
Typed(s) ==
    /\ Len(s) <= MaxLength
    /\ Len(Whole(s)) <= MaxWhole /\ Len(Fraction(s)) <= Places
    /\ s # <<>> => ~Contains(Front(s), Sign)

Type(c) ==
    /\ stage \in {"typing", "refused", "misaddressed"}
    /\ text' = Append(text, c)
    /\ Typed(text')
    /\ stage' = "typing"
    /\ UNCHANGED <<amount, dest>>

\* Fault variant: what is sent is not trimmed.
TrimmedNot(address) == address

\* The address that is tried is the one that is sent.
Trimmed(address) == [address EXCEPT !.blanks = FALSE]

\* submit up to the request: the amount, then the address against the network
\* selected. Only when both are good is anything sent.
Submit ==
    /\ stage = "typing"
    /\ \/ ~Validate(text) /\ stage' = "refused" /\ UNCHANGED <<amount, dest>>
       \/ /\ Validate(text)
          /\ \E d \in Dests :
                IF Trimmed(d.address).form = d.network
                THEN /\ stage' = "sent"
                     /\ amount' = Nearest(Value(text))
                     /\ dest' = [d EXCEPT !.address = Trimmed(d.address)]
                ELSE stage' = "misaddressed" /\ UNCHANGED <<amount, dest>>
    /\ UNCHANGED text

\* parseWithdrawal: a finite number above 0 (infinity is no JSON) and an address
\* of the network as it stands. Stored is the decimal String() has for the number.
Parse ==
    /\ stage = "sent"
    /\ IF /\ amount # Infinite /\ amount > 0
          /\ dest.address = [form |-> dest.network, blanks |-> FALSE]
       THEN stage' = "stored" /\ amount' = Shortest[amount]
       ELSE stage' = "rejected" /\ UNCHANGED amount
    /\ UNCHANGED <<text, dest>>

Next == (\E c \in Digits \cup {Dot, Sign} : Type(c)) \/ Submit \/ Parse

Spec == Init /\ [][Next]_vars

-----------------------------------------------------------------------------
\* Every variable keeps its type; infinity is never sent.
TypeOK ==
    /\ text \in BoundedSeq(Digits \cup {Dot, Sign}, MaxLength)
    /\ stage \in {"typing", "refused", "misaddressed", "sent", "rejected", "stored"}
    /\ amount \in Nat
    /\ dest \in Dests \cup {NoDest}

\* app.js:339-341, 12-13: "the number we are about to send is exactly the number
\* that was typed", and the row holds it.
StoredIsTyped == stage = "stored" => amount = Value(text)

\* app.js:339: "Everything the server would reject, caught here first".
CaughtHereFirst == stage # "rejected"

\* app.js:353-356: what is refused for its digits would have been another amount,
\* or has digits beyond MaxFraction; "trailing zeros are fine".
ExactIsSent ==
    (stage = "refused" /\ PlainDecimal(text) /\ Value(text) > 0) =>
        \/ Nearest(Value(text)) = Infinite
        \/ Shortest[Nearest(Value(text))] # Value(text)
        \/ Value(text) % Tens(Places - MaxFraction) # 0

\* app.js:318-323: "two spellings of the same number compare equal", and no two
\* numbers do: the normal form is the text of the value.
NormalForm == PlainDecimal(text) => NormalizeDecimal(text) = Decimal(Value(text))

WithoutCommas(s) == FoldLeft(LAMBDA out, c : IF c = Comma THEN out ELSE Append(out, c), <<>>, s)

\* app.js:66-73, 83-84: of what the server sent no digit is changed, added unseen
\* or left out unmarked, and a comma stands only before whole groups of three.
ShownTruly ==
    (PlainDecimal(text) /\ Whole(text) # <<>>) =>
        LET shown == SplitAmount(text)
            marked == shown.tail # <<>> /\ Last(shown.tail) = Ellipsis
            tail == IF marked THEN Front(shown.tail) ELSE shown.tail
        IN  /\ WithoutCommas(shown.int) = Whole(text)
            /\ \A i \in DOMAIN shown.int :
                  shown.int[i] = Comma <=> /\ i > 1
                                           /\ (Len(shown.int) - i) % 4 = 3
            /\ Len(shown.sent) + Len(shown.pad) = 2
            /\ IsPrefix(shown.sent \o tail, Fraction(text))
            /\ marked <=> shown.sent \o tail # Fraction(text)
            /\ Len(shown.tail) <= TailFit
=============================================================================
