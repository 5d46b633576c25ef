-------------------------- MODULE CanonicalNumbers -------------------------
(***************************************************************************)
(* The canonical form of a number token: validJSONNumber scans it byte by  *)
(* byte, a token without fraction and exponent is an integer and is kept   *)
(* as it is, any other is read as a float and printed as CPython prints    *)
(* it.                                                                     *)
(*                                                                         *)
(* A token is a sequence of characters.  Floats are decimals here, which   *)
(* is exact up to fifteen digits within the range of a float64; what the   *)
(* laws say of floats is said of those.                                    *)
(***************************************************************************)
EXTENDS Integers, Sequences

CONSTANT Tokens

ASSUME TokensAssumption == \A t \in Tokens : t \in Seq(STRING)

VARIABLES
    token,
    scanned,        \* the characters the scan has consumed
    part,           \* the part of the grammar it expects, or "done"
    valid           \* what validJSONNumber returns

numberVars == <<token, scanned, part, valid>>

NumberInit ==
    /\ token \in Tokens
    /\ scanned = 0
    /\ part = "sign"
    /\ valid = FALSE

Digits == <<"0", "1", "2", "3", "4", "5", "6", "7", "8", "9">>
IsDigit(c) == \E d \in 1 .. 10 : Digits[d] = c
Value(c) == (CHOOSE d \in 1 .. 10 : Digits[d] = c) - 1

-----------------------------------------------------------------------------
(***************************************************************************)
(* validJSONNumber.                                                        *)
(***************************************************************************)
Sees(c) == scanned < Len(token) /\ token[scanned + 1] = c
SeesDigit == scanned < Len(token) /\ IsDigit(token[scanned + 1])
SeesExponent == Sees("e") \/ Sees("E")

Consume(next) == scanned' = scanned + 1 /\ part' = next /\ UNCHANGED <<token, valid>>
Skip(next) == part' = next /\ UNCHANGED <<token, scanned, valid>>
Answer(verdict) == part' = "done" /\ valid' = verdict /\ UNCHANGED <<token, scanned>>

Sign == part = "sign" /\ IF Sees("-") THEN Consume("int") ELSE Skip("int")

LeadingZero_Digits == "moreInt"
LeadingZero == "point"      \* nothing of the integer part may follow a zero

IntegerPart ==
    /\ part = "int"
    /\ IF Sees("0") THEN Consume(LeadingZero)
       ELSE IF SeesDigit THEN Consume("moreInt")
       ELSE Answer(FALSE)

MoreDigits(here, next) == part = here /\ IF SeesDigit THEN Consume(here) ELSE Skip(next)

Point == part = "point" /\ IF Sees(".") THEN Consume("fraction") ELSE Skip("exp")

AtLeastOneDigit(here, next) ==
    part = here /\ IF SeesDigit THEN Consume(next) ELSE Answer(FALSE)

Exponent == part = "exp" /\ IF SeesExponent THEN Consume("expSign") ELSE Skip("end")

ExponentSign ==
    part = "expSign" /\ IF Sees("+") \/ Sees("-") THEN Consume("expDigits") ELSE Skip("expDigits")

End == part = "end" /\ Answer(scanned = Len(token))

NumberNext ==
    \/ Sign
    \/ IntegerPart
    \/ MoreDigits("moreInt", "point")
    \/ Point
    \/ AtLeastOneDigit("fraction", "moreFraction")
    \/ MoreDigits("moreFraction", "exp")
    \/ Exponent
    \/ ExponentSign
    \/ AtLeastOneDigit("expDigits", "moreExp")
    \/ MoreDigits("moreExp", "end")
    \/ End

NumberSpec == NumberInit /\ [][NumberNext]_numberVars

-----------------------------------------------------------------------------
(***************************************************************************)
(* The number a valid token denotes: a sign, its significant digits, and   *)
(* the power of ten of the first one.                                      *)
(***************************************************************************)
Holds(t, c) == \E i \in 1 .. Len(t) : t[i] = c

isJSONIntegerToken(t) == ~(Holds(t, ".") \/ Holds(t, "e") \/ Holds(t, "E"))

\* The first of some characters, or the place behind the end.
Find(t, C) ==
    LET places == {i \in 1 .. Len(t) : t[i] \in C} IN
    IF places = {} THEN Len(t) + 1 ELSE CHOOSE i \in places : \A j \in places : i <= j

Atoi(t) ==
    LET read[i \in 0 .. Len(t)] ==
          IF i = 0 THEN 0 ELSE IF IsDigit(t[i]) THEN 10 * read[i - 1] + Value(t[i]) ELSE read[i - 1]
    IN  IF Len(t) > 0 /\ t[1] = "-" THEN -read[Len(t)] ELSE read[Len(t)]

Negative(t) == t[1] = "-"
Unsigned(t) == IF Negative(t) THEN Tail(t) ELSE t
Mantissa(t) == LET u == Unsigned(t) IN SubSeq(u, 1, Find(u, {"e", "E"}) - 1)
Power(t) == LET u == Unsigned(t) IN Atoi(SubSeq(u, Find(u, {"e", "E"}) + 1, Len(u)))

WholeDigits(t) == Find(Mantissa(t), {"."}) - 1
AllDigits(t) ==
    LET m == Mantissa(t) IN SubSeq(m, 1, WholeDigits(t)) \o SubSeq(m, WholeDigits(t) + 2, Len(m))

Significant(t) ==
    LET ds == AllDigits(t)
        nonzero == {i \in 1 .. Len(ds) : ds[i] # "0"}
        first == CHOOSE i \in nonzero : \A j \in nonzero : i <= j
        last  == CHOOSE i \in nonzero : \A j \in nonzero : i >= j
    IN  IF nonzero = {} THEN [digits |-> << >>, lead |-> 0]
        ELSE [digits |-> SubSeq(ds, first, last), lead |-> first]

\* strconv.ParseFloat.
ParseFloat(t) ==
    LET s == Significant(t) IN
    [negative |-> Negative(t),
     digits   |-> s.digits,
     exp      |-> IF s.digits = << >> THEN 0 ELSE WholeDigits(t) - s.lead + Power(t)]

-----------------------------------------------------------------------------
(***************************************************************************)
(* formatCanonicalFloat and the number case of writeCanonicalValue.        *)
(***************************************************************************)
Zeros(n) == [i \in 1 .. n |-> "0"]

Itoa(n) == IF n < 10 THEN <<Digits[n + 1]>>
           ELSE IF n < 100 THEN <<Digits[n \div 10 + 1], Digits[(n % 10) + 1]>>
           ELSE <<Digits[n \div 100 + 1], Digits[((n \div 10) % 10) + 1], Digits[(n % 10) + 1]>>

pythonExponent(exp) ==
    LET digits == Itoa(IF exp < 0 THEN -exp ELSE exp) IN
    <<IF exp < 0 THEN "-" ELSE "+">> \o (IF Len(digits) < 2 THEN <<"0">> ELSE << >>) \o digits

Scientific(f) ==
    <<f.digits[1]>> \o (IF Len(f.digits) > 1 THEN <<".">> \o Tail(f.digits) ELSE << >>)
      \o <<"e">> \o pythonExponent(f.exp)

\* An integral value gets the fraction that tells it from an integer.
Fraction_None == << >>
Fraction == <<".", "0">>

Fixed(f) ==
    LET n == Len(f.digits) IN
    IF f.exp < 0 THEN <<"0", ".">> \o Zeros(-f.exp - 1) \o f.digits
    ELSE IF f.exp >= n - 1 THEN f.digits \o Zeros(f.exp - n + 1) \o Fraction
    ELSE SubSeq(f.digits, 1, f.exp + 1) \o <<".">> \o SubSeq(f.digits, f.exp + 2, n)

IsScientific(f) == f.exp >= 16 \/ f.exp <= -5

formatCanonicalFloat(f) ==
    (IF f.negative THEN <<"-">> ELSE << >>) \o
      (IF f.digits = << >> THEN <<"0", ".", "0">>
       ELSE IF IsScientific(f) THEN Scientific(f) ELSE Fixed(f))

\* A token beyond the range of a float64 is an error in the code (canonical.go:401); it has
\* a form here, but IsExact leaves it out of the property.
Canonical(t) ==
    IF isJSONIntegerToken(t)
    THEN IF t = <<"-", "0">> THEN <<"0">> ELSE t
    ELSE formatCanonicalFloat(ParseFloat(t))

-----------------------------------------------------------------------------
\* canonical.go:280, -?(0|[1-9][0-9]*)(\.[0-9]+)?([eE][+-]?[0-9]+)? as splits of a token.
AllAreDigits(t) == t # << >> /\ \A i \in 1 .. Len(t) : IsDigit(t[i])
InGrammar(t) ==
    LET u == IF t # << >> /\ t[1] = "-" THEN Tail(t) ELSE t
        e == Find(u, {"e", "E"})
        m == SubSeq(u, 1, e - 1)
        d == Find(m, {"."})
        p == SubSeq(u, e + 1, Len(u))
        q == IF p # << >> /\ p[1] \in {"+", "-"} THEN Tail(p) ELSE p
    IN  /\ AllAreDigits(SubSeq(m, 1, d - 1))
        /\ m[1] = "0" => d = 2
        /\ d <= Len(m) => AllAreDigits(SubSeq(m, d + 1, Len(m)))
        /\ e <= Len(u) => AllAreDigits(q)

NumberTypeOK ==
    /\ scanned \in 0 .. Len(token)
    /\ valid \in BOOLEAN
    /\ valid => part = "done" /\ scanned = Len(token)

\* canonical.go:278: the scan answers yes for the tokens of the JSON grammar and for no
\* others, in one pass without going back.
ScanDecidesTheGrammar == part = "done" => (valid <=> InGrammar(token))

\* The tokens whose float is the decimal itself: within the range and the precision of a
\* float64.
IsExact(t) == Len(ParseFloat(t).digits) <= 15 /\ ParseFloat(t).exp \in -300 .. 300

\* canonical.go:377: the canonical form of a token is a valid token of the same kind, an
\* integer or a float, that denotes the same number; taking its canonical form again
\* changes nothing, so a digest over stored JSON is the digest over what was stored.
CanonicalKeepsTheNumber ==
    valid /\ IsExact(token) =>
      LET c == Canonical(token) IN
        /\ InGrammar(c)
        /\ isJSONIntegerToken(c) <=> isJSONIntegerToken(token)
        /\ Canonical(c) = c
        /\ ParseFloat(c).digits = ParseFloat(token).digits
        /\ ParseFloat(c).exp = ParseFloat(token).exp
        /\ ~isJSONIntegerToken(token) => Negative(c) = Negative(token)
=============================================================================
