-------------------------- MODULE CanonicalStrings -------------------------
(***************************************************************************)
(* writeCanonicalString in its two flavours: record and witness digests    *)
(* leave UTF-8 as it is, context ids and batch digests escape all that is  *)
(* not ASCII.  Two strings must never yield the same bytes, or different   *)
(* records would have one id.                                              *)
(*                                                                         *)
(* A string is a sequence of code points, or of BadByte where it is not    *)
(* valid UTF-8; the raw flavour copies bytes, and a code point is copied   *)
(* with all of its bytes.                                                  *)
(***************************************************************************)
EXTENDS Integers, Sequences

CONSTANTS
    Texts,
    BadByte

\* UTF-8 has no form for the surrogates.
IsRune(r) == r \in Nat /\ r <= 1114111 /\ (r < 55296 \/ r > 57343)

ASSUME TextsAssumption ==
    /\ BadByte \in Int
    /\ \A t \in Texts : t \in Seq(Int) /\ \A i \in 1 .. Len(t) : IsRune(t[i]) \/ t[i] = BadByte

VARIABLES
    text,
    ascii,          \* the flavour: ensure_ascii
    written,        \* the characters written so far
    literal,        \* <<"raw", c>>, <<"short", c>> for \n and the like, <<"u", n>> for \uXXXX
    stage

stringVars == <<text, ascii, written, literal, stage>>

StringInit ==
    /\ text \in Texts
    /\ ascii \in BOOLEAN
    /\ written = 0
    /\ literal = << >>
    /\ stage = "start"

Quote == 34
Backslash == 92
Delete == 127
RuneSelf == 128
ShortEscapes == {Quote, Backslash, 8, 9, 10, 12, 13}

\* utf8.ValidString.
IsValid == \A i \in 1 .. Len(text) : text[i] # BadByte

Validate ==
    /\ stage = "start"
    /\ stage' = IF IsValid THEN "writing" ELSE "error"
    /\ UNCHANGED <<text, ascii, written, literal>>

Raw(c) == <<"raw", c>>
Short(c) == <<"short", c>>
Unicode(n) == <<"u", n>>

\* Above U+FFFF a surrogate pair.
SurrogatePair(r) ==
    <<Unicode(55296 + ((r - 65536) \div 1024)), Unicode(56320 + ((r - 65536) % 1024))>>

EscapedBytes(c) == IF c < 32 THEN <<Unicode(c)>> ELSE <<Raw(c)>>

EscapedRune_KeepsDelete(r) ==
    IF r < 32 THEN <<Unicode(r)>>
    ELSE IF r < RuneSelf THEN <<Raw(r)>>
    ELSE IF r > 65535 THEN SurrogatePair(r)
    ELSE <<Unicode(r)>>
EscapedRune(r) ==
    IF r < 32 \/ r = Delete THEN <<Unicode(r)>>
    ELSE IF r < RuneSelf THEN <<Raw(r)>>
    ELSE IF r > 65535 THEN SurrogatePair(r)
    ELSE <<Unicode(r)>>

MustEscape_NoBackslash(c) == c \in ShortEscapes \ {Backslash}
MustEscape(c) == c \in ShortEscapes

Escaped(c) ==
    IF MustEscape(c) THEN <<Short(c)>>
    ELSE IF ascii THEN EscapedRune(c)
    ELSE EscapedBytes(c)

WriteCharacter ==
    /\ stage = "writing"
    /\ written < Len(text)
    /\ literal' = literal \o Escaped(text[written + 1])
    /\ written' = written + 1
    /\ UNCHANGED <<text, ascii, stage>>

Close ==
    /\ stage = "writing"
    /\ written = Len(text)
    /\ stage' = "ok"
    /\ UNCHANGED <<text, ascii, written, literal>>

StringNext == Validate \/ WriteCharacter \/ Close

StringSpec == StringInit /\ [][StringNext]_stringVars

-----------------------------------------------------------------------------
(***************************************************************************)
(* What a JSON parser makes of the output.  It reads a backslash as the    *)
(* start of an escape and a quote as the end of the string.                *)
(***************************************************************************)
IsHigh(u) == u[1] = "u" /\ u[2] \in 55296 .. 56319
IsLow(u) == u[1] = "u" /\ u[2] \in 56320 .. 57343
Joined(hi, lo) == 65536 + 1024 * (hi[2] - 55296) + (lo[2] - 56320)

Read[n \in 0 .. Len(literal)] ==
    IF n = 0 THEN << >>
    ELSE IF IsLow(literal[n]) /\ n > 1 /\ IsHigh(literal[n - 1])
         THEN Append(Read[n - 2], Joined(literal[n - 1], literal[n]))
    ELSE Append(Read[n - 1], literal[n][2])

IsStringLiteral ==
    \A i \in 1 .. Len(literal) :
      literal[i][1] = "raw" => literal[i][2] >= 32 /\ literal[i][2] \notin {Quote, Backslash}

StringTypeOK ==
    /\ written \in 0 .. Len(text)
    /\ Len(literal) \in written .. 2 * written
    /\ \A i \in 1 .. Len(literal) : literal[i][1] = "u" => literal[i][2] \in 0 .. 65535
    /\ stage \in {"start", "writing", "ok", "error"}

\* canonical.go:157 and :211: in either flavour the output is one string literal from which
\* a parser reads the very text, so two strings never share their bytes; the flavour of
\* context ids and batch digests yields ASCII only.
StringsReadBack ==
    /\ stage = "ok" => IsStringLiteral /\ Read[Len(literal)] = text
    /\ ascii => \A i \in 1 .. Len(literal) : literal[i][1] = "raw" => literal[i][2] < Delete
=============================================================================
