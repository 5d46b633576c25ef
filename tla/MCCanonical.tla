---------------------------- MODULE MCCanonical ----------------------------
(***************************************************************************)
(* Values, numbers and strings for TLC.  A behaviour writes one of them:   *)
(*                                                                         *)
(*   "value"   a value in a memory of three nodes: all graphs in which the *)
(*             root has at most two items and the others one, cyclic ones  *)
(*             included.  Empty slices share one address, as Go allocates  *)
(*             them, and so do slices of one array;                        *)
(*   "number"  a number token;                                             *)
(*   "string"  a text of up to three code points.                          *)
(***************************************************************************)
EXTENDS CanonicalWriterLaws, CanonicalNumbers, CanonicalStrings

VARIABLE what

Heap0 == CHOOSE h \in Heaps : TRUE

MCInit ==
    /\ what \in {"value", "number", "string"}
    /\ heap \in IF what = "value" THEN Heaps ELSE {Heap0}
    /\ token \in IF what = "number" THEN Tokens ELSE {<< >>}
    /\ text \in IF what = "string" THEN Texts ELSE {<< >>}
    /\ ascii \in IF what = "string" THEN BOOLEAN ELSE {TRUE}
    /\ Init /\ NumberInit /\ StringInit

MCNext ==
    /\ \/ what = "value" /\ Next /\ UNCHANGED <<numberVars, stringVars>>
       \/ what = "number" /\ NumberNext /\ UNCHANGED <<vars, stringVars>>
       \/ what = "string" /\ StringNext /\ UNCHANGED <<vars, numberVars>>
    /\ UNCHANGED what

MCSpec == MCInit /\ [][MCNext]_<<vars, numberVars, stringVars, what>>

-----------------------------------------------------------------------------
n1 == 1
n2 == 2
n3 == 3
MCNodes == {n1, n2, n3}

Zerobase == 9

Items(keys) == [keys -> MCNodes]
ListItems(n) == UNION {Items(1 .. i) : i \in 0 .. n}
MapItems(n) == UNION {Items(K) : K \in {S \in SUBSET {0, 1, 2} : Cardinality(S) <= n}}

Node(kind, address, items) == [kind |-> kind, addr |-> address, items |-> items]

Leaves == {Node(k, 0, << >>) : k \in {"scalar", "nil", "unsupported"}}
Slices(a, n) ==
    {Node("slice", IF i = << >> THEN Zerobase ELSE a, i) : i \in ListItems(n)}
Arrays(n) == {Node("array", 0, i) : i \in ListItems(n)}
Maps(a, n) == {Node("map", a, i) : i \in MapItems(n)}
Pointers == {Node("pointer", 0, i) : i \in Items({1})}

Memories(roots, others(_)) ==
    {[n \in MCNodes |-> IF n = n1 THEN r ELSE IF n = n2 THEN s[1] ELSE s[2]] :
        r \in roots, s \in others(n2) \X others(n3)}

Parts(n) ==
    Leaves \cup Slices(n, 1) \cup Slices(n1, 1) \cup Arrays(1) \cup Maps(n, 1) \cup Pointers

\* Only slices begin at one address: those of one array, whose elements are the same ones.
AddressesAreRight(h) ==
    \A m, n \in MCNodes : m # n /\ h[m].addr \in MCNodes /\ h[m].addr = h[n].addr =>
      /\ h[m].kind = "slice" /\ h[n].kind = "slice"
      /\ \A k \in DOMAIN h[m].items \cap DOMAIN h[n].items : h[m].items[k] = h[n].items[k]

AnyHeaps ==
    {h \in Memories(Slices(n1, 2) \cup Maps(n1, 2) \cup Pointers, Parts) : AddressesAreRight(h)}

\* A map whose key type is a named string type.
NamedHeaps == Memories({Node("namedMap", n1, i) : i \in MapItems(2)}, LAMBDA n : Leaves)

MCHeaps == AnyHeaps \cup NamedHeaps

-----------------------------------------------------------------------------
\* All short strings over the bytes the grammar tells apart and a foreign one, and
\* numbers around the powers of ten at which the format changes.
Alphabet == {"-", "+", "0", "7", ".", "e", "E", "x"}
Core == {"-", "0", "7", ".", "e"}
ShortTokens ==
    UNION {[1 .. n -> Alphabet] : n \in 0 .. 4} \cup UNION {[1 .. n -> Core] : n \in 5 .. 6}

Signs == {<< >>, <<"-">>}
Wholes == {<<"0">>, <<"1">>, <<"1", "0">>, <<"9", "0", "5">>}
Fractions == {<< >>, <<".", "0">>, <<".", "0", "2">>, <<".", "2", "0">>}
Exponents == {<< >>} \cup
    {<<"e">> \o x : x \in {<<"0">>, <<"-", "3">>, <<"-", "4">>, <<"-", "0", "5">>, <<"-", "6">>,
                           <<"1", "3">>, <<"+", "1", "4">>, <<"1", "5">>, <<"1", "6">>,
                           <<"+", "2", "1">>, <<"-", "1", "2">>, <<"1", "2", "0">>}}

Numbers == {s \o w \o f \o e : s \in Signs, w \in Wholes, f \in Fractions, e \in Exponents}

MCTokens == ShortTokens \cup Numbers

-----------------------------------------------------------------------------
MCBadByte == -1

\* On both sides of every bound that the writers and UTF-16 have.
CodePoints == {-1, 0, 10, 31, 34, 60, 92, 126, 127, 128, 8232, 55295, 57344, 65535, 65536, 66559,
               66560, 1114111}
MCTexts == UNION {[1 .. n -> CodePoints] : n \in 0 .. 3}
=============================================================================
