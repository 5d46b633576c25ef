----------------------- MODULE CanonicalProofs -----------------------------
(***************************************************************************)
(* Proofs about the canonical codec: that the walk compares a container    *)
(* with its ancestors, for every value however it is laid out in memory    *)
(* (no two frames have one visit, so deleting a frame's visit leaves those *)
(* of the others); that the scan of a number decides the grammar; that     *)
(* the canonical form of a number is one, of the same number; that what is *)
(* written of a string reads back; that what is written of a value is its  *)
(* one text; and that a refused value has none, or is a slice that holds   *)
(* its own array.                                                          *)
(***************************************************************************)
EXTENDS CanonicalWriterLaws, CanonicalNumbers, CanonicalStrings, SequenceLemmas, FiniteSetTheorems, TLAPS

FrameType == [node : Nodes, todo : Seq(Keys), first : BOOLEAN]

ItemsAreThere ==
    \A i \in 1 .. Len(stack) : \A j \in 1 .. Len(stack[i].todo) :
      stack[i].todo[j] \in DOMAIN heap[stack[i].node].items

Types ==
    /\ heap \in Heaps
    /\ at \in Nodes \cup {NoNode}
    /\ stack \in Seq(FrameType)
    /\ ItemsAreThere

WriterInv == Types /\ SeenAreAncestors

\* The value to be written is the root at first.
LEMMA InitHolds == Init => WriterInv
BY HeapAssumption DEF Init, WriterInv, Types, ItemsAreThere, SeenAreAncestors

\* A frame of a typed stack.
LEMMA FramesAreTyped ==
    ASSUME stack \in Seq(FrameType), NEW i \in 1 .. Len(stack)
    PROVE  /\ stack[i] \in FrameType
           /\ stack[i].node \in Nodes /\ stack[i].todo \in Seq(Keys) /\ stack[i].first \in BOOLEAN
<1>1. stack[i] \in FrameType
  OBVIOUS
<1> QED
  BY <1>1 DEF FrameType

\* Any order of a container's items is a sequence of them.
LEMMA OrdersAreSequences ==
    ASSUME heap \in Heaps, NEW n \in Nodes, NEW order \in Orders(n)
    PROVE  /\ order \in Seq(Keys)
           /\ \A j \in 1 .. Len(order) : order[j] \in DOMAIN heap[n].items
<1> DEFINE S == DOMAIN heap[n].items
<1>1. S \subseteq Keys
  BY HeapAssumption
<1>2. Cardinality(S) \in Nat
  BY <1>1, HeapAssumption, FS_Subset, FS_CardinalityType
<1>3. order \in [1 .. Cardinality(S) -> S]
  BY DEF Orders, Listings
<1> HIDE DEF S
<1>4. order \in Seq(S)
  BY <1>2, <1>3
<1>5. order \in Seq(Keys)
  BY <1>1, <1>4
<1> QED
  BY <1>4, <1>5 DEF S

\* Unwinding leaves nothing behind.
LEMMA UnwindHolds ==
    ASSUME Types, NEW o, Unwind(o)
    PROVE  WriterInv'
BY DEF Unwind, Types, WriterInv, ItemsAreThere, SeenAreAncestors

\* A frame is pushed whose visit, if it has one, is new.
LEMMA PushHolds ==
    ASSUME WriterInv, NEW n \in Nodes, NEW order \in Seq(Keys),
           \A j \in 1 .. Len(order) : order[j] \in DOMAIN heap[n].items,
           Push(n, order), heap' = heap, at' \in Nodes \cup {NoNode},
           ~Circular(n), seen' = Entered(n)
    PROVE  WriterInv'
<1> DEFINE f == [node |-> n, todo |-> order, first |-> TRUE]
<1> USE DEF WriterInv
<1>1. /\ stack \in Seq(FrameType) /\ Len(stack) \in Nat
      /\ f \in FrameType
      /\ stack' = Append(stack, f)
  BY DEF Types, FrameType, Push
<1>0. f.node = n /\ f.todo = order
  OBVIOUS
<1> HIDE DEF f
<1>2. /\ stack' \in Seq(FrameType)
      /\ Len(stack') = Len(stack) + 1
      /\ stack'[Len(stack) + 1] = f
      /\ \A i \in 1 .. Len(stack) : stack'[i] = stack[i]
  BY <1>1
<1>3. \A i \in 1 .. Len(stack') : i \in 1 .. Len(stack) \/ i = Len(stack) + 1
  BY <1>1, <1>2
<1>4. ItemsAreThere'
  <2> SUFFICES ASSUME NEW i \in 1 .. Len(stack'), NEW j \in 1 .. Len(stack'[i].todo)
               PROVE  stack'[i].todo[j] \in DOMAIN heap[stack'[i].node].items
    BY DEF ItemsAreThere
  <2>1. CASE i \in 1 .. Len(stack)
    BY <1>2, <2>1 DEF Types, ItemsAreThere
  <2>2. CASE i = Len(stack) + 1
    BY <1>0, <1>2, <2>2
  <2> QED
    BY <1>3, <2>1, <2>2
<1>5. \A m : /\ Tracked(m)' = Tracked(m)
             /\ Visit(m)' = Visit(m)
  BY DEF Tracked, Visit, IsContainer, IsMap
<1> DEFINE V == {i \in 1 .. Len(stack) : Tracked(stack[i].node)}
           W == {i \in 1 .. Len(stack') : Tracked(stack'[i].node)}
<1>6. /\ seen = {Visit(stack[i].node) : i \in V}
      /\ \A i, j \in V : i # j => Visit(stack[i].node) # Visit(stack[j].node)
  BY DEF SeenAreAncestors
<1>7. /\ seen' = {Visit(stack'[i].node) : i \in W}
      /\ \A i, j \in W : i # j => Visit(stack'[i].node) # Visit(stack'[j].node)
  <2>1. CASE Tracked(n)
    <3>1. W = V \cup {Len(stack) + 1}
      BY <1>0, <1>1, <1>2, <1>3, <2>1
    <3>2. seen' = seen \cup {Visit(n)}
      BY <2>1 DEF Entered
    <3>3. Visit(n) \notin seen
      BY <2>1 DEF Circular
    <3>4. /\ \A i \in V : stack'[i] = stack[i]
          /\ stack'[Len(stack) + 1].node = n
          /\ \A i \in V : i # Len(stack) + 1
      BY <1>0, <1>1, <1>2
    <3> HIDE DEF V, W
    <3>5. seen' = {Visit(stack'[i].node) : i \in W}
      BY <1>6, <3>1, <3>2, <3>4
    <3>6. ASSUME NEW i \in W, NEW j \in W, i # j
          PROVE  Visit(stack'[i].node) # Visit(stack'[j].node)
      BY <1>6, <3>1, <3>3, <3>4, <3>6
    <3> QED
      BY <3>5, <3>6
  <2>2. CASE ~Tracked(n)
    <3>1. W = V /\ \A i \in V : stack'[i] = stack[i]
      BY <1>0, <1>1, <1>2, <1>3, <2>2
    <3>2. seen' = seen
      BY <2>2 DEF Entered
    <3> HIDE DEF V, W
    <3> QED
      BY <1>6, <3>1, <3>2
  <2> QED
    BY <2>1, <2>2
<1>8. SeenAreAncestors'
  BY <1>5, <1>7 DEF SeenAreAncestors
<1> QED
  BY <1>2, <1>4, <1>8 DEF Types

\* Replacing the top frame by one of the same node with fewer items left.
LEMMA WriteItemHolds ==
    ASSUME WriterInv, WriteItem
    PROVE  WriterInv'
<1> USE DEF WriterInv
<1> DEFINE t == Len(stack)
           f == [node |-> Top.node, todo |-> Tail(Top.todo), first |-> FALSE]
<1>1. stack \in Seq(FrameType) /\ t \in Nat /\ t \in 1 .. Len(stack)
  BY DEF WriteItem, Types
<1>2. /\ Top \in FrameType
      /\ Top.node \in Nodes /\ Top.todo \in Seq(Keys) /\ Top.todo # << >>
  BY <1>1, FramesAreTyped DEF Top, WriteItem
<1>3. CASE ~WritesKey(Top.node, Head(Top.todo)) \/ IndexPanics(Top.node)
  BY <1>3, UnwindHolds DEF WriteItem
<1>4. CASE WritesKey(Top.node, Head(Top.todo)) /\ ~IndexPanics(Top.node)
  <2>1. /\ stack' = [stack EXCEPT ![t] = f]
        /\ at' = heap[Top.node].items[Head(Top.todo)]
        /\ heap' = heap /\ seen' = seen
    BY <1>4 DEF WriteItem
  <2>2. Head(Top.todo) \in DOMAIN heap[Top.node].items
    <3>1. 1 \in 1 .. Len(Top.todo) /\ Head(Top.todo) = Top.todo[1]
      BY <1>2
    <3> QED
      BY <1>1, <3>1 DEF Types, ItemsAreThere, Top
  <2>3. at' \in Nodes
    BY <1>2, <2>1, <2>2, HeapAssumption DEF Types
  <2>4. f \in FrameType /\ f.node = stack[t].node /\ f.todo = Tail(Top.todo)
    BY <1>2 DEF FrameType, Top
  <2>5. \A j \in 1 .. Len(f.todo) : f.todo[j] \in DOMAIN heap[f.node].items
    <3>1. /\ Len(Tail(Top.todo)) = Len(Top.todo) - 1
          /\ \A j \in 1 .. Len(Tail(Top.todo)) :
               Tail(Top.todo)[j] = Top.todo[j + 1] /\ j + 1 \in 1 .. Len(Top.todo)
      BY <1>2
    <3>2. \A j \in 1 .. Len(Top.todo) : Top.todo[j] \in DOMAIN heap[Top.node].items
      BY <1>1 DEF Types, ItemsAreThere, Top
    <3> QED
      BY <2>4, <3>1, <3>2 DEF Top
  <2> HIDE DEF f
  <2>6. /\ stack' \in Seq(FrameType)
        /\ Len(stack') = Len(stack)
        /\ stack'[t] = f
        /\ \A i \in 1 .. Len(stack) : i # t => stack'[i] = stack[i]
    BY <1>1, <2>1, <2>4
  <2>7. ItemsAreThere'
    BY <2>1, <2>5, <2>6 DEF Types, ItemsAreThere
  <2>8. \A i \in 1 .. Len(stack) : stack'[i].node = stack[i].node
    BY <2>4, <2>6
  <2>9. \A m : Tracked(m)' = Tracked(m) /\ Visit(m)' = Visit(m)
    BY <2>1 DEF Tracked, Visit, IsContainer, IsMap
  <2>10. SeenAreAncestors'
    <3> DEFINE V == {i \in 1 .. Len(stack) : Tracked(stack[i].node)}
               W == {i \in 1 .. Len(stack') : Tracked(stack'[i].node)}
    <3>1. W = V /\ \A i \in V : stack'[i].node = stack[i].node
      BY <2>6, <2>8
    <3>2. /\ seen = {Visit(stack[i].node) : i \in V}
          /\ \A i, j \in V : i # j => Visit(stack[i].node) # Visit(stack[j].node)
      BY DEF SeenAreAncestors
    <3> HIDE DEF V, W
    <3>3. /\ seen' = {Visit(stack'[i].node) : i \in W}
          /\ \A i, j \in W : i # j => Visit(stack'[i].node) # Visit(stack'[j].node)
      BY <2>1, <3>1, <3>2
    <3> USE DEF W
    <3> QED
      BY <2>9, <3>3 DEF SeenAreAncestors
  <2> QED
    BY <2>1, <2>3, <2>6, <2>7, <2>10 DEF Types
<1> QED
  BY <1>3, <1>4

\* A frame that is left takes its own visit with it, and no other.
LEMMA LeaveHolds ==
    ASSUME WriterInv, LeaveContainer
    PROVE  WriterInv'
<1> USE DEF WriterInv
<1> DEFINE t == Len(stack)
           n == stack[t].node
<1>1. stack \in Seq(FrameType) /\ t \in Nat /\ t \in 1 .. Len(stack)
  BY DEF LeaveContainer, Types
<1>2. stack' = SubSeq(stack, 1, t - 1) /\ heap' = heap /\ at' = at /\ seen' = Left(n)
  BY DEF LeaveContainer, Top
<1>3. /\ stack' \in Seq(FrameType)
      /\ Len(stack') = t - 1
      /\ \A i \in 1 .. t - 1 : stack'[i] = stack[i] /\ i \in 1 .. t
  <2> HIDE DEF t
  <2>1. t - 1 \in Nat /\ t - 1 <= Len(stack)
    BY <1>1 DEF t
  <2>2. /\ SubSeq(stack, 1, t - 1) \in Seq(FrameType)
        /\ Len(SubSeq(stack, 1, t - 1)) = t - 1
    BY <1>1, <2>1
  <2>3. \A i \in 1 .. t - 1 : SubSeq(stack, 1, t - 1)[i] = stack[i]
    BY <1>1, <2>1
  <2> QED
    BY <1>1, <1>2, <2>1, <2>2, <2>3
<1>4. ItemsAreThere'
  BY <1>2, <1>3 DEF Types, ItemsAreThere
<1>5. \A m : Tracked(m)' = Tracked(m) /\ Visit(m)' = Visit(m)
  BY <1>2 DEF Tracked, Visit, IsContainer, IsMap
<1> DEFINE V == {i \in 1 .. Len(stack) : Tracked(stack[i].node)}
           W == {i \in 1 .. Len(stack') : Tracked(stack'[i].node)}
<1>6. /\ seen = {Visit(stack[i].node) : i \in V}
      /\ \A i, j \in V : i # j => Visit(stack[i].node) # Visit(stack[j].node)
  BY DEF SeenAreAncestors
<1>7. /\ W = V \ {t}
      /\ \A i \in W : stack'[i] = stack[i]
  BY <1>1, <1>3
<1>8. Tracked(n) => t \in V
  BY <1>1
<1>9. ~Tracked(n) => W = V
  BY <1>7
<1>10. /\ seen' = {Visit(stack'[i].node) : i \in W}
       /\ \A i, j \in W : i # j => Visit(stack'[i].node) # Visit(stack'[j].node)
  <2> HIDE DEF V, W
  <2>1. \A i, j \in W : i # j => Visit(stack'[i].node) # Visit(stack'[j].node)
    BY <1>6, <1>7
  <2>2. CASE Tracked(n)
    <3>1. seen' = seen \ {Visit(stack[t].node)}
      BY <1>2, <2>2 DEF Left
    <3>2. t \in V
      BY <1>8, <2>2
    <3>3. \A i \in V : i # t => Visit(stack[i].node) # Visit(stack[t].node)
      BY <1>6, <3>2
    <3>4. {Visit(stack'[i].node) : i \in W} = {Visit(stack[i].node) : i \in V \ {t}}
      BY <1>7
    <3> QED
      BY <1>6, <2>1, <3>1, <3>2, <3>3, <3>4
  <2>3. CASE ~Tracked(n)
    <3>1. seen' = seen
      BY <1>2, <2>3 DEF Left
    <3> QED
      BY <1>6, <1>7, <1>9, <2>1, <2>3, <3>1
  <2> QED
    BY <2>2, <2>3
<1>11. SeenAreAncestors'
  BY <1>5, <1>10 DEF SeenAreAncestors
<1> QED
  BY <1>2, <1>3, <1>4, <1>11 DEF Types

-----------------------------------------------------------------------------
\* Every step keeps the invariant.
LEMMA InvKept == WriterInv /\ [Next]_vars => WriterInv'
<1> SUFFICES ASSUME WriterInv, [Next]_vars PROVE WriterInv'
  OBVIOUS
<1> USE DEF WriterInv
<1>a. ASSUME UNCHANGED <<heap, stack, seen>>, at' \in Nodes \cup {NoNode}
      PROVE  WriterInv'
  BY <1>a DEF Types, ItemsAreThere, SeenAreAncestors, Tracked, Visit, IsContainer, IsMap
<1>1. CASE WriteScalar
  BY <1>1, <1>a DEF WriteScalar
<1>2. CASE RejectValue
  BY <1>2, UnwindHolds DEF RejectValue
<1>3. CASE FollowPointer
  <2>1. CASE Len(stack) = MaxDepth
    BY <1>3, <2>1, UnwindHolds DEF FollowPointer
  <2>2. CASE Len(stack) # MaxDepth
    <3>1. /\ at \in Nodes /\ ~Tracked(at)
          /\ Push(at, << >>) /\ at' = heap[at].items[1] /\ heap' = heap /\ seen' = seen
      BY <1>3, <2>2 DEF FollowPointer, Types, Tracked, IsContainer, IsMap
    <3>2. 1 \in DOMAIN heap[at].items
      BY <1>3, HeapAssumption DEF FollowPointer, Types
    <3>3. at' \in Nodes
      BY <3>1, <3>2, HeapAssumption DEF Types
    <3>4. ~Circular(at) /\ seen' = Entered(at)
      BY <3>1 DEF Circular, Entered
    <3>5. /\ << >> \in Seq(Keys)
          /\ \A j \in 1 .. Len(<< >>) : << >>[j] \in DOMAIN heap[at].items
      OBVIOUS
    <3> DEFINE nothing == << >>
    <3>6. /\ nothing \in Seq(Keys)
          /\ \A j \in 1 .. Len(nothing) : nothing[j] \in DOMAIN heap[at].items
          /\ Push(at, nothing)
      BY <3>1, <3>5
    <3> HIDE DEF nothing
    <3> QED
      BY <3>1, <3>3, <3>4, <3>6, PushHolds
  <2> QED
    BY <2>1, <2>2
<1>4. CASE EnterContainer
  <2>1. CASE Circular(at) \/ Len(stack) = MaxDepth
    BY <1>4, <2>1, UnwindHolds DEF EnterContainer
  <2>2. CASE ~Circular(at) /\ Len(stack) # MaxDepth
    <3>1. /\ at \in Nodes /\ heap \in Heaps /\ heap' = heap
          /\ seen' = Entered(at) /\ at' = NoNode
      BY <1>4, <2>2 DEF EnterContainer, Types
    <3>2. PICK order \in Orders(at) : Push(at, order)
      BY <1>4, <2>2 DEF EnterContainer
    <3>3. /\ order \in Seq(Keys)
          /\ \A j \in 1 .. Len(order) : order[j] \in DOMAIN heap[at].items
      BY <3>1, <3>2, OrdersAreSequences
    <3> QED
      BY <2>2, <3>1, <3>2, <3>3, PushHolds
  <2> QED
    BY <2>1, <2>2
<1>5. CASE WriteItem
  BY <1>5, WriteItemHolds
<1>6. CASE LeaveContainer
  BY <1>6, LeaveHolds
<1>7. CASE Return
  BY <1>7, <1>a DEF Return, Types
<1>8. CASE UNCHANGED vars
  BY <1>8, <1>a DEF vars, Types
<1> QED
  BY <1>1, <1>2, <1>3, <1>4, <1>5, <1>6, <1>7, <1>8 DEF Next

\* canonical.go:346, for every value in every memory: what a container is compared with
\* before it is entered are its ancestors, each once, and nothing else.
THEOREM SeenAreTheAncestors == Spec => []SeenAreAncestors
<1>1. WriterInv => SeenAreAncestors
  BY DEF WriterInv
<1> QED
  BY InitHolds, InvKept, <1>1, PTL DEF Spec

-----------------------------------------------------------------------------
(***************************************************************************)
(* Numbers.  A token has the shape of a JSON number in at most one way, so *)
(* a scan that takes the longest beginning it can never takes too much.    *)
(***************************************************************************)
\* The length of a token's sign.
Offset(t) == IF t # << >> /\ t[1] = "-" THEN 1 ELSE 0
\* There are digits from one place to another.
DigitsOn(t, i, j) == \A k \in i .. j : IsDigit(t[k])
\* What begins an exponent.
ExpLetters == {"e", "E"}

\* The integer part ends at n.
WholeOn(t, n) ==
    /\ Offset(t) < n /\ n <= Len(t)
    /\ DigitsOn(t, Offset(t) + 1, n)
    /\ t[Offset(t) + 1] = "0" => n = Offset(t) + 1

\* So does the mantissa, whose point is at d or would be next.
MantissaOn(t, d, n) ==
    /\ WholeOn(t, d - 1)
    /\ \/ d = n + 1
       \/ d < n /\ n <= Len(t) /\ t[d] = "." /\ DigitsOn(t, d + 1, n)

\* The sign of an exponent whose letter is at e, if there is one, ends here.
SignEnd(t, e) == IF e < Len(t) /\ t[e + 1] \in {"+", "-"} THEN e + 1 ELSE e

\* The exponent whose letter is at e ends at n.
ExponentOn(t, e, n) ==
    /\ e <= Len(t) /\ t[e] \in ExpLetters
    /\ SignEnd(t, e) < n /\ n <= Len(t)
    /\ DigitsOn(t, SignEnd(t, e) + 1, n)

\* The token is a number with its point at d and its exponent at e, or without them.
Shape(t, d, e) ==
    /\ MantissaOn(t, d, e - 1)
    /\ e = Len(t) + 1 \/ ExponentOn(t, e, Len(t))

\* The places of a token and the one behind it.
Places(t) == 1 .. Len(t) + 1
HasShape(t) == \E d, e \in Places(t) : Shape(t, d, e)

-----------------------------------------------------------------------------
\* What is not a digit.
LEMMA NotDigits ==
    /\ ~IsDigit(".") /\ ~IsDigit("e") /\ ~IsDigit("E") /\ ~IsDigit("-") /\ ~IsDigit("+") /\ IsDigit("0")
    /\ "." \notin ExpLetters /\ "." # "0"
<1>1. \A d \in 1 .. 10 : Digits[d] \in {"0", "1", "2", "3", "4", "5", "6", "7", "8", "9"}
  <2> TAKE d \in 1 .. 10
  <2>1. d = 1 \/ d = 2 \/ d = 3 \/ d = 4 \/ d = 5 \/ d = 6 \/ d = 7 \/ d = 8 \/ d = 9 \/ d = 10
    OBVIOUS
  <2> QED
    BY <2>1 DEF Digits
<1>2. Digits[1] = "0" /\ 1 \in 1 .. 10
  BY DEF Digits
<1> QED
  BY <1>1, <1>2 DEF IsDigit, ExpLetters

\* Find yields the first place of a set of characters, or the one behind the end.
LEMMA FindIsFirst ==
    ASSUME NEW t, IsPath(t), NEW C
    PROVE  /\ Find(t, C) \in Places(t)
           /\ \A i \in 1 .. Find(t, C) - 1 : t[i] \notin C
           /\ Find(t, C) <= Len(t) => t[Find(t, C)] \in C
<1> DEFINE places == {i \in 1 .. Len(t) : t[i] \in C}
<1>1. Len(t) \in Nat
  BY DEF IsPath
<1>2. CASE places = {}
  BY <1>1, <1>2 DEF Find, Places
<1>3. CASE places # {}
  <2>1. places \in SUBSET Nat
    OBVIOUS
  <2>2. \E i \in places : \A j \in places : i <= j
    <3> HIDE DEF places
    <3> QED
      BY <1>3, <2>1, LeastExists
  <2>3. PICK i : i = Find(t, C) /\ i \in places /\ \A j \in places : i <= j
    BY <1>3, <2>2 DEF Find
  <2>4. i \in 1 .. Len(t) /\ t[i] \in C
    BY <2>3
  <2>5. \A j \in 1 .. i - 1 : t[j] \notin C
    <3> SUFFICES ASSUME NEW j \in 1 .. i - 1, t[j] \in C PROVE FALSE
      OBVIOUS
    <3>1. j \in places
      BY <1>1, <2>4
    <3> QED
      BY <2>3, <2>4, <3>1
  <2> QED
    BY <1>1, <2>3, <2>4, <2>5 DEF Places
<1> QED
  BY <1>2, <1>3

\* There is one such place.
LEMMA FirstIsFound ==
    ASSUME NEW t, IsPath(t), NEW C, NEW n \in Places(t),
           \A i \in 1 .. n - 1 : t[i] \notin C, n <= Len(t) => t[n] \in C
    PROVE  Find(t, C) = n
<1> DEFINE f == Find(t, C)
<1>1. /\ f \in Places(t)
      /\ \A i \in 1 .. f - 1 : t[i] \notin C
      /\ f <= Len(t) => t[f] \in C
  BY FindIsFirst
<1>2. Len(t) \in Nat
  BY DEF IsPath
<1> HIDE DEF f
<1>3. ~(f < n)
  <2> SUFFICES ASSUME f < n PROVE FALSE
    OBVIOUS
  <2>1. f \in 1 .. n - 1 /\ f <= Len(t)
    BY <1>1, <1>2 DEF Places
  <2> QED
    BY <1>1, <2>1
<1>4. ~(n < f)
  <2> SUFFICES ASSUME n < f PROVE FALSE
    OBVIOUS
  <2>1. n \in 1 .. f - 1 /\ n <= Len(t)
    BY <1>1, <1>2 DEF Places
  <2> QED
    BY <1>1, <2>1
<1>5. f = n
  BY <1>1, <1>2, <1>3, <1>4 DEF Places
<1> QED
  BY <1>5 DEF f

\* A part of a sequence.
LEMMA PartOf ==
    ASSUME NEW s, IsPath(s), NEW i \in Nat, i >= 1, NEW j \in Nat, i <= j + 1, j <= Len(s)
    PROVE  /\ IsPath(SubSeq(s, i, j)) /\ Len(SubSeq(s, i, j)) = (j - i) + 1
           /\ \A k \in 1 .. (j - i) + 1 : SubSeq(s, i, j)[k] = s[(k + i) - 1]
<1> DEFINE S == Range(s)
<1>1. s \in Seq(S) /\ Len(s) \in Nat
  BY DEF IsPath
<1> HIDE DEF S
<1> DEFINE r == SubSeq(s, i, j)
<1>2. r \in Seq(S) /\ Len(r) = (j - i) + 1 /\ \A k \in 1 .. (j - i) + 1 : r[k] = s[(k + i) - 1]
  BY <1>1
<1> HIDE DEF r
<1>3. IsPath(r)
  BY <1>2, OverOwnRange DEF IsPath
<1> QED
  BY <1>2, <1>3 DEF r

\* A sequence that is digits and lies w places further on in t.
LEMMA DigitsFurtherOn ==
    ASSUME NEW q, IsPath(q), NEW t, NEW w \in Nat, \A k \in 1 .. Len(q) : q[k] = t[k + w]
    PROVE  AllAreDigits(q) <=> Len(q) >= 1 /\ DigitsOn(t, w + 1, w + Len(q))
<1>1. Len(q) \in Nat
  BY DEF IsPath
<1>2. q # << >> <=> Len(q) >= 1
  <2>1. Len(q) = 0 <=> q = << >>
    <3>1. q = [k \in 1 .. Len(q) |-> q[k]]
      BY DEF IsPath
    <3> QED
      BY <3>1
  <2> QED
    BY <1>1, <2>1
<1>3. ASSUME \A k \in 1 .. Len(q) : IsDigit(q[k]), NEW k \in w + 1 .. w + Len(q) PROVE IsDigit(t[k])
  <2>1. k - w \in 1 .. Len(q) /\ (k - w) + w = k
    BY <1>1
  <2> QED
    BY <1>3, <2>1
<1>4. ASSUME DigitsOn(t, w + 1, w + Len(q)), NEW k \in 1 .. Len(q) PROVE IsDigit(q[k])
  <2>1. k + w \in w + 1 .. w + Len(q)
    BY <1>1
  <2> QED
    BY <1>4, <2>1 DEF DigitsOn
<1> QED
  BY <1>2, <1>3, <1>4 DEF AllAreDigits, DigitsOn

\* What is left of a sequence without its first element.
LEMMA TailIs ==
    ASSUME NEW s, IsPath(s), s # << >>
    PROVE  /\ IsPath(Tail(s)) /\ Len(Tail(s)) = Len(s) - 1 /\ Len(s) >= 1
           /\ \A k \in 1 .. Len(s) - 1 : Tail(s)[k] = s[k + 1]
<1> DEFINE S == Range(s)
<1>1. s \in Seq(S) /\ Len(s) \in Nat
  BY DEF IsPath
<1> HIDE DEF S
<1> DEFINE r == Tail(s)
<1>2. Len(s) >= 1
  BY <1>1
<1>3. r \in Seq(S) /\ Len(r) = Len(s) - 1 /\ \A k \in 1 .. Len(s) - 1 : r[k] = s[k + 1]
  BY <1>1, <1>2
<1> HIDE DEF r
<1>4. IsPath(r)
  BY <1>3, OverOwnRange DEF IsPath
<1> QED
  BY <1>2, <1>3, <1>4 DEF r

\* A token without its sign.
BodyOf(t) == IF t # << >> /\ t[1] = "-" THEN Tail(t) ELSE t

\* Its length and its characters, by their places in the token.
LEMMA BodyIs ==
    ASSUME NEW t, IsPath(t)
    PROVE  /\ IsPath(BodyOf(t)) /\ Offset(t) \in {0, 1} /\ Offset(t) <= Len(t)
           /\ Len(BodyOf(t)) = Len(t) - Offset(t)
           /\ \A k \in 1 .. Len(BodyOf(t)) : BodyOf(t)[k] = t[k + Offset(t)]
<1>1. Len(t) \in Nat
  BY DEF IsPath
<1>2. CASE t # << >> /\ t[1] = "-"
  BY <1>1, <1>2, TailIs DEF BodyOf, Offset
<1>3. CASE ~(t # << >> /\ t[1] = "-")
  <2>1. BodyOf(t) = t /\ Offset(t) = 0
    BY <1>3 DEF BodyOf, Offset
  <2>2. \A k \in 1 .. Len(t) : k + 0 = k
    BY <1>1
  <2> QED
    BY <1>1, <2>1, <2>2
<1> QED
  BY <1>2, <1>3

\* An exponent without its sign.
Magnitude(p) == IF p # << >> /\ p[1] \in {"+", "-"} THEN Tail(p) ELSE p

\* An exponent has digits behind its sign.
LEMMA MagnitudeIs ==
    ASSUME NEW t, IsPath(t), NEW e \in 1 .. Len(t), NEW p, IsPath(p), Len(p) = Len(t) - e,
           \A k \in 1 .. Len(p) : p[k] = t[k + e]
    PROVE  AllAreDigits(Magnitude(p)) <=> SignEnd(t, e) < Len(t) /\ DigitsOn(t, SignEnd(t, e) + 1, Len(t))
<1> DEFINE q == Magnitude(p)
           w == SignEnd(t, e)
<1>1. Len(t) \in Nat /\ Len(p) \in Nat
  BY DEF IsPath
<1>2. p # << >> <=> e < Len(t)
  <2>1. Len(p) = 0 <=> p = << >>
    <3>1. p = [k \in 1 .. Len(p) |-> p[k]]
      BY DEF IsPath
    <3> QED
      BY <3>1
  <2> QED
    BY <1>1, <2>1
<1>3. e < Len(t) => p[1] = t[e + 1]
  <2> SUFFICES ASSUME e < Len(t) PROVE p[1] = t[e + 1]
    OBVIOUS
  <2>1. 1 \in 1 .. Len(p) /\ 1 + e = e + 1
    BY <1>1
  <2>2. p[1] = t[1 + e]
    BY <2>1
  <2> QED
    BY <2>1, <2>2
<1>4. IsPath(q) /\ w \in Nat /\ Len(q) = Len(t) - w /\ \A k \in 1 .. Len(q) : q[k] = t[k + w]
  <2>1. CASE e < Len(t) /\ t[e + 1] \in {"+", "-"}
    <3>1. q = Tail(p) /\ w = e + 1
      BY <1>2, <1>3, <2>1 DEF Magnitude, SignEnd
    <3>2. IsPath(Tail(p)) /\ Len(Tail(p)) = Len(p) - 1 /\ \A k \in 1 .. Len(p) - 1 : Tail(p)[k] = p[k + 1]
      BY <1>2, <2>1, TailIs
    <3>3. ASSUME NEW k \in 1 .. Len(p) - 1 PROVE Tail(p)[k] = t[k + (e + 1)]
      <4>1. k + 1 \in 1 .. Len(p) /\ (k + 1) + e = k + (e + 1)
        BY <1>1
      <4>2. p[k + 1] = t[(k + 1) + e]
        BY <4>1
      <4> QED
        BY <3>2, <4>1, <4>2
    <3>4. e + 1 \in Nat /\ Len(p) - 1 = Len(t) - (e + 1)
      BY <1>1
    <3> QED
      BY <3>1, <3>2, <3>3, <3>4
  <2>2. CASE ~(e < Len(t) /\ t[e + 1] \in {"+", "-"})
    <3>1. q = p /\ w = e
      BY <1>2, <1>3, <2>2 DEF Magnitude, SignEnd
    <3> QED
      BY <3>1
  <2> QED
    BY <2>1, <2>2
<1> HIDE DEF q, w
<1>5. AllAreDigits(q) <=> Len(q) >= 1 /\ DigitsOn(t, w + 1, w + Len(q))
  BY <1>4, DigitsFurtherOn
<1>6. w + Len(q) = Len(t) /\ (Len(q) >= 1 <=> w < Len(t))
  BY <1>1, <1>4
<1>7. AllAreDigits(q) <=> w < Len(t) /\ DigitsOn(t, w + 1, Len(t))
  BY <1>5, <1>6
<1> QED
  BY <1>7 DEF q, w

\* Where InGrammar splits a token.
ExponentAt(t) == Find(BodyOf(t), ExpLetters)
MantissaOf(t) == SubSeq(BodyOf(t), 1, ExponentAt(t) - 1)
PointAt(t) == Find(MantissaOf(t), {"."})

\* Where these places are, and what stands there.
LEMMA SplitIs ==
    ASSUME NEW t, IsPath(t)
    PROVE  /\ ExponentAt(t) \in 1 .. Len(BodyOf(t)) + 1
           /\ IsPath(MantissaOf(t)) /\ Len(MantissaOf(t)) = ExponentAt(t) - 1
           /\ \A k \in 1 .. ExponentAt(t) - 1 : MantissaOf(t)[k] = t[k + Offset(t)]
           /\ ExponentAt(t) <= Len(BodyOf(t)) => t[ExponentAt(t) + Offset(t)] \in ExpLetters
           /\ PointAt(t) \in 1 .. ExponentAt(t)
           /\ PointAt(t) < ExponentAt(t) => t[PointAt(t) + Offset(t)] = "."
<1> DEFINE u == BodyOf(t)
           e == ExponentAt(t)
           m == MantissaOf(t)
           d == PointAt(t)
           o == Offset(t)
<1>1. /\ IsPath(u) /\ o \in {0, 1} /\ o <= Len(t)
      /\ Len(u) = Len(t) - o
      /\ \A k \in 1 .. Len(u) : u[k] = t[k + o]
  BY BodyIs
<1>2. Len(t) \in Nat /\ Len(u) \in Nat
  BY <1>1 DEF IsPath
<1>3. e \in 1 .. Len(u) + 1 /\ (e <= Len(u) => u[e] \in ExpLetters)
  BY <1>1, FindIsFirst DEF ExponentAt, Places
<1>4. m = SubSeq(u, 1, e - 1)
  BY DEF MantissaOf
<1>5. d = Find(m, {"."})
  BY DEF PointAt
<1> HIDE DEF u, e, m, d, o
<1>6. e - 1 \in Nat /\ 1 <= (e - 1) + 1 /\ e - 1 <= Len(u) /\ ((e - 1) - 1) + 1 = e - 1
  BY <1>2, <1>3
<1>7. IsPath(m) /\ Len(m) = e - 1 /\ \A k \in 1 .. e - 1 : m[k] = u[(k + 1) - 1]
  BY <1>1, <1>4, <1>6, PartOf
<1>8. ASSUME NEW k \in 1 .. e - 1 PROVE m[k] = t[k + o]
  <2>1. k \in 1 .. Len(u) /\ (k + 1) - 1 = k
    BY <1>2, <1>3
  <2> QED
    BY <1>1, <1>7, <2>1
<1>9. d \in 1 .. e /\ (d < e => m[d] = ".")
  <2>1. d \in Places(m) /\ (d <= Len(m) => m[d] \in {"."})
    BY <1>5, <1>7, FindIsFirst
  <2> QED
    BY <1>3, <1>7, <2>1 DEF Places
<1>10. d < e => t[d + o] = "."
  <2> SUFFICES ASSUME d < e PROVE t[d + o] = "."
    OBVIOUS
  <2>1. d \in 1 .. e - 1
    BY <1>3, <1>9
  <2> QED
    BY <1>8, <1>9, <2>1
<1>11. e <= Len(u) => t[e + o] \in ExpLetters
  <2> SUFFICES ASSUME e <= Len(u) PROVE t[e + o] \in ExpLetters
    OBVIOUS
  <2>1. e \in 1 .. Len(u)
    BY <1>2, <1>3
  <2> QED
    BY <1>1, <1>3, <2>1
<1> QED
  BY <1>3, <1>7, <1>8, <1>9, <1>10, <1>11 DEF u, e, m, d, o

\* InGrammar asks for the shape whose point and exponent are where it splits.
LEMMA GrammarIsShape ==
    ASSUME NEW t, IsPath(t)
    PROVE  InGrammar(t) <=> Shape(t, PointAt(t) + Offset(t), ExponentAt(t) + Offset(t))
<1> DEFINE u == BodyOf(t)
           e == ExponentAt(t)
           m == MantissaOf(t)
           d == PointAt(t)
           o == Offset(t)
           p == SubSeq(u, e + 1, Len(u))
<1>0. InGrammar(t) <=>
        /\ AllAreDigits(SubSeq(m, 1, d - 1))
        /\ m[1] = "0" => d = 2
        /\ d <= Len(m) => AllAreDigits(SubSeq(m, d + 1, Len(m)))
        /\ e <= Len(u) => AllAreDigits(Magnitude(p))
  BY DEF InGrammar, MantissaOf, PointAt, ExponentAt, BodyOf, Magnitude, ExpLetters
<1>1. /\ IsPath(u) /\ o \in {0, 1} /\ o <= Len(t)
      /\ Len(u) = Len(t) - o
      /\ \A k \in 1 .. Len(u) : u[k] = t[k + o]
  BY BodyIs
<1>2. Len(t) \in Nat /\ Len(u) \in Nat
  BY <1>1 DEF IsPath
<1>3. /\ e \in 1 .. Len(u) + 1
      /\ IsPath(m) /\ Len(m) = e - 1
      /\ \A k \in 1 .. e - 1 : m[k] = t[k + o]
      /\ e <= Len(u) => t[e + o] \in ExpLetters
      /\ d \in 1 .. e
      /\ d < e => t[d + o] = "."
  BY SplitIs
<1>4. o = Offset(t)
  OBVIOUS
<1>5. p = SubSeq(u, e + 1, Len(u))
  OBVIOUS
<1> HIDE DEF u, e, m, d, o, p
<1>6. AllAreDigits(SubSeq(m, 1, d - 1)) <=> o < (d + o) - 1 /\ DigitsOn(t, o + 1, (d + o) - 1)
  <2> DEFINE q == SubSeq(m, 1, d - 1)
  <2>1. d - 1 \in Nat /\ 1 <= (d - 1) + 1 /\ d - 1 <= Len(m) /\ ((d - 1) - 1) + 1 = d - 1
    BY <1>3
  <2>2. IsPath(q) /\ Len(q) = d - 1 /\ \A k \in 1 .. d - 1 : q[k] = m[(k + 1) - 1]
    BY <1>3, <2>1, PartOf
  <2> HIDE DEF q
  <2>3. ASSUME NEW k \in 1 .. Len(q) PROVE q[k] = t[k + o]
    <3>1. k \in 1 .. d - 1 /\ k \in 1 .. e - 1 /\ (k + 1) - 1 = k
      BY <1>3, <2>2
    <3> QED
      BY <1>3, <2>2, <3>1
  <2>4. AllAreDigits(q) <=> Len(q) >= 1 /\ DigitsOn(t, o + 1, o + Len(q))
    <3>1. o \in Nat
      BY <1>1
    <3> QED
      BY <2>2, <2>3, <3>1, DigitsFurtherOn
  <2>5. o + Len(q) = (d + o) - 1 /\ (Len(q) >= 1 <=> o < (d + o) - 1)
    BY <1>1, <1>3, <2>2
  <2>6. AllAreDigits(q) <=> o < (d + o) - 1 /\ DigitsOn(t, o + 1, (d + o) - 1)
    BY <2>4, <2>5
  <2> QED
    BY <2>6 DEF q
<1>7. (AllAreDigits(SubSeq(m, 1, d - 1)) /\ (m[1] = "0" => d = 2)) <=> WholeOn(t, (d + o) - 1)
  <2>1. (d + o) - 1 <= Len(t)
    BY <1>1, <1>2, <1>3
  <2>2. ASSUME o < (d + o) - 1 PROVE (m[1] = "0" => d = 2) <=> (t[o + 1] = "0" => (d + o) - 1 = o + 1)
    <3>1. 1 \in 1 .. e - 1 /\ 1 + o = o + 1
      BY <1>1, <1>3, <2>2
    <3>2. m[1] = t[o + 1]
      BY <1>3, <3>1
    <3>3. d = 2 <=> (d + o) - 1 = o + 1
      BY <1>1, <1>3
    <3> QED
      BY <3>2, <3>3
  <2> QED
    BY <1>4, <1>6, <2>1, <2>2 DEF WholeOn
<1>8. d <= Len(m) => (AllAreDigits(SubSeq(m, d + 1, Len(m)))
                        <=> d + o < (e + o) - 1 /\ DigitsOn(t, (d + o) + 1, (e + o) - 1))
  <2> SUFFICES ASSUME d <= Len(m)
               PROVE AllAreDigits(SubSeq(m, d + 1, Len(m)))
                        <=> d + o < (e + o) - 1 /\ DigitsOn(t, (d + o) + 1, (e + o) - 1)
    OBVIOUS
  <2> DEFINE q == SubSeq(m, d + 1, Len(m))
  <2>1. /\ d + 1 \in Nat /\ d + 1 >= 1 /\ Len(m) \in Nat /\ d + 1 <= Len(m) + 1 /\ Len(m) <= Len(m)
        /\ (Len(m) - (d + 1)) + 1 = Len(m) - d
    BY <1>3
  <2>2. IsPath(q) /\ Len(q) = Len(m) - d /\ \A k \in 1 .. Len(m) - d : q[k] = m[(k + (d + 1)) - 1]
    BY <1>3, <2>1, PartOf
  <2> HIDE DEF q
  <2>3. ASSUME NEW k \in 1 .. Len(q) PROVE q[k] = t[k + (d + o)]
    <3>1. /\ k \in 1 .. Len(m) - d /\ k + d \in 1 .. e - 1 /\ (k + (d + 1)) - 1 = k + d
          /\ (k + d) + o = k + (d + o)
      BY <1>1, <1>3, <2>2
    <3>2. m[k + d] = t[(k + d) + o]
      BY <1>3, <3>1
    <3> QED
      BY <2>2, <3>1, <3>2
  <2>4. d + o \in Nat
    BY <1>1, <1>3
  <2>5. AllAreDigits(q) <=> Len(q) >= 1 /\ DigitsOn(t, (d + o) + 1, (d + o) + Len(q))
    BY <2>2, <2>3, <2>4, DigitsFurtherOn
  <2>6. (d + o) + Len(q) = (e + o) - 1 /\ (Len(q) >= 1 <=> d + o < (e + o) - 1)
    BY <1>1, <1>3, <2>2
  <2>7. AllAreDigits(q) <=> d + o < (e + o) - 1 /\ DigitsOn(t, (d + o) + 1, (e + o) - 1)
    BY <2>5, <2>6
  <2> QED
    BY <2>7 DEF q
<1>9. (/\ AllAreDigits(SubSeq(m, 1, d - 1))
       /\ m[1] = "0" => d = 2
       /\ d <= Len(m) => AllAreDigits(SubSeq(m, d + 1, Len(m)))) <=> MantissaOn(t, d + o, (e + o) - 1)
  <2>1. d <= Len(m) <=> d + o # ((e + o) - 1) + 1
    BY <1>1, <1>3
  <2>2. (e + o) - 1 <= Len(t)
    BY <1>1, <1>2, <1>3
  <2>3. d <= Len(m) => t[d + o] = "."
    BY <1>3
  <2>4. ~(d <= Len(m)) => ~(d + o < (e + o) - 1)
    BY <1>1, <1>3
  <2> QED
    BY <1>7, <1>8, <2>1, <2>2, <2>3, <2>4 DEF MantissaOn
<1>10. e <= Len(u) => (AllAreDigits(Magnitude(p)) <=> ExponentOn(t, e + o, Len(t)))
  <2> SUFFICES ASSUME e <= Len(u) PROVE AllAreDigits(Magnitude(p)) <=> ExponentOn(t, e + o, Len(t))
    OBVIOUS
  <2>1. /\ e + 1 \in Nat /\ e + 1 >= 1 /\ e + 1 <= Len(u) + 1 /\ Len(u) <= Len(u)
        /\ (Len(u) - (e + 1)) + 1 = Len(u) - e
    BY <1>2, <1>3
  <2>2. IsPath(p) /\ Len(p) = Len(u) - e /\ \A k \in 1 .. Len(u) - e : p[k] = u[(k + (e + 1)) - 1]
    BY <1>1, <1>2, <1>5, <2>1, PartOf
  <2>3. ASSUME NEW k \in 1 .. Len(p) PROVE p[k] = t[k + (e + o)]
    <3>1. /\ k \in 1 .. Len(u) - e /\ k + e \in 1 .. Len(u) /\ (k + (e + 1)) - 1 = k + e
          /\ (k + e) + o = k + (e + o)
      BY <1>1, <1>2, <1>3, <2>2
    <3>2. u[k + e] = t[(k + e) + o]
      BY <1>1, <3>1
    <3> QED
      BY <2>2, <3>1, <3>2
  <2>4. e + o \in 1 .. Len(t) /\ Len(p) = Len(t) - (e + o)
    BY <1>1, <1>2, <1>3, <2>2
  <2>5. AllAreDigits(Magnitude(p)) <=>
          SignEnd(t, e + o) < Len(t) /\ DigitsOn(t, SignEnd(t, e + o) + 1, Len(t))
    BY <2>2, <2>3, <2>4, MagnitudeIs
  <2>6. e + o <= Len(t) /\ t[e + o] \in ExpLetters /\ Len(t) <= Len(t)
    BY <1>2, <1>3, <2>4
  <2> QED
    BY <2>5, <2>6 DEF ExponentOn
<1>11. (e <= Len(u) => AllAreDigits(Magnitude(p))) <=> (e + o = Len(t) + 1 \/ ExponentOn(t, e + o, Len(t)))
  <2>1. e <= Len(u) <=> e + o # Len(t) + 1
    BY <1>1, <1>2, <1>3
  <2>2. ~(e <= Len(u)) => e + o = Len(t) + 1
    BY <2>1
  <2> QED
    BY <1>10, <2>1, <2>2
<1>12. InGrammar(t) <=> Shape(t, d + o, e + o)
  BY <1>0, <1>9, <1>11 DEF Shape
<1> QED
  BY <1>12 DEF e, d, o

\* A mantissa is digits, and the point at its place.
LEMMA MantissaIs ==
    ASSUME NEW t, IsPath(t), NEW d \in Nat, NEW n \in Nat, MantissaOn(t, d, n)
    PROVE  /\ Offset(t) \in {0, 1} /\ Offset(t) + 1 < d /\ d <= n + 1 /\ d - 1 <= Len(t)
           /\ \A k \in Offset(t) + 1 .. n : k <= Len(t) => /\ t[k] \notin ExpLetters
                                                           /\ IsDigit(t[k]) \/ (t[k] = "." /\ k = d)
<1>1. Offset(t) \in {0, 1}
  BY DEF Offset
<1>2. Offset(t) < d - 1 /\ d - 1 <= Len(t) /\ Len(t) \in Nat /\ d <= n + 1
  BY DEF MantissaOn, WholeOn, IsPath
<1>3. ASSUME NEW k \in Offset(t) + 1 .. n, k <= Len(t)
      PROVE  t[k] \notin ExpLetters /\ (IsDigit(t[k]) \/ (t[k] = "." /\ k = d))
  <2>1. CASE k < d
    <3>1. k \in Offset(t) + 1 .. d - 1
      BY <1>1, <2>1
    <3>2. IsDigit(t[k])
      BY <3>1 DEF MantissaOn, WholeOn, DigitsOn
    <3> QED
      BY <3>2, NotDigits DEF ExpLetters
  <2>2. CASE k = d
    <3>1. d # n + 1
      BY <1>1, <2>2
    <3>2. t[d] = "."
      BY <3>1 DEF MantissaOn
    <3> QED
      BY <2>2, <3>2, NotDigits
  <2>3. CASE k > d
    <3>1. d # n + 1 /\ k \in d + 1 .. n
      BY <1>1, <2>3
    <3>2. IsDigit(t[k])
      BY <3>1 DEF MantissaOn, DigitsOn
    <3> QED
      BY <3>2, NotDigits DEF ExpLetters
  <2> QED
    BY <1>1, <2>1, <2>2, <2>3
<1> QED
  BY <1>1, <1>2, <1>3

\* A token has its shape in one way only, and InGrammar splits it there.
LEMMA ShapeIsSplit ==
    ASSUME NEW t, IsPath(t), NEW d \in Places(t), NEW e \in Places(t), Shape(t, d, e)
    PROVE  e = ExponentAt(t) + Offset(t) /\ d = PointAt(t) + Offset(t)
<1> DEFINE u == BodyOf(t)
           m == MantissaOf(t)
           o == Offset(t)
<1>1. /\ IsPath(u) /\ o \in {0, 1} /\ o <= Len(t)
      /\ Len(u) = Len(t) - o
      /\ \A k \in 1 .. Len(u) : u[k] = t[k + o]
  BY BodyIs
<1>2. Len(t) \in Nat /\ Len(u) \in Nat /\ d \in 1 .. Len(t) + 1 /\ e \in 1 .. Len(t) + 1
  BY <1>1 DEF IsPath, Places
<1>3. MantissaOn(t, d, e - 1) /\ d \in Nat /\ e - 1 \in Nat
  BY <1>2 DEF Shape
<1>4. /\ o + 1 < d /\ d <= e /\ d - 1 <= Len(t)
      /\ \A k \in o + 1 .. e - 1 : k <= Len(t) => /\ t[k] \notin ExpLetters
                                                  /\ IsDigit(t[k]) \/ (t[k] = "." /\ k = d)
  <2>1. (e - 1) + 1 = e
    BY <1>2
  <2> QED
    BY <1>3, <2>1, MantissaIs
<1>5. e <= Len(t) => t[e] \in ExpLetters
  BY <1>2 DEF Shape, ExponentOn
<1>6. d < e => t[d] = "."
  BY <1>2, <1>3 DEF MantissaOn
<1>7. o = Offset(t)
  OBVIOUS
<1> HIDE DEF u, m, o
<1>8. e - o \in Places(u) /\ (e - o) + o = e /\ d - o \in Nat /\ (d - o) + o = d
  BY <1>1, <1>2, <1>4 DEF Places
<1>9. ASSUME NEW i \in 1 .. (e - o) - 1 PROVE u[i] \notin ExpLetters
  <2>1. i \in 1 .. Len(u) /\ i + o \in o + 1 .. e - 1 /\ i + o <= Len(t)
    BY <1>1, <1>2, <1>8
  <2>2. t[i + o] \notin ExpLetters
    BY <1>4, <2>1
  <2> QED
    BY <1>1, <2>1, <2>2
<1>10. e - o <= Len(u) => u[e - o] \in ExpLetters
  <2> SUFFICES ASSUME e - o <= Len(u) PROVE u[e - o] \in ExpLetters
    OBVIOUS
  <2>1. e - o \in 1 .. Len(u) /\ e <= Len(t)
    BY <1>1, <1>2, <1>4
  <2>2. u[e - o] = t[(e - o) + o]
    BY <1>1, <2>1
  <2> QED
    BY <1>5, <1>8, <2>1, <2>2
<1>11. Find(u, ExpLetters) = e - o
  <2> DEFINE w == e - o
  <2>1. w \in Places(u) /\ (\A i \in 1 .. w - 1 : u[i] \notin ExpLetters) /\ (w <= Len(u) => u[w] \in ExpLetters)
    BY <1>8, <1>9, <1>10
  <2> HIDE DEF w
  <2>2. Find(u, ExpLetters) = w
    BY <1>1, <2>1, FirstIsFound
  <2> QED
    BY <2>2 DEF w
<1>12. ExponentAt(t) = e - o
  BY <1>11 DEF ExponentAt, u
<1>13. /\ IsPath(m) /\ Len(m) = (e - o) - 1
       /\ \A k \in 1 .. (e - o) - 1 : m[k] = t[k + o]
  BY <1>12, SplitIs DEF m, o
<1>14. d - o \in Places(m)
  BY <1>1, <1>2, <1>4, <1>13 DEF Places
<1>15. ASSUME NEW i \in 1 .. (d - o) - 1 PROVE m[i] \notin {"."}
  <2>1. i \in 1 .. (e - o) - 1 /\ i + o \in o + 1 .. e - 1 /\ i + o <= Len(t) /\ i + o # d
    BY <1>1, <1>2, <1>4
  <2>2. t[i + o] # "."
    BY <1>4, <2>1, NotDigits
  <2> QED
    BY <1>13, <2>1, <2>2
<1>16. d - o <= Len(m) => m[d - o] \in {"."}
  <2> SUFFICES ASSUME d - o <= Len(m) PROVE m[d - o] = "."
    OBVIOUS
  <2>1. d - o \in 1 .. (e - o) - 1 /\ d < e
    BY <1>1, <1>2, <1>4, <1>13
  <2>2. m[d - o] = t[(d - o) + o]
    BY <1>13, <2>1
  <2> QED
    BY <1>6, <1>8, <2>1, <2>2
<1>17. Find(m, {"."}) = d - o
  BY <1>13, <1>14, <1>15, <1>16, FirstIsFound
<1>18. PointAt(t) = d - o
  BY <1>17 DEF PointAt, m
<1> QED
  BY <1>1, <1>2, <1>12, <1>18 DEF o

\* The grammar in one formula.
LEMMA GrammarIsOneShape ==
    ASSUME NEW t, IsPath(t)
    PROVE  InGrammar(t) <=> HasShape(t)
<1>1. Len(t) \in Nat
  BY DEF IsPath
<1>2. ASSUME InGrammar(t) PROVE HasShape(t)
  <2> DEFINE d == PointAt(t) + Offset(t)
             e == ExponentAt(t) + Offset(t)
  <2>1. Shape(t, d, e)
    BY <1>2, GrammarIsShape
  <2>2. d \in Places(t) /\ e \in Places(t)
    <3>1. Offset(t) \in {0, 1} /\ Len(BodyOf(t)) = Len(t) - Offset(t)
      BY BodyIs
    <3>2. ExponentAt(t) \in 1 .. Len(BodyOf(t)) + 1 /\ PointAt(t) \in 1 .. ExponentAt(t)
      BY SplitIs
    <3> QED
      BY <1>1, <3>1, <3>2 DEF Places
  <2> QED
    BY <2>1, <2>2 DEF HasShape
<1>3. ASSUME HasShape(t) PROVE InGrammar(t)
  <2>1. PICK d, e \in Places(t) : Shape(t, d, e)
    BY <1>3 DEF HasShape
  <2>2. e = ExponentAt(t) + Offset(t) /\ d = PointAt(t) + Offset(t)
    BY <2>1, ShapeIsSplit
  <2> QED
    BY <2>1, <2>2, GrammarIsShape
<1> QED
  BY <1>2, <1>3

\* A number has its exponent where a mantissa is followed by one.
LEMMA ExponentIsThere ==
    ASSUME NEW t, IsPath(t), NEW d \in Places(t), NEW e \in Places(t), Shape(t, d, e),
           NEW c \in Nat, NEW f \in 1 .. Len(t), MantissaOn(t, c, f - 1), t[f] \in ExpLetters
    PROVE  e = f
<1>1. Len(t) \in Nat /\ d \in 1 .. Len(t) + 1 /\ e \in 1 .. Len(t) + 1
  BY DEF IsPath, Places
<1>2. d \in Nat /\ e - 1 \in Nat /\ f - 1 \in Nat /\ MantissaOn(t, d, e - 1)
  BY <1>1 DEF Shape
<1>3. /\ Offset(t) \in {0, 1} /\ Offset(t) + 1 < d /\ d <= (e - 1) + 1
      /\ \A k \in Offset(t) + 1 .. e - 1 : k <= Len(t) => t[k] \notin ExpLetters
  BY <1>2, MantissaIs
<1>4. /\ Offset(t) + 1 < c /\ c <= (f - 1) + 1
      /\ \A k \in Offset(t) + 1 .. f - 1 : k <= Len(t) => t[k] \notin ExpLetters
  BY <1>2, MantissaIs
<1>5. e <= Len(t) => t[e] \in ExpLetters
  BY <1>1 DEF Shape, ExponentOn
<1>6. ~(e < f)
  <2> SUFFICES ASSUME e < f PROVE FALSE
    OBVIOUS
  <2>1. e \in Offset(t) + 1 .. f - 1 /\ e <= Len(t)
    BY <1>1, <1>2, <1>3
  <2> QED
    BY <1>4, <1>5, <2>1
<1>7. ~(f < e)
  <2> SUFFICES ASSUME f < e PROVE FALSE
    OBVIOUS
  <2>1. f \in Offset(t) + 1 .. e - 1 /\ f <= Len(t)
    BY <1>1, <1>2, <1>3, <1>4
  <2> QED
    BY <1>3, <2>1
<1> QED
  BY <1>1, <1>6, <1>7

-----------------------------------------------------------------------------
(***************************************************************************)
(* What the scan has consumed when it expects a part of the grammar.       *)
(***************************************************************************)
\* What follows the first n characters.
Follows(t, n, c) == n < Len(t) /\ t[n + 1] = c
DigitFollows(t, n) == n < Len(t) /\ IsDigit(t[n + 1])
ExponentFollows(t, n) == Follows(t, n, "e") \/ Follows(t, n, "E")
ZeroLeads(t) == t[Offset(t) + 1] = "0"

\* Nothing that the scan may still take to the mantissa follows.
Ended(t, d, n) ==
    /\ d = n + 1 => ~Follows(t, n, ".") /\ (ZeroLeads(t) \/ ~DigitFollows(t, n))
    /\ d < n => ~DigitFollows(t, n)

\* The mantissa is followed by the letter of an exponent.
LetterOn(t, d, e) == MantissaOn(t, d, e - 1) /\ e <= Len(t) /\ t[e] \in ExpLetters

\* What the scan may expect next.
Phases == {"sign", "int", "moreInt", "point", "fraction", "moreFraction",
           "exp", "expSign", "expDigits", "moreExp", "end", "done"}

\* The first n characters of t are what was consumed when p is expected next.
ScannedTo(p, t, n) ==
    /\ p = "sign" => n = 0
    /\ p = "int" => n = Offset(t)
    /\ p = "moreInt" => WholeOn(t, n) /\ ~ZeroLeads(t)
    /\ p = "point" => WholeOn(t, n) /\ (ZeroLeads(t) \/ ~DigitFollows(t, n))
    /\ p = "fraction" => WholeOn(t, n - 1) /\ t[n] = "."
    /\ p = "moreFraction" => \E d \in Places(t) : d < n /\ MantissaOn(t, d, n)
    /\ p = "exp" => \E d \in Places(t) : MantissaOn(t, d, n) /\ Ended(t, d, n)
    /\ p = "expSign" => \E d \in Places(t) : LetterOn(t, d, n)
    /\ p = "expDigits" => \E d, e \in Places(t) : LetterOn(t, d, e) /\ n = SignEnd(t, e)
    /\ p = "moreExp" => \E d, e \in Places(t) : LetterOn(t, d, e) /\ ExponentOn(t, e, n)
    /\ p = "end" => \E d, e \in Places(t) :
                      \/ e = n + 1 /\ MantissaOn(t, d, n) /\ Ended(t, d, n) /\ ~ExponentFollows(t, n)
                      \/ LetterOn(t, d, e) /\ ExponentOn(t, e, n) /\ ~DigitFollows(t, n)

\* The scan has consumed the longest beginning of a number, and answers by what is left.
ScanInv ==
    /\ token \in Tokens /\ scanned \in 0 .. Len(token) /\ part \in Phases
    /\ ScannedTo(part, token, scanned)
    /\ part = "done" => (valid <=> HasShape(token))

\* Consuming one more character.
LEMMA DigitsGrow ==
    ASSUME NEW t, IsPath(t), NEW i \in Nat, NEW n \in Nat, DigitsOn(t, i, n), IsDigit(t[n + 1])
    PROVE  DigitsOn(t, i, n + 1)
<1> SUFFICES ASSUME NEW k \in i .. n + 1 PROVE IsDigit(t[k])
  BY DEF DigitsOn
<1>1. k \in i .. n \/ k = n + 1
  OBVIOUS
<1> QED
  BY <1>1 DEF DigitsOn

\* A minus sign is taken, or there is none.
LEMMA SignScanned ==
    ASSUME NEW t, IsPath(t), NEW n \in 0 .. Len(t), ScannedTo("sign", t, n)
    PROVE  /\ Follows(t, n, "-") => ScannedTo("int", t, n + 1)
           /\ ~Follows(t, n, "-") => ScannedTo("int", t, n)
<1>1. n = 0 /\ Len(t) \in Nat
  BY DEF ScannedTo, IsPath
<1>2. t # << >> <=> 0 < Len(t)
  <2>1. Len(t) = 0 <=> t = << >>
    <3>1. t = [k \in 1 .. Len(t) |-> t[k]]
      BY DEF IsPath
    <3> QED
      BY <3>1
  <2> QED
    BY <1>1, <2>1
<1>3. Follows(t, n, "-") <=> t # << >> /\ t[1] = "-"
  BY <1>1, <1>2 DEF Follows
<1>4. Offset(t) = IF Follows(t, n, "-") THEN 1 ELSE 0
  BY <1>3 DEF Offset
<1> QED
  BY <1>1, <1>4 DEF ScannedTo

\* A leading zero is the whole integer part; without a digit there is no number.
LEMMA IntegerScanned ==
    ASSUME NEW t, IsPath(t), NEW n \in 0 .. Len(t), ScannedTo("int", t, n)
    PROVE  /\ Follows(t, n, "0") => ScannedTo("point", t, n + 1)
           /\ ~Follows(t, n, "0") /\ DigitFollows(t, n) => ScannedTo("moreInt", t, n + 1)
           /\ ~Follows(t, n, "0") /\ ~DigitFollows(t, n) => ~HasShape(t)
<1>1. n = Offset(t) /\ Len(t) \in Nat
  BY DEF ScannedTo, IsPath
<1>2. ASSUME DigitFollows(t, n) PROVE WholeOn(t, n + 1)
  <2>1. \A k \in n + 1 .. n + 1 : IsDigit(t[k])
    BY <1>2 DEF DigitFollows
  <2> QED
    BY <1>1, <1>2, <2>1 DEF WholeOn, DigitsOn, DigitFollows
<1>3. Follows(t, n, "0") => DigitFollows(t, n) /\ ZeroLeads(t)
  BY <1>1, NotDigits DEF Follows, DigitFollows, ZeroLeads
<1>4. DigitFollows(t, n) /\ ~Follows(t, n, "0") => ~ZeroLeads(t)
  BY <1>1 DEF Follows, DigitFollows, ZeroLeads
<1>5. ASSUME HasShape(t) PROVE DigitFollows(t, n)
  <2>1. PICK d, e \in Places(t) : Shape(t, d, e)
    BY <1>5 DEF HasShape
  <2>2. n < d - 1 /\ d - 1 <= Len(t) /\ \A k \in n + 1 .. d - 1 : IsDigit(t[k])
    BY <1>1, <2>1 DEF Shape, MantissaOn, WholeOn, DigitsOn
  <2>3. n + 1 \in n + 1 .. d - 1 /\ n < Len(t)
    BY <1>1, <2>2 DEF Places
  <2> QED
    BY <2>2, <2>3 DEF DigitFollows
<1> QED
  BY <1>2, <1>3, <1>4, <1>5 DEF ScannedTo

\* The integer part goes on as long as there are digits.
LEMMA WholeScanned ==
    ASSUME NEW t, IsPath(t), NEW n \in 0 .. Len(t), ScannedTo("moreInt", t, n)
    PROVE  /\ DigitFollows(t, n) => ScannedTo("moreInt", t, n + 1)
           /\ ~DigitFollows(t, n) => ScannedTo("point", t, n)
<1>1. WholeOn(t, n) /\ ~ZeroLeads(t) /\ Len(t) \in Nat
  BY DEF ScannedTo, IsPath
<1>2. ASSUME DigitFollows(t, n) PROVE WholeOn(t, n + 1)
  <2>1. Offset(t) + 1 \in Nat
    BY DEF Offset
  <2>2. DigitsOn(t, Offset(t) + 1, n + 1)
    BY <1>1, <1>2, <2>1, DigitsGrow DEF WholeOn, DigitFollows
  <2>3. Offset(t) < n + 1 /\ n + 1 <= Len(t)
    BY <1>1, <1>2 DEF WholeOn, DigitFollows, Offset
  <2> QED
    BY <1>1, <2>2, <2>3 DEF WholeOn, ZeroLeads
<1> QED
  BY <1>1, <1>2 DEF ScannedTo

\* A point begins a fraction, or the mantissa ends here.
LEMMA PointScanned ==
    ASSUME NEW t, IsPath(t), NEW n \in 0 .. Len(t), ScannedTo("point", t, n)
    PROVE  /\ Follows(t, n, ".") => ScannedTo("fraction", t, n + 1)
           /\ ~Follows(t, n, ".") => ScannedTo("exp", t, n)
<1>1. WholeOn(t, n) /\ (ZeroLeads(t) \/ ~DigitFollows(t, n)) /\ Len(t) \in Nat
  BY DEF ScannedTo, IsPath
<1>2. (n + 1) - 1 = n /\ n + 1 \in Places(t)
  BY <1>1 DEF Places
<1>3. ASSUME ~Follows(t, n, ".") PROVE MantissaOn(t, n + 1, n) /\ Ended(t, n + 1, n)
  BY <1>1, <1>2, <1>3 DEF MantissaOn, Ended
<1>4. Follows(t, n, ".") => ScannedTo("fraction", t, n + 1)
  BY <1>1, <1>2 DEF ScannedTo, Follows
<1>5. ~Follows(t, n, ".") => ScannedTo("exp", t, n)
  BY <1>2, <1>3 DEF ScannedTo
<1> QED
  BY <1>4, <1>5

\* A number has a digit behind its point.
LEMMA FractionScanned ==
    ASSUME NEW t, IsPath(t), NEW n \in 0 .. Len(t), ScannedTo("fraction", t, n)
    PROVE  /\ DigitFollows(t, n) => ScannedTo("moreFraction", t, n + 1)
           /\ ~DigitFollows(t, n) => ~HasShape(t)
<1>1. WholeOn(t, n - 1) /\ t[n] = "." /\ Len(t) \in Nat
  BY DEF ScannedTo, IsPath
<1>2. Offset(t) \in {0, 1} /\ Offset(t) + 1 < n
  BY <1>1 DEF WholeOn, Offset
<1>3. ASSUME DigitFollows(t, n) PROVE ScannedTo("moreFraction", t, n + 1)
  <2>1. \A k \in n + 1 .. n + 1 : IsDigit(t[k])
    BY <1>3 DEF DigitFollows
  <2>2. MantissaOn(t, n, n + 1) /\ n \in Places(t) /\ n < n + 1
    BY <1>1, <1>2, <1>3, <2>1 DEF MantissaOn, DigitsOn, DigitFollows, Places
  <2> QED
    BY <2>2 DEF ScannedTo
<1>4. ASSUME HasShape(t) PROVE DigitFollows(t, n)
  <2>1. PICK d, e \in Places(t) : Shape(t, d, e)
    BY <1>4 DEF HasShape
  <2>2. d \in Nat /\ e - 1 \in Nat /\ MantissaOn(t, d, e - 1) /\ e \in 1 .. Len(t) + 1
    BY <1>1, <2>1 DEF Shape, Places
  <2>3. /\ Offset(t) + 1 < d /\ d <= (e - 1) + 1
        /\ \A k \in Offset(t) + 1 .. e - 1 : k <= Len(t) => IsDigit(t[k]) \/ (t[k] = "." /\ k = d)
    BY <2>2, MantissaIs
  <2>4. ~(e <= n)
    <3> SUFFICES ASSUME e <= n PROVE FALSE
      OBVIOUS
    <3>1. t[e] \in ExpLetters
      BY <1>1, <2>1, <2>2 DEF Shape, ExponentOn
    <3>2. CASE e = n
      BY <1>1, <3>1, <3>2, NotDigits
    <3>3. CASE e < n
      <4>1. e \in Offset(t) + 1 .. n - 1
        BY <1>2, <2>2, <2>3, <3>3
      <4>2. IsDigit(t[e])
        BY <1>1, <4>1 DEF WholeOn, DigitsOn
      <4> QED
        BY <3>1, <4>2, NotDigits DEF ExpLetters
    <3> QED
      BY <2>2, <3>2, <3>3
  <2>5. n \in Offset(t) + 1 .. e - 1 /\ n <= Len(t)
    BY <1>2, <2>2, <2>4
  <2>6. n = d
    BY <1>1, <2>3, <2>5, NotDigits
  <2>7. d < e - 1 /\ e - 1 <= Len(t) /\ DigitsOn(t, d + 1, e - 1)
    BY <2>2, <2>4, <2>6 DEF MantissaOn
  <2>8. n + 1 \in d + 1 .. e - 1 /\ n < Len(t)
    BY <2>2, <2>6, <2>7
  <2> QED
    BY <2>7, <2>8 DEF DigitFollows, DigitsOn
<1> QED
  BY <1>3, <1>4

\* The fraction goes on as long as there are digits.
LEMMA MoreFractionScanned ==
    ASSUME NEW t, IsPath(t), NEW n \in 0 .. Len(t), ScannedTo("moreFraction", t, n)
    PROVE  /\ DigitFollows(t, n) => ScannedTo("moreFraction", t, n + 1)
           /\ ~DigitFollows(t, n) => ScannedTo("exp", t, n)
<1>1. PICK d \in Places(t) : d < n /\ MantissaOn(t, d, n)
  BY DEF ScannedTo
<1>2. Len(t) \in Nat /\ d \in 1 .. Len(t) + 1
  BY DEF IsPath, Places
<1>3. WholeOn(t, d - 1) /\ t[d] = "." /\ DigitsOn(t, d + 1, n) /\ d # n + 1
  BY <1>1, <1>2 DEF MantissaOn
<1>4. ASSUME DigitFollows(t, n) PROVE d < n + 1 /\ MantissaOn(t, d, n + 1)
  <2>1. n + 1 <= Len(t) /\ d < n + 1
    BY <1>1, <1>2, <1>4 DEF DigitFollows
  <2>2. DigitsOn(t, d + 1, n + 1)
    <3>1. d + 1 \in Nat /\ n \in Nat
      BY <1>2
    <3> QED
      BY <1>3, <1>4, <3>1, DigitsGrow DEF DigitFollows
  <2> QED
    BY <1>3, <2>1, <2>2 DEF MantissaOn
<1>5. ~DigitFollows(t, n) => Ended(t, d, n)
  BY <1>1, <1>2, <1>3 DEF Ended
<1> QED
  BY <1>1, <1>4, <1>5 DEF ScannedTo

\* An e or E begins an exponent, or the number ends here.
LEMMA ExponentScanned ==
    ASSUME NEW t, IsPath(t), NEW n \in 0 .. Len(t), ScannedTo("exp", t, n)
    PROVE  /\ ExponentFollows(t, n) => ScannedTo("expSign", t, n + 1)
           /\ ~ExponentFollows(t, n) => ScannedTo("end", t, n)
<1>1. PICK d \in Places(t) : MantissaOn(t, d, n) /\ Ended(t, d, n)
  BY DEF ScannedTo
<1>2. Len(t) \in Nat /\ (n + 1) - 1 = n /\ n + 1 \in Places(t)
  BY DEF IsPath, Places
<1>3. ExponentFollows(t, n) => LetterOn(t, d, n + 1)
  BY <1>1, <1>2 DEF ExponentFollows, Follows, LetterOn, ExpLetters
<1>4. ExponentFollows(t, n) => ScannedTo("expSign", t, n + 1)
  BY <1>3 DEF ScannedTo
<1>5. ~ExponentFollows(t, n) => ScannedTo("end", t, n)
  BY <1>1, <1>2 DEF ScannedTo
<1> QED
  BY <1>4, <1>5

\* An exponent may have a sign.
LEMMA ExponentSignScanned ==
    ASSUME NEW t, IsPath(t), NEW n \in 0 .. Len(t), ScannedTo("expSign", t, n)
    PROVE  /\ Follows(t, n, "+") \/ Follows(t, n, "-") => ScannedTo("expDigits", t, n + 1)
           /\ ~(Follows(t, n, "+") \/ Follows(t, n, "-")) => ScannedTo("expDigits", t, n)
<1>1. PICK d \in Places(t) : LetterOn(t, d, n)
  BY DEF ScannedTo
<1>2. Len(t) \in Nat /\ d \in 1 .. Len(t) + 1 /\ n \in Nat
  BY DEF IsPath, Places
<1>3. n \in Places(t)
  <2>1. n # 0
    BY <1>1, <1>2 DEF LetterOn, MantissaOn, WholeOn, Offset
  <2> QED
    BY <1>2, <2>1 DEF Places
<1>4. SignEnd(t, n) = IF Follows(t, n, "+") \/ Follows(t, n, "-") THEN n + 1 ELSE n
  BY DEF SignEnd, Follows
<1> QED
  BY <1>1, <1>3, <1>4 DEF ScannedTo

\* A number has a digit in its exponent.
LEMMA ExponentDigitsScanned ==
    ASSUME NEW t, IsPath(t), NEW n \in 0 .. Len(t), ScannedTo("expDigits", t, n)
    PROVE  /\ DigitFollows(t, n) => ScannedTo("moreExp", t, n + 1)
           /\ ~DigitFollows(t, n) => ~HasShape(t)
<1>1. PICK d, e \in Places(t) : LetterOn(t, d, e) /\ n = SignEnd(t, e)
  BY DEF ScannedTo
<1>2. Len(t) \in Nat /\ d \in 1 .. Len(t) + 1 /\ e \in 1 .. Len(t)
  BY <1>1 DEF IsPath, Places, LetterOn
<1>3. ASSUME DigitFollows(t, n) PROVE ExponentOn(t, e, n + 1)
  <2>1. \A k \in n + 1 .. n + 1 : IsDigit(t[k])
    BY <1>3 DEF DigitFollows
  <2> QED
    BY <1>1, <1>2, <1>3, <2>1 DEF ExponentOn, LetterOn, DigitFollows, DigitsOn
<1>4. ASSUME HasShape(t) PROVE DigitFollows(t, n)
  <2>1. PICK c, f \in Places(t) : Shape(t, c, f)
    BY <1>4 DEF HasShape
  <2>2. f = e
    <3>1. MantissaOn(t, d, e - 1) /\ t[e] \in ExpLetters /\ d \in Nat
      BY <1>1, <1>2 DEF LetterOn
    <3> QED
      BY <1>2, <2>1, <3>1, ExponentIsThere
  <2>3. ExponentOn(t, e, Len(t))
    BY <1>2, <2>1, <2>2 DEF Shape
  <2>4. n < Len(t) /\ DigitsOn(t, n + 1, Len(t))
    BY <1>1, <2>3 DEF ExponentOn
  <2>5. n + 1 \in n + 1 .. Len(t)
    BY <1>2, <2>4
  <2> QED
    BY <2>4, <2>5 DEF DigitFollows, DigitsOn
<1> QED
  BY <1>1, <1>3, <1>4 DEF ScannedTo

\* The exponent goes on as long as there are digits.
LEMMA MoreExponentScanned ==
    ASSUME NEW t, IsPath(t), NEW n \in 0 .. Len(t), ScannedTo("moreExp", t, n)
    PROVE  /\ DigitFollows(t, n) => ScannedTo("moreExp", t, n + 1)
           /\ ~DigitFollows(t, n) => ScannedTo("end", t, n)
<1>1. PICK d, e \in Places(t) : LetterOn(t, d, e) /\ ExponentOn(t, e, n)
  BY DEF ScannedTo
<1>2. Len(t) \in Nat /\ e \in 1 .. Len(t) + 1 /\ SignEnd(t, e) \in Nat
  BY DEF IsPath, Places, SignEnd
<1>3. ASSUME DigitFollows(t, n) PROVE ExponentOn(t, e, n + 1)
  <2>1. DigitsOn(t, SignEnd(t, e) + 1, n + 1)
    <3>1. SignEnd(t, e) + 1 \in Nat /\ n \in Nat
      BY <1>2
    <3> QED
      BY <1>1, <1>3, <3>1, DigitsGrow DEF DigitFollows, ExponentOn
  <2> QED
    BY <1>1, <1>2, <1>3, <2>1 DEF ExponentOn, DigitFollows
<1> QED
  BY <1>1, <1>3 DEF ScannedTo

\* The token is a number when nothing is left behind the longest number it begins with.
LEMMA EndScanned ==
    ASSUME NEW t, IsPath(t), NEW n \in 0 .. Len(t), ScannedTo("end", t, n)
    PROVE  n = Len(t) <=> HasShape(t)
<1>1. PICK d, e \in Places(t) :
        \/ e = n + 1 /\ MantissaOn(t, d, n) /\ Ended(t, d, n) /\ ~ExponentFollows(t, n)
        \/ LetterOn(t, d, e) /\ ExponentOn(t, e, n) /\ ~DigitFollows(t, n)
  BY DEF ScannedTo
<1>2. Len(t) \in Nat /\ d \in 1 .. Len(t) + 1 /\ e \in 1 .. Len(t) + 1 /\ n \in Nat
  BY DEF IsPath, Places
<1>3. ASSUME n = Len(t) PROVE HasShape(t)
  <2>1. (n + 1) - 1 = n
    BY <1>2
  <2>2. Shape(t, d, e)
    BY <1>1, <1>3, <2>1 DEF Shape, LetterOn
  <2> QED
    BY <2>2 DEF HasShape
<1>4. ASSUME HasShape(t), n < Len(t) PROVE FALSE
  <2>1. PICK c, f \in Places(t) : Shape(t, c, f)
    BY <1>4 DEF HasShape
  <2>2. c \in Nat /\ f - 1 \in Nat /\ f \in 1 .. Len(t) + 1 /\ MantissaOn(t, c, f - 1)
    BY <1>2, <2>1 DEF Shape, Places
  <2>3. /\ Offset(t) \in {0, 1} /\ Offset(t) + 1 < c /\ c <= (f - 1) + 1
        /\ \A k \in Offset(t) + 1 .. f - 1 :
             k <= Len(t) => t[k] \notin ExpLetters /\ (IsDigit(t[k]) \/ (t[k] = "." /\ k = c))
    BY <2>2, MantissaIs
  <2>4. CASE LetterOn(t, d, e) /\ ExponentOn(t, e, n) /\ ~DigitFollows(t, n)
    <3>1. f = e
      <4>1. MantissaOn(t, d, e - 1) /\ t[e] \in ExpLetters /\ d \in Nat /\ e \in 1 .. Len(t)
        BY <1>2, <2>4 DEF LetterOn
      <4> QED
        BY <2>1, <4>1, ExponentIsThere
    <3>2. ExponentOn(t, e, Len(t))
      BY <1>2, <2>1, <2>4, <3>1 DEF Shape, LetterOn
    <3>3. SignEnd(t, e) < n /\ DigitsOn(t, SignEnd(t, e) + 1, Len(t)) /\ SignEnd(t, e) \in Nat
      BY <1>2, <2>4, <3>2 DEF ExponentOn, SignEnd
    <3>4. n + 1 \in SignEnd(t, e) + 1 .. Len(t)
      BY <1>2, <1>4, <3>3
    <3>5. DigitFollows(t, n)
      BY <1>4, <3>3, <3>4 DEF DigitFollows, DigitsOn
    <3> QED
      BY <2>4, <3>5
  <2>5. CASE e = n + 1 /\ MantissaOn(t, d, n) /\ Ended(t, d, n) /\ ~ExponentFollows(t, n)
    <3>1. /\ Offset(t) + 1 < d /\ d <= n + 1
          /\ \A k \in Offset(t) + 1 .. n : k <= Len(t) => t[k] \notin ExpLetters
      BY <1>2, <2>5, MantissaIs
    <3>2. t[n + 1] \notin ExpLetters
      BY <1>4, <2>5 DEF ExponentFollows, Follows, ExpLetters
    <3>3. f <= Len(t) => t[f] \in ExpLetters
      BY <2>1, <2>2 DEF Shape, ExponentOn
    <3>4. n + 1 < f
      <4> SUFFICES ASSUME f <= n + 1 PROVE FALSE
        BY <1>2, <2>2
      <4>1. t[f] \in ExpLetters
        BY <1>4, <1>2, <2>2, <3>3
      <4>2. f \in Offset(t) + 1 .. n /\ f <= Len(t)
        BY <1>2, <1>4, <2>2, <2>3, <3>2, <4>1
      <4> QED
        BY <3>1, <4>1, <4>2
    <3>5. n + 1 \in Offset(t) + 1 .. f - 1 /\ n + 1 <= Len(t)
      BY <1>2, <1>4, <2>2, <2>3, <3>1, <3>4
    <3>6. IsDigit(t[n + 1]) \/ (t[n + 1] = "." /\ n + 1 = c)
      BY <2>3, <3>5
    <3>7. CASE d = n + 1
      <4>1. t[n + 1] # "." /\ (ZeroLeads(t) \/ ~IsDigit(t[n + 1]))
        BY <1>4, <2>5, <3>7 DEF Ended, Follows, DigitFollows
      <4>2. ZeroLeads(t)
        BY <3>6, <4>1
      <4>3. c - 1 = Offset(t) + 1
        BY <2>2, <4>2 DEF MantissaOn, WholeOn, ZeroLeads
      <4>4. d - 1 = Offset(t) + 1
        BY <2>5, <4>2 DEF MantissaOn, WholeOn, ZeroLeads
      <4>5. c = n + 1 /\ c # (f - 1) + 1
        BY <1>2, <2>2, <2>3, <3>4, <3>7, <4>3, <4>4
      <4>6. t[c] = "."
        BY <2>2, <4>5 DEF MantissaOn
      <4> QED
        BY <4>1, <4>5, <4>6
    <3>8. CASE d # n + 1
      <4>1. d < n /\ t[d] = "." /\ d <= Len(t)
        BY <1>4, <1>2, <2>5, <3>8 DEF MantissaOn
      <4>2. ~IsDigit(t[n + 1])
        BY <1>4, <2>5, <4>1 DEF Ended, DigitFollows
      <4>3. n + 1 = c
        BY <3>6, <4>2
      <4>4. d \in Offset(t) + 1 .. c - 1
        BY <1>2, <2>2, <2>3, <3>1, <4>1, <4>3
      <4>5. IsDigit(t[d])
        BY <2>2, <4>4 DEF MantissaOn, WholeOn, DigitsOn
      <4> QED
        BY <4>1, <4>5, NotDigits
    <3> QED
      BY <3>7, <3>8
  <2> QED
    BY <1>1, <2>4, <2>5
<1> QED
  BY <1>2, <1>3, <1>4

-----------------------------------------------------------------------------
\* What the scan sees is what follows.
LEMMA SeesWhatFollows ==
    /\ \A c : Sees(c) <=> Follows(token, scanned, c)
    /\ SeesDigit <=> DigitFollows(token, scanned)
    /\ SeesExponent <=> ExponentFollows(token, scanned)
BY DEF Sees, SeesDigit, SeesExponent, Follows, DigitFollows, ExponentFollows

\* Nothing is consumed at first.
LEMMA ScanStarts == NumberInit => ScanInv
<1> SUFFICES ASSUME NumberInit PROVE ScanInv
  OBVIOUS
<1>1. IsPath(token)
  BY TokensAssumption, OverOwnRange DEF NumberInit, IsPath
<1>2. Len(token) \in Nat
  BY <1>1 DEF IsPath
<1> QED
  BY <1>2 DEF NumberInit, ScanInv, ScannedTo, Phases

\* One step of the scan.
LEMMA ScanContinues == ScanInv /\ [NumberNext]_numberVars => ScanInv'
<1> SUFFICES ASSUME ScanInv, [NumberNext]_numberVars PROVE ScanInv'
  OBVIOUS
<1> DEFINE t == token
           n == scanned
<1>1. /\ t \in Tokens /\ n \in 0 .. Len(t) /\ part \in Phases /\ ScannedTo(part, t, n)
      /\ part = "done" => (valid <=> HasShape(t))
  BY DEF ScanInv
<1>2. IsPath(t) /\ Len(t) \in Nat
  BY <1>1, TokensAssumption, OverOwnRange DEF IsPath
<1>3. ASSUME NEW p, Consume(p), p \in Phases, p # "done", n < Len(t), ScannedTo(p, t, n + 1) PROVE ScanInv'
  BY <1>1, <1>2, <1>3 DEF Consume, ScanInv
<1>4. ASSUME NEW p, Skip(p), p \in Phases, p # "done", ScannedTo(p, t, n) PROVE ScanInv'
  BY <1>1, <1>2, <1>4 DEF Skip, ScanInv
<1>5. ASSUME NEW v, Answer(v), v <=> HasShape(t) PROVE ScanInv'
  <2>1. ScannedTo("done", t, n)
    BY DEF ScannedTo
  <2> QED
    BY <1>1, <1>2, <1>5, <2>1 DEF Answer, ScanInv, Phases
<1>6. /\ \A c : Sees(c) <=> Follows(t, n, c)
      /\ SeesDigit <=> DigitFollows(t, n)
      /\ SeesExponent <=> ExponentFollows(t, n)
  BY SeesWhatFollows
<1>7. (\E c : Follows(t, n, c)) \/ DigitFollows(t, n) \/ ExponentFollows(t, n) => n < Len(t)
  BY DEF Follows, DigitFollows, ExponentFollows
<1>8. UNCHANGED numberVars => ScanInv'
  BY <1>1 DEF numberVars, ScanInv
<1> HIDE DEF t, n
<1>9. CASE Sign
  BY <1>1, <1>2, <1>3, <1>4, <1>6, <1>7, <1>9, SignScanned DEF Sign, Phases
<1>10. CASE IntegerPart
  BY <1>1, <1>2, <1>3, <1>5, <1>6, <1>7, <1>10, IntegerScanned DEF IntegerPart, LeadingZero, Phases
<1>11. CASE MoreDigits("moreInt", "point")
  BY <1>1, <1>2, <1>3, <1>4, <1>6, <1>7, <1>11, WholeScanned DEF MoreDigits, Phases
<1>12. CASE Point
  BY <1>1, <1>2, <1>3, <1>4, <1>6, <1>7, <1>12, PointScanned DEF Point, Phases
<1>13. CASE AtLeastOneDigit("fraction", "moreFraction")
  BY <1>1, <1>2, <1>3, <1>5, <1>6, <1>7, <1>13, FractionScanned DEF AtLeastOneDigit, Phases
<1>14. CASE MoreDigits("moreFraction", "exp")
  BY <1>1, <1>2, <1>3, <1>4, <1>6, <1>7, <1>14, MoreFractionScanned DEF MoreDigits, Phases
<1>15. CASE Exponent
  BY <1>1, <1>2, <1>3, <1>4, <1>6, <1>7, <1>15, ExponentScanned DEF Exponent, Phases
<1>16. CASE ExponentSign
  BY <1>1, <1>2, <1>3, <1>4, <1>6, <1>7, <1>16, ExponentSignScanned DEF ExponentSign, Phases
<1>17. CASE AtLeastOneDigit("expDigits", "moreExp")
  BY <1>1, <1>2, <1>3, <1>5, <1>6, <1>7, <1>17, ExponentDigitsScanned DEF AtLeastOneDigit, Phases
<1>18. CASE MoreDigits("moreExp", "end")
  BY <1>1, <1>2, <1>3, <1>4, <1>6, <1>7, <1>18, MoreExponentScanned DEF MoreDigits, Phases
<1>19. CASE End
  <2>1. (n = Len(t)) <=> HasShape(t)
    BY <1>1, <1>2, <1>19, EndScanned DEF End
  <2>2. Answer(n = Len(t))
    BY <1>19 DEF End, t, n
  <2> QED
    BY <1>5, <2>1, <2>2
<1> QED
  BY <1>8, <1>9, <1>10, <1>11, <1>12, <1>13, <1>14, <1>15, <1>16, <1>17, <1>18, <1>19 DEF NumberNext

\* The scan of validJSONNumber (canonical.go:286) answers yes for the tokens of the JSON
\* grammar and for no others, whatever the token.
THEOREM ScanIsRight == NumberSpec => []ScanDecidesTheGrammar
<1>1. ScanInv => ScanDecidesTheGrammar
  <2> SUFFICES ASSUME ScanInv, part = "done" PROVE valid <=> InGrammar(token)
    BY DEF ScanDecidesTheGrammar
  <2>1. IsPath(token)
    BY TokensAssumption, OverOwnRange DEF ScanInv, IsPath
  <2> QED
    BY <2>1, GrammarIsOneShape DEF ScanInv
<1> QED
  BY <1>1, ScanStarts, ScanContinues, PTL DEF NumberSpec

-----------------------------------------------------------------------------
(***************************************************************************)
(* Strings.  Reading a literal is one function of its beginnings, and what *)
(* is written for a character goes on from any reading of what was written *)
(* before: it is never taken for the second half of a surrogate pair, and  *)
(* a pair never for two characters.                                        *)
(***************************************************************************)
\* What may be written for one character, or for one half of a pair.
Units == {"raw", "short", "u"} \X Nat

\* R is what a parser reads of the beginnings of l.
Reads(R, l) ==
    R = [n \in 0 .. Len(l) |->
           IF n = 0 THEN << >>
           ELSE IF IsLow(l[n]) /\ n > 1 /\ IsHigh(l[n - 1])
                THEN Append(R[n - 2], Joined(l[n - 1], l[n]))
           ELSE Append(R[n - 1], l[n][2])]

\* A reading of l goes on to the next unit.
LEMMA ReadingGoesOn ==
    ASSUME NEW l \in Seq(Units), NEW x \in Units, \E R : Reads(R, l)
    PROVE  \E R : Reads(R, Append(l, x))
<1>1. PICK R : Reads(R, l)
  OBVIOUS
<1> DEFINE k == Append(l, x)
           N == Len(l)
           Q == [n \in 0 .. N + 1 |->
                   IF n <= N THEN R[n]
                   ELSE IF IsLow(x) /\ n > 1 /\ IsHigh(l[N]) THEN Append(R[n - 2], Joined(l[N], x))
                   ELSE Append(R[N], x[2])]
<1>2. N \in Nat /\ Len(k) = N + 1 /\ k[N + 1] = x /\ \A i \in 1 .. N : k[i] = l[i]
  OBVIOUS
<1>3. Q = [n \in 0 .. N + 1 |-> Q[n]]
  OBVIOUS
<1>4. \A n \in 0 .. N : Q[n] = R[n]
  BY <1>2
<1>5. Q[N + 1] = IF IsLow(x) /\ N + 1 > 1 /\ IsHigh(l[N]) THEN Append(R[N - 1], Joined(l[N], x))
                 ELSE Append(R[N], x[2])
  <2>1. N + 1 \in 0 .. N + 1 /\ ~(N + 1 <= N) /\ (N + 1) - 2 = N - 1
    BY <1>2
  <2> QED
    BY <2>1
<1>6. R = [n \in 0 .. N |->
             IF n = 0 THEN << >>
             ELSE IF IsLow(l[n]) /\ n > 1 /\ IsHigh(l[n - 1])
                  THEN Append(R[n - 2], Joined(l[n - 1], l[n]))
             ELSE Append(R[n - 1], l[n][2])]
  BY <1>1 DEF Reads
<1> HIDE DEF k, N, Q
<1>7. ASSUME NEW n \in 0 .. N + 1
      PROVE  Q[n] = IF n = 0 THEN << >>
                    ELSE IF IsLow(k[n]) /\ n > 1 /\ IsHigh(k[n - 1])
                         THEN Append(Q[n - 2], Joined(k[n - 1], k[n]))
                    ELSE Append(Q[n - 1], k[n][2])
  <2>1. CASE n = 0
    <3>1. 0 \in 0 .. N
      BY <1>2
    <3>2. R[0] = << >>
      BY <1>6, <3>1
    <3> QED
      BY <1>4, <2>1, <3>1, <3>2
  <2>2. CASE n \in 1 .. N
    <3>1. n \in 0 .. N /\ n # 0 /\ n - 1 \in 0 .. N /\ (n > 1 => n - 2 \in 0 .. N /\ n - 1 \in 1 .. N)
      BY <1>2, <2>2
    <3>2. Q[n] = R[n] /\ Q[n - 1] = R[n - 1] /\ k[n] = l[n] /\ (n > 1 => Q[n - 2] = R[n - 2] /\ k[n - 1] = l[n - 1])
      BY <1>2, <1>4, <2>2, <3>1
    <3>3. R[n] = IF IsLow(l[n]) /\ n > 1 /\ IsHigh(l[n - 1])
                 THEN Append(R[n - 2], Joined(l[n - 1], l[n]))
                 ELSE Append(R[n - 1], l[n][2])
      BY <1>6, <3>1
    <3>4. CASE n > 1
      BY <3>1, <3>2, <3>3, <3>4
    <3>5. CASE ~(n > 1)
      BY <3>1, <3>2, <3>3, <3>5
    <3> QED
      BY <3>4, <3>5
  <2>3. CASE n = N + 1
    <3>1. n # 0 /\ n - 1 = N /\ N \in 0 .. N /\ (n > 1 => n - 2 = N - 1 /\ N - 1 \in 0 .. N /\ N \in 1 .. N)
      BY <1>2, <2>3
    <3>2. k[n] = x /\ (n > 1 => k[N] = l[N] /\ Q[N - 1] = R[N - 1]) /\ Q[N] = R[N]
      BY <1>2, <1>4, <2>3, <3>1
    <3>3. CASE n > 1
      BY <1>5, <2>3, <3>1, <3>2, <3>3
    <3>4. CASE ~(n > 1)
      BY <1>5, <2>3, <3>1, <3>2, <3>4
    <3> QED
      BY <3>3, <3>4
  <2> QED
    BY <1>2, <2>1, <2>2, <2>3
<1>8. Reads(Q, k)
  BY <1>2, <1>3, <1>7 DEF Reads
<1> QED
  BY <1>8 DEF k

\* A reading of a longer literal begins with one of its beginning.
LEMMA ReadingsBegin ==
    ASSUME NEW l \in Seq(Units), NEW x \in Units, NEW Q, Reads(Q, Append(l, x))
    PROVE  /\ Reads([n \in 0 .. Len(l) |-> Q[n]], l)
           /\ Q[Len(l) + 1] = IF IsLow(x) /\ Len(l) > 0 /\ IsHigh(l[Len(l)])
                              THEN Append(Q[Len(l) - 1], Joined(l[Len(l)], x))
                              ELSE Append(Q[Len(l)], x[2])
<1> DEFINE k == Append(l, x)
           N == Len(l)
           R == [n \in 0 .. N |-> Q[n]]
<1>1. N \in Nat /\ Len(k) = N + 1 /\ k[N + 1] = x /\ \A i \in 1 .. N : k[i] = l[i]
  OBVIOUS
<1>2. Q = [n \in 0 .. N + 1 |->
             IF n = 0 THEN << >>
             ELSE IF IsLow(k[n]) /\ n > 1 /\ IsHigh(k[n - 1])
                  THEN Append(Q[n - 2], Joined(k[n - 1], k[n]))
             ELSE Append(Q[n - 1], k[n][2])]
  BY <1>1 DEF Reads
<1>3. R = [n \in 0 .. N |-> R[n]] /\ \A n \in 0 .. N : R[n] = Q[n]
  OBVIOUS
<1> HIDE DEF k, N, R
<1>4. ASSUME NEW n \in 0 .. N
      PROVE  R[n] = IF n = 0 THEN << >>
                    ELSE IF IsLow(l[n]) /\ n > 1 /\ IsHigh(l[n - 1])
                         THEN Append(R[n - 2], Joined(l[n - 1], l[n]))
                    ELSE Append(R[n - 1], l[n][2])
  <2>1. CASE n = 0
    <3>1. 0 \in 0 .. N + 1
      BY <1>1
    <3> QED
      BY <1>2, <1>3, <2>1, <3>1
  <2>2. CASE n # 0
    <3>1. n \in 0 .. N + 1 /\ n - 1 \in 0 .. N /\ n \in 1 .. N /\ (n > 1 => n - 2 \in 0 .. N /\ n - 1 \in 1 .. N)
      BY <1>1, <2>2
    <3>2. R[n] = Q[n] /\ R[n - 1] = Q[n - 1] /\ k[n] = l[n] /\ (n > 1 => R[n - 2] = Q[n - 2] /\ k[n - 1] = l[n - 1])
      BY <1>1, <1>3, <3>1
    <3>3. Q[n] = IF IsLow(k[n]) /\ n > 1 /\ IsHigh(k[n - 1])
                 THEN Append(Q[n - 2], Joined(k[n - 1], k[n]))
                 ELSE Append(Q[n - 1], k[n][2])
      BY <1>2, <2>2, <3>1
    <3>4. CASE n > 1
      BY <2>2, <3>2, <3>3, <3>4
    <3>5. CASE ~(n > 1)
      BY <2>2, <3>2, <3>3, <3>5
    <3> QED
      BY <3>4, <3>5
  <2> QED
    BY <2>1, <2>2
<1>5. Reads(R, l)
  BY <1>3, <1>4 DEF Reads, N
<1>6. Q[N + 1] = IF IsLow(x) /\ N > 0 /\ IsHigh(l[N])
                 THEN Append(Q[N - 1], Joined(l[N], x))
                 ELSE Append(Q[N], x[2])
  <2>1. N + 1 \in 0 .. N + 1 /\ N + 1 # 0 /\ (N + 1) - 1 = N /\ (N + 1) - 2 = N - 1 /\ (N + 1 > 1 <=> N > 0)
    BY <1>1
  <2>2. Q[N + 1] = IF IsLow(k[N + 1]) /\ N + 1 > 1 /\ IsHigh(k[N])
                   THEN Append(Q[N - 1], Joined(k[N], k[N + 1]))
                   ELSE Append(Q[N], k[N + 1][2])
    BY <1>2, <2>1
  <2>3. N > 0 => k[N] = l[N]
    BY <1>1
  <2>4. CASE N > 0
    BY <1>1, <2>1, <2>2, <2>3, <2>4
  <2>5. CASE ~(N > 0)
    BY <1>1, <2>1, <2>2, <2>5
  <2> QED
    BY <2>4, <2>5
<1> QED
  BY <1>5, <1>6 DEF R, N

\* Whoever reads l reads t.
Says(l, t) == (\E R : Reads(R, l)) /\ \A R : Reads(R, l) => R[Len(l)] = t

\* One more unit says one more character,
LEMMA SaysOneMore ==
    ASSUME NEW l \in Seq(Units), NEW t, Says(l, t), NEW x \in Units, ~IsLow(x)
    PROVE  Says(Append(l, x), Append(t, x[2]))
<1>1. \E R : Reads(R, Append(l, x))
  BY ReadingGoesOn DEF Says
<1>2. Len(l) \in Nat /\ Len(Append(l, x)) = Len(l) + 1
  OBVIOUS
<1>3. ASSUME NEW Q, Reads(Q, Append(l, x)) PROVE Q[Len(l) + 1] = Append(t, x[2])
  <2> DEFINE R == [n \in 0 .. Len(l) |-> Q[n]]
  <2>1. Reads(R, l) /\ Q[Len(l) + 1] = Append(Q[Len(l)], x[2])
    BY <1>3, ReadingsBegin
  <2>2. R[Len(l)] = Q[Len(l)]
    BY <1>2
  <2>3. R[Len(l)] = t
    <3> HIDE DEF R
    <3> QED
      BY <2>1 DEF Says
  <2> QED
    BY <2>1, <2>2, <2>3
<1> QED
  BY <1>1, <1>2, <1>3 DEF Says

\* and so do the two units of a surrogate pair.
LEMMA SaysAPairMore ==
    ASSUME NEW l \in Seq(Units), NEW t, Says(l, t),
           NEW h \in Units, IsHigh(h), ~IsLow(h), NEW x \in Units, IsLow(x)
    PROVE  Says(Append(Append(l, h), x), Append(t, Joined(h, x)))
<1> DEFINE k == Append(l, h)
<1>1. k \in Seq(Units) /\ Len(l) \in Nat /\ Len(k) = Len(l) + 1 /\ k[Len(l) + 1] = h
  OBVIOUS
<1>2. \E R : Reads(R, k)
  BY ReadingGoesOn DEF Says
<1>3. k = Append(l, h)
  OBVIOUS
<1> HIDE DEF k
<1>4. \E R : Reads(R, Append(k, x))
  BY <1>1, <1>2, ReadingGoesOn
<1>5. Len(Append(k, x)) = Len(l) + 2
  BY <1>1
<1>6. ASSUME NEW Q, Reads(Q, Append(k, x)) PROVE Q[Len(l) + 2] = Append(t, Joined(h, x))
  <2> DEFINE P == [n \in 0 .. Len(k) |-> Q[n]]
             R == [n \in 0 .. Len(l) |-> P[n]]
  <2>1. /\ Reads(P, k)
        /\ Q[Len(k) + 1] = IF IsLow(x) /\ Len(k) > 0 /\ IsHigh(k[Len(k)])
                           THEN Append(Q[Len(k) - 1], Joined(k[Len(k)], x))
                           ELSE Append(Q[Len(k)], x[2])
    BY <1>1, <1>6, ReadingsBegin
  <2>2. Q[Len(l) + 2] = Append(Q[Len(l)], Joined(h, x))
    <3>1. Len(k) + 1 = Len(l) + 2 /\ Len(k) - 1 = Len(l) /\ Len(k) > 0 /\ k[Len(k)] = h
      BY <1>1
    <3> QED
      BY <2>1, <3>1
  <2>3. P[Len(l)] = Q[Len(l)] /\ R[Len(l)] = P[Len(l)]
    BY <1>1
  <2>4. Reads(R, l)
    <3> HIDE DEF P
    <3> QED
      BY <1>3, <2>1, ReadingsBegin
  <2>5. R[Len(l)] = t
    <3> HIDE DEF R
    <3> QED
      BY <2>4 DEF Says
  <2> QED
    BY <2>2, <2>3, <2>5
<1>7. Says(Append(k, x), Append(t, Joined(h, x)))
  BY <1>4, <1>5, <1>6 DEF Says
<1> QED
  BY <1>7 DEF k

\* What may stand between the quotes.
IsLegal(x, a) ==
    x[1] = "raw" => /\ x[2] >= 32 /\ x[2] \notin {Quote, Backslash}
                    /\ a => x[2] < Delete

\* A code point is written as one unit that is no low surrogate, or as the pair it is.
LEMMA EscapedIs ==
    ASSUME NEW c, IsRune(c)
    PROVE  \/ \E x \in Units : /\ Escaped(c) = <<x>> /\ IsLegal(x, ascii) /\ ~IsLow(x) /\ x[2] = c
           \/ \E h, x \in Units : /\ Escaped(c) = <<h, x>> /\ IsLegal(h, ascii) /\ IsLegal(x, ascii)
                                  /\ IsHigh(h) /\ ~IsLow(h) /\ IsLow(x) /\ Joined(h, x) = c
<1>1. c \in Nat /\ c <= 1114111 /\ c \notin 55296 .. 57343
  BY DEF IsRune
<1>2. /\ Short(c) \in Units /\ IsLegal(Short(c), ascii) /\ ~IsLow(Short(c)) /\ Short(c)[2] = c
  BY <1>1 DEF Short, Units, IsLegal, IsLow
<1>3. /\ Unicode(c) \in Units /\ IsLegal(Unicode(c), ascii) /\ ~IsLow(Unicode(c)) /\ Unicode(c)[2] = c
  BY <1>1 DEF Unicode, Units, IsLegal, IsLow
<1>4. ASSUME ~MustEscape(c), c >= 32, ascii => c < Delete
      PROVE  /\ Raw(c) \in Units /\ IsLegal(Raw(c), ascii) /\ ~IsLow(Raw(c)) /\ Raw(c)[2] = c
  BY <1>1, <1>4 DEF Raw, Units, IsLegal, IsLow, MustEscape, ShortEscapes
<1>5. ASSUME c > 65535
      PROVE  \E h, x \in Units : /\ SurrogatePair(c) = <<h, x>> /\ IsLegal(h, ascii) /\ IsLegal(x, ascii)
                                 /\ IsHigh(h) /\ ~IsLow(h) /\ IsLow(x) /\ Joined(h, x) = c
  <2> DEFINE q == (c - 65536) \div 1024
             r == (c - 65536) % 1024
             h == Unicode(55296 + q)
             x == Unicode(56320 + r)
  <2>1. q \in Nat /\ r \in 0 .. 1023 /\ 1024 * q + r = c - 65536 /\ q <= 1023
    BY <1>1, <1>5
  <2>2. SurrogatePair(c) = <<h, x>>
    BY DEF SurrogatePair
  <2> HIDE DEF q, r
  <2>3. h \in Units /\ x \in Units /\ IsLegal(h, ascii) /\ IsLegal(x, ascii)
    BY <2>1 DEF Unicode, Units, IsLegal
  <2>4. IsHigh(h) /\ ~IsLow(h) /\ IsLow(x)
    BY <2>1 DEF Unicode, IsHigh, IsLow
  <2>5. h[2] = 55296 + q /\ x[2] = 56320 + r
    BY DEF Unicode
  <2>6. Joined(h, x) = c
    <3> HIDE DEF h, x
    <3> QED
      BY <1>1, <2>1, <2>5 DEF Joined
  <2> HIDE DEF h, x
  <2> QED
    BY <2>2, <2>3, <2>4, <2>6
<1>6. CASE MustEscape(c)
  BY <1>2, <1>6 DEF Escaped
<1>7. CASE ~MustEscape(c) /\ ascii
  <2>1. CASE c < 32 \/ c = Delete
    <3>1. Escaped(c) = <<Unicode(c)>>
      BY <1>7, <2>1 DEF Escaped, EscapedRune
    <3> QED
      BY <1>3, <3>1
  <2>2. CASE ~(c < 32 \/ c = Delete) /\ c < RuneSelf
    <3>1. c >= 32 /\ c < Delete
      BY <1>1, <2>2 DEF RuneSelf, Delete
    <3>2. Escaped(c) = <<Raw(c)>>
      BY <1>7, <2>2 DEF Escaped, EscapedRune
    <3> QED
      BY <1>4, <1>7, <3>1, <3>2
  <2>3. CASE ~(c < 32 \/ c = Delete) /\ ~(c < RuneSelf) /\ c > 65535
    <3>1. Escaped(c) = SurrogatePair(c)
      BY <1>7, <2>3 DEF Escaped, EscapedRune
    <3> QED
      BY <1>5, <2>3, <3>1
  <2>4. CASE ~(c < 32 \/ c = Delete) /\ ~(c < RuneSelf) /\ ~(c > 65535)
    <3>1. Escaped(c) = <<Unicode(c)>>
      BY <1>7, <2>4 DEF Escaped, EscapedRune
    <3> QED
      BY <1>3, <3>1
  <2> QED
    BY <2>1, <2>2, <2>3, <2>4
<1>8. CASE ~MustEscape(c) /\ ~ascii
  <2>1. CASE c < 32
    BY <1>3, <1>8, <2>1 DEF Escaped, EscapedBytes
  <2>2. CASE ~(c < 32)
    <3>1. Escaped(c) = <<Raw(c)>>
      BY <1>8, <2>2 DEF Escaped, EscapedBytes
    <3> QED
      BY <1>1, <1>4, <1>8, <2>2, <3>1
  <2> QED
    BY <2>1, <2>2
<1> QED
  BY <1>6, <1>7, <1>8

-----------------------------------------------------------------------------
\* What is written so far is legal and says what was copied so far.
StringInv ==
    /\ text \in Texts /\ ascii \in BOOLEAN /\ written \in 0 .. Len(text) /\ literal \in Seq(Units)
    /\ stage \in {"writing", "ok"} => IsValid
    /\ stage = "ok" => written = Len(text)
    /\ \A i \in 1 .. Len(literal) : IsLegal(literal[i], ascii)
    /\ Says(literal, SubSeq(text, 1, written))

\* The empty literal says the empty text.
LEMMA NothingSaysNothing == Says(<< >>, << >>)
<1> DEFINE l == << >>
           Z == [n \in 0 .. 0 |-> << >>]
<1>1. Len(l) = 0
  OBVIOUS
<1>2. Reads(Z, l)
  BY <1>1 DEF Reads
<1>3. ASSUME NEW R, Reads(R, l) PROVE R[0] = << >>
  <2>1. R = [n \in 0 .. 0 |->
           IF n = 0 THEN << >>
           ELSE IF IsLow(l[n]) /\ n > 1 /\ IsHigh(l[n - 1])
                THEN Append(R[n - 2], Joined(l[n - 1], l[n]))
           ELSE Append(R[n - 1], l[n][2])]
    BY <1>1, <1>3 DEF Reads
  <2>2. 0 \in 0 .. 0
    OBVIOUS
  <2> QED
    BY <2>1, <2>2
<1> HIDE DEF Z
<1>4. \E R : Reads(R, l)
  BY <1>2
<1> QED
  BY <1>1, <1>3, <1>4 DEF Says

\* Nothing is written at first.
LEMMA StringStarts == StringInit => StringInv
<1> SUFFICES ASSUME StringInit PROVE StringInv
  OBVIOUS
<1>1. /\ text \in Texts /\ ascii \in BOOLEAN /\ written = 0 /\ literal = << >> /\ stage = "start"
      /\ text \in Seq(Int)
  BY TextsAssumption DEF StringInit
<1>2. Len(text) \in Nat /\ SubSeq(text, 1, 0) = << >> /\ << >> \in Seq(Units) /\ Len(<< >>) = 0
  BY <1>1
<1>3. Says(literal, SubSeq(text, 1, written))
  BY <1>1, <1>2, NothingSaysNothing
<1> QED
  BY <1>1, <1>2, <1>3 DEF StringInv

\* A copied character is read back as itself, in either flavour.
LEMMA CharacterIsWritten ==
    ASSUME StringInv, WriteCharacter
    PROVE  StringInv'
<1> DEFINE c == text[written + 1]
           t == SubSeq(text, 1, written)
<1>1. /\ text \in Seq(Int) /\ written \in Nat /\ written < Len(text)
      /\ literal \in Seq(Units) /\ ascii \in BOOLEAN
      /\ literal' = literal \o Escaped(c) /\ written' = written + 1
      /\ text' = text /\ ascii' = ascii /\ stage' = stage /\ stage = "writing" /\ IsValid
  BY TextsAssumption DEF StringInv, WriteCharacter
<1>2. IsRune(c) /\ Len(text) \in Nat
  <2>1. written + 1 \in 1 .. Len(text)
    BY <1>1
  <2> QED
    BY <1>1, <2>1, TextsAssumption DEF IsValid, StringInv
<1>3. SubSeq(text, 1, written + 1) = Append(t, c)
  BY <1>1
<1>4. Says(literal, t) /\ \A i \in 1 .. Len(literal) : IsLegal(literal[i], ascii)
  BY DEF StringInv
<1> HIDE DEF c, t
<1>5. Len(literal) \in Nat
  BY <1>1
<1>6. /\ literal' \in Seq(Units) /\ Says(literal', Append(t, c))
      /\ \A i \in 1 .. Len(literal') : IsLegal(literal'[i], ascii)
  <2>1. CASE \E x \in Units : /\ Escaped(c) = <<x>> /\ IsLegal(x, ascii) /\ ~IsLow(x) /\ x[2] = c
    <3>1. PICK x \in Units : Escaped(c) = <<x>> /\ IsLegal(x, ascii) /\ ~IsLow(x) /\ x[2] = c
      BY <2>1
    <3>2. literal' = Append(literal, x)
      BY <1>1, <3>1
    <3>3. /\ Append(literal, x) \in Seq(Units) /\ Len(Append(literal, x)) = Len(literal) + 1
          /\ Append(literal, x)[Len(literal) + 1] = x
          /\ \A i \in 1 .. Len(literal) : Append(literal, x)[i] = literal[i]
      BY <1>1
    <3>4. Says(Append(literal, x), Append(t, c))
      BY <1>1, <1>4, <3>1, SaysOneMore
    <3> QED
      BY <1>4, <1>5, <3>1, <3>2, <3>3, <3>4
  <2>2. CASE \E h, x \in Units : /\ Escaped(c) = <<h, x>> /\ IsLegal(h, ascii) /\ IsLegal(x, ascii)
                                 /\ IsHigh(h) /\ ~IsLow(h) /\ IsLow(x) /\ Joined(h, x) = c
    <3>1. PICK h, x \in Units : /\ Escaped(c) = <<h, x>> /\ IsLegal(h, ascii) /\ IsLegal(x, ascii)
                                /\ IsHigh(h) /\ ~IsLow(h) /\ IsLow(x) /\ Joined(h, x) = c
      BY <2>2
    <3> DEFINE k == Append(literal, h)
               m == Append(k, x)
    <3>2. /\ k \in Seq(Units) /\ Len(k) = Len(literal) + 1 /\ k[Len(literal) + 1] = h
          /\ \A i \in 1 .. Len(literal) : k[i] = literal[i]
      BY <1>1
    <3>3. literal' = m
      <4>1. literal \o <<h, x>> = Append(Append(literal, h), x)
        BY <1>1
      <4> QED
        BY <1>1, <3>1, <4>1
    <3>4. Says(m, Append(t, c))
      BY <1>1, <1>4, <3>1, SaysAPairMore
    <3> HIDE DEF k
    <3>5. /\ m \in Seq(Units) /\ Len(m) = Len(k) + 1 /\ m[Len(k) + 1] = x
          /\ \A i \in 1 .. Len(k) : m[i] = k[i]
      BY <3>2
    <3> HIDE DEF m
    <3> QED
      BY <1>4, <1>5, <3>1, <3>2, <3>3, <3>4, <3>5
  <2> QED
    BY <1>1, <1>2, <2>1, <2>2, EscapedIs
<1>8. /\ written' \in 0 .. Len(text)
      /\ text \in Texts
  BY <1>1, <1>2 DEF StringInv
<1>9. IsValid'
  BY <1>1 DEF IsValid
<1>10. \A i \in 1 .. Len(literal') : IsLegal(literal'[i], ascii')
  BY <1>1, <1>6
<1>11. Says(literal', SubSeq(text', 1, written'))
  BY <1>1, <1>3, <1>6 DEF t
<1> QED
  BY <1>1, <1>6, <1>8, <1>9, <1>10, <1>11 DEF StringInv

\* Every step keeps it.
LEMMA StringGoesOn == StringInv /\ [StringNext]_stringVars => StringInv'
<1> SUFFICES ASSUME StringInv, [StringNext]_stringVars PROVE StringInv'
  OBVIOUS
<1>1. CASE Validate
  BY <1>1 DEF Validate, StringInv, IsValid
<1>2. CASE WriteCharacter
  BY <1>2, CharacterIsWritten
<1>3. CASE Close
  BY <1>3 DEF Close, StringInv, IsValid
<1>4. CASE UNCHANGED stringVars
  BY <1>4 DEF stringVars, StringInv, IsValid
<1> QED
  BY <1>1, <1>2, <1>3, <1>4 DEF StringNext

\* From what writeCanonicalString (canonical.go:164) and writeCanonicalStringASCII
\* (canonical.go:215) write of a valid text,
\* whatever it is, a parser reads that very text.
THEOREM StringsAreReadBack == StringSpec => []StringsReadBack
<1>1. StringInv => StringsReadBack
  <2> SUFFICES ASSUME StringInv PROVE StringsReadBack
    OBVIOUS
  <2>1. IsStringLiteral /\ (ascii => \A i \in 1 .. Len(literal) : literal[i][1] = "raw" => literal[i][2] < Delete)
    BY DEF StringInv, IsLegal, IsStringLiteral
  <2>2. ASSUME stage = "ok" PROVE Read[Len(literal)] = text
    <3>1. text \in Seq(Int) /\ written = Len(text)
      BY <2>2, TextsAssumption DEF StringInv
    <3>2. SubSeq(text, 1, Len(text)) = text
      BY <3>1
    <3>3. Read = CHOOSE R : Reads(R, literal)
      BY DEF Read, Reads
    <3>4. (\E R : Reads(R, literal)) /\ \A R : Reads(R, literal) => R[Len(literal)] = text
      BY <3>1, <3>2 DEF StringInv, Says
    <3>5. Reads(Read, literal)
      BY <3>3, <3>4
    <3> QED
      BY <3>4, <3>5
  <2> QED
    BY <2>1, <2>2 DEF StringsReadBack
<1> QED
  BY <1>1, StringStarts, StringGoesOn, PTL DEF StringSpec

-----------------------------------------------------------------------------
(***************************************************************************)
(* A value in a memory h, whatever the walk is doing.                      *)
(***************************************************************************)
ItemsIn(h, n) == {h[n].items[k] : k \in DOMAIN h[n].items}
ClosedIn(h, S) == \A n \in S : ItemsIn(h, n) \subseteq S
ReachableIn(h, n) == {m \in Nodes : \A S \in SUBSET Nodes : n \in S /\ ClosedIn(h, S) => m \in S}
InsideIn(h, m, n) == \E i \in ItemsIn(h, n) : m \in ReachableIn(h, i)

\* Memory in which every item is a node.
IsMemory(h) ==
    \A n \in Nodes : /\ DOMAIN h[n].items \subseteq Keys
                     /\ \A k \in DOMAIN h[n].items : h[n].items[k] \in Nodes

\* Every heap of an instance is such a memory.
LEMMA HeapsAreMemories ==
    ASSUME NEW h \in Heaps
    PROVE  IsMemory(h)
BY HeapAssumption DEF IsMemory

\* What is reachable is closed, and the least such set.
LEMMA Reach ==
    ASSUME NEW h, IsMemory(h), NEW n \in Nodes
    PROVE  /\ n \in ReachableIn(h, n)
           /\ ReachableIn(h, n) \in SUBSET Nodes
           /\ ClosedIn(h, ReachableIn(h, n))
           /\ \A S \in SUBSET Nodes : n \in S /\ ClosedIn(h, S) => ReachableIn(h, n) \subseteq S
<1>1. ASSUME NEW m \in ReachableIn(h, n), NEW i \in ItemsIn(h, m) PROVE i \in ReachableIn(h, n)
  <2>1. m \in Nodes /\ i \in Nodes
    BY <1>1 DEF ReachableIn, ItemsIn, IsMemory
  <2>2. ASSUME NEW S \in SUBSET Nodes, n \in S, ClosedIn(h, S) PROVE i \in S
    <3>1. m \in S
      BY <2>2 DEF ReachableIn
    <3> QED
      BY <2>2, <3>1 DEF ClosedIn
  <2> QED
    BY <2>1, <2>2 DEF ReachableIn
<1> QED
  BY <1>1 DEF ReachableIn, ClosedIn

\* What is reachable from an item is inside, and so is what is inside of that.
LEMMA Inside ==
    ASSUME NEW h, IsMemory(h), NEW n \in Nodes, NEW m \in ItemsIn(h, n)
    PROVE  /\ m \in Nodes /\ InsideIn(h, m, n)
           /\ \A l \in Nodes : InsideIn(h, n, l) => InsideIn(h, m, l)
           /\ \A l \in Nodes : n \in ReachableIn(h, l) => m \in ReachableIn(h, l)
<1>1. m \in Nodes
  BY DEF ItemsIn, IsMemory
<1>2. InsideIn(h, m, n)
  BY <1>1, Reach DEF InsideIn
<1>3. ASSUME NEW l \in Nodes, n \in ReachableIn(h, l) PROVE m \in ReachableIn(h, l)
  BY <1>3, Reach DEF ClosedIn
<1>4. ASSUME NEW l \in Nodes, InsideIn(h, n, l) PROVE InsideIn(h, m, l)
  <2>1. PICK i \in ItemsIn(h, l) : n \in ReachableIn(h, i)
    BY <1>4 DEF InsideIn
  <2>2. i \in Nodes
    BY <2>1 DEF ItemsIn, IsMemory
  <2> QED
    BY <1>3, <2>1, <2>2 DEF InsideIn
<1> QED
  BY <1>1, <1>2, <1>3, <1>4

-----------------------------------------------------------------------------
\* The keys of a value in their order.
Sorted(K) == [k \in 1 .. Cardinality(K) |-> NthOf(K, k)]
OrderIn(h, n) == Sorted(DOMAIN h[n].items)

\* There is one order of a set of keys.
LEMMA OneOrder ==
    ASSUME NEW K \in SUBSET Keys
    PROVE  /\ IsFiniteSet(K) /\ K \in SUBSET Nat /\ Cardinality(K) \in Nat
           /\ Sorted(K) \in Seq(K) /\ Len(Sorted(K)) = Cardinality(K)
           /\ {s \in Listings(K) : \A i, j \in DOMAIN s : i < j => s[i] < s[j]} = {Sorted(K)}
           /\ \A k \in K : \E i \in 1 .. Cardinality(K) : Sorted(K)[i] = k
<1>1. IsFiniteSet(K) /\ K \in SUBSET Nat /\ Cardinality(K) \in Nat
  BY HeapAssumption, FS_Subset, FS_CardinalityType
<1> DEFINE c == Cardinality(K)
<1>2. /\ \A k \in 1 .. c : NthOf(K, k) \in K
      /\ \A k, m \in 1 .. c : k < m => NthOf(K, k) < NthOf(K, m)
      /\ \A i \in K : \E k \in 1 .. c : NthOf(K, k) = i
  BY <1>1, PlacesInOrder
<1> HIDE DEF c
<1>3. Sorted(K) = [k \in 1 .. c |-> NthOf(K, k)]
  BY DEF Sorted, c
<1>4. c \in Nat
  BY <1>1 DEF c
<1>5. Sorted(K) \in [1 .. c -> K] /\ Sorted(K) \in Seq(K) /\ Len(Sorted(K)) = c
  BY <1>2, <1>3, <1>4
<1>6. \A i, j \in 1 .. c : i < j => Sorted(K)[i] < Sorted(K)[j]
  BY <1>2, <1>3
<1>7. \A i, j \in 1 .. c : i # j => Sorted(K)[i] # Sorted(K)[j]
  <2> TAKE i, j \in 1 .. c
  <2>1. i < j \/ j < i \/ i = j
    BY <1>4
  <2>2. Sorted(K)[i] \in Nat /\ Sorted(K)[j] \in Nat
    BY <1>1, <1>5
  <2> QED
    BY <1>6, <2>1, <2>2
<1>8. Sorted(K) \in Listings(K)
  BY <1>5, <1>7 DEF Listings, c
<1>9. ASSUME NEW s \in Listings(K), \A i, j \in DOMAIN s : i < j => s[i] < s[j] PROVE s = Sorted(K)
  <2>1. s \in [1 .. c -> K] /\ \A i, j \in 1 .. c : i # j => s[i] # s[j]
    BY <1>9 DEF Listings, c
  <2>2. s \in Injection(1 .. c, K)
    BY <2>1 DEF Injection, IsInjective
  <2>3. Cardinality(1 .. c) = Cardinality(K)
    BY <1>4, FS_Interval DEF c
  <2>4. s \in Surjection(1 .. c, K)
    BY <1>1, <2>2, <2>3, FS_Injection
  <2>5. \A i \in K : \E k \in 1 .. c : s[k] = i
    BY <2>4 DEF Surjection
  <2>6. \A k, m \in 1 .. c : k < m => s[k] < s[m]
    BY <1>9, <2>1
  <2>7. \A k \in 1 .. c : NthOf(K, k) = s[k]
    BY <1>1, <1>4, <2>1, <2>5, <2>6, Numbered
  <2> QED
    BY <1>3, <2>1, <2>7
<1> QED
  BY <1>1, <1>2, <1>3, <1>5, <1>6, <1>8, <1>9 DEF c

\* The order of a value's items.
LEMMA ItemsInOrder ==
    ASSUME NEW h, IsMemory(h), NEW n \in Nodes
    PROVE  /\ Len(OrderIn(h, n)) \in Nat /\ DOMAIN OrderIn(h, n) = 1 .. Len(OrderIn(h, n))
           /\ \A i \in 1 .. Len(OrderIn(h, n)) :
                /\ OrderIn(h, n)[i] \in DOMAIN h[n].items
                /\ OrderIn(h, n)[i] \in Nat
                /\ h[n].items[OrderIn(h, n)[i]] \in ItemsIn(h, n)
           /\ \A k \in DOMAIN h[n].items : \E i \in 1 .. Len(OrderIn(h, n)) : OrderIn(h, n)[i] = k
<1> DEFINE K == DOMAIN h[n].items
           s == Sorted(K)
<1>1. K \in SUBSET Keys
  BY DEF IsMemory
<1>2. /\ K \in SUBSET Nat /\ s \in Seq(K) /\ Len(s) = Cardinality(K) /\ Len(s) \in Nat
      /\ \A k \in K : \E i \in 1 .. Len(s) : s[i] = k
  BY <1>1, OneOrder
<1>3. \A i \in 1 .. Len(s) : s[i] \in K /\ h[n].items[s[i]] \in ItemsIn(h, n) /\ s[i] \in Nat
  <2> TAKE i \in 1 .. Len(s)
  <2>1. s[i] \in K
    BY <1>2
  <2> QED
    BY <1>2, <2>1 DEF ItemsIn
<1>4. DOMAIN s = 1 .. Len(s)
  BY <1>2
<1>5. OrderIn(h, n) = s
  BY DEF OrderIn
<1> QED
  BY <1>2, <1>3, <1>4, <1>5

\* A sequence of sequences.
ListsOf(T) == Seq(Seq(T))

\* F joins the first n elements of s, each to those before it.
Joins(F, s, n) == F = [i \in 1 .. n |-> IF i = 1 THEN s[i] ELSE F[i - 1] \o s[i]]

\* There is one such function.
LEMMA JoinsExist ==
    ASSUME NEW T, NEW s \in Seq(Seq(T)), NEW n \in 0 .. Len(s)
    PROVE  \E F : Joins(F, s, n) /\ F \in [1 .. n -> Seq(T)]
<1> DEFINE S == {m \in Nat : m <= Len(s) => \E F : Joins(F, s, m) /\ F \in [1 .. m -> Seq(T)]}
<1>1. 0 \in S
  <2> DEFINE F == [i \in 1 .. 0 |-> << >>]
  <2>1. Joins(F, s, 0) /\ F \in [1 .. 0 -> Seq(T)]
    BY DEF Joins
  <2> HIDE DEF F
  <2> QED
    BY <2>1
<1>2. ASSUME NEW m \in Nat, m \in S PROVE m + 1 \in S
  <2> SUFFICES ASSUME m + 1 <= Len(s) PROVE \E G : Joins(G, s, m + 1) /\ G \in [1 .. m + 1 -> Seq(T)]
    OBVIOUS
  <2>1. Len(s) \in Nat /\ m <= Len(s)
    OBVIOUS
  <2>2. PICK F : Joins(F, s, m) /\ F \in [1 .. m -> Seq(T)]
    BY <1>2, <2>1
  <2> DEFINE x == IF m = 0 THEN s[m + 1] ELSE F[m] \o s[m + 1]
             G == [i \in 1 .. m + 1 |-> IF i = m + 1 THEN x ELSE F[i]]
  <2>3. s[m + 1] \in Seq(T)
    BY <2>1
  <2>4. x \in Seq(T)
    <3>1. CASE m = 0
      BY <2>3, <3>1
    <3>2. CASE m # 0
      <4>1. F[m] \in Seq(T)
        BY <2>2, <3>2
      <4> QED
        BY <2>3, <3>2, <4>1
    <3> QED
      BY <3>1, <3>2
  <2>5. G \in [1 .. m + 1 -> Seq(T)]
    BY <2>2, <2>4
  <2>6. ASSUME NEW i \in 1 .. m + 1 PROVE G[i] = IF i = 1 THEN s[i] ELSE G[i - 1] \o s[i]
    <3>1. CASE i = m + 1
      <4>1. m # 0 => G[m] = F[m]
        OBVIOUS
      <4> QED
        BY <3>1, <4>1
    <3>2. CASE i # m + 1
      <4>1. i \in 1 .. m /\ (i # 1 => i - 1 \in 1 .. m)
        BY <3>2
      <4>2. F[i] = IF i = 1 THEN s[i] ELSE F[i - 1] \o s[i]
        BY <2>2, <4>1 DEF Joins
      <4>3. G[i] = F[i] /\ (i # 1 => G[i - 1] = F[i - 1])
        BY <4>1
      <4> QED
        BY <4>2, <4>3
    <3> QED
      BY <3>1, <3>2
  <2>7. G = [i \in 1 .. m + 1 |-> G[i]]
    OBVIOUS
  <2> HIDE DEF G
  <2>8. Joins(G, s, m + 1)
    BY <2>6, <2>7 DEF Joins
  <2> QED
    BY <2>5, <2>8
<1> HIDE DEF S
<1>3. Nat \subseteq S
  BY <1>1, <1>2, CountingUp
<1> QED
  BY <1>3 DEF S

\* What a join holds at a place depends on the elements up to it only.
LEMMA JoinsAgree ==
    ASSUME NEW s, NEW t, NEW n \in Nat, NEW m \in Nat, n <= m, \A i \in 1 .. n : s[i] = t[i],
           NEW F, NEW G, Joins(F, s, n), Joins(G, t, m)
    PROVE  \A i \in 1 .. n : F[i] = G[i]
<1> DEFINE S == {i \in Nat : i \in 1 .. n => F[i] = G[i]}
<1>1. 0 \in S
  OBVIOUS
<1>2. ASSUME NEW i \in Nat, i \in S PROVE i + 1 \in S
  <2> SUFFICES ASSUME i + 1 \in 1 .. n PROVE F[i + 1] = G[i + 1]
    OBVIOUS
  <2>1. F[i + 1] = IF i + 1 = 1 THEN s[i + 1] ELSE F[i] \o s[i + 1]
    <3>1. i + 1 \in 1 .. n /\ (i + 1) - 1 = i
      OBVIOUS
    <3> QED
      BY <3>1 DEF Joins
  <2>2. G[i + 1] = IF i + 1 = 1 THEN t[i + 1] ELSE G[i] \o t[i + 1]
    <3>1. i + 1 \in 1 .. m /\ (i + 1) - 1 = i
      OBVIOUS
    <3> QED
      BY <3>1 DEF Joins
  <2>3. i # 0 => F[i] = G[i]
    BY <1>2
  <2> QED
    BY <2>1, <2>2, <2>3
<1> HIDE DEF S
<1>3. Nat \subseteq S
  BY <1>1, <1>2, CountingUp
<1> QED
  BY <1>3 DEF S

\* What FlattenSeq yields is what such a function ends with.
LEMMA FlattenJoins ==
    ASSUME NEW s, Len(s) \in Nat, Len(s) # 0, NEW F, Joins(F, s, Len(s))
    PROVE  FlattenSeq(s) = F[Len(s)]
<1> DEFINE G == CHOOSE flatten : flatten = [i \in 1 .. Len(s) |-> IF i = 1 THEN s[i] ELSE flatten[i - 1] \o s[i]]
<1>1. FlattenSeq(s) = G[Len(s)]
  BY DEF FlattenSeq
<1>2. Joins(G, s, Len(s))
  BY DEF Joins
<1>3. Len(s) \in Nat /\ Len(s) \in 1 .. Len(s)
  OBVIOUS
<1> HIDE DEF G
<1> QED
  BY <1>1, <1>2, <1>3, JoinsAgree

\* FlattenSeq of a list is a sequence, and one element more is joined behind it.
LEMMA Flatten ==
    ASSUME NEW T, NEW s \in ListsOf(T)
    PROVE  /\ FlattenSeq(s) \in Seq(T)
           /\ Len(s) = 0 => FlattenSeq(s) = << >>
           /\ \A x \in Seq(T) : FlattenSeq(Append(s, x)) = FlattenSeq(s) \o x
<1>1. Len(s) \in Nat /\ (Len(s) = 0 => s = << >>)
  BY DEF ListsOf
<1>2. Len(s) = 0 => FlattenSeq(s) = << >>
  BY <1>1 DEF FlattenSeq
<1>3. PICK F : Joins(F, s, Len(s)) /\ F \in [1 .. Len(s) -> Seq(T)]
  BY <1>1, JoinsExist DEF ListsOf
<1>4. Len(s) # 0 => FlattenSeq(s) = F[Len(s)] /\ F[Len(s)] \in Seq(T)
  <2> SUFFICES ASSUME Len(s) # 0 PROVE FlattenSeq(s) = F[Len(s)] /\ F[Len(s)] \in Seq(T)
    OBVIOUS
  <2>1. Joins(F, s, Len(s))
    BY <1>3
  <2>2. FlattenSeq(s) = F[Len(s)]
    BY <1>1, <2>1, FlattenJoins
  <2>3. Len(s) \in 1 .. Len(s)
    BY <1>1
  <2> QED
    BY <1>3, <2>2, <2>3
<1>5. FlattenSeq(s) \in Seq(T)
  <2>1. << >> \in Seq(T)
    OBVIOUS
  <2>2. FlattenSeq(s) = << >> \/ FlattenSeq(s) \in Seq(T)
    BY <1>2, <1>4
  <2> QED
    BY <2>1, <2>2
<1>6. ASSUME NEW x \in Seq(T) PROVE FlattenSeq(Append(s, x)) = FlattenSeq(s) \o x
  <2>0. PICK t : t = Append(s, x)
    OBVIOUS
  <2>1. /\ t \in ListsOf(T) /\ Len(t) = Len(s) + 1 /\ t[Len(s) + 1] = x
        /\ \A i \in 1 .. Len(s) : s[i] = t[i]
    BY <1>1, <2>0 DEF ListsOf
  <2>2. PICK G : Joins(G, t, Len(t)) /\ G \in [1 .. Len(t) -> Seq(T)]
    BY <1>1, <2>1, JoinsExist DEF ListsOf
  <2>3. FlattenSeq(t) = G[Len(s) + 1]
    BY <1>1, <2>1, <2>2, FlattenJoins
  <2>4. \A i \in 1 .. Len(s) : F[i] = G[i]
    <3>1. Len(s) \in Nat /\ Len(t) \in Nat /\ Len(s) <= Len(t)
      BY <1>1, <2>1
    <3>2. /\ Joins(F, s, Len(s)) /\ Joins(G, t, Len(t))
          /\ \A i \in 1 .. Len(s) : s[i] = t[i]
      BY <1>3, <2>1, <2>2
    <3> QED
      BY <3>1, <3>2, JoinsAgree
  <2>5. G[Len(s) + 1] = IF Len(s) = 0 THEN x ELSE G[Len(s)] \o x
    <3>1. Len(s) + 1 \in 1 .. Len(t) /\ (Len(s) + 1 = 1 <=> Len(s) = 0) /\ (Len(s) + 1) - 1 = Len(s)
      BY <1>1, <2>1
    <3> QED
      BY <2>1, <2>2, <3>1 DEF Joins
  <2>6. CASE Len(s) = 0
    <3>1. << >> \o x = x
      OBVIOUS
    <3> QED
      BY <1>2, <2>0, <2>3, <2>5, <2>6, <3>1
  <2>7. CASE Len(s) # 0
    <3>1. Len(s) \in 1 .. Len(s)
      BY <1>1, <2>7
    <3>2. G[Len(s)] = FlattenSeq(s)
      BY <1>4, <2>4, <2>7, <3>1
    <3>3. FlattenSeq(t) = FlattenSeq(s) \o x
      BY <2>3, <2>5, <2>7, <3>2
    <3> QED
      BY <2>0, <3>3
  <2> QED
    BY <2>6, <2>7
<1> QED
  BY <1>2, <1>5, <1>6

\* Joining is associative.
LEMMA JoinedTwice ==
    ASSUME NEW T, NEW a \in Seq(T), NEW b \in Seq(T), NEW c \in Seq(T)
    PROVE  (a \o b) \o c = a \o (b \o c) /\ a \o b \in Seq(T) /\ << >> \o a = a /\ a \o << >> = a
<1>1. /\ a \o b \in Seq(T) /\ b \o c \in Seq(T) /\ (a \o b) \o c \in Seq(T) /\ a \o (b \o c) \in Seq(T)
      /\ << >> \o a = a /\ a \o << >> = a
  OBVIOUS
<1>2. Len((a \o b) \o c) = Len(a \o (b \o c))
  BY <1>1
<1>3. \A i \in 1 .. Len((a \o b) \o c) : ((a \o b) \o c)[i] = (a \o (b \o c))[i]
  BY <1>1
<1> QED
  BY <1>1, <1>2, <1>3

(***************************************************************************)
(* The text of a value, part by part.                                      *)
(***************************************************************************)
Marks == {Token(","), Token(":"), Token("null"), Token("{"), Token("["), Token("}"), Token("]")}
\* All tokens that a walk can write.
Toks == Marks \cup {KeyToken(k) : k \in Nat} \cup {ScalarToken(n) : n \in Nodes}

\* The kinds of values.
IsMapIn(h, n) == h[n].kind \in {"map", "namedMap"}
IsContainerIn(h, n) == IsMapIn(h, n) \/ h[n].kind \in {"slice", "array"}
IsInner(h, n) == IsContainerIn(h, n) \/ h[n].kind = "pointer"

\* What is written before, between and behind the items of a value.
KeyIn(h, n, k) == IF IsMapIn(h, n) THEN <<KeyToken(k), Token(":")>> ELSE << >>
LeadIn(h, n, i) == (IF i = 1 THEN << >> ELSE <<Token(",")>>) \o KeyIn(h, n, OrderIn(h, n)[i])
Begin(h, n) ==
    IF IsMapIn(h, n) THEN <<Token("{")>> ELSE IF IsContainerIn(h, n) THEN <<Token("[")>> ELSE << >>
Finish(h, n) ==
    IF IsMapIn(h, n) THEN <<Token("}")>> ELSE IF IsContainerIn(h, n) THEN <<Token("]")>> ELSE << >>
Leaf(h, n) == IF h[n].kind = "nil" THEN <<Token("null")>> ELSE <<ScalarToken(n)>>

\* How many items n has, the i-th of them, and what is written of the first p if g spells them.
CountIn(h, n) == Len(OrderIn(h, n))
ItemIn(h, n, i) == h[n].items[OrderIn(h, n)[i]]
Piece(h, g, n, i) == LeadIn(h, n, i) \o g[ItemIn(h, n, i)]
Pieces(h, g, n, p) == FlattenSeq([i \in 1 .. p |-> Piece(h, g, n, i)])

\* The text of n if g spells its items.
BodyIn(h, g, n) ==
    IF IsContainerIn(h, n) THEN (Begin(h, n) \o Pieces(h, g, n, CountIn(h, n))) \o Finish(h, n)
    ELSE IF h[n].kind = "pointer" THEN Pieces(h, g, n, CountIn(h, n))
    ELSE Leaf(h, n)

\* All that is written are tokens.
LEMMA TokensAreWritten ==
    ASSUME NEW h, IsMemory(h), NEW n \in Nodes
    PROVE  /\ \A i \in 1 .. CountIn(h, n) : LeadIn(h, n, i) \in Seq(Toks)
           /\ Begin(h, n) \in Seq(Toks) /\ Finish(h, n) \in Seq(Toks) /\ Leaf(h, n) \in Seq(Toks)
<1>2. \A k \in Nat : KeyToken(k) \in Toks
  BY DEF Toks
<1>3. ScalarToken(n) \in Toks
  BY DEF Toks
<1>4. << >> \in Seq(Toks)
  OBVIOUS
<1>9. \A x \in Toks : <<x>> \in Seq(Toks)
  OBVIOUS
<1>10. \A x, y \in Toks : <<x, y>> \in Seq(Toks)
  OBVIOUS
<1>11. /\ Token(",") \in Toks /\ Token(":") \in Toks /\ Token("null") \in Toks
       /\ Token("{") \in Toks /\ Token("[") \in Toks /\ Token("}") \in Toks /\ Token("]") \in Toks
  BY DEF Toks, Marks
<1>5. ASSUME NEW i \in 1 .. CountIn(h, n) PROVE LeadIn(h, n, i) \in Seq(Toks)
  <2>1. OrderIn(h, n)[i] \in Nat
    BY ItemsInOrder DEF CountIn
  <2> DEFINE a == IF i = 1 THEN << >> ELSE <<Token(",")>>
             b == KeyIn(h, n, OrderIn(h, n)[i])
  <2>2. b \in Seq(Toks)
    <3>1. CASE IsMapIn(h, n)
      <4>1. b = <<KeyToken(OrderIn(h, n)[i]), Token(":")>>
        BY <3>1 DEF KeyIn
      <4>2. KeyToken(OrderIn(h, n)[i]) \in Toks
        BY <1>2, <2>1
      <4> HIDE DEF b
      <4> QED
        BY <1>10, <1>11, <4>1, <4>2, Zenon
    <3>2. CASE ~IsMapIn(h, n)
      BY <1>4, <3>2 DEF KeyIn
    <3> QED
      BY <3>1, <3>2
  <2>3. a \in Seq(Toks)
    BY <1>4, <1>9, <1>11, Zenon
  <2>4. LeadIn(h, n, i) = a \o b
    BY DEF LeadIn
  <2> HIDE DEF a, b
  <2> QED
    BY <2>2, <2>3, <2>4
<1>6. Begin(h, n) \in Seq(Toks)
  BY <1>4, <1>9, <1>11, Zenon DEF Begin
<1>7. Finish(h, n) \in Seq(Toks)
  BY <1>4, <1>9, <1>11, Zenon DEF Finish
<1>8. Leaf(h, n) \in Seq(Toks)
  BY <1>3, <1>9, <1>11, Zenon DEF Leaf
<1> QED
  BY <1>5, <1>6, <1>7, <1>8

\* The first p items of n are spelled by g.
Spells(h, g, n, p) ==
    p \in 0 .. CountIn(h, n) /\ \A i \in 1 .. p : g[ItemIn(h, n, i)] \in Seq(Toks)

\* Their texts, joined one by one.
LEMMA PiecesGrow ==
    ASSUME NEW h, IsMemory(h), NEW n \in Nodes, NEW g, NEW p, Spells(h, g, n, p)
    PROVE  /\ Pieces(h, g, n, p) \in Seq(Toks)
           /\ p = 0 => Pieces(h, g, n, p) = << >>
           /\ Spells(h, g, n, p + 1) =>
                 Pieces(h, g, n, p + 1) = Pieces(h, g, n, p) \o Piece(h, g, n, p + 1)
<1>1. CountIn(h, n) \in Nat /\ p \in Nat
  BY ItemsInOrder DEF CountIn, Spells
<1>2. ASSUME NEW q, Spells(h, g, n, q), NEW i \in 1 .. q PROVE Piece(h, g, n, i) \in Seq(Toks)
  <2>1. i \in 1 .. CountIn(h, n) /\ g[ItemIn(h, n, i)] \in Seq(Toks)
    BY <1>1, <1>2 DEF Spells
  <2>2. LeadIn(h, n, i) \in Seq(Toks)
    BY <2>1, TokensAreWritten
  <2> QED
    BY <2>1, <2>2 DEF Piece
<1> DEFINE s == [i \in 1 .. p |-> Piece(h, g, n, i)]
<1>3. \A i \in 1 .. p : Piece(h, g, n, i) \in Seq(Toks)
  BY <1>2
<1>4. s \in ListsOf(Toks) /\ Len(s) = p
  BY <1>1, <1>3 DEF ListsOf
<1>5. Pieces(h, g, n, p) = FlattenSeq(s)
  BY DEF Pieces
<1>6. ASSUME Spells(h, g, n, p + 1)
      PROVE  Pieces(h, g, n, p + 1) = FlattenSeq(s) \o Piece(h, g, n, p + 1)
  <2>1. Piece(h, g, n, p + 1) \in Seq(Toks)
    BY <1>1, <1>2, <1>6
  <2>2. PICK x : x = Piece(h, g, n, p + 1)
    OBVIOUS
  <2> DEFINE t == [i \in 1 .. p + 1 |-> Piece(h, g, n, i)]
  <2>3. t = Append(s, x)
    <3>1. Append(s, x) = [i \in 1 .. p + 1 |-> IF i = p + 1 THEN x ELSE s[i]]
      BY <1>1, <1>4 DEF ListsOf
    <3>2. \A i \in 1 .. p + 1 : i # p + 1 => i \in 1 .. p
      BY <1>1
    <3> QED
      BY <2>2, <3>1, <3>2
  <2>4. Pieces(h, g, n, p + 1) = FlattenSeq(t)
    BY DEF Pieces
  <2> HIDE DEF t, s
  <2> QED
    BY <1>4, <2>1, <2>2, <2>3, <2>4, Flatten
<1> HIDE DEF s
<1>7. FlattenSeq(s) \in Seq(Toks) /\ (Len(s) = 0 => FlattenSeq(s) = << >>)
  BY <1>4, Flatten
<1> QED
  BY <1>4, <1>5, <1>6, <1>7

\* They depend on those items only.
LEMMA PiecesSame ==
    ASSUME NEW h, NEW n, NEW f, NEW g, NEW p, \A i \in 1 .. p : f[ItemIn(h, n, i)] = g[ItemIn(h, n, i)]
    PROVE  Pieces(h, f, n, p) = Pieces(h, g, n, p)
<1>1. [i \in 1 .. p |-> Piece(h, f, n, i)] = [i \in 1 .. p |-> Piece(h, g, n, i)]
  BY DEF Piece
<1> QED
  BY <1>1 DEF Pieces

\* So does a text.
LEMMA BodySame ==
    ASSUME NEW h, IsMemory(h), NEW n \in Nodes, NEW f, NEW g, \A m \in ItemsIn(h, n) : f[m] = g[m]
    PROVE  BodyIn(h, f, n) = BodyIn(h, g, n)
<1>1. \A i \in 1 .. CountIn(h, n) : f[ItemIn(h, n, i)] = g[ItemIn(h, n, i)]
  BY ItemsInOrder DEF CountIn, ItemIn
<1>2. Pieces(h, f, n, CountIn(h, n)) = Pieces(h, g, n, CountIn(h, n))
  BY <1>1, PiecesSame
<1> QED
  BY <1>2 DEF BodyIn

\* A text is a sequence of tokens.
LEMMA BodyIsText ==
    ASSUME NEW h, IsMemory(h), NEW n \in Nodes, NEW g, \A m \in ItemsIn(h, n) : g[m] \in Seq(Toks)
    PROVE  BodyIn(h, g, n) \in Seq(Toks)
<1>1. Spells(h, g, n, CountIn(h, n))
  BY ItemsInOrder DEF Spells, CountIn, ItemIn
<1>2. Pieces(h, g, n, CountIn(h, n)) \in Seq(Toks)
  BY <1>1, PiecesGrow
<1>3. Begin(h, n) \in Seq(Toks) /\ Finish(h, n) \in Seq(Toks) /\ Leaf(h, n) \in Seq(Toks)
  BY TokensAreWritten
<1> QED
  BY <1>2, <1>3 DEF BodyIn

(***************************************************************************)
(* What was written to its end: a set of values with their texts.          *)
(***************************************************************************)
HasKind(h, n) == h[n].kind # "unsupported" /\ (IsMapIn(h, n) => DOMAIN h[n].items \cap BadKeys = {})

\* f spells every value of R.
IsSpelling(h, R, f) == f = [n \in R |-> BodyIn(h, f, n)]

\* g is the one text of each value of D, which contains its items, and none of which contains
\* itself.  Whatever spells a value of D by its items spells it as g does.
Solved(h, D, g) ==
    /\ D \in SUBSET Nodes /\ ClosedIn(h, D) /\ g \in [D -> Seq(Toks)]
    /\ \A n \in D : g[n] = BodyIn(h, g, n) /\ HasKind(h, n) /\ ~InsideIn(h, n, n)
    /\ \A R \in SUBSET Nodes : \A f :
         ClosedIn(h, R) /\ IsSpelling(h, R, f) => \A n \in D \cap R : f[n] = g[n]

\* More was written.
Grows(D, g, E, f) == D \subseteq E /\ \A n \in D : f[n] = g[n]

\* Nothing was written.
LEMMA NothingSolved ==
    ASSUME NEW h
    PROVE  \E D, g : Solved(h, D, g)
<1> DEFINE D == {}
           g == [n \in D |-> << >>]
<1>1. Solved(h, D, g)
  BY DEF Solved, ClosedIn
<1> HIDE DEF D, g
<1> QED
  BY <1>1

\* A value whose items were written is written itself.
LEMMA OneMoreSolved ==
    ASSUME NEW h, IsMemory(h), NEW D, NEW g, Solved(h, D, g), NEW a \in Nodes, ItemsIn(h, a) \subseteq D,
           HasKind(h, a)
    PROVE  \E E, f : Solved(h, E, f) /\ Grows(D, g, E, f) /\ a \in E
<1>1. CASE a \in D
  BY <1>1 DEF Grows
<1>2. CASE a \notin D
  <2> DEFINE E == D \cup {a}
             f == [n \in E |-> IF n = a THEN BodyIn(h, g, a) ELSE g[n]]
  <2>1. /\ D \in SUBSET Nodes /\ ClosedIn(h, D) /\ g \in [D -> Seq(Toks)]
        /\ \A n \in D : g[n] = BodyIn(h, g, n) /\ HasKind(h, n) /\ ~InsideIn(h, n, n)
        /\ \A R \in SUBSET Nodes : \A F :
             ClosedIn(h, R) /\ IsSpelling(h, R, F) => \A n \in D \cap R : F[n] = g[n]
    BY DEF Solved
  <2>2. E \in SUBSET Nodes /\ ClosedIn(h, E) /\ \A n \in E : ItemsIn(h, n) \subseteq D
    BY <2>1 DEF ClosedIn
  <2>3. BodyIn(h, g, a) \in Seq(Toks)
    BY <2>1, BodyIsText
  <2>4. \A n \in D : f[n] = g[n]
    BY <1>2
  <2>5. f[a] = BodyIn(h, g, a)
    OBVIOUS
  <2>6. f \in [E -> Seq(Toks)]
    BY <2>1, <2>3
  <2> HIDE DEF f
  <2>7. \A n \in E : BodyIn(h, f, n) = BodyIn(h, g, n)
    <3> TAKE n \in E
    <3>1. n \in Nodes /\ \A m \in ItemsIn(h, n) : f[m] = g[m]
      BY <2>2, <2>4
    <3> QED
      BY <3>1, BodySame
  <2>8. \A n \in E : f[n] = BodyIn(h, f, n) /\ HasKind(h, n)
    BY <2>1, <2>4, <2>5, <2>7
  <2>9. ~InsideIn(h, a, a)
    <3> SUFFICES ASSUME NEW i \in ItemsIn(h, a), a \in ReachableIn(h, i) PROVE FALSE
      BY DEF InsideIn
    <3>1. i \in D /\ i \in Nodes
      BY <2>1
    <3>2. ReachableIn(h, i) \subseteq D
      BY <2>1, <3>1, Reach
    <3> QED
      BY <1>2, <3>2
  <2>10. ASSUME NEW R \in SUBSET Nodes, NEW F, ClosedIn(h, R), IsSpelling(h, R, F), NEW n \in E \cap R
         PROVE  F[n] = f[n]
    <3>1. \A m \in D \cap R : F[m] = g[m]
      BY <2>1, <2>10
    <3>2. CASE n \in D
      BY <2>4, <3>1, <3>2
    <3>3. CASE n = a
      <4>1. \A m \in ItemsIn(h, a) : F[m] = g[m]
        BY <2>10, <3>1, <3>3 DEF ClosedIn
      <4>2. BodyIn(h, F, a) = BodyIn(h, g, a)
        BY <4>1, BodySame
      <4>3. F[a] = BodyIn(h, F, a)
        BY <2>10, <3>3 DEF IsSpelling
      <4> QED
        BY <2>5, <3>3, <4>2, <4>3
    <3> QED
      BY <3>2, <3>3
  <2>11. Solved(h, E, f)
    BY <2>1, <2>2, <2>6, <2>8, <2>9, <2>10 DEF Solved
  <2>12. Grows(D, g, E, f) /\ a \in E
    BY <2>4 DEF Grows
  <2> QED
    BY <2>11, <2>12
<1> QED
  BY <1>1, <1>2

-----------------------------------------------------------------------------
(***************************************************************************)
(* What was written of the values that are being written.                  *)
(***************************************************************************)
\* The items of a frame that were begun.
Begun(h, fr) == CountIn(h, fr.node) - Len(fr.todo)

\* What is left to do in a frame is the rest of the order of its items, and no key of those
\* that were begun is a bad one.
IsFrame(h, fr) ==
    /\ fr \in FrameType /\ IsInner(h, fr.node)
    /\ Begun(h, fr) \in Nat
    /\ \A j \in 1 .. Len(fr.todo) : fr.todo[j] = OrderIn(h, fr.node)[Begun(h, fr) + j]
    /\ fr.todo # << >> => (fr.first <=> Begun(h, fr) = 0)
    /\ IsMapIn(h, fr.node) => \A i \in 1 .. Begun(h, fr) : OrderIn(h, fr.node)[i] \notin BadKeys

\* Before fr the text was b.  It is o now, and all items that were begun were written.
Rests(h, D, g, fr, b, o) ==
    /\ IsFrame(h, fr)
    /\ \A i \in 1 .. Begun(h, fr) : ItemIn(h, fr.node, i) \in D
    /\ o = (b \o Begin(h, fr.node)) \o Pieces(h, g, fr.node, Begun(h, fr))

\* It is o, and c is the item to be written now.
Busy(h, D, g, fr, c, b, o) ==
    /\ IsFrame(h, fr)
    /\ Begun(h, fr) # 0 /\ ItemIn(h, fr.node, Begun(h, fr)) = c
    /\ \A i \in 1 .. Begun(h, fr) - 1 : ItemIn(h, fr.node, i) \in D
    /\ o = ((b \o Begin(h, fr.node)) \o Pieces(h, g, fr.node, Begun(h, fr) - 1))
             \o LeadIn(h, fr.node, Begun(h, fr))

\* The value that is written inside the i-th frame of S, or in no frame: a in the end.
Child(S, i, a) == IF i < Len(S) THEN S[i + 1].node ELSE a

\* The frames S are writing a, and o is written before it.
Open(h, D, g, S, a, o) ==
    \E B \in [1 .. Len(S) + 1 -> Seq(Toks)] :
      /\ B[1] = << >> /\ B[Len(S) + 1] = o
      /\ Child(S, 0, a) = Root
      /\ \A i \in 1 .. Len(S) : Busy(h, D, g, S[i], Child(S, i, a), B[i], B[i + 1])

\* The last of the frames S is between two items.
Idle(h, D, g, S, o) ==
    \/ S = << >> /\ Root \in D /\ o = g[Root]
    \/ \E F \in Seq(FrameType), fr \in FrameType, b \in Seq(Toks) :
         S = Append(F, fr) /\ Open(h, D, g, F, fr.node, b) /\ Rests(h, D, g, fr, b, o)

\* A step to a frame's items and their texts.
LEMMA FramePlaces ==
    ASSUME NEW h, IsMemory(h), NEW fr, IsFrame(h, fr)
    PROVE  /\ fr.node \in Nodes /\ fr.todo \in Seq(Keys) /\ Len(fr.todo) \in Nat
           /\ CountIn(h, fr.node) \in Nat /\ Begun(h, fr) \in 0 .. CountIn(h, fr.node)
           /\ CountIn(h, fr.node) = Begun(h, fr) + Len(fr.todo)
<1>1. fr.node \in Nodes /\ fr.todo \in Seq(Keys)
  BY DEF IsFrame, FrameType
<1>2. CountIn(h, fr.node) \in Nat
  BY <1>1, ItemsInOrder DEF CountIn
<1>3. Len(fr.todo) \in Nat
  BY <1>1
<1> QED
  BY <1>1, <1>2, <1>3 DEF IsFrame, Begun

\* What was written of a frame stays what it is when more is written.
LEMMA BusyStays ==
    ASSUME NEW h, IsMemory(h), NEW D, NEW g, NEW E, NEW f, Grows(D, g, E, f),
           NEW fr, NEW c, NEW b, NEW o, Busy(h, D, g, fr, c, b, o)
    PROVE  Busy(h, E, f, fr, c, b, o)
<1>1. /\ IsFrame(h, fr) /\ Begun(h, fr) # 0 /\ ItemIn(h, fr.node, Begun(h, fr)) = c
      /\ \A i \in 1 .. Begun(h, fr) - 1 : ItemIn(h, fr.node, i) \in D
      /\ o = ((b \o Begin(h, fr.node)) \o Pieces(h, g, fr.node, Begun(h, fr) - 1))
               \o LeadIn(h, fr.node, Begun(h, fr))
  BY DEF Busy
<1>2. \A i \in 1 .. Begun(h, fr) - 1 :
        ItemIn(h, fr.node, i) \in E /\ g[ItemIn(h, fr.node, i)] = f[ItemIn(h, fr.node, i)]
  BY <1>1 DEF Grows
<1>3. Pieces(h, g, fr.node, Begun(h, fr) - 1) = Pieces(h, f, fr.node, Begun(h, fr) - 1)
  BY <1>2, PiecesSame
<1> QED
  BY <1>1, <1>2, <1>3 DEF Busy

\* So does what was written of all frames.
LEMMA OpenStays ==
    ASSUME NEW h, IsMemory(h), NEW D, NEW g, NEW E, NEW f, Grows(D, g, E, f),
           NEW S, NEW a, NEW o, Open(h, D, g, S, a, o)
    PROVE  Open(h, E, f, S, a, o)
<1>1. PICK B \in [1 .. Len(S) + 1 -> Seq(Toks)] :
        /\ B[1] = << >> /\ B[Len(S) + 1] = o
        /\ Child(S, 0, a) = Root
        /\ \A i \in 1 .. Len(S) : Busy(h, D, g, S[i], Child(S, i, a), B[i], B[i + 1])
  BY DEF Open
<1>2. \A i \in 1 .. Len(S) : Busy(h, E, f, S[i], Child(S, i, a), B[i], B[i + 1])
  BY <1>1, BusyStays
<1> QED
  BY <1>1, <1>2 DEF Open

\* The frames S are the frames F with fr on top.
OnTop(S, F, fr) ==
    /\ Len(F) \in Nat /\ Len(S) = Len(F) + 1 /\ S[Len(F) + 1] = fr
    /\ \A i \in 1 .. Len(F) : S[i] = F[i]

\* What is appended is on top.
LEMMA AppendedOnTop ==
    ASSUME NEW T, NEW F \in Seq(T), NEW fr \in T
    PROVE  OnTop(Append(F, fr), F, fr)
BY DEF OnTop

\* What the frames F write is the value of fr, and what fr writes is c.
Carried(S, F, fr, c) ==
    /\ Child(S, Len(F) + 1, c) = c
    /\ \A i \in 0 .. Len(F) : Child(S, i, c) = Child(F, i, fr.node)

\* One frame more carries the value that is written in it.
LEMMA OneMoreFrame ==
    ASSUME NEW S, NEW F, NEW fr, OnTop(S, F, fr), NEW c
    PROVE  Carried(S, F, fr, c)
<1>2. Child(S, Len(F) + 1, c) = c
  BY DEF Child, OnTop
<1>3. ASSUME NEW i \in 0 .. Len(F) PROVE Child(S, i, c) = Child(F, i, fr.node)
  <2>1. i < Len(S) /\ (i < Len(F) => i + 1 \in 1 .. Len(F)) /\ (~(i < Len(F)) => i = Len(F))
    BY DEF OnTop
  <2> QED
    BY <2>1 DEF Child, OnTop
<1> QED
  BY <1>2, <1>3 DEF Carried

\* A frame that is busy with c is put on those that are writing its value.
LEMMA OpenMore ==
    ASSUME NEW h, NEW D, NEW g, NEW F \in Seq(FrameType), NEW fr \in FrameType, NEW c,
           NEW b, NEW o \in Seq(Toks), Open(h, D, g, F, fr.node, b), Busy(h, D, g, fr, c, b, o)
    PROVE  Open(h, D, g, Append(F, fr), c, o)
<1>1. PICK B \in [1 .. Len(F) + 1 -> Seq(Toks)] :
        /\ B[1] = << >> /\ B[Len(F) + 1] = b
        /\ Child(F, 0, fr.node) = Root
        /\ \A i \in 1 .. Len(F) : Busy(h, D, g, F[i], Child(F, i, fr.node), B[i], B[i + 1])
  BY DEF Open
<1>2. PICK S : S = Append(F, fr)
  OBVIOUS
<1>0. OnTop(S, F, fr)
  BY <1>2, AppendedOnTop
<1>3. /\ Len(F) \in Nat /\ Len(S) = Len(F) + 1 /\ S[Len(F) + 1] = fr
      /\ \A i \in 1 .. Len(F) : S[i] = F[i]
      /\ Child(S, Len(F) + 1, c) = c
      /\ \A i \in 0 .. Len(F) : Child(S, i, c) = Child(F, i, fr.node)
  <2>1. Carried(S, F, fr, c)
    BY <1>0, OneMoreFrame
  <2> QED
    BY <1>0, <2>1 DEF OnTop, Carried
<1> DEFINE C == [i \in 1 .. Len(S) + 1 |-> IF i = Len(S) + 1 THEN o ELSE B[i]]
<1>4. C \in [1 .. Len(S) + 1 -> Seq(Toks)] /\ C[Len(S) + 1] = o /\ \A i \in 1 .. Len(F) + 1 : C[i] = B[i]
  BY <1>1, <1>3
<1> HIDE DEF C
<1>5. ASSUME NEW i \in 1 .. Len(S) PROVE Busy(h, D, g, S[i], Child(S, i, c), C[i], C[i + 1])
  <2>1. CASE i \in 1 .. Len(F)
    <3>1. i \in 1 .. Len(F) + 1 /\ i + 1 \in 1 .. Len(F) + 1 /\ i \in 0 .. Len(F)
      BY <1>3, <2>1
    <3> QED
      BY <1>1, <1>3, <1>4, <2>1, <3>1
  <2>2. CASE i = Len(F) + 1
    <3>1. S[i] = fr /\ Child(S, i, c) = c /\ i \in 1 .. Len(F) + 1 /\ i + 1 = Len(S) + 1
      BY <1>3, <2>2
    <3>2. C[i] = b /\ C[i + 1] = o
      BY <1>1, <1>4, <2>2, <3>1
    <3> QED
      BY <3>1, <3>2
  <2> QED
    BY <1>3, <2>1, <2>2
<1>6. C[1] = << >> /\ Child(S, 0, c) = Root
  <2>1. 1 \in 1 .. Len(F) + 1 /\ 0 \in 0 .. Len(F)
    BY <1>3
  <2> QED
    BY <1>1, <1>3, <1>4, <2>1
<1>7. Open(h, D, g, S, c, o)
  BY <1>4, <1>5, <1>6 DEF Open
<1> QED
  BY <1>2, <1>7

\* The frames under a busy one are writing its value.
LEMMA OpenLess ==
    ASSUME NEW h, NEW D, NEW g, NEW F \in Seq(FrameType), NEW fr \in FrameType, NEW c, NEW o,
           Open(h, D, g, Append(F, fr), c, o)
    PROVE  o \in Seq(Toks) /\ \E b \in Seq(Toks) : Open(h, D, g, F, fr.node, b) /\ Busy(h, D, g, fr, c, b, o)
<1>2. PICK S : S = Append(F, fr)
  OBVIOUS
<1>0. OnTop(S, F, fr)
  BY <1>2, AppendedOnTop
<1>3. /\ Len(F) \in Nat /\ Len(S) = Len(F) + 1 /\ S[Len(F) + 1] = fr
      /\ \A i \in 1 .. Len(F) : S[i] = F[i]
      /\ Child(S, Len(F) + 1, c) = c
      /\ \A i \in 0 .. Len(F) : Child(S, i, c) = Child(F, i, fr.node)
  <2>1. Carried(S, F, fr, c)
    BY <1>0, OneMoreFrame
  <2> QED
    BY <1>0, <2>1 DEF OnTop, Carried
<1>1. PICK B \in [1 .. Len(S) + 1 -> Seq(Toks)] :
        /\ B[1] = << >> /\ B[Len(S) + 1] = o
        /\ Child(S, 0, c) = Root
        /\ \A i \in 1 .. Len(S) : Busy(h, D, g, S[i], Child(S, i, c), B[i], B[i + 1])
  BY <1>2 DEF Open
<1> DEFINE C == [i \in 1 .. Len(F) + 1 |-> B[i]]
<1>4. C \in [1 .. Len(F) + 1 -> Seq(Toks)] /\ \A i \in 1 .. Len(F) + 1 : C[i] = B[i]
  BY <1>1, <1>3
<1> HIDE DEF C
<1>5. ASSUME NEW i \in 1 .. Len(F) PROVE Busy(h, D, g, F[i], Child(F, i, fr.node), C[i], C[i + 1])
  <2>1. i \in 1 .. Len(F) + 1 /\ i + 1 \in 1 .. Len(F) + 1 /\ i \in 0 .. Len(F) /\ i \in 1 .. Len(S)
    BY <1>3
  <2>2. Busy(h, D, g, S[i], Child(S, i, c), B[i], B[i + 1])
    BY <1>1, <2>1
  <2> QED
    BY <1>3, <1>4, <2>1, <2>2
<1>6. C[1] = << >> /\ Child(F, 0, fr.node) = Root /\ Len(F) + 1 \in 1 .. Len(F) + 1
  <2>1. 1 \in 1 .. Len(F) + 1 /\ 0 \in 0 .. Len(F) /\ Len(F) + 1 \in 1 .. Len(F) + 1
    BY <1>3
  <2> QED
    BY <1>1, <1>3, <1>4, <2>1
<1>7. Open(h, D, g, F, fr.node, C[Len(F) + 1])
  BY <1>4, <1>5, <1>6 DEF Open
<1>8. Busy(h, D, g, fr, c, C[Len(F) + 1], o) /\ o \in Seq(Toks)
  <2>1. Len(F) + 1 \in 1 .. Len(S) /\ (Len(F) + 1) + 1 = Len(S) + 1 /\ Len(S) + 1 \in 1 .. Len(S) + 1
    BY <1>3
  <2>2. Busy(h, D, g, S[Len(F) + 1], Child(S, Len(F) + 1, c), B[Len(F) + 1], B[Len(S) + 1])
    BY <1>1, <2>1
  <2>3. B[Len(S) + 1] \in Seq(Toks)
    BY <1>1, <2>1
  <2> QED
    BY <1>1, <1>3, <1>4, <1>6, <2>2, <2>3
<1>9. C[Len(F) + 1] \in Seq(Toks)
  BY <1>4, <1>6
<1> QED
  BY <1>7, <1>8, <1>9

\* The item that was begun is written.
LEMMA ItemWritten ==
    ASSUME NEW h, IsMemory(h), NEW D, NEW g, Solved(h, D, g),
           NEW fr, NEW a \in D, NEW b \in Seq(Toks), NEW o, Busy(h, D, g, fr, a, b, o)
    PROVE  Rests(h, D, g, fr, b, o \o g[a])
<1> DEFINE n == fr.node
           k == Begun(h, fr)
           x == b \o Begin(h, n)
<1>1. /\ IsFrame(h, fr) /\ k # 0 /\ ItemIn(h, n, k) = a
      /\ \A i \in 1 .. k - 1 : ItemIn(h, n, i) \in D
      /\ o = (x \o Pieces(h, g, n, k - 1)) \o LeadIn(h, n, k)
  BY DEF Busy
<1>2. n \in Nodes /\ k \in 1 .. CountIn(h, n) /\ k \in Nat /\ CountIn(h, n) \in Nat
  BY <1>1, FramePlaces
<1>3. \A m \in D : g[m] \in Seq(Toks)
  BY DEF Solved
<1> HIDE DEF k, n
<1>4. \A i \in 1 .. k : ItemIn(h, n, i) \in D
  <2> TAKE i \in 1 .. k
  <2>1. i \in 1 .. k - 1 \/ i = k
    BY <1>2
  <2> QED
    BY <1>1, <2>1
<1>5. Spells(h, g, n, k - 1) /\ Spells(h, g, n, (k - 1) + 1) /\ (k - 1) + 1 = k
  <2>1. k - 1 \in 0 .. CountIn(h, n) /\ (k - 1) + 1 = k /\ k \in 0 .. CountIn(h, n)
    BY <1>2
  <2>2. \A i \in 1 .. k : g[ItemIn(h, n, i)] \in Seq(Toks)
    BY <1>3, <1>4
  <2>3. \A i \in 1 .. k - 1 : g[ItemIn(h, n, i)] \in Seq(Toks)
    BY <1>1, <1>3
  <2>4. Spells(h, g, n, k - 1)
    BY <2>1, <2>3 DEF Spells
  <2>5. Spells(h, g, n, k)
    BY <2>1, <2>2 DEF Spells
  <2> QED
    BY <2>1, <2>4, <2>5
<1>6. /\ Pieces(h, g, n, k - 1) \in Seq(Toks)
      /\ Pieces(h, g, n, (k - 1) + 1) = Pieces(h, g, n, k - 1) \o Piece(h, g, n, (k - 1) + 1)
  BY <1>2, <1>5, PiecesGrow
<1>7. Piece(h, g, n, k) = LeadIn(h, n, k) \o g[a]
  BY <1>1 DEF Piece
<1>8. Begin(h, n) \in Seq(Toks) /\ LeadIn(h, n, k) \in Seq(Toks)
  BY <1>2, TokensAreWritten
<1>9. x \in Seq(Toks) /\ g[a] \in Seq(Toks)
  BY <1>3, <1>8
<1> HIDE DEF x
<1>10. PICK P, L, G, Q : /\ P = Pieces(h, g, n, k - 1) /\ L = LeadIn(h, n, k) /\ G = g[a]
                         /\ Q = Pieces(h, g, n, k)
  OBVIOUS
<1>11. P \in Seq(Toks) /\ L \in Seq(Toks) /\ G \in Seq(Toks) /\ Q = P \o (L \o G) /\ o = (x \o P) \o L
  BY <1>1, <1>5, <1>6, <1>7, <1>8, <1>9, <1>10
<1>12. o \o G = x \o Q
  <2> DEFINE Regroups(u, v, w) == (u \o v) \o w = u \o (v \o w)
  <2>1. \A u, v, w \in Seq(Toks) : Regroups(u, v, w) /\ u \o v \in Seq(Toks)
    BY JoinedTwice
  <2> HIDE DEF Regroups
  <2>2. PICK front, back : front = x \o P /\ back = L \o G
    OBVIOUS
  <2>3. front \in Seq(Toks) /\ back \in Seq(Toks)
    BY <1>9, <1>11, <2>1, <2>2, Zenon
  <2>4. Regroups(front, L, G) /\ Regroups(x, P, back)
    BY <1>9, <1>11, <2>1, <2>3, Zenon
  <2>5. (front \o L) \o G = front \o (L \o G) /\ (x \o P) \o back = x \o (P \o back)
    BY <2>4, Zenon DEF Regroups
  <2>6. o = front \o L /\ front \o (L \o G) = (x \o P) \o back /\ Q = P \o back
    BY <1>11, <2>2, Zenon
  <2> QED
    BY <2>5, <2>6, Zenon
<1> QED
  BY <1>1, <1>4, <1>10, <1>12 DEF Rests, x, n, k

\* What is on the stack is its last frame, on the others.
LEMMA TopOfFrames ==
    ASSUME NEW T, NEW S \in Seq(T), S # << >>
    PROVE  \E F \in Seq(T), fr \in T : S = Append(F, fr) /\ F = SubSeq(S, 1, Len(S) - 1) /\ fr = S[Len(S)]
<1>1. Len(S) \in Nat /\ Len(S) # 0 /\ Len(S) - 1 \in Nat
  OBVIOUS
<1> DEFINE m == Len(S) - 1
           F == SubSeq(S, 1, Len(S) - 1)
<1>2. F \in Seq(T) /\ Len(F) = Len(S) - 1 /\ \A i \in 1 .. Len(S) - 1 : F[i] = S[i]
  <2>1. m \in Nat /\ m <= Len(S)
    BY <1>1
  <2> HIDE DEF m
  <2>2. SubSeq(S, 1, m) \in Seq(T) /\ Len(SubSeq(S, 1, m)) = m
    BY <2>1
  <2>3. \A i \in 1 .. m : SubSeq(S, 1, m)[i] = S[i]
    BY <2>1
  <2> QED
    BY <2>2, <2>3 DEF m
<1>3. S[Len(S)] \in T
  BY <1>1
<1>4. S = Append(F, S[Len(S)])
  <2>1. Append(F, S[Len(S)]) = [i \in 1 .. Len(F) + 1 |-> IF i = Len(F) + 1 THEN S[Len(S)] ELSE F[i]]
    BY <1>2, <1>3
  <2>2. \A i \in 1 .. Len(S) : i # Len(S) => i \in 1 .. Len(S) - 1
    BY <1>1
  <2>3. S = [i \in 1 .. Len(S) |-> S[i]]
    OBVIOUS
  <2> QED
    BY <1>1, <1>2, <2>1, <2>2, <2>3
<1> HIDE DEF F
<1> QED
  BY <1>2, <1>3, <1>4 DEF F

\* A value written to its end: the frame it is an item of is between two items again.
LEMMA Completed ==
    ASSUME NEW h, IsMemory(h), NEW D, NEW g, Solved(h, D, g), NEW S \in Seq(FrameType), NEW a \in D,
           NEW o, Open(h, D, g, S, a, o)
    PROVE  Idle(h, D, g, S, o \o g[a])
<1>1. CASE S = << >>
  <2>1. PICK B \in [1 .. Len(S) + 1 -> Seq(Toks)] :
          B[1] = << >> /\ B[Len(S) + 1] = o /\ Child(S, 0, a) = Root
    BY DEF Open
  <2>2. o = << >> /\ a = Root
    BY <1>1, <2>1 DEF Child
  <2>3. g[a] \in Seq(Toks)
    BY DEF Solved
  <2>4. o \o g[a] = g[Root]
    BY <2>2, <2>3, JoinedTwice
  <2> QED
    BY <1>1, <2>2, <2>4 DEF Idle
<1>2. CASE S # << >>
  <2>1. PICK F \in Seq(FrameType), fr \in FrameType : S = Append(F, fr)
    BY <1>2, TopOfFrames
  <2>2. Open(h, D, g, Append(F, fr), a, o)
    BY <2>1
  <2>3. PICK b \in Seq(Toks) : Open(h, D, g, F, fr.node, b) /\ Busy(h, D, g, fr, a, b, o)
    BY <2>2, OpenLess
  <2>4. Rests(h, D, g, fr, b, o \o g[a])
    BY <2>3, ItemWritten
  <2> QED
    BY <2>1, <2>3, <2>4 DEF Idle
<1> QED
  BY <1>1, <1>2

\* A frame between two items has written a text.
LEMMA RestsIsText ==
    ASSUME NEW h, IsMemory(h), NEW D, NEW g, Solved(h, D, g),
           NEW fr, NEW b \in Seq(Toks), NEW o, Rests(h, D, g, fr, b, o)
    PROVE  o \in Seq(Toks)
<1> DEFINE n == fr.node
           k == Begun(h, fr)
<1>1. /\ IsFrame(h, fr) /\ \A i \in 1 .. k : ItemIn(h, n, i) \in D
      /\ o = (b \o Begin(h, n)) \o Pieces(h, g, n, k)
  BY DEF Rests
<1>2. n \in Nodes /\ k \in 0 .. CountIn(h, n)
  BY <1>1, FramePlaces
<1> HIDE DEF k, n
<1>3. Spells(h, g, n, k)
  BY <1>1, <1>2 DEF Spells, Solved
<1>4. Pieces(h, g, n, k) \in Seq(Toks) /\ Begin(h, n) \in Seq(Toks)
  BY <1>2, <1>3, PiecesGrow, TokensAreWritten
<1> QED
  BY <1>1, <1>4

\* The next item of a frame is begun.
LEMMA ItemBegun ==
    ASSUME NEW h, IsMemory(h), NEW D, NEW g,
           NEW fr, NEW b, NEW o, Rests(h, D, g, fr, b, o), fr.todo # << >>,
           NEW x \in FrameType, x.node = fr.node, x.todo = Tail(fr.todo), x.first = FALSE,
           IsMapIn(h, fr.node) => Head(fr.todo) \notin BadKeys
    PROVE  /\ Begun(h, fr) + 1 \in 1 .. CountIn(h, fr.node)
           /\ OrderIn(h, fr.node)[Begun(h, fr) + 1] = Head(fr.todo)
           /\ Busy(h, D, g, x, h[fr.node].items[Head(fr.todo)], b,
                   o \o LeadIn(h, fr.node, Begun(h, fr) + 1))
<1> DEFINE n == fr.node
           k == Begun(h, fr)
           t == fr.todo
<1>1. /\ IsFrame(h, fr) /\ \A i \in 1 .. k : ItemIn(h, n, i) \in D
      /\ o = (b \o Begin(h, n)) \o Pieces(h, g, n, k)
  BY DEF Rests
<1>2. /\ n \in Nodes /\ k \in 0 .. CountIn(h, n) /\ CountIn(h, n) \in Nat
      /\ CountIn(h, n) = k + Len(t) /\ t \in Seq(Keys) /\ Len(t) \in Nat
  BY <1>1, FramePlaces
<1>3. /\ IsInner(h, n)
      /\ \A j \in 1 .. Len(t) : t[j] = OrderIn(h, n)[k + j]
      /\ IsMapIn(h, n) => \A i \in 1 .. k : OrderIn(h, n)[i] \notin BadKeys
  BY <1>1 DEF IsFrame
<1>4. x.node = n /\ x.todo = Tail(t) /\ x.first = FALSE /\ t # << >>
  OBVIOUS
<1> HIDE DEF n, t
<1>5. Len(t) # 0 /\ Len(Tail(t)) = Len(t) - 1 /\ \A j \in 1 .. Len(t) - 1 : Tail(t)[j] = t[j + 1]
  BY <1>2, <1>4
<1>6. Head(t) = t[1]
  BY <1>2, <1>4
<1>7. Begun(h, x) = k + 1
  BY <1>2, <1>4, <1>5 DEF Begun
<1> HIDE DEF k
<1>8. k + 1 \in 1 .. CountIn(h, n) /\ (k + 1) - 1 = k /\ k \in Nat
  BY <1>2, <1>5
<1>9. OrderIn(h, n)[k + 1] = Head(t)
  <2>1. 1 \in 1 .. Len(t)
    BY <1>2, <1>5
  <2> QED
    BY <1>3, <1>6, <2>1
<1>10. IsFrame(h, x)
  <2>1. \A j \in 1 .. Len(x.todo) : x.todo[j] = OrderIn(h, n)[(k + 1) + j]
    <3> SUFFICES ASSUME NEW j \in 1 .. Len(t) - 1 PROVE Tail(t)[j] = OrderIn(h, n)[(k + 1) + j]
      BY <1>4, <1>5
    <3>1. j + 1 \in 1 .. Len(t) /\ k + (j + 1) = (k + 1) + j
      BY <1>2, <1>8
    <3>2. Tail(t)[j] = t[j + 1]
      BY <1>5
    <3>3. t[j + 1] = OrderIn(h, n)[k + (j + 1)]
      BY <1>3, <3>1
    <3> QED
      BY <3>1, <3>2, <3>3
  <2>2. IsMapIn(h, n) => \A i \in 1 .. k + 1 : OrderIn(h, n)[i] \notin BadKeys
    <3> SUFFICES ASSUME IsMapIn(h, n), NEW i \in 1 .. k + 1 PROVE OrderIn(h, n)[i] \notin BadKeys
      OBVIOUS
    <3>1. i \in 1 .. k \/ i = k + 1
      BY <1>8
    <3>2. Head(t) \notin BadKeys
      BY DEF n, t
    <3> QED
      BY <1>3, <1>9, <3>1, <3>2
  <2>3. k + 1 \in Nat /\ k + 1 # 0
    BY <1>8
  <2> QED
    BY <1>3, <1>4, <1>7, <2>1, <2>2, <2>3 DEF IsFrame
<1>11. ItemIn(h, n, k + 1) = h[n].items[Head(t)]
  BY <1>9 DEF ItemIn
<1>12. Busy(h, D, g, x, h[n].items[Head(t)], b, o \o LeadIn(h, n, k + 1))
  <2>1. Begun(h, x) # 0 /\ Begun(h, x) - 1 = k
    BY <1>7, <1>8
  <2> QED
    BY <1>1, <1>4, <1>7, <1>10, <1>11, <2>1 DEF Busy
<1> QED
  BY <1>8, <1>9, <1>12 DEF n, k, t

\* A container is entered.
LEMMA ContainerBegun ==
    ASSUME NEW h, IsMemory(h), NEW D, NEW g, NEW n \in Nodes, IsContainerIn(h, n),
           NEW fr \in FrameType, fr.node = n, fr.todo = OrderIn(h, n), fr.first = TRUE, NEW o \in Seq(Toks)
    PROVE  Rests(h, D, g, fr, o, o \o Begin(h, n)) /\ o \o Begin(h, n) \in Seq(Toks)
<1>1. Len(OrderIn(h, n)) \in Nat
  BY ItemsInOrder
<1>2. Begun(h, fr) = 0
  BY <1>1 DEF Begun, CountIn
<1>3. IsFrame(h, fr)
  <2>1. \A j \in 1 .. Len(fr.todo) : fr.todo[j] = OrderIn(h, fr.node)[Begun(h, fr) + j]
    BY <1>1, <1>2
  <2>2. \A i \in 1 .. Begun(h, fr) : OrderIn(h, fr.node)[i] \notin BadKeys
    BY <1>2
  <2> QED
    BY <1>2, <2>1, <2>2 DEF IsFrame, IsInner
<1>4. Begin(h, n) \in Seq(Toks)
  BY TokensAreWritten
<1>5. Spells(h, g, n, 0)
  BY <1>1 DEF Spells, CountIn
<1>6. Pieces(h, g, n, 0) = << >>
  BY <1>5, PiecesGrow
<1>7. o \o Begin(h, n) \in Seq(Toks) /\ (o \o Begin(h, n)) \o << >> = o \o Begin(h, n)
  BY <1>4, JoinedTwice
<1> QED
  BY <1>2, <1>3, <1>6, <1>7 DEF Rests

\* The only element of a sequence.
LEMMA OnlyElement ==
    ASSUME NEW T, NEW s \in Seq(T), Len(s) = 1
    PROVE  s[1] \in T
OBVIOUS

\* A pointer is followed.
LEMMA PointerBegun ==
    ASSUME NEW h, IsMemory(h), NEW D, NEW g, NEW n \in Nodes, h[n].kind = "pointer", DOMAIN h[n].items = {1},
           NEW fr \in FrameType, fr.node = n, fr.todo = << >>, NEW o \in Seq(Toks)
    PROVE  Busy(h, D, g, fr, h[n].items[1], o, o)
<1>1. ~IsContainerIn(h, n) /\ ~IsMapIn(h, n) /\ IsInner(h, n)
  BY DEF IsContainerIn, IsMapIn, IsInner
<1>2. Len(OrderIn(h, n)) = 1 /\ OrderIn(h, n)[1] = 1
  <2>1. {1} \in SUBSET Keys
    BY DEF IsMemory
  <2>2. Cardinality({1}) = 1
    BY FS_Singleton
  <2>3. PICK s : s = Sorted({1})
    OBVIOUS
  <2>4. s \in Seq({1}) /\ Len(s) = 1
    BY <2>1, <2>2, <2>3, OneOrder
  <2>5. s[1] \in {1}
    BY <2>4, OnlyElement
  <2> QED
    BY <2>3, <2>4, <2>5 DEF OrderIn
<1>3. Begun(h, fr) = 1
  BY <1>2 DEF Begun, CountIn
<1>4. IsFrame(h, fr)
  BY <1>1, <1>3 DEF IsFrame
<1>5. LeadIn(h, n, 1) = << >>
  BY <1>1 DEF LeadIn, KeyIn
<1>6. Begin(h, n) = << >>
  BY <1>1 DEF Begin
<1>7. Pieces(h, g, n, 0) = << >>
  <2>1. Spells(h, g, n, 0)
    BY <1>2 DEF Spells, CountIn
  <2> QED
    BY <2>1, PiecesGrow
<1>8. ItemIn(h, n, 1) = h[n].items[1]
  BY <1>2 DEF ItemIn
<1>9. ((o \o << >>) \o << >>) \o << >> = o
  <2>1. o \o << >> = o
    BY JoinedTwice
  <2> QED
    BY <2>1
<1> QED
  BY <1>3, <1>4, <1>5, <1>6, <1>7, <1>8, <1>9 DEF Busy

\* A scalar is written.
LEMMA LeafWritten ==
    ASSUME NEW h, IsMemory(h), NEW D, NEW g, Solved(h, D, g), NEW S \in Seq(FrameType), NEW a \in Nodes,
           ~IsInner(h, a), DOMAIN h[a].items = {}, h[a].kind # "unsupported",
           NEW o, Open(h, D, g, S, a, o)
    PROVE  \E E, f : Solved(h, E, f) /\ Idle(h, E, f, S, o \o Leaf(h, a))
<1>1. ItemsIn(h, a) \subseteq D /\ HasKind(h, a)
  BY DEF ItemsIn, HasKind
<1>2. PICK E, f : Solved(h, E, f) /\ Grows(D, g, E, f) /\ a \in E
  BY <1>1, OneMoreSolved
<1>3. Open(h, E, f, S, a, o)
  BY <1>2, OpenStays
<1>4. Idle(h, E, f, S, o \o f[a])
  BY <1>2, <1>3, Completed
<1>5. f[a] = Leaf(h, a)
  <2>1. f[a] = BodyIn(h, f, a)
    BY <1>2 DEF Solved
  <2> QED
    BY <2>1 DEF BodyIn, IsInner
<1> QED
  BY <1>2, <1>4, <1>5

\* The end of a container, or of a pointer's value.
LEMMA FrameWritten ==
    ASSUME NEW h, IsMemory(h), NEW D, NEW g, Solved(h, D, g), NEW F \in Seq(FrameType),
           NEW fr \in FrameType, fr.todo = << >>, NEW b \in Seq(Toks), NEW o,
           Open(h, D, g, F, fr.node, b), Rests(h, D, g, fr, b, o)
    PROVE  \E E, f : Solved(h, E, f) /\ Idle(h, E, f, F, o \o Finish(h, fr.node))
<1> DEFINE n == fr.node
           k == Begun(h, fr)
<1>1. /\ IsFrame(h, fr) /\ \A i \in 1 .. k : ItemIn(h, n, i) \in D
      /\ o = (b \o Begin(h, n)) \o Pieces(h, g, n, k)
  BY DEF Rests
<1>2. n \in Nodes /\ k = CountIn(h, n)
  BY <1>1, FramePlaces
<1>3. /\ IsInner(h, n) /\ Open(h, D, g, F, n, b)
      /\ IsMapIn(h, n) => \A i \in 1 .. k : OrderIn(h, n)[i] \notin BadKeys
  BY <1>1 DEF IsFrame
<1> HIDE DEF n, k
<1>4. ItemsIn(h, n) \subseteq D
  <2> SUFFICES ASSUME NEW j \in DOMAIN h[n].items PROVE h[n].items[j] \in D
    BY DEF ItemsIn
  <2>1. PICK i \in 1 .. k : OrderIn(h, n)[i] = j
    BY <1>2, ItemsInOrder DEF CountIn
  <2> QED
    BY <1>1, <2>1 DEF ItemIn
<1>5. HasKind(h, n)
  <2>1. IsMapIn(h, n) => DOMAIN h[n].items \cap BadKeys = {}
    <3> SUFFICES ASSUME IsMapIn(h, n), NEW j \in DOMAIN h[n].items PROVE j \notin BadKeys
      OBVIOUS
    <3>1. PICK i \in 1 .. k : OrderIn(h, n)[i] = j
      BY <1>2, ItemsInOrder DEF CountIn
    <3> QED
      BY <1>3, <3>1
  <2>2. h[n].kind # "unsupported"
    BY <1>3 DEF IsInner, IsContainerIn, IsMapIn
  <2> QED
    BY <2>1, <2>2 DEF HasKind
<1>6. PICK E, f : Solved(h, E, f) /\ Grows(D, g, E, f) /\ n \in E
  BY <1>2, <1>4, <1>5, OneMoreSolved
<1>7. Open(h, E, f, F, n, b)
  BY <1>3, <1>6, OpenStays
<1>8. Idle(h, E, f, F, b \o f[n])
  BY <1>6, <1>7, Completed
<1>9. \A i \in 1 .. k : f[ItemIn(h, n, i)] = g[ItemIn(h, n, i)]
  BY <1>1, <1>6 DEF Grows
<1>10. Pieces(h, f, n, k) = Pieces(h, g, n, k)
  BY <1>9, PiecesSame
<1>11. f[n] = (Begin(h, n) \o Pieces(h, g, n, k)) \o Finish(h, n)
  <2>1. f[n] = BodyIn(h, f, n)
    BY <1>6 DEF Solved
  <2>2. CASE IsContainerIn(h, n)
    BY <1>2, <1>10, <2>1, <2>2 DEF BodyIn
  <2>3. CASE ~IsContainerIn(h, n)
    <3>1. f[n] = Pieces(h, g, n, k)
      BY <1>2, <1>3, <1>10, <2>1, <2>3 DEF BodyIn, IsInner
    <3>2. Begin(h, n) = << >> /\ Finish(h, n) = << >>
      BY <2>3 DEF Begin, Finish, IsContainerIn
    <3>3. k \in 0 .. CountIn(h, n)
      BY <1>2, ItemsInOrder DEF CountIn
    <3>4. Spells(h, g, n, k)
      BY <1>1, <3>3 DEF Spells, Solved
    <3>5. Pieces(h, g, n, k) \in Seq(Toks)
      BY <1>2, <3>4, PiecesGrow
    <3>6. \A u \in Seq(Toks) : (<< >> \o u) \o << >> = u
      <4>1. \A u \in Seq(Toks) : << >> \o u = u /\ u \o << >> = u
        BY JoinedTwice
      <4> QED
        BY <4>1
    <3> QED
      BY <3>1, <3>2, <3>5, <3>6
  <2> QED
    BY <2>2, <2>3
<1>12. b \o f[n] = o \o Finish(h, n)
  <2>1. k \in 0 .. CountIn(h, n)
    BY <1>2, ItemsInOrder DEF CountIn
  <2>2. Spells(h, g, n, k)
    BY <1>1, <2>1 DEF Spells, Solved
  <2>3. PICK x, p, y : x = Begin(h, n) /\ p = Pieces(h, g, n, k) /\ y = Finish(h, n)
    OBVIOUS
  <2>4. x \in Seq(Toks) /\ p \in Seq(Toks) /\ y \in Seq(Toks)
    BY <1>2, <2>2, <2>3, PiecesGrow, TokensAreWritten
  <2>5. f[n] = (x \o p) \o y /\ o = (b \o x) \o p
    BY <1>1, <1>11, <2>3
  <2>6. \A u, v, w \in Seq(Toks) : (u \o v) \o w = u \o (v \o w) /\ u \o v \in Seq(Toks)
    BY JoinedTwice
  <2>7. b \o ((x \o p) \o y) = (b \o (x \o p)) \o y
    BY <2>4, <2>6
  <2>8. b \o (x \o p) = (b \o x) \o p
    BY <2>4, <2>6
  <2> QED
    BY <2>3, <2>5, <2>7, <2>8
<1> QED
  BY <1>6, <1>8, <1>12 DEF n

-----------------------------------------------------------------------------
(***************************************************************************)
(* The walk, in a state.                                                   *)
(***************************************************************************)
TextIs(h, a, S, o, st) ==
    \E D, g :
      /\ Solved(h, D, g)
      /\ st = "writing" /\ a # NoNode => Open(h, D, g, S, a, o)
      /\ st = "writing" /\ a = NoNode => Idle(h, D, g, S, o)
      /\ st = "ok" => Root \in D /\ o = g[Root]

\* The invariant: what was written is a part of the one text of the root.
TextInv == TextIs(heap, at, stack, out, status)

\* Nothing was written: the root is to be.
LEMMA NothingWritten ==
    ASSUME NEW h
    PROVE  TextIs(h, Root, << >>, << >>, "writing")
<1>1. PICK D, g : Solved(h, D, g)
  BY NothingSolved
<1> DEFINE B == [i \in 1 .. 1 |-> << >>]
<1>2. B \in [1 .. 1 -> Seq(Toks)] /\ B[1] = << >>
  OBVIOUS
<1> HIDE DEF B
<1>3. Child(<< >>, 0, Root) = Root
  BY DEF Child
<1>4. Open(h, D, g, << >>, Root, << >>)
  <2>1. PICK S : S = << >>
    OBVIOUS
  <2>2. Len(S) = 0 /\ Child(S, 0, Root) = Root /\ Len(S) + 1 = 1
    BY <1>3, <2>1
  <2>3. Open(h, D, g, S, Root, << >>)
    BY <1>2, <2>2 DEF Open
  <2> QED
    BY <2>1, <2>3
<1>5. Root # NoNode
  BY HeapAssumption
<1> QED
  BY <1>1, <1>4, <1>5 DEF TextIs

\* A token at the end.
LEMMA OneToken ==
    ASSUME NEW T, NEW s \in Seq(T), NEW x \in T
    PROVE  Append(s, x) = s \o <<x>>
OBVIOUS

\* What is open or idle is a text.
LEMMA OpenIsText ==
    ASSUME NEW h, NEW D, NEW g, NEW S \in Seq(FrameType), NEW a, NEW o, Open(h, D, g, S, a, o)
    PROVE  o \in Seq(Toks)
<1>1. PICK B \in [1 .. Len(S) + 1 -> Seq(Toks)] : B[Len(S) + 1] = o
  BY DEF Open
<1>2. Len(S) + 1 \in 1 .. Len(S) + 1
  OBVIOUS
<1> QED
  BY <1>1, <1>2

\* So is what an idle frame has written.
LEMMA IdleIsText ==
    ASSUME NEW h, IsMemory(h), NEW D, NEW g, Solved(h, D, g), NEW S, NEW o, Idle(h, D, g, S, o)
    PROVE  o \in Seq(Toks)
<1>1. CASE S = << >> /\ Root \in D /\ o = g[Root]
  BY <1>1 DEF Solved
<1>2. CASE \E F \in Seq(FrameType), fr \in FrameType, b \in Seq(Toks) :
             S = Append(F, fr) /\ Open(h, D, g, F, fr.node, b) /\ Rests(h, D, g, fr, b, o)
  BY <1>2, RestsIsText
<1> QED
  BY <1>1, <1>2 DEF Idle

\* The state's predicates are those of its memory.
LEMMA InMemory ==
    \A n : /\ IsMap(n) <=> IsMapIn(heap, n)
           /\ IsContainer(n) <=> IsContainerIn(heap, n)
           /\ \A k : KeyOf(n, k) = KeyIn(heap, n, k)
           /\ ItemsOf(n) = ItemsIn(heap, n)
           /\ IsContainer(n) => Begin(heap, n) = <<Opening(n)>> /\ Finish(heap, n) = <<Closing(n)>>
           /\ ~IsContainer(n) => Begin(heap, n) = << >> /\ Finish(heap, n) = << >>
<1> TAKE n
<1>1. (IsMap(n) <=> IsMapIn(heap, n)) /\ (IsContainer(n) <=> IsContainerIn(heap, n))
  BY DEF IsMap, IsMapIn, IsContainer, IsContainerIn
<1>2. \A k : KeyOf(n, k) = KeyIn(heap, n, k)
  BY <1>1 DEF KeyOf, KeyIn
<1>3. ItemsOf(n) = ItemsIn(heap, n)
  BY DEF ItemsOf, ItemsIn
<1>4. IsMap(n) => IsContainer(n)
  BY DEF IsContainer
<1>5. ~IsContainer(n) => Begin(heap, n) = << >> /\ Finish(heap, n) = << >>
  BY <1>1, <1>4 DEF Begin, Finish
<1>6. IsContainer(n) => Begin(heap, n) = <<Opening(n)>> /\ Finish(heap, n) = <<Closing(n)>>
  <2>1. CASE IsMap(n)
    BY <1>1, <2>1 DEF Begin, Finish, Opening, Closing
  <2>2. CASE ~IsMap(n) /\ IsContainer(n)
    BY <1>1, <2>2 DEF Begin, Finish, Opening, Closing
  <2> QED
    BY <2>1, <2>2
<1> QED
  BY <1>1, <1>2, <1>3, <1>5, <1>6

\* The items of a value have one order, whatever a range over a map yielded.
LEMMA OneOrderHere ==
    ASSUME heap \in Heaps, NEW n \in Nodes
    PROVE  Orders(n) = {OrderIn(heap, n)} /\ OrderOf(n) = OrderIn(heap, n) /\ OrderIn(heap, n) \in Seq(Keys)
<1>1. DOMAIN heap[n].items \in SUBSET Keys
  BY HeapAssumption
<1>2. Orders(n) = {OrderIn(heap, n)}
  BY <1>1, OneOrder DEF Orders, OrderIn
<1>3. OrderIn(heap, n) \in Seq(Keys)
  <2>1. OrderIn(heap, n) \in Seq(DOMAIN heap[n].items)
    BY <1>1, OneOrder DEF OrderIn
  <2> QED
    BY <1>1, <2>1
<1>4. OrderOf(n) = OrderIn(heap, n)
  BY <1>2 DEF OrderOf
<1> QED
  BY <1>2, <1>3, <1>4

\* Nothing is left of what is refused.
LEMMA UnwoundText ==
    ASSUME NEW outcome, outcome \notin {"writing", "ok"}, Unwind(outcome)
    PROVE  TextInv'
<1>1. status' = outcome
  BY DEF Unwind
<1>2. PICK D, g : Solved(heap', D, g)
  BY NothingSolved
<1> QED
  BY <1>1, <1>2 DEF TextInv, TextIs

\* A scalar at the end of what was written.
LEMMA ScalarText ==
    ASSUME Types, TextInv, WriteScalar
    PROVE  TextInv'
<1>1. /\ IsMemory(heap) /\ at \in Nodes /\ stack \in Seq(FrameType) /\ NoNode \notin Nodes
  BY HeapsAreMemories, HeapAssumption DEF Types, WriteScalar
<1>2. PICK D, g : Solved(heap, D, g) /\ Open(heap, D, g, stack, at, out)
  BY DEF TextInv, TextIs, WriteScalar
<1>3. ~IsInner(heap, at) /\ DOMAIN heap[at].items = {} /\ heap[at].kind # "unsupported"
  BY <1>1, HeapAssumption DEF WriteScalar, IsInner, IsContainerIn, IsMapIn, Types
<1>4. PICK E, f : Solved(heap, E, f) /\ Idle(heap, E, f, stack, out \o Leaf(heap, at))
  BY <1>1, <1>2, <1>3, LeafWritten
<1>5. out' = out \o Leaf(heap, at)
  <2> DEFINE x == IF heap[at].kind = "nil" THEN Token("null") ELSE ScalarToken(at)
  <2>1. x \in Toks
    BY <1>1, Zenon DEF Toks, Marks
  <2>2. out \in Seq(Toks)
    BY <1>1, <1>2, OpenIsText
  <2>3. out' = Append(out, x)
    BY DEF WriteScalar
  <2>4. Leaf(heap, at) = <<x>>
    BY DEF Leaf
  <2> HIDE DEF x
  <2> QED
    BY <2>1, <2>2, <2>3, <2>4, OneToken
<1>6. at' = NoNode /\ heap' = heap /\ stack' = stack /\ status' = "writing"
  BY DEF WriteScalar
<1>7. TextIs(heap, NoNode, stack, out \o Leaf(heap, at), "writing")
  BY <1>4 DEF TextIs
<1> QED
  BY <1>5, <1>6, <1>7 DEF TextInv

\* A pointer is written as what it points to, or outgrows the stack.
LEMMA PointerText ==
    ASSUME Types, TextInv, FollowPointer
    PROVE  TextInv'
<1>1. CASE Len(stack) = MaxDepth
  BY <1>1, UnwoundText DEF FollowPointer
<1>2. CASE Len(stack) # MaxDepth
  <2>1. /\ IsMemory(heap) /\ at \in Nodes /\ stack \in Seq(FrameType) /\ at # NoNode
        /\ heap[at].kind = "pointer" /\ DOMAIN heap[at].items = {1}
    BY HeapsAreMemories, HeapAssumption DEF Types, FollowPointer
  <2>2. PICK D, g : Solved(heap, D, g) /\ Open(heap, D, g, stack, at, out)
    BY <2>1 DEF TextInv, TextIs, FollowPointer
  <2> DEFINE fr == [node |-> at, todo |-> << >>, first |-> TRUE]
  <2>3. fr \in FrameType /\ fr.node = at /\ fr.todo = << >> /\ stack' = Append(stack, fr)
    BY <1>2, <2>1 DEF FollowPointer, Push, FrameType
  <2> HIDE DEF fr
  <2>4. out \in Seq(Toks)
    BY <2>1, <2>2, OpenIsText
  <2>5. Busy(heap, D, g, fr, heap[at].items[1], out, out)
    BY <2>1, <2>3, <2>4, PointerBegun
  <2>6. Open(heap, D, g, stack', heap[at].items[1], out)
    <3>1. Open(heap, D, g, Append(stack, fr), heap[at].items[1], out)
      BY <2>1, <2>2, <2>3, <2>4, <2>5, OpenMore
    <3> QED
      BY <2>3, <3>1
  <2>7. heap[at].items[1] \in Nodes /\ NoNode \notin Nodes
    BY <2>1, HeapAssumption DEF IsMemory
  <2>8. TextIs(heap, heap[at].items[1], stack', out, "writing")
    BY <2>2, <2>6, <2>7 DEF TextIs
  <2>9. at' = heap[at].items[1] /\ heap' = heap /\ out' = out /\ status' = "writing"
    BY <1>2 DEF FollowPointer
  <2> QED
    BY <2>8, <2>9 DEF TextInv
<1> QED
  BY <1>1, <1>2

\* A container that is entered, refused, or outgrows the stack.
LEMMA EnterText ==
    ASSUME Types, TextInv, EnterContainer
    PROVE  TextInv'
<1>1. CASE Circular(at) \/ Len(stack) = MaxDepth
  BY <1>1, UnwoundText DEF EnterContainer
<1>2. CASE ~(Circular(at) \/ Len(stack) = MaxDepth)
  <2>1. /\ IsMemory(heap) /\ heap \in Heaps /\ at \in Nodes /\ stack \in Seq(FrameType) /\ at # NoNode
        /\ IsContainer(at) /\ IsContainerIn(heap, at)
    BY HeapsAreMemories, InMemory DEF Types, EnterContainer
  <2>2. PICK D, g : Solved(heap, D, g) /\ Open(heap, D, g, stack, at, out)
    BY <2>1 DEF TextInv, TextIs, EnterContainer
  <2>3. PICK order \in Orders(at) : Push(at, order)
    BY <1>2 DEF EnterContainer
  <2>4. order = OrderIn(heap, at) /\ order \in Seq(Keys)
    BY <2>1, <2>3, OneOrderHere
  <2> DEFINE fr == [node |-> at, todo |-> order, first |-> TRUE]
  <2>5. /\ fr \in FrameType /\ fr.node = at /\ fr.todo = OrderIn(heap, at) /\ fr.first = TRUE
        /\ stack' = Append(stack, fr)
    BY <2>1, <2>3, <2>4 DEF Push, FrameType
  <2> HIDE DEF fr
  <2>6. out \in Seq(Toks)
    BY <2>1, <2>2, OpenIsText
  <2>7. Rests(heap, D, g, fr, out, out \o Begin(heap, at))
    BY <2>1, <2>5, <2>6, ContainerBegun
  <2>8. out' = out \o Begin(heap, at)
    <3>1. Begin(heap, at) = <<Opening(at)>>
      BY <2>1, InMemory
    <3>2. Opening(at) \in Toks
      BY Zenon DEF Opening, Toks, Marks
    <3>3. out' = Append(out, Opening(at))
      BY <1>2 DEF EnterContainer
    <3> QED
      BY <2>6, <3>1, <3>2, <3>3, OneToken
  <2>9. Idle(heap, D, g, stack', out')
    BY <2>1, <2>2, <2>5, <2>6, <2>7, <2>8 DEF Idle
  <2>10. at' = NoNode /\ heap' = heap /\ status' = "writing"
    BY <1>2 DEF EnterContainer
  <2>11. TextIs(heap, NoNode, stack', out', "writing")
    BY <2>2, <2>9 DEF TextIs
  <2> QED
    BY <2>10, <2>11 DEF TextInv
<1> QED
  BY <1>1, <1>2

\* What was appended to is told by the result.
LEMMA AppendedOnce ==
    ASSUME NEW T, NEW F \in Seq(T), NEW G \in Seq(T), NEW x \in T, NEW y \in T,
           Append(F, x) = Append(G, y)
    PROVE  F = G /\ x = y
<1>1. PICK s : s = Append(F, x)
  OBVIOUS
<1>2. /\ Len(s) = Len(F) + 1 /\ s[Len(F) + 1] = x /\ \A i \in 1 .. Len(F) : s[i] = F[i]
      /\ Len(F) \in Nat
  BY <1>1
<1>3. /\ Len(s) = Len(G) + 1 /\ s[Len(G) + 1] = y /\ \A i \in 1 .. Len(G) : s[i] = G[i]
      /\ Len(G) \in Nat
  BY <1>1
<1>4. Len(F) = Len(G) /\ x = y /\ \A i \in 1 .. Len(F) : F[i] = G[i]
  BY <1>2, <1>3
<1> QED
  BY <1>4

\* The frame between two items is the last one.
LEMMA TopRests ==
    ASSUME Types, TextInv, status = "writing", at = NoNode, stack # << >>
    PROVE  \E D, g : \E F \in Seq(FrameType), b \in Seq(Toks) :
             /\ Solved(heap, D, g) /\ Open(heap, D, g, F, Top.node, b) /\ Rests(heap, D, g, Top, b, out)
             /\ stack = Append(F, Top) /\ Top \in FrameType /\ Len(stack) = Len(F) + 1
             /\ F = SubSeq(stack, 1, Len(stack) - 1)
<1>1. PICK D, g : Solved(heap, D, g) /\ Idle(heap, D, g, stack, out)
  BY DEF TextInv, TextIs
<1>2. PICK F \in Seq(FrameType), fr \in FrameType, b \in Seq(Toks) :
        stack = Append(F, fr) /\ Open(heap, D, g, F, fr.node, b) /\ Rests(heap, D, g, fr, b, out)
  BY <1>1 DEF Idle
<1>3. stack \in Seq(FrameType)
  BY DEF Types
<1>4. PICK G \in Seq(FrameType), x \in FrameType :
        stack = Append(G, x) /\ G = SubSeq(stack, 1, Len(stack) - 1) /\ x = stack[Len(stack)]
  BY <1>3, TopOfFrames
<1>5. F = G /\ fr = x
  <2>1. Append(F, fr) = Append(G, x)
    BY <1>2, <1>4
  <2> QED
    BY <2>1, AppendedOnce
<1>6. Len(stack) = Len(F) + 1
  BY <1>2
<1> QED
  BY <1>1, <1>2, <1>4, <1>5, <1>6 DEF Top

\* A container that is left has its one text.
LEMMA LeaveText ==
    ASSUME Types, TextInv, LeaveContainer
    PROVE  TextInv'
<1>1. PICK D, g : \E F \in Seq(FrameType), b \in Seq(Toks) :
             /\ Solved(heap, D, g) /\ Open(heap, D, g, F, Top.node, b) /\ Rests(heap, D, g, Top, b, out)
             /\ stack = Append(F, Top) /\ Top \in FrameType /\ Len(stack) = Len(F) + 1
             /\ F = SubSeq(stack, 1, Len(stack) - 1)
  BY TopRests DEF LeaveContainer
<1>2. PICK F \in Seq(FrameType), b \in Seq(Toks) :
             /\ Solved(heap, D, g) /\ Open(heap, D, g, F, Top.node, b) /\ Rests(heap, D, g, Top, b, out)
             /\ Top \in FrameType /\ F = SubSeq(stack, 1, Len(stack) - 1)
  BY <1>1
<1>3. IsMemory(heap) /\ Top.node \in Nodes
  BY <1>2, HeapsAreMemories DEF Types, FrameType
<1>4. Top.todo = << >>
  BY DEF LeaveContainer
<1>5. PICK E, f : Solved(heap, E, f) /\ Idle(heap, E, f, F, out \o Finish(heap, Top.node))
  BY <1>2, <1>3, <1>4, FrameWritten
<1>6. out' = out \o Finish(heap, Top.node)
  <2>1. out \in Seq(Toks)
    BY <1>2, <1>3, RestsIsText
  <2>2. CASE IsContainer(Top.node)
    <3>1. Finish(heap, Top.node) = <<Closing(Top.node)>>
      BY <2>2, InMemory
    <3>2. Closing(Top.node) \in Toks
      BY Zenon DEF Closing, Toks, Marks
    <3>3. out' = Append(out, Closing(Top.node))
      BY <2>2 DEF LeaveContainer
    <3> QED
      BY <2>1, <3>1, <3>2, <3>3, OneToken
  <2>3. CASE ~IsContainer(Top.node)
    <3>1. Finish(heap, Top.node) = << >>
      BY <2>3, InMemory
    <3>2. out' = out
      BY <2>3 DEF LeaveContainer
    <3>3. out \o << >> = out
      BY <2>1, JoinedTwice
    <3> QED
      BY <3>1, <3>2, <3>3
  <2> QED
    BY <2>2, <2>3
<1>7. at' = NoNode /\ heap' = heap /\ status' = "writing" /\ stack' = F
  BY <1>2 DEF LeaveContainer
<1>8. TextIs(heap, NoNode, F, out \o Finish(heap, Top.node), "writing")
  BY <1>5 DEF TextIs
<1> QED
  BY <1>6, <1>7, <1>8 DEF TextInv

\* The top frame is replaced.
Replaced(s, y) == [s EXCEPT ![Len(s)] = y]

\* It is the others with the new frame on top.
LEMMA TopReplaced ==
    ASSUME NEW T, NEW F \in Seq(T), NEW x \in T, NEW y \in T, NEW s, s = Append(F, x)
    PROVE  Replaced(s, y) = Append(F, y)
<1>1. PICK r, q : r = [s EXCEPT ![Len(s)] = y] /\ q = Append(F, y) /\ r = Replaced(s, y)
  BY DEF Replaced
<1>2. Len(F) \in Nat /\ s \in Seq(T) /\ Len(s) = Len(F) + 1 /\ \A i \in 1 .. Len(F) : s[i] = F[i]
  OBVIOUS
<1>3. /\ r \in Seq(T) /\ Len(r) = Len(F) + 1 /\ r[Len(F) + 1] = y
      /\ \A i \in 1 .. Len(F) : r[i] = F[i]
  <2>1. PICK m : m = Len(s)
    OBVIOUS
  <2>2. m \in Nat /\ m = Len(F) + 1 /\ m \in DOMAIN s /\ DOMAIN s = 1 .. m
    BY <1>2, <2>1
  <2>3. r = [i \in 1 .. m |-> IF i = m THEN y ELSE s[i]]
    BY <1>1, <2>1, <2>2
  <2>4. \A i \in 1 .. m : r[i] \in T
    BY <1>2, <2>1, <2>3
  <2>5. r \in [1 .. m -> T]
    BY <2>3, <2>4
  <2>6. r \in Seq(T) /\ Len(r) = m
    BY <2>2, <2>5
  <2> QED
    BY <1>2, <2>2, <2>3, <2>6
<1>4. /\ q \in Seq(T) /\ Len(q) = Len(F) + 1 /\ q[Len(F) + 1] = y
      /\ \A i \in 1 .. Len(F) : q[i] = F[i]
  BY <1>1
<1>5. \A i \in 1 .. Len(F) + 1 : r[i] = q[i]
  <2> TAKE i \in 1 .. Len(F) + 1
  <2>1. i \in 1 .. Len(F) \/ i = Len(F) + 1
    BY <1>2
  <2> QED
    BY <1>3, <1>4, <2>1
<1>6. r = q
  BY <1>3, <1>4, <1>5
<1> QED
  BY <1>1, <1>6

\* Nothing that was appended to is empty.
LEMMA AppendedIsLonger ==
    ASSUME NEW T, NEW F \in Seq(T), NEW x \in T
    PROVE  Append(F, x) # << >>
<1>1. PICK s : s = Append(F, x)
  OBVIOUS
<1>2. Len(s) = Len(F) + 1 /\ Len(F) \in Nat
  BY <1>1
<1>3. s # << >>
  BY <1>2
<1> QED
  BY <1>1, <1>3

\* One token is a text.
LEMMA OneTokenLong == \A x \in Toks : <<x>> \in Seq(Toks)
OBVIOUS

\* A key and its colon are tokens.
LEMMA KeyIsWritten ==
    ASSUME NEW h, NEW n, NEW k \in Nat
    PROVE  KeyIn(h, n, k) \in Seq(Toks)
<1>1. \A x, y \in Toks : <<x, y>> \in Seq(Toks)
  OBVIOUS
<1>2. KeyToken(k) \in Toks
  BY DEF Toks
<1>3. Token(":") \in Toks
  BY DEF Toks, Marks
<1>4. CASE IsMapIn(h, n)
  BY <1>1, <1>2, <1>3, <1>4, Zenon DEF KeyIn
<1>5. CASE ~IsMapIn(h, n)
  <2>1. << >> \in Seq(Toks)
    OBVIOUS
  <2> QED
    BY <1>5, <2>1 DEF KeyIn
<1> QED
  BY <1>4, <1>5

\* The next item of a frame, with its comma and its key, is begun, or refused.
LEMMA ItemText ==
    ASSUME Types, TextInv, WriteItem
    PROVE  TextInv'
<1> DEFINE n == Top.node
           k == Head(Top.todo)
<1>1. CASE ~WritesKey(n, k)
  BY <1>1, UnwoundText DEF WriteItem
<1>2. CASE WritesKey(n, k) /\ IndexPanics(n)
  BY <1>2, UnwoundText DEF WriteItem
<1>3. CASE WritesKey(n, k) /\ ~IndexPanics(n)
  <2>1. PICK D, g : \E F \in Seq(FrameType), b \in Seq(Toks) :
          /\ Solved(heap, D, g) /\ Open(heap, D, g, F, Top.node, b) /\ Rests(heap, D, g, Top, b, out)
          /\ stack = Append(F, Top) /\ Top \in FrameType /\ Len(stack) = Len(F) + 1
          /\ F = SubSeq(stack, 1, Len(stack) - 1)
    BY TopRests DEF WriteItem
  <2>2. PICK F \in Seq(FrameType), b \in Seq(Toks) :
          /\ Solved(heap, D, g) /\ Open(heap, D, g, F, Top.node, b) /\ Rests(heap, D, g, Top, b, out)
          /\ Top \in FrameType /\ stack = Append(F, Top)
    BY <2>1
  <2>3. IsMemory(heap) /\ n \in Nodes /\ Top.todo \in Seq(Keys) /\ Top.todo # << >>
    BY <2>2, HeapsAreMemories DEF Types, FrameType, WriteItem
  <2> DEFINE fr == [node |-> n, todo |-> Tail(Top.todo), first |-> FALSE]
  <2>4. /\ out' = (out \o Comma) \o KeyOf(n, k)
        /\ at' = heap[n].items[k] /\ heap' = heap /\ status' = "writing"
        /\ stack' = [stack EXCEPT ![Len(stack)] = fr]
    BY <1>3 DEF WriteItem
  <2>5. fr.node = n /\ fr.todo = Tail(Top.todo) /\ fr.first = FALSE
    OBVIOUS
  <2>6. fr \in FrameType
    <3>1. Tail(Top.todo) \in Seq(Keys)
      BY <2>3
    <3> QED
      BY <2>3, <3>1 DEF FrameType
  <2> HIDE DEF fr
  <2>7. stack' = Append(F, fr)
    <3>1. Replaced(stack, fr) = Append(F, fr)
      BY <2>2, <2>6, TopReplaced
    <3> QED
      BY <2>4, <3>1 DEF Replaced
  <2>8. IsMapIn(heap, n) => k \notin BadKeys
    BY <1>3, InMemory DEF WritesKey
  <2> DEFINE j == Begun(heap, Top) + 1
             item == heap[n].items[k]
  <2>9. /\ j \in 1 .. CountIn(heap, n) /\ OrderIn(heap, n)[j] = k
        /\ Busy(heap, D, g, fr, item, b, out \o LeadIn(heap, n, j))
    BY <2>2, <2>3, <2>5, <2>6, <2>8, ItemBegun
  <2>10. out \in Seq(Toks) /\ LeadIn(heap, n, j) \in Seq(Toks)
    BY <2>2, <2>3, <2>9, RestsIsText, TokensAreWritten
  <2>11. out' = out \o LeadIn(heap, n, j)
    <3> DEFINE c == IF j = 1 THEN << >> ELSE <<Token(",")>>
    <3>1. LeadIn(heap, n, j) = c \o KeyIn(heap, n, k)
      BY <2>9 DEF LeadIn
    <3>2. Comma = c
      <4>1. Top.first <=> Begun(heap, Top) = 0
        BY <2>2, <2>3 DEF Rests, IsFrame
      <4>2. Begun(heap, Top) \in Nat
        BY <2>2 DEF Rests, IsFrame
      <4>3. Top.first <=> j = 1
        BY <4>1, <4>2
      <4> QED
        BY <4>3 DEF Comma
    <3>3. KeyOf(n, k) = KeyIn(heap, n, k)
      BY InMemory
    <3>4. c \in Seq(Toks)
      <4>1. << >> \in Seq(Toks)
        OBVIOUS
      <4>2. Token(",") \in Toks
        BY DEF Toks, Marks
      <4>3. <<Token(",")>> \in Seq(Toks)
        BY <4>2, OneTokenLong
      <4> QED
        BY <4>1, <4>3, Zenon
    <3>5. KeyIn(heap, n, k) \in Seq(Toks)
      <4>1. k \in Nat
        BY <2>3, <2>9, ItemsInOrder DEF CountIn
      <4> QED
        BY <2>3, <4>1, KeyIsWritten
    <3> HIDE DEF c
    <3>6. (out \o c) \o KeyIn(heap, n, k) = out \o (c \o KeyIn(heap, n, k))
      <4>1. \A u, v, w \in Seq(Toks) : (u \o v) \o w = u \o (v \o w)
        BY JoinedTwice
      <4> QED
        BY <2>10, <3>4, <3>5, <4>1
    <3> QED
      BY <2>4, <3>1, <3>2, <3>3, <3>6
  <2>12. Open(heap, D, g, stack', item, out')
    <3>1. Open(heap, D, g, Append(F, fr), item, out \o LeadIn(heap, n, j))
      <4>1. fr.node = Top.node /\ out \o LeadIn(heap, n, j) \in Seq(Toks)
        BY <2>5, <2>10
      <4> QED
        BY <2>2, <2>6, <2>9, <4>1, OpenMore
    <3> QED
      BY <2>7, <2>11, <3>1
  <2>13. item # NoNode
    <3>1. k \in DOMAIN heap[n].items
      BY <2>3, <2>9, ItemsInOrder DEF CountIn
    <3> QED
      BY <2>3, <3>1, HeapAssumption DEF IsMemory
  <2>14. TextIs(heap, item, stack', out', "writing")
    BY <2>2, <2>12, <2>13 DEF TextIs
  <2> QED
    BY <2>4, <2>14 DEF TextInv
<1> QED
  BY <1>1, <1>2, <1>3

\* What is returned is the text of the root.
LEMMA ReturnText ==
    ASSUME Types, TextInv, Return
    PROVE  TextInv'
<1>1. PICK D, g : Solved(heap, D, g) /\ Idle(heap, D, g, stack, out)
  BY DEF TextInv, TextIs, Return
<1>2. ASSUME NEW F \in Seq(FrameType), NEW fr \in FrameType PROVE stack # Append(F, fr)
  <2>1. stack = << >>
    BY DEF Return
  <2>2. Append(F, fr) # << >>
    BY AppendedIsLonger
  <2> QED
    BY <2>1, <2>2
<1>3. Root \in D /\ out = g[Root]
  BY <1>1, <1>2 DEF Idle
<1>4. heap' = heap /\ out' = out /\ status' = "ok"
  BY DEF Return
<1> QED
  BY <1>1, <1>3, <1>4 DEF TextInv, TextIs

\* Every step keeps what was written.
LEMMA TextKept == Types /\ TextInv /\ [Next]_vars => TextInv'
<1> SUFFICES ASSUME Types, TextInv, [Next]_vars PROVE TextInv'
  OBVIOUS
<1>1. CASE WriteScalar
  BY <1>1, ScalarText
<1>2. CASE RejectValue
  BY <1>2, UnwoundText DEF RejectValue
<1>3. CASE FollowPointer
  BY <1>3, PointerText
<1>4. CASE EnterContainer
  BY <1>4, EnterText
<1>5. CASE WriteItem
  BY <1>5, ItemText
<1>6. CASE LeaveContainer
  BY <1>6, LeaveText
<1>7. CASE Return
  BY <1>7, ReturnText
<1>8. CASE UNCHANGED vars
  BY <1>8 DEF vars, TextInv
<1> QED
  BY <1>1, <1>2, <1>3, <1>4, <1>5, <1>6, <1>7, <1>8 DEF Next

\* What is reachable, and inside, in a state.
LEMMA ReachHere ==
    /\ \A n : Reachable(n) = ReachableIn(heap, n)
    /\ \A m, n : IsInside(m, n) <=> InsideIn(heap, m, n)
<1>1. \A S : Closed(S) <=> ClosedIn(heap, S)
  BY DEF Closed, ClosedIn, ItemsOf, ItemsIn
<1>2. \A n : Reachable(n) = ReachableIn(heap, n)
  BY <1>1 DEF Reachable, ReachableIn
<1>3. \A m, n : IsInside(m, n) <=> InsideIn(heap, m, n)
  BY <1>2 DEF IsInside, InsideIn, ItemsOf, ItemsIn
<1> QED
  BY <1>2, <1>3

\* The text of a value if F is that of its items.
TextFrom(F, n) ==
    LET items == FlattenSeq([i \in DOMAIN OrderOf(n) |->
                               Lead(n, i) \o F[heap[n].items[OrderOf(n)[i]]]])
    IN  IF IsContainer(n) THEN <<Opening(n)>> \o items \o <<Closing(n)>>
        ELSE IF heap[n].kind = "pointer" THEN items
        ELSE <<IF heap[n].kind = "nil" THEN Token("null") ELSE ScalarToken(n)>>

\* It is the text of n in its memory.
LEMMA TextFromItems ==
    ASSUME heap \in Heaps, NEW F, NEW n \in Nodes
    PROVE  TextFrom(F, n) = BodyIn(heap, F, n)
<1>1. IsMemory(heap)
  BY HeapsAreMemories
<1>2. OrderOf(n) = OrderIn(heap, n) /\ DOMAIN OrderIn(heap, n) = 1 .. CountIn(heap, n)
  BY <1>1, OneOrderHere, ItemsInOrder DEF CountIn
<1>3. \A i : Lead(n, i) = LeadIn(heap, n, i)
  BY <1>2, InMemory DEF Lead, LeadIn
<1>4. [i \in DOMAIN OrderOf(n) |-> Lead(n, i) \o F[heap[n].items[OrderOf(n)[i]]]]
        = [i \in 1 .. CountIn(heap, n) |-> Piece(heap, F, n, i)]
  BY <1>2, <1>3 DEF Piece, ItemIn
<1> DEFINE items == FlattenSeq([i \in DOMAIN OrderOf(n) |->
                                  Lead(n, i) \o F[heap[n].items[OrderOf(n)[i]]]])
<1>5. items = Pieces(heap, F, n, CountIn(heap, n))
  BY <1>4 DEF Pieces
<1>6. TextFrom(F, n) = IF IsContainer(n) THEN (<<Opening(n)>> \o items) \o <<Closing(n)>>
                       ELSE IF heap[n].kind = "pointer" THEN items
                       ELSE <<IF heap[n].kind = "nil" THEN Token("null") ELSE ScalarToken(n)>>
  BY DEF TextFrom
<1> HIDE DEF items
<1>7. CASE IsContainer(n)
  BY <1>5, <1>6, <1>7, InMemory DEF BodyIn
<1>8. CASE ~IsContainer(n)
  <2>1. ~IsContainerIn(heap, n)
    BY <1>8, InMemory
  <2> QED
    BY <1>5, <1>6, <1>8, <2>1 DEF BodyIn, Leaf
<1> QED
  BY <1>7, <1>8

\* The text of a value is the function that is defined by itself.
LEMMA TextIsChosen ==
    Text = CHOOSE F : F = [n \in Reachable(Root) |-> TextFrom(F, n)]
BY DEF Text, TextFrom

\* Where every part was written, the text is what was written.
LEMMA TextWasWritten ==
    ASSUME heap \in Heaps, NEW D, NEW g, Solved(heap, D, g), Root \in D
    PROVE  ~IsCircular /\ IsRepresentable /\ Text[Root] = g[Root]
<1> DEFINE R == Reachable(Root)
           G == [n \in R |-> g[n]]
<1>1. IsMemory(heap) /\ Root \in Nodes
  BY HeapsAreMemories, HeapAssumption
<1>2. /\ D \in SUBSET Nodes /\ ClosedIn(heap, D)
      /\ \A n \in D : g[n] = BodyIn(heap, g, n) /\ HasKind(heap, n) /\ ~InsideIn(heap, n, n)
      /\ \A S \in SUBSET Nodes : \A f :
           ClosedIn(heap, S) /\ IsSpelling(heap, S, f) => \A n \in D \cap S : f[n] = g[n]
  BY DEF Solved
<1>3. R = ReachableIn(heap, Root)
  BY ReachHere
<1>4. R \subseteq D /\ R \in SUBSET Nodes /\ ClosedIn(heap, R) /\ Root \in R
  BY <1>1, <1>2, <1>3, Reach
<1>5. ~IsCircular
  BY <1>2, <1>4, ReachHere DEF IsCircular
<1>6. IsRepresentable
  BY <1>2, <1>4, InMemory DEF IsRepresentable, HasKind
<1>7. \A F, n : n \in R => TextFrom(F, n) = BodyIn(heap, F, n)
  BY <1>4, TextFromItems
<1>8. \A n \in R : G[n] = g[n]
  OBVIOUS
<1>9. G = [n \in R |-> G[n]]
  OBVIOUS
<1> HIDE DEF R, G
<1>10. \A n \in R : G[n] = TextFrom(G, n)
  <2> TAKE n \in R
  <2>1. \A m \in ItemsIn(heap, n) : G[m] = g[m]
    BY <1>4, <1>8 DEF ClosedIn
  <2>2. BodyIn(heap, G, n) = BodyIn(heap, g, n)
    BY <1>1, <1>4, <2>1, BodySame
  <2> QED
    BY <1>2, <1>4, <1>7, <1>8, <2>2
<1>11. G = [n \in R |-> TextFrom(G, n)]
  BY <1>9, <1>10
<1>12. Text = [n \in R |-> TextFrom(Text, n)]
  <2>1. Text = CHOOSE F : F = [n \in R |-> TextFrom(F, n)]
    BY TextIsChosen DEF R
  <2> QED
    BY <1>11, <2>1
<1>13. IsSpelling(heap, R, Text)
  BY <1>7, <1>12 DEF IsSpelling
<1>14. Text[Root] = g[Root]
  <2>1. R \in SUBSET Nodes /\ ClosedIn(heap, R) /\ Root \in D \cap R
    BY <1>4
  <2> QED
    BY <1>2, <1>13, <2>1
<1> QED
  BY <1>5, <1>6, <1>14

\* The root is to be written at first.
LEMMA TextAtFirst == Init => TextInv
<1> SUFFICES ASSUME Init PROVE TextInv
  OBVIOUS
<1>1. at = Root /\ stack = << >> /\ out = << >> /\ status = "writing"
  BY DEF Init
<1> QED
  BY <1>1, NothingWritten DEF TextInv

\* What is returned is the value's one text.
LEMMA TextHolds == Types /\ TextInv => WrittenAsTheirText
<1> SUFFICES ASSUME Types, TextInv, status = "ok"
             PROVE  ~IsCircular /\ IsRepresentable /\ out = Text[Root]
  BY DEF WrittenAsTheirText
<1>1. PICK D, g : Solved(heap, D, g) /\ Root \in D /\ out = g[Root]
  BY DEF TextInv, TextIs
<1> QED
  BY <1>1, TextWasWritten DEF Types

\* canonical.go:32: what CanonicalJSON returns for a value is its one text: every part is
\* written as often as it is reachable, the keys of a map in their order whatever order the
\* range yielded them in, and no value that contains itself, or has a part without a
\* representation, is written at all.
THEOREM FormsAreTexts == Spec => []WrittenAsTheirText
<1>1. Init => WriterInv /\ TextInv
  BY InitHolds, TextAtFirst
<1>2. WriterInv /\ TextInv /\ [Next]_vars => (WriterInv /\ TextInv)'
  BY InvKept, TextKept DEF WriterInv
<1>3. WriterInv /\ TextInv => WrittenAsTheirText
  BY TextHolds DEF WriterInv
<1> QED
  BY <1>1, <1>2, <1>3, PTL DEF Spec

\* The places before i at which a value of T stands.
PlacesOf(N, T, i) == {p \in 1 .. i : N[p] \in T}

\* The last of these values.
LastOf(N, T, i) ==
    IF PlacesOf(N, T, i) = {} THEN NoNode
    ELSE N[CHOOSE p \in PlacesOf(N, T, i) : \A q \in PlacesOf(N, T, i) : p >= q]

\* It stands at the greatest of these places.
LEMMA LastStands ==
    ASSUME NEW N, NEW T, NEW i \in Nat, PlacesOf(N, T, i) # {}
    PROVE  \E p \in 1 .. i : /\ LastOf(N, T, i) = N[p] /\ N[p] \in T
                             /\ \A q \in 1 .. i : N[q] \in T => p >= q
<1> DEFINE Q == PlacesOf(N, T, i)
           p == CHOOSE p \in Q : \A q \in Q : p >= q
<1>1. Q \in SUBSET (1 .. i)
  BY DEF PlacesOf
<1>2. \E x \in Q : \A q \in Q : x >= q
  BY <1>1, GreatestExists
<1>3. p \in Q /\ \A q \in Q : p >= q
  BY <1>2
<1>4. LastOf(N, T, i) = N[p]
  BY DEF LastOf
<1> HIDE DEF p
<1> QED
  BY <1>3, <1>4 DEF PlacesOf

\* Two places with one value, and none of T between them, on a path that is long enough.
LEMMA LongPath ==
    ASSUME NEW M \in Nat, NEW N \in [1 .. M + 1 -> Nodes], NEW T \in SUBSET Nodes,
           IsFiniteSet(Nodes), NoNode \notin Nodes,
           \A i, j \in 1 .. M + 1 : N[i] \in T /\ N[i] = N[j] => i = j,
           Cardinality(T) + (Cardinality(T) + 1) * (Cardinality(Nodes) - Cardinality(T)) <= M
    PROVE  \E i, j \in 1 .. M + 1 : i < j /\ N[i] = N[j] /\ \A k \in i .. j : N[k] \notin T
<1> DEFINE t == Cardinality(T)
           c == Cardinality(Nodes)
           U == Nodes \ T
           I == {i \in 1 .. M + 1 : N[i] \in T}
           J == (1 .. M + 1) \ I
           V == (T \cup {NoNode}) \X U
<1>1. /\ IsFiniteSet(T) /\ t \in Nat /\ c \in Nat /\ t <= c
      /\ IsFiniteSet(U) /\ Cardinality(U) = c - t
  <2>1. IsFiniteSet(T) /\ t \in Nat /\ c \in Nat /\ t <= c
    BY FS_Subset, FS_CardinalityType
  <2>2. Nodes \cap T = T
    OBVIOUS
  <2>3. IsFiniteSet(U) /\ Cardinality(U) = c - Cardinality(Nodes \cap T)
    BY FS_Difference
  <2> QED
    BY <2>1, <2>2, <2>3
<1>2. IsFiniteSet(T \cup {NoNode}) /\ Cardinality(T \cup {NoNode}) = t + 1
  <2>1. NoNode \notin T
    OBVIOUS
  <2> QED
    BY <1>1, <2>1, FS_AddElement
<1>3. IsFiniteSet(V) /\ Cardinality(V) = (t + 1) * (c - t)
  BY <1>1, <1>2, FS_Product
<1>4. IsFiniteSet(1 .. M + 1) /\ Cardinality(1 .. M + 1) = M + 1
  BY FS_Interval
<1>5. IsFiniteSet(I) /\ Cardinality(I) \in Nat /\ Cardinality(I) <= t
  <2>1. IsFiniteSet(I) /\ Cardinality(I) \in Nat
    BY <1>4, FS_Subset, FS_CardinalityType
  <2>2. ASSUME ~(Cardinality(I) <= t) PROVE FALSE
    <3> DEFINE f == [i \in I |-> N[i]]
    <3>1. f \in [I -> T] /\ \A i \in I : f[i] = N[i]
      OBVIOUS
    <3>4. \A i, j \in I : i # j => N[i] # N[j]
      OBVIOUS
    <3> HIDE DEF f, I
    <3>2. Cardinality(T) < Cardinality(I)
      BY <1>1, <2>1, <2>2
    <3>3. PICK x, y \in I : x # y /\ f[x] = f[y]
      <4>1. IsFiniteSet(I) /\ IsFiniteSet(T) /\ f \in [I -> T]
        BY <1>1, <2>1, <3>1
      <4> HIDE DEF t
      <4> QED
        BY <3>2, <4>1, FS_PigeonHole
    <3> QED
      BY <3>1, <3>3, <3>4
  <2> QED
    BY <2>1, <2>2
<1>6. IsFiniteSet(J) /\ Cardinality(J) \in Nat /\ Cardinality(V) < Cardinality(J)
  <2>1. (1 .. M + 1) \cap I = I
    OBVIOUS
  <2>2. IsFiniteSet(J) /\ Cardinality(J) = (M + 1) - Cardinality((1 .. M + 1) \cap I)
    BY <1>4, FS_Difference
  <2>3. Cardinality(J) \in Nat
    BY <2>2, FS_CardinalityType
  <2>4. PICK z : z = (t + 1) * (c - t)
    OBVIOUS
  <2>5. z \in Int /\ t + z <= M
    BY <1>1, <2>4
  <2>6. Cardinality(J) = (M + 1) - Cardinality(I)
    BY <2>1, <2>2
  <2>7. z < Cardinality(J)
    BY <1>1, <1>5, <2>5, <2>6
  <2> QED
    BY <1>3, <2>2, <2>3, <2>4, <2>7
<1> DEFINE f == [i \in J |-> <<LastOf(N, T, i), N[i]>>]
<1>7. f \in [J -> V]
  <2> SUFFICES ASSUME NEW i \in J PROVE <<LastOf(N, T, i), N[i]>> \in V
    OBVIOUS
  <2>1. i \in 1 .. M + 1 /\ N[i] \in U /\ i \in Nat
    OBVIOUS
  <2>2. CASE PlacesOf(N, T, i) = {}
    BY <2>1, <2>2 DEF LastOf
  <2>3. CASE PlacesOf(N, T, i) # {}
    BY <2>1, <2>3, LastStands
  <2> QED
    BY <2>2, <2>3
<1>8. PICK x, y \in J : x # y /\ LastOf(N, T, x) = LastOf(N, T, y) /\ N[x] = N[y]
  <2>1. \A i \in J : f[i] = <<LastOf(N, T, i), N[i]>>
    OBVIOUS
  <2> HIDE DEF f, J, V
  <2>2. PICK x, y \in J : x # y /\ f[x] = f[y]
    BY <1>3, <1>6, <1>7, FS_PigeonHole
  <2> QED
    BY <2>1, <2>2
<1>9. ASSUME NEW i \in J, NEW j \in J, i < j, LastOf(N, T, i) = LastOf(N, T, j),
             NEW k \in i .. j, N[k] \in T
      PROVE  FALSE
  <2>1. /\ i \in 1 .. M + 1 /\ j \in 1 .. M + 1 /\ i \in Nat /\ j \in Nat /\ N[i] \notin T
        /\ k \in 1 .. j /\ k > i
    BY <1>9
  <2>2. PlacesOf(N, T, j) # {}
    BY <1>9, <2>1 DEF PlacesOf
  <2>3. PICK p \in 1 .. j : /\ LastOf(N, T, j) = N[p] /\ N[p] \in T
                            /\ \A q \in 1 .. j : N[q] \in T => p >= q
    BY <2>1, <2>2, LastStands
  <2>4. p >= k
    BY <1>9, <2>1, <2>3
  <2>5. PlacesOf(N, T, i) # {}
    <3>1. LastOf(N, T, i) # NoNode
      BY <1>9, <2>3
    <3> QED
      BY <3>1 DEF LastOf
  <2>6. PICK q \in 1 .. i : LastOf(N, T, i) = N[q] /\ N[q] \in T
    BY <2>1, <2>5, LastStands
  <2>7. q \in 1 .. M + 1 /\ p \in 1 .. M + 1 /\ q # p
    BY <2>1, <2>4
  <2> QED
    BY <1>9, <2>3, <2>6, <2>7
<1>10. x \in 1 .. M + 1 /\ y \in 1 .. M + 1 /\ (x < y \/ y < x)
  BY <1>8
<1>11. CASE x < y
  BY <1>8, <1>9, <1>10, <1>11
<1>12. CASE y < x
  BY <1>8, <1>9, <1>10, <1>12
<1> QED
  BY <1>10, <1>11, <1>12

(***************************************************************************)
(* The values being written are a path from the root.                      *)
(***************************************************************************)
OnPath(h, S, a) ==
    /\ \A i \in 1 .. Len(S) :
         /\ S[i].node \in ReachableIn(h, Root)
         /\ i < Len(S) => S[i + 1].node \in ItemsIn(h, S[i].node)
         /\ \A j \in 1 .. Len(S) : i < j => InsideIn(h, S[j].node, S[i].node)
    /\ a # NoNode => /\ a \in ReachableIn(h, Root)
                     /\ Len(S) # 0 => a \in ItemsIn(h, S[Len(S)].node)
                     /\ \A i \in 1 .. Len(S) : InsideIn(h, a, S[i].node)

\* The value to be written gets a frame.
LEMMA PathMore ==
    ASSUME NEW h, NEW S, NEW a, OnPath(h, S, a), a # NoNode, NEW R, NEW fr, OnTop(R, S, fr), fr.node = a
    PROVE  OnPath(h, R, NoNode)
<1>1. /\ Len(S) \in Nat /\ Len(R) = Len(S) + 1 /\ R[Len(S) + 1].node = a
      /\ \A i \in 1 .. Len(S) : R[i].node = S[i].node
  BY DEF OnTop
<1>2. ASSUME NEW i \in 1 .. Len(R)
      PROVE  /\ R[i].node \in ReachableIn(h, Root)
             /\ i < Len(R) => R[i + 1].node \in ItemsIn(h, R[i].node)
             /\ \A j \in 1 .. Len(R) : i < j => InsideIn(h, R[j].node, R[i].node)
  <2>1. CASE i = Len(S) + 1
    BY <1>1, <2>1 DEF OnPath
  <2>2. CASE i \in 1 .. Len(S)
    <3>1. R[i].node = S[i].node /\ R[i].node \in ReachableIn(h, Root)
      BY <1>1, <2>2 DEF OnPath
    <3>2. R[i + 1].node \in ItemsIn(h, R[i].node)
      <4>1. CASE i = Len(S)
        BY <1>1, <2>2, <4>1 DEF OnPath
      <4>2. CASE i < Len(S)
        <5>1. i + 1 \in 1 .. Len(S)
          BY <1>1, <2>2, <4>2
        <5> QED
          BY <1>1, <2>2, <4>2, <5>1 DEF OnPath
      <4> QED
        BY <1>1, <2>2, <4>1, <4>2
    <3>3. ASSUME NEW j \in 1 .. Len(R), i < j PROVE InsideIn(h, R[j].node, R[i].node)
      <4>1. CASE j = Len(S) + 1
        BY <1>1, <2>2, <4>1 DEF OnPath
      <4>2. CASE j \in 1 .. Len(S)
        BY <1>1, <2>2, <3>3, <4>2 DEF OnPath
      <4> QED
        BY <1>1, <4>1, <4>2
    <3> QED
      BY <3>1, <3>2, <3>3
  <2> QED
    BY <1>1, <2>1, <2>2
<1> QED
  BY <1>2 DEF OnPath

\* An item of the last value is written next.
LEMMA PathItem ==
    ASSUME NEW h, IsMemory(h), NEW S, NEW a, OnPath(h, S, a), Len(S) \in Nat, Len(S) # 0,
           \A i \in 1 .. Len(S) : S[i].node \in Nodes, NEW c \in ItemsIn(h, S[Len(S)].node)
    PROVE  OnPath(h, S, c)
<1> DEFINE n == S[Len(S)].node
<1>1. Len(S) \in 1 .. Len(S) /\ n \in Nodes
  OBVIOUS
<1>2. n \in ReachableIn(h, Root) /\ Root \in Nodes
  BY <1>1, HeapAssumption DEF OnPath
<1>3. /\ InsideIn(h, c, n)
      /\ \A l \in Nodes : InsideIn(h, n, l) => InsideIn(h, c, l)
      /\ \A l \in Nodes : n \in ReachableIn(h, l) => c \in ReachableIn(h, l)
  BY <1>1, Inside
<1>4. ASSUME NEW i \in 1 .. Len(S) PROVE InsideIn(h, c, S[i].node)
  <2>1. CASE i = Len(S)
    BY <1>3, <2>1
  <2>2. CASE i < Len(S)
    <3>1. InsideIn(h, n, S[i].node)
      BY <1>1, <2>2 DEF OnPath
    <3> QED
      BY <1>3, <3>1
  <2> QED
    BY <2>1, <2>2
<1> QED
  BY <1>2, <1>3, <1>4 DEF OnPath

\* So much for frames with the same values, and for fewer of them.
LEMMA PathLess ==
    ASSUME NEW h, NEW S, NEW a, OnPath(h, S, a), Len(S) \in Nat,
           NEW R, Len(R) \in Nat, Len(R) <= Len(S), \A i \in 1 .. Len(R) : R[i].node = S[i].node
    PROVE  OnPath(h, R, NoNode)
<1>1. ASSUME NEW i \in 1 .. Len(R)
      PROVE  /\ R[i].node \in ReachableIn(h, Root)
             /\ i < Len(R) => R[i + 1].node \in ItemsIn(h, R[i].node)
             /\ \A j \in 1 .. Len(R) : i < j => InsideIn(h, R[j].node, R[i].node)
  <2>1. i \in 1 .. Len(S) /\ R[i].node = S[i].node
    OBVIOUS
  <2>2. i < Len(R) => R[i + 1].node \in ItemsIn(h, R[i].node)
    <3> SUFFICES ASSUME i < Len(R) PROVE R[i + 1].node \in ItemsIn(h, R[i].node)
      OBVIOUS
    <3>1. i + 1 \in 1 .. Len(R) /\ i < Len(S)
      OBVIOUS
    <3> QED
      BY <2>1, <3>1 DEF OnPath
  <2>3. \A j \in 1 .. Len(R) : i < j => InsideIn(h, R[j].node, R[i].node)
    <3> TAKE j \in 1 .. Len(R)
    <3>1. j \in 1 .. Len(S) /\ R[j].node = S[j].node
      OBVIOUS
    <3> QED
      BY <2>1, <3>1 DEF OnPath
  <2> QED
    BY <2>1, <2>2, <2>3 DEF OnPath
<1> QED
  BY <1>1 DEF OnPath

\* The invariant: the frames, and the value to be written, are such a path.
PathInv == OnPath(heap, stack, at)

\* No frames are a path.
LEMMA EmptyPath ==
    ASSUME NEW h, NEW S, S = << >>
    PROVE  OnPath(h, S, NoNode)
<1>1. Len(S) = 0
  OBVIOUS
<1> QED
  BY <1>1 DEF OnPath

\* The root is to be written at first.
LEMMA PathAtFirst == Init => PathInv
<1> SUFFICES ASSUME Init PROVE PathInv
  OBVIOUS
<1>1. /\ IsMemory(heap) /\ at = Root /\ stack = << >> /\ Root \in Nodes
  BY HeapsAreMemories, HeapAssumption DEF Init
<1>2. Root \in ReachableIn(heap, Root)
  BY <1>1, Reach
<1>3. Len(stack) = 0
  BY <1>1
<1> QED
  BY <1>1, <1>2, <1>3 DEF PathInv, OnPath

\* No path is left when the frames are unwound.
LEMMA UnwoundPath ==
    ASSUME NEW outcome, Unwind(outcome)
    PROVE  PathInv'
<1>1. at' = NoNode /\ stack' = << >>
  BY DEF Unwind
<1> QED
  BY <1>1, EmptyPath DEF PathInv

\* Frames are of nodes.
LEMMA FrameNodes ==
    ASSUME NEW S \in Seq(FrameType)
    PROVE  Len(S) \in Nat /\ \A i \in 1 .. Len(S) : S[i].node \in Nodes
<1>1. \A i \in 1 .. Len(S) : S[i] \in FrameType
  OBVIOUS
<1> QED
  BY <1>1 DEF FrameType

\* A frame pushed for the value to be written.
LEMMA PushedPath ==
    ASSUME Types, PathInv, at # NoNode, heap' = heap, NEW order, Push(at, order), order \in Seq(Keys)
    PROVE  /\ OnPath(heap, stack', NoNode) /\ stack' \in Seq(FrameType) /\ Len(stack') # 0
           /\ stack'[Len(stack')].node = at
<1>1. at \in Nodes /\ stack \in Seq(FrameType)
  BY DEF Types
<1> DEFINE fr == [node |-> at, todo |-> order, first |-> TRUE]
<1>2. fr \in FrameType /\ fr.node = at /\ stack' = Append(stack, fr)
  BY <1>1 DEF Push, FrameType
<1> HIDE DEF fr
<1>3. OnTop(stack', stack, fr)
  BY <1>1, <1>2, AppendedOnTop
<1>4. OnPath(heap, stack', NoNode)
  BY <1>2, <1>3, PathMore DEF PathInv
<1>5. stack' \in Seq(FrameType)
  BY <1>1, <1>2
<1> QED
  BY <1>2, <1>3, <1>4, <1>5 DEF OnTop

\* Every step keeps the path: an item is pushed on its value, and a frame that is left is the last.
LEMMA PathKept == Types /\ PathInv /\ [Next]_vars => PathInv'
<1> SUFFICES ASSUME Types, PathInv, [Next]_vars PROVE PathInv'
  OBVIOUS
<1>0. /\ IsMemory(heap) /\ stack \in Seq(FrameType) /\ Len(stack) \in Nat
      /\ \A i \in 1 .. Len(stack) : stack[i].node \in Nodes
  BY HeapsAreMemories, FramesAreTyped DEF Types
<1>1. CASE WriteScalar \/ Return
  <2>1. heap' = heap /\ stack' = stack /\ (at' = NoNode \/ at' = at)
    BY <1>1 DEF WriteScalar, Return
  <2>2. OnPath(heap, stack, NoNode)
    BY <1>0, PathLess DEF PathInv
  <2> QED
    BY <2>1, <2>2 DEF PathInv
<1>2. CASE RejectValue
  BY <1>2, UnwoundPath DEF RejectValue
<1>3. CASE FollowPointer
  <2>1. CASE Len(stack) = MaxDepth
    BY <1>3, <2>1, UnwoundPath DEF FollowPointer
  <2>2. CASE Len(stack) # MaxDepth
    <3>1. /\ at # NoNode /\ at \in Nodes /\ at' = heap[at].items[1] /\ heap' = heap /\ Push(at, << >>)
          /\ DOMAIN heap[at].items = {1}
      BY <1>3, <2>2, HeapAssumption DEF FollowPointer, Types
    <3>2. PICK nothing : nothing = << >>
      OBVIOUS
    <3>3. nothing \in Seq(Keys) /\ Push(at, nothing)
      BY <3>1, <3>2
    <3>4. /\ OnPath(heap, stack', NoNode) /\ stack' \in Seq(FrameType) /\ Len(stack') # 0
          /\ stack'[Len(stack')].node = at
      BY <3>1, <3>3, PushedPath
    <3>5. at' \in ItemsIn(heap, stack'[Len(stack')].node)
      BY <3>1, <3>4 DEF ItemsIn
    <3>6. PICK S : S = stack'
      OBVIOUS
    <3>7. Len(S) \in Nat /\ \A i \in 1 .. Len(S) : S[i].node \in Nodes
      <4>1. S \in Seq(FrameType)
        BY <3>4, <3>6
      <4> QED
        BY <4>1, FrameNodes
    <3>8. OnPath(heap, S, at')
      BY <1>0, <3>4, <3>5, <3>6, <3>7, PathItem
    <3> QED
      BY <3>1, <3>6, <3>8 DEF PathInv
  <2> QED
    BY <2>1, <2>2
<1>4. CASE EnterContainer
  <2>1. CASE Circular(at) \/ Len(stack) = MaxDepth
    BY <1>4, <2>1, UnwoundPath DEF EnterContainer
  <2>2. CASE ~(Circular(at) \/ Len(stack) = MaxDepth)
    <3>1. /\ at \in Nodes /\ at # NoNode /\ heap' = heap /\ at' = NoNode /\ heap \in Heaps
      BY <1>4, <2>2 DEF EnterContainer, Types
    <3>2. PICK order \in Orders(at) : Push(at, order)
      BY <1>4, <2>2 DEF EnterContainer
    <3>3. order \in Seq(Keys)
      BY <3>1, <3>2, OneOrderHere
    <3> QED
      BY <3>1, <3>2, <3>3, PushedPath DEF PathInv
  <2> QED
    BY <2>1, <2>2
<1>5. CASE WriteItem
  <2> DEFINE n == Top.node
             k == Head(Top.todo)
  <2>1. CASE ~WritesKey(n, k) \/ IndexPanics(n)
    BY <1>5, <2>1, UnwoundPath DEF WriteItem
  <2>2. CASE ~(~WritesKey(n, k) \/ IndexPanics(n))
    <3>1. /\ at' = heap[n].items[k] /\ heap' = heap /\ stack # << >> /\ Top.todo # << >>
          /\ stack' = [stack EXCEPT ![Len(stack)] =
                         [node |-> n, todo |-> Tail(Top.todo), first |-> FALSE]]
      BY <1>5, <2>2 DEF WriteItem
    <3>2. Len(stack) # 0 /\ Len(stack) \in 1 .. Len(stack)
      BY <1>0, <3>1
    <3>3. Len(stack') = Len(stack) /\ \A i \in 1 .. Len(stack) : stack'[i].node = stack[i].node
      BY <1>0, <3>1, <3>2 DEF Top
    <3>4. k \in DOMAIN heap[n].items
      <4>1. Top.todo \in Seq(Keys)
        BY <3>2, FramesAreTyped DEF Top, Types
      <4>2. k = Top.todo[1] /\ 1 \in 1 .. Len(Top.todo)
        BY <3>1, <4>1
      <4> QED
        BY <3>2, <4>2 DEF Types, ItemsAreThere, Top
    <3>5. OnPath(heap, stack', NoNode)
      BY <1>0, <3>3, PathLess DEF PathInv
    <3>6. at' \in ItemsIn(heap, stack'[Len(stack')].node)
      BY <3>1, <3>2, <3>3, <3>4 DEF ItemsIn, Top
    <3>7. PICK S : S = stack'
      OBVIOUS
    <3>8. OnPath(heap, S, at')
      <4>1. Len(S) \in Nat /\ Len(S) # 0 /\ \A i \in 1 .. Len(S) : S[i].node \in Nodes
        BY <1>0, <3>2, <3>3, <3>7
      <4> QED
        BY <1>0, <3>5, <3>6, <3>7, <4>1, PathItem
    <3> QED
      BY <3>1, <3>7, <3>8 DEF PathInv
  <2> QED
    BY <2>1, <2>2
<1>6. CASE LeaveContainer
  <2>1. heap' = heap /\ at' = NoNode /\ stack' = SubSeq(stack, 1, Len(stack) - 1) /\ stack # << >>
    BY <1>6 DEF LeaveContainer
  <2>2. PICK F \in Seq(FrameType), fr \in FrameType :
          stack = Append(F, fr) /\ F = SubSeq(stack, 1, Len(stack) - 1)
    BY <1>0, <2>1, TopOfFrames
  <2>3. Len(F) \in Nat /\ Len(F) <= Len(stack) /\ \A i \in 1 .. Len(F) : F[i].node = stack[i].node
    <3>1. OnTop(stack, F, fr)
      BY <2>2, AppendedOnTop
    <3> QED
      BY <3>1 DEF OnTop
  <2>4. OnPath(heap, F, NoNode)
    BY <1>0, <2>3, PathLess DEF PathInv
  <2> QED
    BY <2>1, <2>2, <2>4 DEF PathInv
<1>8. CASE UNCHANGED vars
  BY <1>8 DEF vars, PathInv
<1> QED
  BY <1>1, <1>2, <1>3, <1>4, <1>5, <1>6, <1>8 DEF Next

\* A value without a representation, or a key without one, is a part of the root.
LEMMA RefusedValue ==
    ASSUME Types, PathInv, RejectValue
    PROVE  ~IsRepresentable
<1>1. at \in Reachable(Root)
  BY ReachHere DEF PathInv, OnPath, RejectValue
<1> QED
  BY <1>1 DEF IsRepresentable, RejectValue

\* So is one that has a bad key.
LEMMA RefusedKey ==
    ASSUME Types, PathInv, stack # << >>, Top.todo # << >>, ~WritesKey(Top.node, Head(Top.todo))
    PROVE  ~IsRepresentable
<1> DEFINE n == Top.node
           k == Head(Top.todo)
<1>1. Len(stack) \in 1 .. Len(stack) /\ stack \in Seq(FrameType)
  BY DEF Types
<1>2. n \in Reachable(Root)
  BY <1>1, ReachHere DEF PathInv, OnPath, Top
<1>3. k \in DOMAIN heap[n].items
  <2>1. Top.todo \in Seq(Keys)
    BY <1>1, FramesAreTyped DEF Top
  <2>2. k = Top.todo[1] /\ 1 \in 1 .. Len(Top.todo)
    BY <2>1
  <2> QED
    BY <1>1, <2>2 DEF Types, ItemsAreThere, Top
<1>4. IsMap(n) /\ k \in BadKeys
  BY DEF WritesKey
<1> QED
  BY <1>2, <1>3, <1>4 DEF IsRepresentable

\* A value with the visit of an ancestor is that ancestor, or shares its array.
LEMMA RefusedVisit ==
    ASSUME WriterInv, PathInv, at # NoNode, Circular(at)
    PROVE  IsCircular \/ HoldsItsArray
<1>1. at \in Nodes /\ Tracked(at) /\ Visit(at) \in seen
  BY DEF WriterInv, Types, Circular
<1>2. PICK i \in 1 .. Len(stack) : Tracked(stack[i].node) /\ Visit(stack[i].node) = Visit(at)
  BY <1>1 DEF WriterInv, SeenAreAncestors
<1>3. stack[i].node \in Reachable(Root) /\ IsInside(at, stack[i].node)
  BY <1>2, ReachHere DEF PathInv, OnPath
<1>4. CASE at = stack[i].node
  BY <1>3, <1>4 DEF IsCircular
<1>5. CASE at # stack[i].node
  BY <1>1, <1>2, <1>3, <1>5 DEF HoldsItsArray
<1> QED
  BY <1>4, <1>5

\* A path that outgrew the stack has a cycle of values that are not tracked.
LEMMA RefusedDepth ==
    ASSUME WriterInv, PathInv, at # NoNode, ~Circular(at), Len(stack) = MaxDepth
    PROVE  HasUntrackedCycle
<1> DEFINE M == Len(stack)
           N == [i \in 1 .. M + 1 |-> IF i = M + 1 THEN at ELSE stack[i].node]
           T == {n \in Nodes : Tracked(n)}
<1>1. /\ stack \in Seq(FrameType) /\ M \in Nat /\ at \in Nodes /\ NoNode \notin Nodes
      /\ \A i \in 1 .. M : stack[i].node \in Nodes
  BY HeapAssumption, FrameNodes DEF WriterInv, Types
<1>2. N \in [1 .. M + 1 -> Nodes] /\ N[M + 1] = at /\ \A i \in 1 .. M : N[i] = stack[i].node
  BY <1>1
<1>3. \A i \in 1 .. M + 1 : i \in 1 .. M \/ i = M + 1
  BY <1>1
<1>4. /\ seen = {Visit(stack[i].node) : i \in {x \in 1 .. M : Tracked(stack[x].node)}}
      /\ \A i, j \in {x \in 1 .. M : Tracked(stack[x].node)} :
           i # j => Visit(stack[i].node) # Visit(stack[j].node)
  BY DEF WriterInv, SeenAreAncestors
<1> HIDE DEF N, M
<1>5. \A i, j \in 1 .. M + 1 : N[i] \in T /\ N[i] = N[j] => i = j
  <2> SUFFICES ASSUME NEW i \in 1 .. M + 1, NEW j \in 1 .. M + 1, Tracked(N[i]), N[i] = N[j], i # j
               PROVE  FALSE
    OBVIOUS
  <2>1. Tracked(at) => Visit(at) \notin seen
    BY DEF Circular
  <2>2. CASE i \in 1 .. M /\ j \in 1 .. M
    BY <1>2, <1>4, <2>2
  <2>3. CASE i = M + 1 /\ j \in 1 .. M
    BY <1>2, <1>4, <2>1, <2>3
  <2>4. CASE i \in 1 .. M /\ j = M + 1
    BY <1>2, <1>4, <2>1, <2>4
  <2> QED
    BY <1>3, <2>2, <2>3, <2>4
<1>6. IsFiniteSet(Nodes) /\ Cardinality(T) + (Cardinality(T) + 1) * (Cardinality(Nodes) - Cardinality(T)) <= M
  <2>1. IsFiniteSet(Nodes) /\ T \in SUBSET Nodes
    BY StackAssumption
  <2>2. Cardinality(T) \in 0 .. Cardinality(Nodes)
    BY <2>1, FS_Subset, FS_CardinalityType
  <2>3. PICK t : t = Cardinality(T)
    OBVIOUS
  <2>4. t + (t + 1) * (Cardinality(Nodes) - t) <= MaxDepth
    BY <2>2, <2>3, StackAssumption
  <2> QED
    BY <2>1, <2>3, <2>4 DEF M
<1>7. PICK i \in 1 .. M + 1, j \in 1 .. M + 1 : i < j /\ N[i] = N[j] /\ \A k \in i .. j : N[k] \notin T
  <2>1. T \in SUBSET Nodes
    OBVIOUS
  <2> HIDE DEF T
  <2> QED
    BY <1>1, <1>2, <1>5, <1>6, <2>1, LongPath
<1>8. \A x \in 1 .. M : N[x + 1] \in ItemsOf(N[x])
  <2> TAKE x \in 1 .. M
  <2>1. CASE x = M
    <3>1. at \in ItemsIn(heap, stack[M].node)
      BY <1>1, <2>1 DEF PathInv, OnPath, M
    <3> QED
      BY <1>2, <2>1, <3>1, InMemory
  <2>2. CASE x < M
    <3>1. x + 1 \in 1 .. M
      BY <1>1, <2>2
    <3>2. stack[x + 1].node \in ItemsIn(heap, stack[x].node)
      BY <2>2 DEF PathInv, OnPath, M
    <3> QED
      BY <1>2, <3>1, <3>2, InMemory
  <2> QED
    BY <1>1, <2>1, <2>2
<1>9. \A x \in 1 .. M + 1 : N[x] \in Reachable(Root)
  <2>1. at \in ReachableIn(heap, Root) /\ \A x \in 1 .. M : stack[x].node \in ReachableIn(heap, Root)
    BY DEF PathInv, OnPath, M
  <2> QED
    BY <1>2, <1>3, <2>1, ReachHere
<1> DEFINE S == {N[k] : k \in i .. j}
<1>10. S \in SUBSET {n \in Reachable(Root) : ~Tracked(n)}
  <2> SUFFICES ASSUME NEW k \in i .. j PROVE N[k] \in Reachable(Root) /\ ~Tracked(N[k])
    OBVIOUS
  <2>1. k \in 1 .. M + 1
    BY <1>1
  <2> QED
    BY <1>2, <1>7, <1>9, <2>1
<1>11. S # {}
  <2>1. i \in i .. j
    BY <1>7
  <2> QED
    BY <2>1
<1>12. \A n \in S : ItemsOf(n) \cap S # {}
  <2> SUFFICES ASSUME NEW k \in i .. j PROVE ItemsOf(N[k]) \cap S # {}
    OBVIOUS
  <2>1. CASE k < j
    <3>1. k \in 1 .. M /\ k + 1 \in i .. j
      BY <1>1, <2>1
    <3> QED
      BY <1>8, <3>1
  <2>2. CASE k = j
    <3>1. i \in 1 .. M /\ i + 1 \in i .. j
      BY <1>1, <1>7
    <3>2. N[i + 1] \in ItemsOf(N[i]) /\ N[i + 1] \in S
      BY <1>8, <3>1
    <3> QED
      BY <1>7, <2>2, <3>2
  <2> QED
    BY <2>1, <2>2
<1> QED
  BY <1>10, <1>11, <1>12 DEF HasUntrackedCycle

\* What a memory holds does not change.
LEMMA SameMemory ==
    ASSUME heap' = heap
    PROVE  /\ IsCircular' <=> IsCircular
           /\ IsRepresentable' <=> IsRepresentable
           /\ HoldsItsArray' <=> HoldsItsArray
           /\ HasUntrackedCycle' <=> HasUntrackedCycle
<1>1. \A n : ItemsOf(n)' = ItemsOf(n)
  BY DEF ItemsOf
<1>2. \A S : Closed(S)' <=> Closed(S)
  BY <1>1 DEF Closed
<1>3. \A n : Reachable(n)' = Reachable(n)
  BY <1>2 DEF Reachable
<1>4. \A m, n : IsInside(m, n)' <=> IsInside(m, n)
  BY <1>1, <1>3 DEF IsInside
<1>5. \A n : IsMap(n)' <=> IsMap(n)
  BY DEF IsMap
<1>6. \A n : (Tracked(n)' <=> Tracked(n)) /\ Visit(n)' = Visit(n)
  BY <1>5 DEF Tracked, Visit, IsContainer
<1>7. IsCircular' <=> IsCircular
  BY <1>3, <1>4 DEF IsCircular
<1>8. IsRepresentable' <=> IsRepresentable
  BY <1>3, <1>5 DEF IsRepresentable
<1>9. HoldsItsArray' <=> HoldsItsArray
  BY <1>3, <1>4, <1>6 DEF HoldsItsArray
<1>10. HasUntrackedCycle' <=> HasUntrackedCycle
  <2>1. {n \in Reachable(Root) : ~Tracked(n)}' = {n \in Reachable(Root) : ~Tracked(n)}
    BY <1>3, <1>6
  <2> QED
    BY <1>1, <2>1 DEF HasUntrackedCycle
<1> QED
  BY <1>7, <1>8, <1>9, <1>10

\* A refusal is one for a reason.
LEMMA RefusalKept ==
    WriterInv /\ PathInv /\ OnlyCyclesAreRefused /\ [Next]_vars => OnlyCyclesAreRefused'
<1> SUFFICES ASSUME WriterInv, PathInv, OnlyCyclesAreRefused, [Next]_vars PROVE OnlyCyclesAreRefused'
  OBVIOUS
<1>0. Types
  BY DEF WriterInv
<1>1. heap' = heap
  BY DEF Next, vars, WriteScalar, RejectValue, FollowPointer, EnterContainer, WriteItem, LeaveContainer,
         Return, Unwind
<1>2. ASSUME status' = "error", IsCircular \/ ~IsRepresentable \/ HoldsItsArray
      PROVE  OnlyCyclesAreRefused'
  BY <1>1, <1>2, SameMemory DEF OnlyCyclesAreRefused
<1>3. ASSUME status' = "overflow", HasUntrackedCycle PROVE OnlyCyclesAreRefused'
  BY <1>1, <1>3, SameMemory DEF OnlyCyclesAreRefused
<1>4. ASSUME status' \notin {"error", "overflow"} PROVE OnlyCyclesAreRefused'
  BY <1>4 DEF OnlyCyclesAreRefused
<1>5. CASE WriteScalar \/ LeaveContainer \/ Return
  BY <1>4, <1>5 DEF WriteScalar, LeaveContainer, Return
<1>6. CASE RejectValue
  BY <1>0, <1>2, <1>6, RefusedValue DEF RejectValue, Unwind
<1>7. CASE FollowPointer
  <2>1. CASE Len(stack) = MaxDepth
    <3>1. at # NoNode /\ status' = "overflow"
      BY <1>7, <2>1 DEF FollowPointer, Unwind
    <3>2. ~Circular(at)
      BY <1>7 DEF FollowPointer, Circular, Tracked, IsContainer, IsMap
    <3> QED
      BY <1>3, <2>1, <3>1, <3>2, RefusedDepth
  <2>2. CASE Len(stack) # MaxDepth
    BY <1>4, <1>7, <2>2 DEF FollowPointer
  <2> QED
    BY <2>1, <2>2
<1>8. CASE EnterContainer
  <2>1. CASE Circular(at)
    <3>1. at # NoNode /\ status' = "error"
      BY <1>8, <2>1 DEF EnterContainer, Unwind
    <3> QED
      BY <1>2, <2>1, <3>1, RefusedVisit
  <2>2. CASE ~Circular(at) /\ Len(stack) = MaxDepth
    <3>1. at # NoNode /\ status' = "overflow"
      BY <1>8, <2>2 DEF EnterContainer, Unwind
    <3> QED
      BY <1>3, <2>2, <3>1, RefusedDepth
  <2>3. CASE ~Circular(at) /\ Len(stack) # MaxDepth
    BY <1>4, <1>8, <2>3 DEF EnterContainer
  <2> QED
    BY <2>1, <2>2, <2>3
<1>9. CASE WriteItem
  <2>1. CASE ~WritesKey(Top.node, Head(Top.todo))
    <3>1. status' = "error" /\ stack # << >> /\ Top.todo # << >>
      BY <1>9, <2>1 DEF WriteItem, Unwind
    <3> QED
      BY <1>0, <1>2, <2>1, <3>1, RefusedKey
  <2>2. CASE WritesKey(Top.node, Head(Top.todo))
    <3>1. status' = "panic" \/ status' = "writing"
      BY <1>9, <2>2 DEF WriteItem, Unwind
    <3> QED
      BY <1>4, <3>1
  <2> QED
    BY <2>1, <2>2
<1>10. CASE UNCHANGED vars
  <2>1. status' = status
    BY <1>10 DEF vars
  <2> QED
    BY <1>1, <2>1, SameMemory DEF OnlyCyclesAreRefused
<1> QED
  BY <1>5, <1>6, <1>7, <1>8, <1>9, <1>10 DEF Next

\* canonical.go:349 and :252: a part that is reachable by two paths is no cycle.  A refusal
\* means that a value contains itself, has a part without a representation, or holds a slice
\* of its own array; and one that contains itself does not outgrow a stack with room for the
\* longest path unless the cycle is of values that enterContainer does not track.
THEOREM RefusalsHaveReasons == Spec => []OnlyCyclesAreRefused
<1>1. Init => WriterInv /\ PathInv /\ OnlyCyclesAreRefused
  BY InitHolds, PathAtFirst DEF Init, OnlyCyclesAreRefused
<1>2. WriterInv /\ PathInv /\ OnlyCyclesAreRefused /\ [Next]_vars
        => (WriterInv /\ PathInv /\ OnlyCyclesAreRefused)'
  BY InvKept, PathKept, RefusalKept DEF WriterInv
<1> QED
  BY <1>1, <1>2, PTL DEF Spec

-----------------------------------------------------------------------------
(***************************************************************************)
(* The numbers that tokens denote.  Every form that formatCanonicalFloat   *)
(* writes is spelt of a sign, digits before a point, digits behind it and  *)
(* an exponent (Spelt); such a token reads as it was spelt                 *)
(* (SpellingReads), and its digits between the zeros are the significant   *)
(* ones (SpellingDenotes).  So it is enough to spell each of the forms.    *)
(***************************************************************************)
\* The characters of numbers.
Chars == {"0", "1", "2", "3", "4", "5", "6", "7", "8", "9", ".", "e", "+", "-"}
\* Digits and nothing else.
Numeral(s) == s \in Seq(Chars) /\ \A i \in 1 .. Len(s) : IsDigit(s[i])

\* The digits are different characters.
LEMMA DigitsDiffer ==
    /\ \A d \in 1 .. 10 : Digits[d] \in Chars
    /\ \A d, e \in 1 .. 10 : Digits[d] = Digits[e] => d = e
<1>1. /\ Digits[1] = "0" /\ Digits[2] = "1" /\ Digits[3] = "2" /\ Digits[4] = "3" /\ Digits[5] = "4"
      /\ Digits[6] = "5" /\ Digits[7] = "6" /\ Digits[8] = "7" /\ Digits[9] = "8" /\ Digits[10] = "9"
  BY DEF Digits
<1>2. \A d \in 1 .. 10 : d = 1 \/ d = 2 \/ d = 3 \/ d = 4 \/ d = 5 \/ d = 6 \/ d = 7 \/ d = 8 \/ d = 9 \/ d = 10
  OBVIOUS
<1>3. \A d, e \in 1 .. 10 : Digits[d] = Digits[e] => d = e
  <2> SUFFICES ASSUME NEW d \in 1 .. 10, NEW e \in 1 .. 10, Digits[d] = Digits[e] PROVE d = e
    OBVIOUS
  <2> QED
    BY <1>1, <1>2
<1>4. \A d \in 1 .. 10 : Digits[d] \in Chars
  BY <1>1, <1>2 DEF Chars
<1> QED
  BY <1>3, <1>4

\* What a digit is worth.
LEMMA DigitsHaveValues ==
    /\ \A k \in 0 .. 9 : IsDigit(Digits[k + 1]) /\ Value(Digits[k + 1]) = k
    /\ \A c : IsDigit(c) => Value(c) \in 0 .. 9 /\ c \in Chars
<1>1. ASSUME NEW c, IsDigit(c) PROVE Value(c) \in 0 .. 9 /\ c \in Chars /\ Digits[Value(c) + 1] = c
  <2> DEFINE w == CHOOSE d \in 1 .. 10 : Digits[d] = c
  <2>1. w \in 1 .. 10 /\ Digits[w] = c
    BY <1>1 DEF IsDigit
  <2>2. Value(c) = w - 1
    BY DEF Value
  <2> HIDE DEF w
  <2>3. Value(c) \in 0 .. 9 /\ Value(c) + 1 = w
    BY <2>1, <2>2
  <2> QED
    BY <2>1, <2>3, DigitsDiffer
<1>2. ASSUME NEW k \in 0 .. 9 PROVE IsDigit(Digits[k + 1]) /\ Value(Digits[k + 1]) = k
  <2>1. k + 1 \in 1 .. 10
    OBVIOUS
  <2>2. IsDigit(Digits[k + 1])
    BY <2>1 DEF IsDigit
  <2> DEFINE v == Value(Digits[k + 1])
  <2>3. v \in 0 .. 9 /\ Digits[v + 1] = Digits[k + 1]
    BY <1>1, <2>2
  <2> HIDE DEF v
  <2>4. v + 1 = k + 1
    <3>1. v + 1 \in 1 .. 10
      BY <2>3
    <3> QED
      BY <2>1, <2>3, <3>1, DigitsDiffer
  <2>5. v = k
    BY <2>3, <2>4
  <2> QED
    BY <2>2, <2>5 DEF v
<1> QED
  BY <1>1, <1>2

\* A digit is none of the other characters of a token.
LEMMA DigitsAreNothingElse ==
    \A c : IsDigit(c) => c \notin ExpLetters /\ c # "." /\ c # "-" /\ c # "+"
BY NotDigits DEF ExpLetters

\* Sequences are equal whose elements are.
LEMMA SameSequence ==
    ASSUME NEW s \in Seq(Chars), NEW t \in Seq(Chars), Len(s) = Len(t),
           \A i \in 1 .. Len(s) : s[i] = t[i]
    PROVE  s = t
OBVIOUS

\* What is built of numerals.
LEMMA JoinedNumerals ==
    ASSUME NEW a, NEW b, Numeral(a), Numeral(b)
    PROVE  Numeral(a \o b)
<1>1. a \in Seq(Chars) /\ b \in Seq(Chars)
  BY DEF Numeral
<1>2. a \o b \in Seq(Chars) /\ Len(a \o b) = Len(a) + Len(b)
  BY <1>1
<1>3. ASSUME NEW i \in 1 .. Len(a \o b) PROVE IsDigit((a \o b)[i])
  <2>1. CASE i <= Len(a)
    <3>1. (a \o b)[i] = a[i] /\ i \in 1 .. Len(a)
      BY <1>1, <2>1
    <3> QED
      BY <3>1 DEF Numeral
  <2>2. CASE ~(i <= Len(a))
    <3>1. (a \o b)[i] = b[i - Len(a)] /\ i - Len(a) \in 1 .. Len(b)
      BY <1>1, <1>2, <2>2
    <3> QED
      BY <3>1 DEF Numeral
  <2> QED
    BY <2>1, <2>2
<1> QED
  BY <1>2, <1>3 DEF Numeral

\* A part of a numeral is one.
LEMMA PartsOfNumerals ==
    ASSUME NEW a, Numeral(a), NEW i \in Nat, NEW j \in Nat, 1 <= i, j <= Len(a), i <= j + 1
    PROVE  Numeral(SubSeq(a, i, j)) /\ Len(SubSeq(a, i, j)) = (j - i) + 1
<1>1. a \in Seq(Chars)
  BY DEF Numeral
<1> DEFINE r == SubSeq(a, i, j)
<1>2. r \in Seq(Chars) /\ Len(r) = (j - i) + 1 /\ \A k \in 1 .. (j - i) + 1 : r[k] = a[(k + i) - 1]
  BY <1>1
<1> HIDE DEF r
<1>3. ASSUME NEW k \in 1 .. Len(r) PROVE IsDigit(r[k])
  <2>1. r[k] = a[(k + i) - 1] /\ (k + i) - 1 \in 1 .. Len(a)
    BY <1>1, <1>2
  <2> QED
    BY <2>1 DEF Numeral
<1> QED
  BY <1>2, <1>3 DEF Numeral, r

\* A digit is a numeral.
LEMMA OneDigit ==
    ASSUME NEW c, IsDigit(c)
    PROVE  Numeral(<<c>>)
<1>1. c \in Chars
  BY DigitsHaveValues
<1>2. <<c>> \in Seq(Chars) /\ Len(<<c>>) = 1 /\ <<c>>[1] = c
  BY <1>1
<1> QED
  BY <1>2 DEF Numeral

\* So are zeros.
LEMMA ZerosAreNumerals ==
    ASSUME NEW n \in Nat
    PROVE  Numeral(Zeros(n)) /\ Len(Zeros(n)) = n /\ \A i \in 1 .. n : Zeros(n)[i] = "0"
<1>0. "0" \in Chars
  BY DEF Chars
<1>1. Zeros(n) \in Seq(Chars) /\ Len(Zeros(n)) = n /\ \A i \in 1 .. n : Zeros(n)[i] = "0"
  BY <1>0 DEF Zeros
<1> QED
  BY <1>1, NotDigits DEF Numeral

\* Two sequences, one behind the other.
LEMMA JoinIs ==
    ASSUME NEW a \in Seq(Chars), NEW b \in Seq(Chars)
    PROVE  /\ a \o b \in Seq(Chars) /\ Len(a \o b) = Len(a) + Len(b) /\ Len(a) \in Nat /\ Len(b) \in Nat
           /\ \A i \in 1 .. Len(a) : (a \o b)[i] = a[i]
           /\ \A i \in Nat, j \in 1 .. Len(b) : i = Len(a) + j => (a \o b)[i] = b[j]
OBVIOUS

\* The first of some characters in what begins with none of them.
LEMMA FindBehind ==
    ASSUME NEW a \in Seq(Chars), NEW b \in Seq(Chars), NEW C,
           \A i \in 1 .. Len(a) : a[i] \notin C, b # << >> => b[1] \in C
    PROVE  /\ Find(a \o b, C) = Len(a) + 1
           /\ SubSeq(a \o b, 1, Len(a)) = a
           /\ SubSeq(a \o b, Len(a) + 2, Len(a \o b)) = IF b = << >> THEN << >> ELSE Tail(b)
<1> DEFINE t == a \o b
<1>1. t \in Seq(Chars) /\ Len(t) = Len(a) + Len(b) /\ Len(a) \in Nat /\ Len(b) \in Nat
      /\ \A i \in 1 .. Len(a) : t[i] = a[i]
  OBVIOUS
<1>0. \A i \in Nat, j \in 1 .. Len(b) : i = Len(a) + j => t[i] = b[j]
  BY JoinIs
<1>2. b = << >> <=> Len(b) = 0
  OBVIOUS
<1> HIDE DEF t
<1>3. IsPath(t)
  BY <1>1, OverOwnRange DEF IsPath
<1>4. Find(t, C) = Len(a) + 1
  <2>1. Len(a) + 1 \in Places(t)
    BY <1>1 DEF Places
  <2>2. \A i \in 1 .. (Len(a) + 1) - 1 : t[i] \notin C
    BY <1>1
  <2>3. Len(a) + 1 <= Len(t) => t[Len(a) + 1] \in C
    <3> SUFFICES ASSUME Len(a) + 1 <= Len(t) PROVE t[Len(a) + 1] \in C
      OBVIOUS
    <3>1. Len(a) + 1 \in Nat /\ 1 \in 1 .. Len(b) /\ b # << >>
      BY <1>1, <1>2
    <3>2. t[Len(a) + 1] = b[1]
      BY <1>0, <3>1
    <3> QED
      BY <3>1, <3>2
  <2> QED
    BY <1>3, <2>1, <2>2, <2>3, FirstIsFound
<1>5. SubSeq(t, 1, Len(a)) = a
  <2> DEFINE r == SubSeq(t, 1, Len(a))
  <2>1. r \in Seq(Chars) /\ Len(r) = Len(a) /\ \A i \in 1 .. Len(a) : r[i] = t[i]
    BY <1>1
  <2> HIDE DEF r
  <2>2. r = a
    BY <1>1, <2>1, SameSequence
  <2> QED
    BY <2>2 DEF r
<1>6. SubSeq(t, Len(a) + 2, Len(t)) = IF b = << >> THEN << >> ELSE Tail(b)
  <2> DEFINE r == SubSeq(t, Len(a) + 2, Len(t))
  <2>1. CASE b = << >>
    <3>1. Len(t) = Len(a)
      BY <1>1, <1>2, <2>1
    <3>2. r \in Seq(Chars) /\ Len(r) = 0
      BY <1>1, <3>1
    <3> HIDE DEF r
    <3>3. r = << >>
      BY <3>2
    <3> QED
      BY <2>1, <3>3 DEF r
  <2>2. CASE b # << >>
    <3>1. Len(b) >= 1
      BY <1>1, <1>2, <2>2
    <3>2. r \in Seq(Chars) /\ Len(r) = Len(b) - 1
          /\ \A i \in 1 .. Len(b) - 1 : r[i] = t[(i + (Len(a) + 2)) - 1]
      <4>1. /\ Len(a) + 2 \in Nat /\ 1 <= Len(a) + 2 /\ Len(a) + 2 <= Len(t) + 1 /\ Len(t) \in Nat
            /\ (Len(t) - (Len(a) + 2)) + 1 = Len(b) - 1
        BY <1>1, <3>1
      <4> QED
        BY <1>1, <4>1
    <3>3. Tail(b) \in Seq(Chars) /\ Len(Tail(b)) = Len(b) - 1 /\ \A i \in 1 .. Len(b) - 1 : Tail(b)[i] = b[i + 1]
      BY <3>1
    <3> HIDE DEF r
    <3>4. ASSUME NEW i \in 1 .. Len(r) PROVE r[i] = Tail(b)[i]
      <4>1. /\ i \in 1 .. Len(b) - 1 /\ (i + (Len(a) + 2)) - 1 = Len(a) + (i + 1)
            /\ Len(a) + (i + 1) \in Nat /\ i + 1 \in 1 .. Len(b)
        BY <1>1, <3>1, <3>2
      <4>2. t[Len(a) + (i + 1)] = b[i + 1]
        BY <1>0, <4>1
      <4>3. r[i] = t[Len(a) + (i + 1)] /\ Tail(b)[i] = b[i + 1]
        BY <3>2, <3>3, <4>1
      <4> QED
        BY <4>2, <4>3
    <3>5. r = Tail(b)
      BY <3>2, <3>3, <3>4, SameSequence
    <3> QED
      BY <2>2, <3>5 DEF r
  <2> QED
    BY <2>1, <2>2
<1> QED
  BY <1>4, <1>5, <1>6 DEF t

\* One character before others.
LEMMA Headed ==
    ASSUME NEW h \in Chars, NEW s \in Seq(Chars)
    PROVE  /\ <<h>> \o s \in Seq(Chars) /\ Len(<<h>> \o s) = Len(s) + 1 /\ <<h>> \o s # << >>
           /\ (<<h>> \o s)[1] = h /\ Tail(<<h>> \o s) = s
           /\ \A i \in 1 .. Len(s) : (<<h>> \o s)[i + 1] = s[i]
           /\ \A i \in Nat, j \in 1 .. Len(s) : i = 1 + j => (<<h>> \o s)[i] = s[j]
<1> DEFINE a == <<h>>
<1>1. a \in Seq(Chars) /\ Len(a) = 1 /\ a[1] = h
  OBVIOUS
<1> DEFINE c == a \o s
<1> HIDE DEF a
<1>2. c \in Seq(Chars) /\ Len(c) = Len(s) + 1 /\ c[1] = h /\ Len(s) \in Nat
  BY <1>1, JoinIs
<1>3. \A i \in Nat, j \in 1 .. Len(s) : i = Len(a) + j => c[i] = s[j]
  BY <1>1, JoinIs
<1> HIDE DEF c
<1>4. \A i \in 1 .. Len(s) : c[i + 1] = s[i]
  <2> TAKE i \in 1 .. Len(s)
  <2>1. i + 1 \in Nat /\ i + 1 = Len(a) + i
    BY <1>1
  <2> QED
    BY <1>3, <2>1
<1>7. \A i \in Nat, j \in 1 .. Len(s) : i = 1 + j => c[i] = s[j]
  BY <1>1, <1>3
<1>5. c # << >>
  BY <1>2
<1>6. Tail(c) = s
  <2> DEFINE r == Tail(c)
  <2>1. r \in Seq(Chars) /\ Len(r) = Len(s) /\ \A i \in 1 .. Len(s) : r[i] = c[i + 1]
    BY <1>2
  <2> HIDE DEF r
  <2>2. \A i \in 1 .. Len(r) : r[i] = s[i]
    BY <1>4, <2>1
  <2>3. r = s
    BY <2>1, <2>2, SameSequence
  <2> QED
    BY <2>3 DEF r
<1> QED
  BY <1>2, <1>4, <1>5, <1>6, <1>7 DEF c, a
\* What a token is without its sign.
LEMMA SignIsRead ==
    ASSUME NEW neg \in BOOLEAN, NEW b \in Seq(Chars), b # << >>, b[1] # "-",
           NEW c, c = (IF neg THEN <<"-">> ELSE << >>) \o b
    PROVE  c \in Seq(Chars) /\ c # << >> /\ Negative(c) = neg /\ Unsigned(c) = b /\ BodyOf(c) = b
<1>2. CASE neg
  <2>1. "-" \in Chars /\ c = <<"-">> \o b
    BY <1>2 DEF Chars
  <2>2. c \in Seq(Chars) /\ c # << >> /\ c[1] = "-" /\ Tail(c) = b
    BY <2>1, Headed
  <2> QED
    BY <1>2, <2>2 DEF Negative, Unsigned, BodyOf
<1>3. CASE ~neg
  <2>1. c = << >> \o b
    BY <1>3
  <2>2. c = b
    BY <2>1, JoinedTwice
  <2> QED
    BY <1>3, <2>2 DEF Negative, Unsigned, BodyOf
<1> QED
  BY <1>2, <1>3

\* A token c of a sign, the digits w before the point, the digits f behind it with the point
\* before them (y), the exponent p with its letter before it (x).
Spelt(c, neg, w, f, y, p, x) ==
    /\ neg \in BOOLEAN /\ Numeral(w) /\ w # << >> /\ Numeral(f) /\ p \in Seq(Chars)
    /\ (y = << >> /\ f = << >>) \/ y = <<".">> \o f
    /\ (x = << >> /\ p = << >>) \/ x = <<"e">> \o p
    /\ c = (IF neg THEN <<"-">> ELSE << >>) \o ((w \o y) \o x)

\* How such a token reads: the first exponent letter and the first point are where they were put.
ReadsAs(c, neg, w, f, y, p, x) ==
    /\ c \in Seq(Chars) /\ c # << >> /\ Negative(c) = neg
    /\ BodyOf(c) = (w \o y) \o x /\ BodyOf(c) \in Seq(Chars) /\ Len(BodyOf(c)) = Len(w \o y) + Len(x)
    /\ Find(BodyOf(c), ExpLetters) = Len(w \o y) + 1
    /\ SubSeq(BodyOf(c), 1, Len(w \o y)) = w \o y
    /\ SubSeq(BodyOf(c), Len(w \o y) + 2, Len(BodyOf(c))) = p
    /\ Mantissa(c) = w \o y /\ w \o y \in Seq(Chars) /\ Len(w \o y) = Len(w) + Len(y)
    /\ w \in Seq(Chars) /\ y \in Seq(Chars) /\ x \in Seq(Chars) /\ w # << >>
    /\ Find(w \o y, {"."}) = Len(w) + 1
    /\ SubSeq(w \o y, 1, Len(w)) = w
    /\ SubSeq(w \o y, Len(w) + 2, Len(w \o y)) = f
    /\ Power(c) = Atoi(p) /\ WholeDigits(c) = Len(w) /\ AllDigits(c) = w \o f

\* Whatever is spelt so reads so.
LEMMA SpellingReads ==
    ASSUME NEW c, NEW neg, NEW w, NEW f, NEW y, NEW p, NEW x, Spelt(c, neg, w, f, y, p, x)
    PROVE  ReadsAs(c, neg, w, f, y, p, x)
<1>1. /\ w \in Seq(Chars) /\ f \in Seq(Chars) /\ p \in Seq(Chars) /\ w # << >> /\ neg \in BOOLEAN
      /\ "." \in Chars /\ "e" \in Chars /\ Len(w) \in Nat /\ Len(f) \in Nat
  BY DEF Spelt, Numeral, Chars
<1>2. y \in Seq(Chars) /\ IF y = << >> THEN f = << >> ELSE y[1] = "." /\ Tail(y) = f /\ y = <<".">> \o f
  <2>1. CASE y = << >> /\ f = << >>
    BY <2>1
  <2>2. CASE y = <<".">> \o f
    BY <1>1, <2>2, Headed
  <2> QED
    BY <2>1, <2>2 DEF Spelt
<1>3. x \in Seq(Chars) /\ IF x = << >> THEN p = << >> ELSE x[1] = "e" /\ Tail(x) = p
  <2>1. CASE x = << >> /\ p = << >>
    BY <2>1
  <2>2. CASE x = <<"e">> \o p
    BY <1>1, <2>2, Headed
  <2> QED
    BY <2>1, <2>2 DEF Spelt
<1> DEFINE m == w \o y
<1>4. m \in Seq(Chars) /\ Len(m) \in Nat /\ Len(m) >= 1 /\ m # << >> /\ IsDigit(m[1])
  <2>1. Len(w) >= 1
    BY <1>1
  <2>2. m \in Seq(Chars) /\ Len(m) = Len(w) + Len(y) /\ Len(y) \in Nat /\ \A i \in 1 .. Len(w) : m[i] = w[i]
    BY <1>1, <1>2, JoinIs
  <2> HIDE DEF m
  <2>3. m[1] = w[1] /\ IsDigit(w[1])
    BY <2>1, <2>2 DEF Spelt, Numeral
  <2>4. Len(m) \in Nat /\ Len(m) >= 1
    BY <1>1, <2>1, <2>2
  <2>5. m # << >>
    BY <2>2, <2>4
  <2> QED
    BY <2>2, <2>3, <2>4, <2>5
<1>5. \A i \in 1 .. Len(m) : m[i] \notin ExpLetters
  <2> TAKE i \in 1 .. Len(m)
  <2>1. CASE i \in 1 .. Len(w)
    <3>1. m[i] = w[i] /\ IsDigit(w[i])
      BY <1>1, <1>2, <2>1, JoinIs DEF Spelt, Numeral
    <3> QED
      BY <3>1, DigitsAreNothingElse
  <2>2. CASE i \notin 1 .. Len(w)
    <3>1. i - Len(w) \in 1 .. Len(y) /\ i \in Nat /\ i = Len(w) + (i - Len(w))
      BY <1>1, <1>2, <2>2, JoinIs
    <3>2. m[i] = y[i - Len(w)]
      BY <1>1, <1>2, <3>1, JoinIs
    <3>3. y = <<".">> \o f /\ Len(y) = Len(f) + 1
      <4>1. y # << >>
        BY <3>1
      <4> QED
        BY <1>1, <1>2, <4>1, Headed
    <3> DEFINE j == i - Len(w)
    <3>4. j \in 1 .. Len(f) + 1
      BY <3>1, <3>3
    <3> HIDE DEF j
    <3>5. CASE j = 1
      <4>1. y[j] = "."
        BY <1>1, <3>3, <3>5, Headed
      <4> QED
        BY <3>2, <4>1, NotDigits DEF j
    <3>6. CASE j # 1
      <4>1. j - 1 \in 1 .. Len(f) /\ (j - 1) + 1 = j
        BY <1>1, <3>4, <3>6
      <4>2. y[(j - 1) + 1] = f[j - 1]
        BY <1>1, <3>3, <4>1, Headed
      <4>3. IsDigit(f[j - 1])
        BY <4>1 DEF Spelt, Numeral
      <4> QED
        BY <3>2, <4>1, <4>2, <4>3, DigitsAreNothingElse DEF j
    <3> QED
      BY <3>5, <3>6
  <2> QED
    BY <2>1, <2>2
<1> DEFINE u == m \o x
<1>6. /\ Find(u, ExpLetters) = Len(m) + 1 /\ SubSeq(u, 1, Len(m)) = m
      /\ SubSeq(u, Len(m) + 2, Len(u)) = p
  <2>1. x # << >> => x[1] \in ExpLetters
    BY <1>3 DEF ExpLetters
  <2> HIDE DEF m
  <2>2. SubSeq(u, Len(m) + 2, Len(u)) = IF x = << >> THEN << >> ELSE Tail(x)
    BY <1>3, <1>4, <1>5, <2>1, FindBehind
  <2> QED
    BY <1>3, <1>4, <1>5, <2>1, <2>2, FindBehind
<1>7. u \in Seq(Chars) /\ u # << >> /\ u[1] # "-" /\ Len(u) = Len(m) + Len(x)
  <2> HIDE DEF m
  <2>1. u \in Seq(Chars) /\ Len(u) = Len(m) + Len(x) /\ Len(x) \in Nat /\ u[1] = m[1]
    BY <1>3, <1>4, JoinIs
  <2>2. u # << >>
    BY <1>4, <2>1
  <2> QED
    BY <1>4, <2>1, <2>2, DigitsAreNothingElse
<1>8. c # << >> /\ c \in Seq(Chars) /\ Negative(c) = neg /\ Unsigned(c) = u /\ BodyOf(c) = u
  <2>1. c = (IF neg THEN <<"-">> ELSE << >>) \o u
    BY DEF Spelt
  <2> HIDE DEF u
  <2> QED
    BY <1>1, <1>7, <2>1, SignIsRead
<1>9. Mantissa(c) = m /\ Power(c) = Atoi(p)
  <2> HIDE DEF u, m
  <2>1. (Len(m) + 1) - 1 = Len(m) /\ (Len(m) + 1) + 1 = Len(m) + 2
    BY <1>4
  <2>2. Mantissa(c) = SubSeq(u, 1, Find(u, ExpLetters) - 1)
    BY <1>8 DEF Mantissa, ExpLetters
  <2>3. Power(c) = Atoi(SubSeq(u, Find(u, ExpLetters) + 1, Len(u)))
    BY <1>8 DEF Power, ExpLetters
  <2> QED
    BY <1>6, <2>1, <2>2, <2>3
<1>10. /\ Find(m, {"."}) = Len(w) + 1 /\ SubSeq(m, 1, Len(w)) = w
       /\ SubSeq(m, Len(w) + 2, Len(m)) = f
  <2>1. y # << >> => y[1] \in {"."}
    BY <1>2
  <2>2. \A i \in 1 .. Len(w) : w[i] \notin {"."}
    <3> TAKE i \in 1 .. Len(w)
    <3>1. IsDigit(w[i])
      BY DEF Spelt, Numeral
    <3> QED
      BY <3>1, DigitsAreNothingElse
  <2>3. SubSeq(m, Len(w) + 2, Len(m)) = IF y = << >> THEN << >> ELSE Tail(y)
    BY <1>1, <1>2, <2>1, <2>2, FindBehind
  <2> QED
    BY <1>1, <1>2, <2>1, <2>2, <2>3, FindBehind
<1>11. WholeDigits(c) = Len(w)
  <2> HIDE DEF u, m
  <2>1. WholeDigits(c) = Find(m, {"."}) - 1
    BY <1>9 DEF WholeDigits
  <2>2. (Len(w) + 1) - 1 = Len(w)
    BY <1>1
  <2> QED
    BY <1>10, <2>1, <2>2
<1>12. AllDigits(c) = w \o f
  <2> HIDE DEF u, m
  <2>1. AllDigits(c) = SubSeq(m, 1, Len(w)) \o SubSeq(m, Len(w) + 2, Len(m))
    BY <1>9, <1>11 DEF AllDigits
  <2> QED
    BY <1>10, <2>1
<1>13. Len(m) = Len(w) + Len(y)
  BY <1>1, <1>2, JoinIs
<1> QED
  BY <1>1, <1>2, <1>3, <1>4, <1>6, <1>7, <1>8, <1>9, <1>10, <1>11, <1>12, <1>13 DEF ReadsAs

\* When such a token is one of the grammar.
LEMMA SpellingIsNumber ==
    ASSUME NEW c, NEW neg, NEW w, NEW f, NEW y, NEW p, NEW x, Spelt(c, neg, w, f, y, p, x),
           w[1] = "0" => Len(w) = 1, y # << >> => f # << >>, x # << >> => AllAreDigits(Magnitude(p))
    PROVE  InGrammar(c)
<1> DEFINE u == BodyOf(c)
           m == w \o y
<1>1. /\ Find(u, ExpLetters) = Len(m) + 1 /\ SubSeq(u, Len(m) + 2, Len(u)) = p /\ SubSeq(u, 1, Len(m)) = m
      /\ Len(u) = Len(m) + Len(x) /\ Find(m, {"."}) = Len(w) + 1 /\ SubSeq(m, 1, Len(w)) = w
      /\ SubSeq(m, Len(w) + 2, Len(m)) = f /\ Len(m) = Len(w) + Len(y)
  <2>1. ReadsAs(c, neg, w, f, y, p, x)
    BY SpellingReads
  <2> QED
    BY <2>1, Zenon DEF ReadsAs
<1>2. w \in Seq(Chars) /\ y \in Seq(Chars) /\ x \in Seq(Chars) /\ w # << >>
      /\ Len(w) \in Nat /\ Len(y) \in Nat /\ Len(x) \in Nat
  <2>1. w \in Seq(Chars) /\ y \in Seq(Chars) /\ x \in Seq(Chars) /\ w # << >>
    BY SpellingReads DEF ReadsAs
  <2> QED
    BY <2>1
<1>3. /\ u = IF c # << >> /\ c[1] = "-" THEN Tail(c) ELSE c
      /\ Magnitude(p) = IF p # << >> /\ p[1] \in {"+", "-"} THEN Tail(p) ELSE p
  BY DEF BodyOf, Magnitude
<1>4. AllAreDigits(w) /\ (f # << >> => AllAreDigits(f))
  BY DEF Spelt, Numeral, AllAreDigits
<1>5. m[1] = w[1]
  <2>1. 1 \in 1 .. Len(w)
    BY <1>2
  <2> QED
    BY <1>2, <2>1, JoinIs
<1> HIDE DEF u, m
<1>6. /\ (Len(m) + 1) - 1 = Len(m) /\ (Len(m) + 1) + 1 = Len(m) + 2
      /\ (Len(w) + 1) - 1 = Len(w) /\ (Len(w) + 1) + 1 = Len(w) + 2
  BY <1>1, <1>2
<1>7. y = << >> => ~(Len(w) + 1 <= Len(m))
  BY <1>1, <1>2
<1>8. x = << >> => ~(Len(m) + 1 <= Len(u))
  BY <1>1, <1>2
<1>9. (m[1] = "0") => (Len(w) + 1 = 2)
  <2>1. Len(w) = 1 => Len(w) + 1 = 2
    BY <1>2
  <2> QED
    BY <1>5, <2>1, Zenon
<1>10. (Len(w) + 1 <= Len(m)) => AllAreDigits(f)
  BY <1>4, <1>7
<1>11. (Len(m) + 1 <= Len(u)) => AllAreDigits(Magnitude(p))
  BY <1>8
<1> QED
  BY <1>1, <1>3, <1>4, <1>6, <1>9, <1>10, <1>11, Zenon DEF InGrammar, ExpLetters

\* Such a token is no integer if it has a point or an exponent.
LEMMA SpellingIsNoInteger ==
    ASSUME NEW c, NEW neg, NEW w, NEW f, NEW y, NEW p, NEW x, Spelt(c, neg, w, f, y, p, x),
           y # << >> \/ x # << >>
    PROVE  ~isJSONIntegerToken(c)
<1> DEFINE u == BodyOf(c)
           m == w \o y
<1>1. /\ Find(u, ExpLetters) = Len(m) + 1 /\ SubSeq(u, 1, Len(m)) = m /\ u \in Seq(Chars) /\ c \in Seq(Chars)
      /\ Len(u) = Len(m) + Len(x) /\ Find(m, {"."}) = Len(w) + 1
      /\ Len(m) = Len(w) + Len(y) /\ w \in Seq(Chars) /\ y \in Seq(Chars) /\ x \in Seq(Chars) /\ m \in Seq(Chars)
  BY SpellingReads DEF ReadsAs
<1>2. Len(m) \in Nat /\ Len(x) \in Nat /\ Len(w) \in Nat /\ Len(y) \in Nat /\ Len(u) \in Nat
  BY <1>1
<1>3. u = m \o x
  BY SpellingReads DEF ReadsAs
<1>4. \A k \in 1 .. Len(m) : u[k] = m[k]
  <2> HIDE DEF m, u
  <2> QED
    BY <1>1, <1>3, JoinIs
<1>5. IsPath(c) /\ IsPath(u) /\ IsPath(m) /\ Len(c) \in Nat
  <2> HIDE DEF m, u
  <2> QED
    BY <1>1, OverOwnRange DEF IsPath
<1>6. Offset(c) \in {0, 1} /\ Len(u) = Len(c) - Offset(c) /\ \A k \in 1 .. Len(u) : u[k] = c[k + Offset(c)]
  BY <1>5, BodyIs
<1> HIDE DEF u, m
<1>7. ASSUME NEW k \in 1 .. Len(u) PROVE Holds(c, u[k])
  <2>1. k + Offset(c) \in 1 .. Len(c) /\ c[k + Offset(c)] = u[k]
    BY <1>2, <1>5, <1>6
  <2> QED
    BY <2>1 DEF Holds
<1>8. CASE y # << >>
  <2>1. Len(w) + 1 <= Len(m) /\ Len(w) + 1 \in 1 .. Len(m) /\ Len(w) + 1 \in 1 .. Len(u)
    BY <1>1, <1>2, <1>8
  <2>2. m[Len(w) + 1] \in {"."}
    <3> DEFINE C == {"."}
    <3>1. Find(m, C) = Len(w) + 1
      BY <1>1
    <3> HIDE DEF C
    <3>2. m[Len(w) + 1] \in C
      BY <1>5, <2>1, <3>1, FindIsFirst
    <3> QED
      BY <3>2 DEF C
  <2>3. u[Len(w) + 1] = "."
    BY <1>4, <2>1, <2>2
  <2> QED
    BY <1>7, <2>1, <2>3 DEF isJSONIntegerToken
<1>9. CASE x # << >>
  <2>1. Len(m) + 1 <= Len(u) /\ Len(m) + 1 \in 1 .. Len(u)
    BY <1>1, <1>2, <1>9
  <2>2. u[Len(m) + 1] \in ExpLetters
    <3> DEFINE n == Len(m) + 1
    <3>1. Find(u, ExpLetters) = n /\ n <= Len(u)
      BY <1>1, <2>1
    <3> HIDE DEF n
    <3>2. u[n] \in ExpLetters
      BY <1>5, <3>1, FindIsFirst
    <3> QED
      BY <3>2 DEF n
  <2>3. Holds(c, u[Len(m) + 1])
    BY <1>7, <2>1
  <2> QED
    BY <2>2, <2>3 DEF isJSONIntegerToken, ExpLetters
<1> QED
  BY <1>8, <1>9

\* Where the significant digits lie.
LEMMA NothingSignificant ==
    ASSUME NEW t, \A i \in 1 .. Len(AllDigits(t)) : AllDigits(t)[i] = "0"
    PROVE  Significant(t) = [digits |-> << >>, lead |-> 0]
<1>1. {i \in 1 .. Len(AllDigits(t)) : AllDigits(t)[i] # "0"} = {}
  OBVIOUS
<1> QED
  BY <1>1, Zenon DEF Significant

\* The significant digits are those from the first nonzero one to the last.
LEMMA SignificantIs ==
    ASSUME NEW t, AllDigits(t) \in Seq(Chars), NEW k \in Nat, NEW l \in Nat, 1 <= k, k <= l, l <= Len(AllDigits(t)),
           AllDigits(t)[k] # "0", AllDigits(t)[l] # "0",
           \A i \in 1 .. Len(AllDigits(t)) : i < k \/ i > l => AllDigits(t)[i] = "0"
    PROVE  Significant(t) = [digits |-> SubSeq(AllDigits(t), k, l), lead |-> k]
<1> DEFINE ds == AllDigits(t)
           nonzero == {i \in 1 .. Len(ds) : ds[i] # "0"}
           first == CHOOSE i \in nonzero : \A j \in nonzero : i <= j
           last == CHOOSE i \in nonzero : \A j \in nonzero : i >= j
<1>1. Significant(t) = IF nonzero = {} THEN [digits |-> << >>, lead |-> 0]
                       ELSE [digits |-> SubSeq(ds, first, last), lead |-> first]
  BY Zenon DEF Significant
<1> HIDE DEF ds
<1>2. /\ ds \in Seq(Chars) /\ Len(ds) \in Nat /\ l <= Len(ds) /\ ds[k] # "0" /\ ds[l] # "0"
      /\ \A i \in 1 .. Len(ds) : i < k \/ i > l => ds[i] = "0"
  BY DEF ds
<1>3. k \in nonzero /\ l \in nonzero /\ \A i \in nonzero : i \in Nat /\ k <= i /\ i <= l
  BY <1>2
<1> HIDE DEF nonzero
<1>4. first = k
  <2>1. first \in nonzero /\ \A j \in nonzero : first <= j
    <3>1. \E i \in nonzero : \A j \in nonzero : i <= j
      BY <1>3
    <3> QED
      BY <3>1
  <2> HIDE DEF first
  <2>2. first \in Nat /\ first <= k /\ k <= first
    BY <1>3, <2>1
  <2> QED
    BY <2>2
<1>5. last = l
  <2>1. last \in nonzero /\ \A j \in nonzero : last >= j
    <3>1. \E i \in nonzero : \A j \in nonzero : i >= j
      BY <1>3
    <3> QED
      BY <3>1
  <2> HIDE DEF last
  <2>2. last \in Nat /\ last <= l /\ l <= last
    BY <1>3, <2>1
  <2> QED
    BY <2>2
<1>6. nonzero # {}
  BY <1>3
<1> HIDE DEF first, last
<1> QED
  BY <1>1, <1>4, <1>5, <1>6 DEF ds

\* What the significant digits are.
LEMMA SignificantDigits ==
    ASSUME NEW t, Numeral(AllDigits(t))
    PROVE  /\ Numeral(Significant(t).digits)
           /\ Significant(t).digits # << >> =>
                Significant(t).digits[1] # "0" /\ Significant(t).digits[Len(Significant(t).digits)] # "0"
<1> DEFINE ds == AllDigits(t)
           nonzero == {i \in 1 .. Len(ds) : ds[i] # "0"}
<1>1. ds \in Seq(Chars) /\ Len(ds) \in Nat
  BY DEF Numeral
<1>2. CASE nonzero = {}
  <2>1. Significant(t).digits = << >>
    BY <1>2, NothingSignificant
  <2>2. << >> \in Seq(Chars) /\ Len(<< >>) = 0
    OBVIOUS
  <2>3. Numeral(<< >>)
    BY <2>2 DEF Numeral
  <2> QED
    BY <2>1, <2>3
<1>3. CASE nonzero # {}
  <2>1. nonzero \in SUBSET Nat /\ nonzero \in SUBSET (1 .. Len(ds))
    OBVIOUS
  <2> DEFINE n == Len(ds)
  <2>2. n \in Nat /\ nonzero \in SUBSET (1 .. n)
    BY <1>1
  <2>3. PICK k \in nonzero : \A j \in nonzero : k <= j
    <3> HIDE DEF nonzero
    <3> QED
      BY <1>3, <2>1, LeastExists
  <2>4. PICK l \in nonzero : \A j \in nonzero : l >= j
    <3> HIDE DEF nonzero, n
    <3> QED
      BY <1>3, <2>2, GreatestExists
  <2>5. /\ k \in Nat /\ l \in Nat /\ 1 <= k /\ k <= l /\ l <= Len(ds) /\ ds[k] # "0" /\ ds[l] # "0"
        /\ k \in 1 .. Len(ds) /\ l \in 1 .. Len(ds)
    BY <1>1, <2>3, <2>4
  <2>6. \A i \in 1 .. Len(ds) : i < k \/ i > l => ds[i] = "0"
    <3> SUFFICES ASSUME NEW i \in 1 .. Len(ds), i < k \/ i > l, ds[i] # "0" PROVE FALSE
      OBVIOUS
    <3>1. i \in nonzero
      OBVIOUS
    <3>2. k <= i /\ l >= i
      BY <2>3, <2>4, <3>1
    <3> QED
      BY <1>1, <2>5, <3>2
  <2> DEFINE r == SubSeq(ds, k, l)
  <2>7. Significant(t).digits = r
    <3>1. Significant(t) = [digits |-> SubSeq(ds, k, l), lead |-> k]
      BY <1>1, <2>5, <2>6, SignificantIs
    <3> QED
      BY <3>1
  <2>8. Numeral(r) /\ Len(r) = (l - k) + 1
    <3>1. k <= l + 1
      BY <2>5
    <3> QED
      BY <2>5, <3>1, PartsOfNumerals
  <2>9. r[1] = ds[k] /\ r[(l - k) + 1] = ds[l]
    <3>1. \A i \in 1 .. (l - k) + 1 : r[i] = ds[(i + k) - 1]
      BY <1>1, <2>5
    <3>2. 1 \in 1 .. (l - k) + 1 /\ (l - k) + 1 \in 1 .. (l - k) + 1 /\ (1 + k) - 1 = k /\ (((l - k) + 1) + k) - 1 = l
      BY <2>5
    <3> HIDE DEF r, ds
    <3>3. r[1] = ds[(1 + k) - 1] /\ r[(l - k) + 1] = ds[(((l - k) + 1) + k) - 1]
      BY <3>1, <3>2
    <3> QED
      BY <3>2, <3>3
  <2> HIDE DEF r
  <2> QED
    BY <2>5, <2>7, <2>8, <2>9
<1> QED
  BY <1>2, <1>3

(***************************************************************************)
(* Exponents.                                                              *)
(***************************************************************************)
\* F[i] is the number that the digits among the first i characters spell.
Counts(F, t, n) ==
    F = [i \in 0 .. n |-> IF i = 0 THEN 0 ELSE IF IsDigit(t[i]) THEN 10 * F[i - 1] + Value(t[i]) ELSE F[i - 1]]

\* There is such a function.
LEMMA CountsExist ==
    ASSUME NEW t, NEW n \in Nat
    PROVE  \E F : Counts(F, t, n) /\ F \in [0 .. n -> Int]
<1> DEFINE S == {m \in Nat : \E F : Counts(F, t, m) /\ F \in [0 .. m -> Int]}
<1>1. 0 \in S
  <2> DEFINE F == [i \in 0 .. 0 |-> 0]
  <2>1. Counts(F, t, 0) /\ F \in [0 .. 0 -> Int]
    BY DEF Counts
  <2> HIDE DEF F
  <2> QED
    BY <2>1
<1>2. ASSUME NEW m \in Nat, m \in S PROVE m + 1 \in S
  <2>1. PICK F : Counts(F, t, m) /\ F \in [0 .. m -> Int]
    BY <1>2
  <2> DEFINE x == IF IsDigit(t[m + 1]) THEN 10 * F[m] + Value(t[m + 1]) ELSE F[m]
             G == [i \in 0 .. m + 1 |-> IF i = m + 1 THEN x ELSE F[i]]
  <2>2. x \in Int
    <3>1. F[m] \in Int
      BY <2>1
    <3>2. IsDigit(t[m + 1]) => Value(t[m + 1]) \in Int
      BY DigitsHaveValues
    <3> QED
      BY <3>1, <3>2
  <2>3. G \in [0 .. m + 1 -> Int]
    BY <2>1, <2>2
  <2>4. ASSUME NEW i \in 0 .. m + 1
        PROVE  G[i] = IF i = 0 THEN 0 ELSE IF IsDigit(t[i]) THEN 10 * G[i - 1] + Value(t[i]) ELSE G[i - 1]
    <3>1. CASE i = m + 1
      <4>1. G[m] = F[m] /\ G[i] = x /\ i # 0 /\ i - 1 = m
        BY <3>1
      <4> HIDE DEF G
      <4> QED
        BY <3>1, <4>1
    <3>2. CASE i # m + 1
      <4>1. i \in 0 .. m /\ (i # 0 => i - 1 \in 0 .. m)
        BY <3>2
      <4>2. F[i] = IF i = 0 THEN 0 ELSE IF IsDigit(t[i]) THEN 10 * F[i - 1] + Value(t[i]) ELSE F[i - 1]
        BY <2>1, <4>1 DEF Counts
      <4>3. G[i] = F[i] /\ (i # 0 => G[i - 1] = F[i - 1])
        BY <4>1
      <4> HIDE DEF G
      <4> QED
        BY <4>2, <4>3
    <3> QED
      BY <3>1, <3>2
  <2>5. G = [i \in 0 .. m + 1 |-> G[i]]
    OBVIOUS
  <2> HIDE DEF G
  <2>6. Counts(G, t, m + 1)
    BY <2>4, <2>5 DEF Counts
  <2> QED
    BY <2>3, <2>6
<1> HIDE DEF S
<1>3. Nat \subseteq S
  BY <1>1, <1>2, CountingUp
<1> QED
  BY <1>3 DEF S

\* Atoi counts so.
LEMMA AtoiCounts ==
    ASSUME NEW t, Len(t) \in Nat
    PROVE  \E F : /\ Counts(F, t, Len(t)) /\ \A i \in 0 .. Len(t) : F[i] \in Int
                  /\ Atoi(t) = IF Len(t) > 0 /\ t[1] = "-" THEN -F[Len(t)] ELSE F[Len(t)]
<1> DEFINE G == CHOOSE read : read = [i \in 0 .. Len(t) |->
                  IF i = 0 THEN 0 ELSE IF IsDigit(t[i]) THEN 10 * read[i - 1] + Value(t[i]) ELSE read[i - 1]]
<1>1. Atoi(t) = IF Len(t) > 0 /\ t[1] = "-" THEN -G[Len(t)] ELSE G[Len(t)]
  BY DEF Atoi
<1>2. Counts(G, t, Len(t))
  <2>1. \E F : Counts(F, t, Len(t))
    BY CountsExist
  <2> QED
    BY <2>1 DEF Counts
<1> HIDE DEF G
<1>3. \A i \in 0 .. Len(t) : G[i] \in Int
  <2> DEFINE S == {i \in Nat : i <= Len(t) => G[i] \in Int}
  <2>1. 0 \in S
    BY <1>2 DEF Counts
  <2>2. ASSUME NEW m \in Nat, m \in S PROVE m + 1 \in S
    <3> SUFFICES ASSUME m + 1 <= Len(t) PROVE G[m + 1] \in Int
      OBVIOUS
    <3>1. G[m] \in Int /\ m + 1 \in 0 .. Len(t) /\ (m + 1) - 1 = m /\ m + 1 # 0
      BY <2>2
    <3>2. G[m + 1] = IF IsDigit(t[m + 1]) THEN 10 * G[m] + Value(t[m + 1]) ELSE G[m]
      BY <1>2, <3>1 DEF Counts
    <3>3. IsDigit(t[m + 1]) => Value(t[m + 1]) \in Int
      BY DigitsHaveValues
    <3> QED
      BY <3>1, <3>2, <3>3
  <2> HIDE DEF S
  <2>3. Nat \subseteq S
    BY <2>1, <2>2, CountingUp
  <2> QED
    BY <2>3 DEF S
<1> QED
  BY <1>1, <1>2, <1>3

\* Nothing is zero.
LEMMA NoExponent == Atoi(<< >>) = 0
<1>1. Len(<< >>) = 0
  OBVIOUS
<1>2. PICK F : Counts(F, << >>, 0) /\ Atoi(<< >>) = F[0]
  BY <1>1, AtoiCounts
<1> QED
  BY <1>2 DEF Counts

\* What two or three digits spell.
WrittenOut(z, q) ==
    /\ Numeral(z)
    /\ \/ Len(z) = 2 /\ 10 * Value(z[1]) + Value(z[2]) = q
       \/ Len(z) = 3 /\ 100 * Value(z[1]) + 10 * Value(z[2]) + Value(z[3]) = q

\* Atoi reads it, with its sign.
LEMMA SignedExponent ==
    ASSUME NEW z, NEW q \in Nat, WrittenOut(z, q), NEW s \in {"+", "-"}, NEW p, p = <<s>> \o z
    PROVE  Atoi(p) = (IF s = "-" THEN -q ELSE q) /\ Magnitude(p) = z /\ p \in Seq(Chars)
<1>1. z \in Seq(Chars) /\ s \in Chars
  BY DEF WrittenOut, Numeral, Chars
<1>2. /\ p \in Seq(Chars) /\ Len(p) = Len(z) + 1 /\ p # << >> /\ p[1] = s /\ Tail(p) = z
      /\ \A i \in 1 .. Len(z) : p[i + 1] = z[i]
  BY <1>1, Headed
<1>3. Magnitude(p) = z
  BY <1>2 DEF Magnitude
<1>4. Len(z) \in {2, 3} /\ Len(p) \in Nat
  BY <1>2 DEF WrittenOut
<1>5. PICK F : /\ Counts(F, p, Len(p)) /\ \A i \in 0 .. Len(p) : F[i] \in Int
               /\ Atoi(p) = IF Len(p) > 0 /\ p[1] = "-" THEN -F[Len(p)] ELSE F[Len(p)]
  BY <1>4, AtoiCounts
<1>6. F[0] = 0
  BY <1>4, <1>5 DEF Counts
<1>7. F[1] = 0
  <2>1. 1 \in 0 .. Len(p) /\ 1 - 1 = 0 /\ 1 # 0
    BY <1>2, <1>4
  <2>2. ~IsDigit(p[1])
    BY <1>2, NotDigits
  <2>3. F[1] = F[0]
    BY <1>5, <2>1, <2>2 DEF Counts
  <2> QED
    BY <1>6, <2>3
<1>8. \A i \in 1 .. Len(z) : F[i + 1] = 10 * F[i] + Value(z[i]) /\ Value(z[i]) \in 0 .. 9
  <2> TAKE i \in 1 .. Len(z)
  <2>1. i + 1 \in 0 .. Len(p) /\ (i + 1) - 1 = i /\ i + 1 # 0 /\ p[i + 1] = z[i] /\ IsDigit(z[i])
    BY <1>2, <1>4 DEF WrittenOut, Numeral
  <2>2. F[i + 1] = 10 * F[i] + Value(p[i + 1])
    BY <1>5, <2>1 DEF Counts
  <2> QED
    BY <2>1, <2>2, DigitsHaveValues
<1>9. F[Len(p)] = q
  <2>1. CASE Len(z) = 2
    <3>1. 1 \in 1 .. Len(z) /\ 2 \in 1 .. Len(z) /\ 1 + 1 = 2 /\ 2 + 1 = 3 /\ Len(p) = 3
      BY <1>2, <2>1
    <3>2. F[2] = 10 * F[1] + Value(z[1]) /\ F[3] = 10 * F[2] + Value(z[2])
          /\ Value(z[1]) \in Nat /\ Value(z[2]) \in Nat
      BY <1>8, <3>1
    <3>3. 10 * Value(z[1]) + Value(z[2]) = q
      BY <2>1 DEF WrittenOut
    <3> QED
      BY <1>7, <3>1, <3>2, <3>3
  <2>2. CASE Len(z) = 3
    <3>1. /\ 1 \in 1 .. Len(z) /\ 2 \in 1 .. Len(z) /\ 3 \in 1 .. Len(z) /\ 1 + 1 = 2 /\ 2 + 1 = 3 /\ 3 + 1 = 4
          /\ Len(p) = 4
      BY <1>2, <2>2
    <3>2. /\ F[2] = 10 * F[1] + Value(z[1]) /\ F[3] = 10 * F[2] + Value(z[2]) /\ F[4] = 10 * F[3] + Value(z[3])
          /\ Value(z[1]) \in Nat /\ Value(z[2]) \in Nat /\ Value(z[3]) \in Nat
      BY <1>8, <3>1
    <3>3. 100 * Value(z[1]) + 10 * Value(z[2]) + Value(z[3]) = q
      BY <2>2 DEF WrittenOut
    <3> QED
      BY <1>7, <3>1, <3>2, <3>3
  <2> QED
    BY <1>4, <2>1, <2>2
<1>10. Len(p) > 0
  BY <1>2, <1>4
<1> QED
  BY <1>2, <1>3, <1>5, <1>9, <1>10

\* The digits of an exponent, padded to two.
Padded(q) == (IF Len(Itoa(q)) < 2 THEN <<"0">> ELSE << >>) \o Itoa(q)

\* They spell it.
LEMMA PaddedSpells ==
    ASSUME NEW q \in 0 .. 999
    PROVE  WrittenOut(Padded(q), q) /\ Itoa(q) \in Seq(Chars)
<1>1. \A k \in 0 .. 9 : IsDigit(Digits[k + 1]) /\ Value(Digits[k + 1]) = k /\ Digits[k + 1] \in Chars
  BY DigitsHaveValues
<1>2. CASE q < 10
  <2> DEFINE c == Digits[q + 1]
  <2>1. q \in 0 .. 9 /\ "0" = Digits[0 + 1] /\ 0 \in 0 .. 9
    BY <1>2 DEF Digits
  <2>2. IsDigit(c) /\ Value(c) = q /\ c \in Chars /\ IsDigit("0") /\ Value("0") = 0 /\ "0" \in Chars
    BY <1>1, <2>1
  <2>3. Itoa(q) = <<c>>
    BY <1>2 DEF Itoa
  <2> HIDE DEF c
  <2>4. <<c>> \in Seq(Chars) /\ Len(<<c>>) = 1 /\ <<c>>[1] = c
    BY <2>2
  <2> DEFINE z == <<"0">> \o <<c>>
  <2>5. Padded(q) = z
    BY <2>3, <2>4 DEF Padded
  <2>6. z[1] = "0" /\ Len(z) = 2 /\ z[1 + 1] = c
    <3>1. 1 \in 1 .. Len(<<c>>)
      BY <2>4
    <3> QED
      BY <2>2, <2>4, <3>1, Headed
  <2>7. Numeral(z)
    BY <2>2, OneDigit, JoinedNumerals
  <2> HIDE DEF z
  <2>8. z[2] = c
    BY <2>6
  <2>9. 10 * Value(z[1]) + Value(z[2]) = q
    BY <2>2, <2>6, <2>8
  <2> QED
    BY <2>3, <2>4, <2>5, <2>6, <2>7, <2>9 DEF WrittenOut
<1>3. CASE ~(q < 10) /\ q < 100
  <2> DEFINE a == q \div 10
             b == q % 10
  <2>1. a \in 0 .. 9 /\ b \in 0 .. 9 /\ 10 * a + b = q
    BY <1>3
  <2> DEFINE x == Digits[a + 1]
             y == Digits[b + 1]
  <2>2. Itoa(q) = <<x, y>>
    BY <1>3 DEF Itoa
  <2> HIDE DEF a, b
  <2>3. IsDigit(x) /\ IsDigit(y) /\ Value(x) = a /\ Value(y) = b /\ x \in Chars /\ y \in Chars
    BY <1>1, <2>1
  <2> HIDE DEF x, y
  <2> DEFINE z == <<x, y>>
  <2>4. z \in Seq(Chars) /\ Len(z) = 2 /\ z[1] = x /\ z[2] = y
    BY <2>3
  <2>5. Padded(q) = << >> \o z
    BY <2>2, <2>4 DEF Padded
  <2> HIDE DEF z
  <2>6. Padded(q) = z
    BY <2>4, <2>5, JoinedTwice
  <2>7. Numeral(z)
    <3>1. \A i \in 1 .. Len(z) : i = 1 \/ i = 2
      BY <2>4
    <3> QED
      BY <2>3, <2>4, <3>1 DEF Numeral
  <2>8. 10 * Value(z[1]) + Value(z[2]) = q
    BY <2>1, <2>3, <2>4
  <2> QED
    BY <2>2, <2>4, <2>6, <2>7, <2>8 DEF WrittenOut, z
<1>4. CASE ~(q < 10) /\ ~(q < 100)
  <2> DEFINE a == q \div 100
             b == (q \div 10) % 10
             c == q % 10
  <2>1. a \in 0 .. 9 /\ b \in 0 .. 9 /\ c \in 0 .. 9 /\ 100 * a + 10 * b + c = q
    BY <1>4
  <2> DEFINE x == Digits[a + 1]
             y == Digits[b + 1]
             w == Digits[c + 1]
  <2>2. Itoa(q) = <<x, y, w>>
    BY <1>4 DEF Itoa
  <2> HIDE DEF a, b, c
  <2>3. /\ IsDigit(x) /\ IsDigit(y) /\ IsDigit(w) /\ Value(x) = a /\ Value(y) = b /\ Value(w) = c
        /\ x \in Chars /\ y \in Chars /\ w \in Chars
    BY <1>1, <2>1
  <2> HIDE DEF x, y, w
  <2> DEFINE z == <<x, y, w>>
  <2>4. z \in Seq(Chars) /\ Len(z) = 3 /\ z[1] = x /\ z[2] = y /\ z[3] = w
    BY <2>3
  <2>5. Padded(q) = << >> \o z
    BY <2>2, <2>4 DEF Padded
  <2> HIDE DEF z
  <2>6. Padded(q) = z
    BY <2>4, <2>5, JoinedTwice
  <2>7. Numeral(z)
    <3>1. \A i \in 1 .. Len(z) : i = 1 \/ i = 2 \/ i = 3
      BY <2>4
    <3> QED
      BY <2>3, <2>4, <3>1 DEF Numeral
  <2>8. 100 * Value(z[1]) + 10 * Value(z[2]) + Value(z[3]) = q
    BY <2>1, <2>3, <2>4
  <2> QED
    BY <2>2, <2>4, <2>6, <2>7, <2>8 DEF WrittenOut, z
<1> QED
  BY <1>2, <1>3, <1>4

\* An exponent that is written reads back.
LEMMA ExponentReadsBack ==
    ASSUME NEW e \in -300 .. 300
    PROVE  /\ pythonExponent(e) \in Seq(Chars)
           /\ Atoi(pythonExponent(e)) = e
           /\ AllAreDigits(Magnitude(pythonExponent(e)))
<1> DEFINE q == IF e < 0 THEN -e ELSE e
           s == IF e < 0 THEN "-" ELSE "+"
           pad == IF Len(Itoa(q)) < 2 THEN <<"0">> ELSE << >>
<1>1. q \in 0 .. 999 /\ s \in {"+", "-"}
  OBVIOUS
<1>2. pythonExponent(e) = (<<s>> \o pad) \o Itoa(q)
  BY DEF pythonExponent
<1>3. (IF s = "-" THEN -q ELSE q) = e
  OBVIOUS
<1> HIDE DEF q, s
<1>4. Itoa(q) \in Seq(Chars) /\ WrittenOut(Padded(q), q)
  BY <1>1, PaddedSpells
<1>5. <<s>> \in Seq(Chars) /\ pad \in Seq(Chars)
  <2>1. "0" \in Chars /\ s \in Chars
    BY <1>1 DEF Chars
  <2>2. <<s>> \in Seq(Chars) /\ <<"0">> \in Seq(Chars) /\ << >> \in Seq(Chars)
    BY <2>1
  <2> QED
    BY <2>2
<1>6. Padded(q) = pad \o Itoa(q)
  BY DEF Padded
<1> HIDE DEF pad
<1>7. pythonExponent(e) = <<s>> \o Padded(q)
  BY <1>2, <1>4, <1>5, <1>6, JoinedTwice
<1>8. /\ Atoi(pythonExponent(e)) = e /\ Magnitude(pythonExponent(e)) = Padded(q)
      /\ pythonExponent(e) \in Seq(Chars)
  <2> DEFINE z == Padded(q)
             p == pythonExponent(e)
  <2>1. q \in Nat /\ WrittenOut(z, q) /\ s \in {"+", "-"} /\ p = <<s>> \o z
    BY <1>1, <1>4, <1>7
  <2> HIDE DEF z, p
  <2>2. Atoi(p) = (IF s = "-" THEN -q ELSE q) /\ Magnitude(p) = z /\ p \in Seq(Chars)
    BY <2>1, SignedExponent
  <2> QED
    BY <1>3, <2>2 DEF z, p
<1>9. AllAreDigits(Padded(q))
  <2>1. Padded(q) # << >>
    <3> DEFINE z == Padded(q)
    <3>1. Len(z) # 0
      BY <1>4 DEF WrittenOut
    <3> HIDE DEF z
    <3>2. z # << >>
      BY <3>1
    <3> QED
      BY <3>2 DEF z
  <2> QED
    BY <1>4, <2>1 DEF WrittenOut, Numeral, AllAreDigits
<1> QED
  BY <1>8, <1>9

(***************************************************************************)
(* Floats.                                                                 *)
(***************************************************************************)
\* Joining characters is associative.
LEMMA CharsJoined ==
    ASSUME NEW a \in Seq(Chars), NEW b \in Seq(Chars), NEW c \in Seq(Chars)
    PROVE  (a \o b) \o c = a \o (b \o c) /\ a \o b \in Seq(Chars) /\ << >> \o a = a /\ a \o << >> = a
BY JoinedTwice

\* No zeros.
LEMMA NoZeros == Zeros(0) = << >>
BY DEF Zeros

\* One zero more, before or behind the others.
LEMMA OneZeroMore ==
    ASSUME NEW n \in Nat
    PROVE  <<"0">> \o Zeros(n) = Zeros(n + 1) /\ Zeros(n) \o <<"0">> = Zeros(n + 1)
<1> DEFINE o == <<"0">>
           s == Zeros(n)
           t == Zeros(n + 1)
<1>1. /\ s \in Seq(Chars) /\ Len(s) = n /\ \A i \in 1 .. n : s[i] = "0"
      /\ t \in Seq(Chars) /\ Len(t) = n + 1 /\ \A i \in 1 .. n + 1 : t[i] = "0"
  BY ZerosAreNumerals DEF Numeral
<1>2. o \in Seq(Chars) /\ Len(o) = 1 /\ o[1] = "0" /\ "0" \in Chars
  BY DEF Chars
<1> HIDE DEF s, t
<1>3. o \o s = t
  <2> DEFINE r == o \o s
  <2>1. r \in Seq(Chars) /\ Len(r) = n + 1 /\ r[1] = "0" /\ \A i \in 1 .. n : r[i + 1] = s[i]
    BY <1>1, <1>2, Headed
  <2> HIDE DEF r, o
  <2>2. ASSUME NEW i \in 1 .. Len(r) PROVE r[i] = t[i]
    <3>1. i \in 1 .. n + 1 /\ t[i] = "0"
      BY <1>1, <2>1
    <3>2. CASE i = 1
      BY <2>1, <3>1, <3>2
    <3>3. CASE i # 1
      <4>1. i - 1 \in 1 .. n /\ (i - 1) + 1 = i
        BY <3>1, <3>3
      <4>2. r[(i - 1) + 1] = s[i - 1] /\ s[i - 1] = "0"
        BY <1>1, <2>1, <4>1
      <4> QED
        BY <3>1, <4>1, <4>2
    <3> QED
      BY <3>2, <3>3
  <2>3. r = t
    BY <1>1, <2>1, <2>2, SameSequence
  <2> QED
    BY <2>3 DEF r
<1>4. s \o o = t
  <2> DEFINE r == s \o o
  <2> HIDE DEF o
  <2>1. /\ r \in Seq(Chars) /\ Len(r) = Len(s) + Len(o) /\ \A i \in 1 .. Len(s) : r[i] = s[i]
        /\ \A i \in Nat, j \in 1 .. Len(o) : i = Len(s) + j => r[i] = o[j]
    <3>1. s \in Seq(Chars) /\ o \in Seq(Chars)
      BY <1>1, <1>2
    <3> QED
      BY <3>1, JoinIs
  <2>2. r[n + 1] = "0"
    <3> DEFINE m == n + 1
    <3>1. m \in Nat /\ 1 \in 1 .. Len(o) /\ m = Len(s) + 1
      BY <1>1, <1>2
    <3> HIDE DEF r, m
    <3>2. r[m] = o[1]
      BY <2>1, <3>1
    <3> QED
      BY <1>2, <3>2 DEF m
  <2> HIDE DEF r
  <2>3. ASSUME NEW i \in 1 .. Len(r) PROVE r[i] = t[i]
    <3>1. i \in 1 .. n + 1 /\ t[i] = "0" /\ (i \in 1 .. n \/ i = n + 1)
      BY <1>1, <1>2, <2>1
    <3> QED
      BY <1>1, <2>1, <2>2, <3>1
  <2>4. r = t
    BY <1>1, <1>2, <2>1, <2>3, SameSequence
  <2> QED
    BY <2>4 DEF r
<1> QED
  BY <1>3, <1>4 DEF s, t

\* Characters one after the other.
LEMMA PairIs ==
    ASSUME NEW a \in Chars, NEW b \in Chars
    PROVE  <<a>> \o <<b>> = <<a, b>> /\ <<a, b>> \in Seq(Chars)
<1> DEFINE s == <<b>>
           r == <<a>> \o s
           t == <<a, b>>
<1>1. t \in Seq(Chars) /\ Len(t) = 2 /\ t[1] = a /\ t[2] = b
  OBVIOUS
<1>2. s \in Seq(Chars) /\ Len(s) = 1 /\ s[1] = b
  OBVIOUS
<1> HIDE DEF s
<1>3. r \in Seq(Chars) /\ Len(r) = 2 /\ r[1] = a /\ r[2] = s[1]
  <2>1. 1 \in 1 .. Len(s) /\ 2 \in Nat /\ 2 = 1 + 1
    BY <1>2
  <2>2. /\ r \in Seq(Chars) /\ Len(r) = Len(s) + 1 /\ r[1] = a
        /\ \A i \in Nat, j \in 1 .. Len(s) : i = 1 + j => r[i] = s[j]
    BY <1>2, Headed
  <2> HIDE DEF r
  <2> QED
    BY <1>2, <2>1, <2>2
<1> HIDE DEF r, t
<1>4. ASSUME NEW i \in 1 .. Len(r) PROVE r[i] = t[i]
  <2>1. i = 1 \/ i = 2
    BY <1>3
  <2>2. r[2] = b
    BY <1>2, <1>3
  <2> QED
    BY <1>1, <1>3, <2>1, <2>2
<1>5. r = t
  BY <1>1, <1>3, <1>4, SameSequence
<1> QED
  BY <1>1, <1>5 DEF r, s, t

\* One character before two others.
LEMMA TripleIs ==
    ASSUME NEW a \in Chars, NEW b \in Chars, NEW d \in Chars
    PROVE  <<a>> \o <<b, d>> = <<a, b, d>>
<1> DEFINE s == <<b, d>>
           r == <<a>> \o s
           t == <<a, b, d>>
<1>1. t \in Seq(Chars) /\ Len(t) = 3 /\ t[1] = a /\ t[2] = b /\ t[3] = d
  OBVIOUS
<1>2. s \in Seq(Chars) /\ Len(s) = 2 /\ s[1] = b /\ s[2] = d
  OBVIOUS
<1> HIDE DEF s
<1>3. r \in Seq(Chars) /\ Len(r) = 3 /\ r[1] = a /\ r[2] = s[1] /\ r[3] = s[2]
  <2>1. 1 \in 1 .. Len(s) /\ 2 \in 1 .. Len(s) /\ 2 \in Nat /\ 3 \in Nat /\ 2 = 1 + 1 /\ 3 = 1 + 2
    BY <1>2
  <2>2. /\ r \in Seq(Chars) /\ Len(r) = Len(s) + 1 /\ r[1] = a
        /\ \A i \in Nat, j \in 1 .. Len(s) : i = 1 + j => r[i] = s[j]
    BY <1>2, Headed
  <2> HIDE DEF r
  <2> QED
    BY <1>2, <2>1, <2>2
<1> HIDE DEF r, t
<1>4. ASSUME NEW i \in 1 .. Len(r) PROVE r[i] = t[i]
  <2>1. i = 1 \/ i = 2 \/ i = 3
    BY <1>3
  <2>2. r[2] = b /\ r[3] = d
    BY <1>2, <1>3
  <2> QED
    BY <1>1, <1>3, <2>1, <2>2
<1>5. r = t
  BY <1>1, <1>3, <1>4, SameSequence
<1> QED
  BY <1>5 DEF r, s, t

\* A sequence cut in two.
LEMMA CutInTwo ==
    ASSUME NEW s \in Seq(Chars), NEW n \in Nat, n <= Len(s)
    PROVE  SubSeq(s, 1, n) \o SubSeq(s, n + 1, Len(s)) = s
<1> DEFINE a == SubSeq(s, 1, n)
           b == SubSeq(s, n + 1, Len(s))
           r == a \o b
<1>1. a \in Seq(Chars) /\ Len(a) = n /\ \A i \in 1 .. n : a[i] = s[i]
  OBVIOUS
<1>2. b \in Seq(Chars) /\ Len(b) = Len(s) - n /\ \A i \in 1 .. Len(s) - n : b[i] = s[(i + (n + 1)) - 1]
  OBVIOUS
<1> HIDE DEF a, b
<1>3. /\ r \in Seq(Chars) /\ Len(r) = Len(a) + Len(b) /\ \A i \in 1 .. Len(a) : r[i] = a[i]
      /\ \A i \in Nat, j \in 1 .. Len(b) : i = Len(a) + j => r[i] = b[j]
  BY <1>1, <1>2, JoinIs
<1> HIDE DEF r
<1>4. Len(r) = Len(s) /\ Len(s) \in Nat
  BY <1>1, <1>2, <1>3
<1>5. ASSUME NEW i \in 1 .. Len(r) PROVE r[i] = s[i]
  <2>1. CASE i <= n
    <3>1. i \in 1 .. n
      BY <2>1
    <3> QED
      BY <1>1, <1>3, <3>1
  <2>2. CASE ~(i <= n)
    <3>1. i \in Nat /\ i - n \in 1 .. Len(s) - n /\ i = n + (i - n) /\ ((i - n) + (n + 1)) - 1 = i
      BY <1>4, <2>2
    <3>2. r[i] = b[i - n]
      BY <1>1, <1>2, <1>3, <3>1
    <3>3. b[i - n] = s[((i - n) + (n + 1)) - 1]
      BY <1>2, <3>1
    <3> QED
      BY <3>1, <3>2, <3>3
  <2> QED
    BY <2>1, <2>2
<1>6. r = s
  BY <1>3, <1>4, <1>5, SameSequence
<1> QED
  BY <1>6 DEF r, a, b

\* Its first element and the others.
LEMMA HeadAndTail ==
    ASSUME NEW s \in Seq(Chars), s # << >>
    PROVE  <<s[1]>> \o Tail(s) = s
<1> DEFINE b == Tail(s)
           r == <<s[1]>> \o b
<1>1. Len(s) \in Nat /\ Len(s) >= 1 /\ s[1] \in Chars
  OBVIOUS
<1>2. b \in Seq(Chars) /\ Len(b) = Len(s) - 1 /\ \A i \in 1 .. Len(s) - 1 : b[i] = s[i + 1]
  BY <1>1
<1> HIDE DEF b
<1>3. r \in Seq(Chars) /\ Len(r) = Len(b) + 1 /\ r[1] = s[1] /\ \A i \in 1 .. Len(b) : r[i + 1] = b[i]
  BY <1>1, <1>2, Headed
<1> HIDE DEF r
<1>4. ASSUME NEW i \in 1 .. Len(r) PROVE r[i] = s[i]
  <2>1. CASE i = 1
    BY <1>3, <2>1
  <2>2. CASE i # 1
    <3>1. i - 1 \in 1 .. Len(b) /\ (i - 1) + 1 = i /\ i - 1 \in 1 .. Len(s) - 1
      BY <1>1, <1>2, <1>3, <2>2
    <3>2. r[(i - 1) + 1] = b[i - 1] /\ b[i - 1] = s[(i - 1) + 1]
      BY <1>2, <1>3, <3>1
    <3> QED
      BY <3>1, <3>2
  <2> QED
    BY <2>1, <2>2
<1>5. r = s
  BY <1>1, <1>2, <1>3, <1>4, SameSequence
<1> QED
  BY <1>5 DEF r, b

\* A number without a significant digit.
LEMMA SpellingDenotesZero ==
    ASSUME NEW c, NEW neg, NEW w, NEW f, NEW y, NEW p, NEW x, Spelt(c, neg, w, f, y, p, x),
           NEW n \in Nat, w \o f = Zeros(n)
    PROVE  ParseFloat(c) = [negative |-> neg, digits |-> << >>, exp |-> 0]
<1>1. AllDigits(c) = Zeros(n) /\ Negative(c) = neg
  <2>1. ReadsAs(c, neg, w, f, y, p, x)
    BY SpellingReads
  <2> QED
    BY <2>1, Zenon DEF ReadsAs
<1>2. Len(Zeros(n)) = n /\ \A i \in 1 .. n : Zeros(n)[i] = "0"
  BY ZerosAreNumerals
<1>3. \A i \in 1 .. Len(AllDigits(c)) : AllDigits(c)[i] = "0"
  BY <1>1, <1>2
<1>4. Significant(c) = [digits |-> << >>, lead |-> 0]
  BY <1>3, NothingSignificant
<1>5. Significant(c).digits = << >>
  BY <1>4
<1> QED
  BY <1>1, <1>5 DEF ParseFloat

\* The digits d of a number, between zeros, and where its first one stands.
LEMMA SpellingDenotes ==
    ASSUME NEW c, NEW neg, NEW w, NEW f, NEW y, NEW p, NEW x, Spelt(c, neg, w, f, y, p, x),
           NEW d, Numeral(d), d # << >>, d[1] # "0", d[Len(d)] # "0",
           NEW j \in Nat, NEW k \in Nat, w \o f = Zeros(j) \o (d \o Zeros(k))
    PROVE  ParseFloat(c) = [negative |-> neg, digits |-> d, exp |-> Len(w) - (j + 1) + Atoi(p)]
<1> DEFINE ds == AllDigits(c)
           a == Zeros(j)
           z == Zeros(k)
           b == d \o z
<1>1. ds = a \o b /\ Negative(c) = neg /\ WholeDigits(c) = Len(w) /\ Power(c) = Atoi(p)
  <2>1. ReadsAs(c, neg, w, f, y, p, x)
    BY SpellingReads
  <2> QED
    BY <2>1, Zenon DEF ReadsAs
<1>2. /\ a \in Seq(Chars) /\ Len(a) = j /\ \A i \in 1 .. j : a[i] = "0"
      /\ z \in Seq(Chars) /\ Len(z) = k /\ \A i \in 1 .. k : z[i] = "0"
  BY ZerosAreNumerals DEF Numeral
<1>3. d \in Seq(Chars) /\ Len(d) \in Nat /\ Len(d) >= 1
  <2>1. d \in Seq(Chars)
    BY DEF Numeral
  <2> QED
    BY <2>1
<1> HIDE DEF ds, a, z
<1>4. /\ b \in Seq(Chars) /\ Len(b) = Len(d) + k /\ \A i \in 1 .. Len(d) : b[i] = d[i]
      /\ \A i \in Nat, m \in 1 .. k : i = Len(d) + m => b[i] = z[m]
  <2>1. /\ b \in Seq(Chars) /\ Len(b) = Len(d) + Len(z) /\ \A i \in 1 .. Len(d) : b[i] = d[i]
        /\ \A i \in Nat, m \in 1 .. Len(z) : i = Len(d) + m => b[i] = z[m]
    BY <1>2, <1>3, JoinIs
  <2> HIDE DEF b
  <2> QED
    BY <1>2, <2>1
<1> HIDE DEF b
<1>5. /\ ds \in Seq(Chars) /\ Len(ds) = j + (Len(d) + k) /\ \A i \in 1 .. j : ds[i] = a[i]
      /\ \A i \in Nat, m \in 1 .. Len(b) : i = j + m => ds[i] = b[m]
  <2>1. /\ ds \in Seq(Chars) /\ Len(ds) = Len(a) + Len(b) /\ \A i \in 1 .. Len(a) : ds[i] = a[i]
        /\ \A i \in Nat, m \in 1 .. Len(b) : i = Len(a) + m => ds[i] = b[m]
    <3>1. a \in Seq(Chars) /\ b \in Seq(Chars) /\ ds = a \o b
      BY <1>1, <1>2, <1>4
    <3> QED
      BY <3>1, JoinIs
  <2>2. Len(ds) = j + (Len(d) + k) /\ \A i \in 1 .. j : ds[i] = a[i]
    BY <1>2, <1>4, <2>1
  <2>3. \A i \in Nat, m \in 1 .. Len(b) : i = j + m => ds[i] = b[m]
    BY <1>2, <2>1
  <2> QED
    BY <2>1, <2>2, <2>3
<1>6. \A m \in 1 .. Len(d) : ds[j + m] = d[m]
  <2> TAKE m \in 1 .. Len(d)
  <2>1. j + m \in Nat /\ m \in 1 .. Len(b) /\ m \in 1 .. Len(d)
    BY <1>3, <1>4
  <2>2. ds[j + m] = b[m]
    BY <1>5, <2>1
  <2> QED
    BY <1>4, <2>1, <2>2
<1>7. \A i \in 1 .. Len(ds) : i < j + 1 \/ i > j + Len(d) => ds[i] = "0"
  <2> TAKE i \in 1 .. Len(ds)
  <2>1. CASE i < j + 1
    <3>1. i \in 1 .. j
      BY <2>1
    <3> QED
      BY <1>2, <1>5, <3>1
  <2>2. CASE i > j + Len(d)
    <3> DEFINE m == i - (j + Len(d))
    <3>1. /\ m \in 1 .. k /\ Len(d) + m \in Nat /\ Len(d) + m \in 1 .. Len(b) /\ i = j + (Len(d) + m)
          /\ i \in Nat
      BY <1>3, <1>4, <1>5, <2>2
    <3> HIDE DEF m
    <3>2. ds[i] = b[Len(d) + m]
      BY <1>5, <3>1
    <3>3. b[Len(d) + m] = z[m] /\ z[m] = "0"
      BY <1>2, <1>4, <3>1
    <3> QED
      BY <3>2, <3>3
  <2> QED
    BY <2>1, <2>2
<1>8. ds[j + 1] # "0" /\ ds[j + Len(d)] # "0"
  <2>1. 1 \in 1 .. Len(d) /\ Len(d) \in 1 .. Len(d)
    BY <1>3
  <2> QED
    BY <1>6, <2>1
<1> DEFINE k1 == j + 1
           l1 == j + Len(d)
<1>9. k1 \in Nat /\ l1 \in Nat /\ 1 <= k1 /\ k1 <= l1 /\ l1 <= Len(ds)
  BY <1>3, <1>5
<1>10. SubSeq(ds, k1, l1) = d
  <2> DEFINE r == SubSeq(ds, k1, l1)
  <2>1. r \in Seq(Chars) /\ Len(r) = (l1 - k1) + 1 /\ \A i \in 1 .. (l1 - k1) + 1 : r[i] = ds[(i + k1) - 1]
    <3> HIDE DEF k1, l1
    <3> QED
      BY <1>5, <1>9
  <2>2. (l1 - k1) + 1 = Len(d)
    BY <1>3
  <2> HIDE DEF r
  <2>3. ASSUME NEW i \in 1 .. Len(r) PROVE r[i] = d[i]
    <3>1. i \in 1 .. Len(d) /\ (i + k1) - 1 = j + i
      BY <1>3, <2>1, <2>2
    <3> QED
      BY <1>6, <2>1, <2>2, <3>1
  <2>4. r = d
    BY <1>3, <2>1, <2>2, <2>3, SameSequence
  <2> QED
    BY <2>4 DEF r
<1>11. Significant(c) = [digits |-> d, lead |-> k1]
  <2>1. ds[k1] # "0" /\ ds[l1] # "0" /\ \A i \in 1 .. Len(ds) : i < k1 \/ i > l1 => ds[i] = "0"
    BY <1>7, <1>8
  <2> HIDE DEF k1, l1
  <2>2. Significant(c) = [digits |-> SubSeq(ds, k1, l1), lead |-> k1]
    BY <1>5, <1>9, <2>1, SignificantIs DEF ds
  <2> QED
    BY <1>10, <2>2
<1>12. Significant(c).digits = d /\ Significant(c).lead = k1
  BY <1>11
<1> QED
  BY <1>1, <1>12 DEF ParseFloat

\* A float with an exponent that is written, of a sign, its significant digits and the power
\* of ten of the first one.
Float(neg, d, e) == [negative |-> neg, digits |-> d, exp |-> e]
IsFloat(neg, d, e) ==
    /\ neg \in BOOLEAN /\ Numeral(d) /\ e \in -300 .. 300
    /\ IF d = << >> THEN e = 0 ELSE d[1] # "0" /\ d[Len(d)] # "0"

\* A token that is a float and that one.
Denotes(c, neg, d, e) == InGrammar(c) /\ ~isJSONIntegerToken(c) /\ ParseFloat(c) = Float(neg, d, e)

\* The sign and the unsigned form.
Signed(neg, b) == (IF neg THEN <<"-">> ELSE << >>) \o b

\* Significant digits.
LEMMA DigitsOfFloats ==
    ASSUME NEW neg, NEW d, NEW e, IsFloat(neg, d, e)
    PROVE  /\ neg \in BOOLEAN /\ Numeral(d) /\ d \in Seq(Chars) /\ Len(d) \in Nat /\ e \in Int
           /\ d # << >> => Len(d) >= 1 /\ d[1] # "0" /\ d[Len(d)] # "0" /\ IsDigit(d[1]) /\ d[1] \in Chars
<1>1. d \in Seq(Chars) /\ \A i \in 1 .. Len(d) : IsDigit(d[i])
  BY DEF IsFloat, Numeral
<1>2. Len(d) \in Nat /\ (d # << >> => Len(d) >= 1 /\ 1 \in 1 .. Len(d))
  BY <1>1
<1>3. d # << >> => IsDigit(d[1]) /\ d[1] \in Chars
  BY <1>1, <1>2
<1>4. e \in Int /\ neg \in BOOLEAN /\ Numeral(d) /\ (d # << >> => d[1] # "0" /\ d[Len(d)] # "0")
  BY DEF IsFloat
<1> QED
  BY <1>1, <1>2, <1>3, <1>4

\* The form of zero.
LEMMA ZeroReadsBack ==
    ASSUME NEW neg \in BOOLEAN
    PROVE  Denotes(Signed(neg, <<"0", ".", "0">>), neg, << >>, 0)
<1> DEFINE c == Signed(neg, <<"0", ".", "0">>)
           w == <<"0">>
           y == <<".">> \o w
<1>1. "0" \in Chars /\ "." \in Chars /\ IsDigit("0")
  BY NotDigits DEF Chars
<1>2. Numeral(w) /\ w # << >> /\ w \in Seq(Chars) /\ Len(w) = 1
  BY <1>1, OneDigit
<1>3. y = <<".", "0">> /\ y \in Seq(Chars) /\ y # << >>
  BY <1>1, <1>2, PairIs, Headed
<1>4. w \o y = <<"0", ".", "0">>
  BY <1>1, <1>3, TripleIs
<1>5. (w \o y) \o << >> = w \o y
  BY <1>2, <1>3, CharsJoined
<1>6. c = (IF neg THEN <<"-">> ELSE << >>) \o ((w \o y) \o << >>)
  BY <1>4, <1>5 DEF Signed
<1>7. << >> \in Seq(Chars)
  OBVIOUS
<1> HIDE DEF c
<1>8. Spelt(c, neg, w, w, y, << >>, << >>)
  BY <1>2, <1>6, <1>7 DEF Spelt
<1>9. w \o w = Zeros(2)
  <2>1. w = Zeros(1)
    <3>1. <<"0">> \o Zeros(0) = Zeros(0 + 1)
      BY OneZeroMore
    <3>2. <<"0">> \o << >> = <<"0">>
      BY <1>2, CharsJoined
    <3>3. 0 + 1 = 1
      OBVIOUS
    <3> QED
      BY <3>1, <3>2, <3>3, NoZeros
  <2>2. <<"0">> \o Zeros(1) = Zeros(1 + 1)
    BY OneZeroMore
  <2>3. 1 + 1 = 2
    OBVIOUS
  <2>4. <<"0">> \o Zeros(1) = Zeros(2)
    BY <2>2, <2>3
  <2> HIDE DEF w
  <2>5. w \o w = w \o Zeros(1) /\ w \o Zeros(1) = <<"0">> \o Zeros(1)
    BY <2>1 DEF w
  <2> QED
    BY <2>4, <2>5
<1> HIDE DEF w, y
<1>10. ParseFloat(c) = Float(neg, << >>, 0)
  BY <1>8, <1>9, SpellingDenotesZero DEF Float
<1>11. InGrammar(c)
  BY <1>2, <1>8, SpellingIsNumber
<1>12. ~isJSONIntegerToken(c)
  BY <1>3, <1>8, SpellingIsNoInteger
<1> QED
  BY <1>10, <1>11, <1>12 DEF Denotes, c

\* A float whose form has its digits, the point among them and an exponent.
LEMMA ScientificReadsBack ==
    ASSUME NEW neg, NEW d, NEW e, IsFloat(neg, d, e), d # << >>
    PROVE  Denotes(Signed(neg, Scientific(Float(neg, d, e))), neg, d, e)
<1> DEFINE p == pythonExponent(e)
           x == <<"e">> \o p
           w == <<d[1]>>
           f == IF Len(d) > 1 THEN Tail(d) ELSE << >>
           y == IF Len(d) > 1 THEN <<".">> \o f ELSE << >>
           c == Signed(neg, Scientific(Float(neg, d, e)))
<1>1. /\ neg \in BOOLEAN /\ Numeral(d) /\ d \in Seq(Chars) /\ Len(d) \in Nat /\ e \in -300 .. 300 /\ e \in Int
      /\ Len(d) >= 1 /\ d[1] # "0" /\ d[Len(d)] # "0" /\ IsDigit(d[1]) /\ d[1] \in Chars
  <2>1. e \in -300 .. 300
    BY DEF IsFloat
  <2> QED
    BY <2>1, DigitsOfFloats
<1>2. p \in Seq(Chars) /\ Atoi(p) = e /\ AllAreDigits(Magnitude(p))
  BY <1>1, ExponentReadsBack
<1>3. "." \in Chars /\ "e" \in Chars
  BY DEF Chars
<1>4. w \in Seq(Chars) /\ Len(w) = 1 /\ w # << >> /\ Numeral(w) /\ w[1] = d[1]
  BY <1>1, OneDigit
<1>5. /\ Tail(d) \in Seq(Chars) /\ Len(Tail(d)) = Len(d) - 1 /\ <<d[1]>> \o Tail(d) = d
      /\ \A i \in 1 .. Len(d) - 1 : Tail(d)[i] = d[i + 1]
  BY <1>1, HeadAndTail
<1>6. Numeral(Tail(d))
  <2>1. ASSUME NEW i \in 1 .. Len(Tail(d)) PROVE IsDigit(Tail(d)[i])
    <3>1. i + 1 \in 1 .. Len(d) /\ Tail(d)[i] = d[i + 1]
      BY <1>1, <1>5
    <3> QED
      BY <1>1, <3>1 DEF Numeral
  <2> QED
    BY <1>5, <2>1 DEF Numeral
<1>7. Numeral(f) /\ f \in Seq(Chars) /\ w \o f = d
  <2>1. CASE Len(d) > 1
    BY <1>5, <1>6, <2>1
  <2>2. CASE ~(Len(d) > 1)
    <3>1. Len(Tail(d)) = 0
      BY <1>1, <1>5, <2>2
    <3>2. Tail(d) = << >>
      <4> DEFINE t == Tail(d)
      <4>1. t \in Seq(Chars) /\ Len(t) = 0
        BY <1>5, <3>1
      <4> HIDE DEF t
      <4>2. t = << >>
        BY <4>1
      <4> QED
        BY <4>2 DEF t
    <3>3. f = Tail(d)
      BY <2>2, <3>2
    <3> QED
      BY <1>5, <1>6, <3>3
  <2> QED
    BY <2>1, <2>2
<1>8. y \in Seq(Chars) /\ ((y = << >> /\ f = << >>) \/ y = <<".">> \o f) /\ (y # << >> => f # << >>)
  <2>1. CASE Len(d) > 1
    <3>1. Len(f) >= 1 /\ y = <<".">> \o f
      BY <1>1, <1>5, <2>1
    <3> HIDE DEF f
    <3>2. f # << >>
      BY <1>7, <3>1
    <3> QED
      BY <1>3, <1>7, <3>1, <3>2, Headed
  <2>2. CASE ~(Len(d) > 1)
    BY <2>2
  <2> QED
    BY <2>1, <2>2
<1>9. x \in Seq(Chars) /\ x # << >>
  BY <1>2, <1>3, Headed
<1>10. Scientific(Float(neg, d, e)) = ((w \o y) \o <<"e">>) \o p
  BY DEF Scientific, Float
<1>11. ((w \o y) \o <<"e">>) \o p = (w \o y) \o x
  <2>1. <<"e">> \in Seq(Chars) /\ w \o y \in Seq(Chars)
    <3> HIDE DEF w, y
    <3> QED
      BY <1>3, <1>4, <1>8
  <2> HIDE DEF w, y, p
  <2> QED
    BY <1>2, <2>1, CharsJoined
<1> HIDE DEF p, w, f, y
<1>12. c = (IF neg THEN <<"-">> ELSE << >>) \o ((w \o y) \o x)
  BY <1>10, <1>11 DEF Signed
<1> HIDE DEF c
<1>13. Spelt(c, neg, w, f, y, p, x)
  BY <1>1, <1>2, <1>4, <1>7, <1>8, <1>12 DEF Spelt
<1> HIDE DEF x
<1>14. InGrammar(c)
  BY <1>2, <1>4, <1>8, <1>13, SpellingIsNumber
<1>15. ~isJSONIntegerToken(c)
  BY <1>9, <1>13, SpellingIsNoInteger
<1>16. w \o f = Zeros(0) \o (d \o Zeros(0))
  <2>1. << >> \o (d \o << >>) = d
    BY <1>1, CharsJoined
  <2> QED
    BY <1>7, <2>1, NoZeros
<1>17. ParseFloat(c) = Float(neg, d, e)
  <2>1. ParseFloat(c) = [negative |-> neg, digits |-> d, exp |-> Len(w) - (0 + 1) + Atoi(p)]
    BY <1>1, <1>13, <1>16, SpellingDenotes
  <2>2. Len(w) - (0 + 1) + Atoi(p) = e
    BY <1>1, <1>2, <1>4
  <2> QED
    BY <2>1, <2>2 DEF Float
<1> QED
  BY <1>14, <1>15, <1>17 DEF Denotes, c

\* A form without exponent, of the digits w before the point and f behind it.
LEMMA FixedReadsBack ==
    ASSUME NEW neg, NEW d, NEW e, IsFloat(neg, d, e), d # << >>,
           NEW w, NEW f, Numeral(w), w # << >>, Numeral(f), f # << >>, w[1] = "0" => Len(w) = 1,
           NEW j \in Nat, NEW k \in Nat, w \o f = Zeros(j) \o (d \o Zeros(k)), e = Len(w) - (j + 1),
           NEW b, b = w \o (<<".">> \o f)
    PROVE  Denotes(Signed(neg, b), neg, d, e)
<1> DEFINE y == <<".">> \o f
           c == Signed(neg, b)
<1>1. /\ neg \in BOOLEAN /\ Numeral(d) /\ d[1] # "0" /\ d[Len(d)] # "0"
      /\ w \in Seq(Chars) /\ f \in Seq(Chars) /\ "." \in Chars
  BY DigitsOfFloats DEF Numeral, Chars
<1>2. y \in Seq(Chars) /\ y # << >>
  BY <1>1, Headed
<1>3. (w \o y) \o << >> = w \o y
  <2> HIDE DEF y
  <2> QED
    BY <1>1, <1>2, CharsJoined
<1>4. c = (IF neg THEN <<"-">> ELSE << >>) \o ((w \o y) \o << >>)
  BY <1>3 DEF Signed
<1>5. << >> \in Seq(Chars)
  OBVIOUS
<1> HIDE DEF c
<1>6. Spelt(c, neg, w, f, y, << >>, << >>)
  BY <1>1, <1>4, <1>5 DEF Spelt
<1> HIDE DEF y
<1>7. InGrammar(c)
  BY <1>6, SpellingIsNumber
<1>8. ~isJSONIntegerToken(c)
  BY <1>2, <1>6, SpellingIsNoInteger
<1>9. ParseFloat(c) = Float(neg, d, e)
  <2>1. ParseFloat(c) = [negative |-> neg, digits |-> d, exp |-> Len(w) - (j + 1) + Atoi(<< >>)]
    BY <1>1, <1>6, SpellingDenotes
  <2>2. Len(w) - (j + 1) + Atoi(<< >>) = e
    <3>1. Len(w) \in Nat
      BY <1>1
    <3> QED
      BY <3>1, NoExponent
  <2> QED
    BY <2>1, <2>2 DEF Float
<1> QED
  BY <1>7, <1>8, <1>9 DEF Denotes, c

\* A fraction below one: zeros before the digits.
LEMMA SmallReadsBack ==
    ASSUME NEW neg, NEW d, NEW e, IsFloat(neg, d, e), d # << >>, e < 0
    PROVE  Denotes(Signed(neg, Fixed(Float(neg, d, e))), neg, d, e)
<1> DEFINE m == -e - 1
           w == <<"0">>
           z == Zeros(m)
           f == z \o d
           b == Fixed(Float(neg, d, e))
           dot == <<".">>
<1>1. /\ Numeral(d) /\ d \in Seq(Chars) /\ e \in Int /\ "0" \in Chars /\ "." \in Chars /\ IsDigit("0")
      /\ Len(d) \in Nat /\ Len(d) >= 1
  BY DigitsOfFloats, NotDigits DEF Chars
<1>2. m \in Nat /\ m + 1 = -e /\ -e \in Nat
  BY <1>1
<1>3. b = (<<"0", ".">> \o z) \o d
  BY <1>1 DEF Fixed, Float
<1> HIDE DEF m
<1>4. Numeral(z) /\ z \in Seq(Chars) /\ Len(z) = m /\ w \o z = Zeros(-e)
  <2>1. Numeral(z) /\ Len(z) = m
    BY <1>2, ZerosAreNumerals
  <2>2. w \o z = Zeros(m + 1)
    BY <1>2, OneZeroMore
  <2> QED
    BY <1>2, <2>1, <2>2 DEF Numeral
<1>5. Numeral(w) /\ w \in Seq(Chars) /\ Len(w) = 1 /\ w # << >> /\ dot \in Seq(Chars) /\ w \o dot = <<"0", ".">>
  BY <1>1, OneDigit, PairIs
<1> HIDE DEF w, z, dot, b
<1>6. Numeral(f) /\ f \in Seq(Chars) /\ f # << >>
  <2>1. Numeral(f) /\ f \in Seq(Chars) /\ Len(f) = m + Len(d)
    BY <1>1, <1>4, JoinedNumerals, JoinIs
  <2>2. Len(f) # 0
    BY <1>1, <1>2, <2>1
  <2> HIDE DEF f
  <2>3. f # << >>
    BY <2>1, <2>2
  <2> QED
    BY <2>1, <2>3
<1>7. b = w \o (dot \o f)
  <2>1. ((w \o dot) \o z) \o d = (w \o dot) \o (z \o d)
    <3> DEFINE v == w \o dot
    <3>1. v \in Seq(Chars)
      BY <1>5, CharsJoined
    <3> HIDE DEF v, f
    <3>2. z \in Seq(Chars) /\ d \in Seq(Chars)
      BY <1>1, <1>4
    <3>3. (v \o z) \o d = v \o (z \o d)
      BY <3>1, <3>2, CharsJoined
    <3> QED
      BY <3>3 DEF v
  <2>2. (w \o dot) \o f = w \o (dot \o f)
    <3> HIDE DEF f
    <3>1. w \in Seq(Chars) /\ dot \in Seq(Chars) /\ f \in Seq(Chars)
      BY <1>5, <1>6
    <3> QED
      BY <3>1, CharsJoined
  <2> QED
    BY <1>3, <1>5, <2>1, <2>2
<1>8. w \o f = Zeros(-e) \o (d \o Zeros(0))
  <2>1. (w \o z) \o d = w \o (z \o d)
    <3>1. w \in Seq(Chars) /\ z \in Seq(Chars) /\ d \in Seq(Chars)
      BY <1>1, <1>4, <1>5
    <3> QED
      BY <3>1, CharsJoined
  <2>2. d \o << >> = d
    BY <1>1, CharsJoined
  <2> QED
    BY <1>4, <2>1, <2>2, NoZeros
<1> HIDE DEF f
<1>9. e = Len(w) - (-e + 1)
  BY <1>1, <1>5
<1>10. b = w \o (<<".">> \o f)
  BY <1>7 DEF dot
<1>11. Denotes(Signed(neg, b), neg, d, e)
  <2> DEFINE j == -e
  <2>1. j \in Nat /\ w \o f = Zeros(j) \o (d \o Zeros(0)) /\ e = Len(w) - (j + 1) /\ 0 \in Nat
    BY <1>2, <1>8, <1>9
  <2> HIDE DEF j
  <2> QED
    BY <1>5, <1>6, <1>10, <2>1, FixedReadsBack
<1> QED
  BY <1>11 DEF b

\* A float without a fraction: zeros behind the digits, and a fraction nonetheless.
LEMMA IntegralReadsBack ==
    ASSUME NEW neg, NEW d, NEW e, IsFloat(neg, d, e), d # << >>, e >= 0, e >= Len(d) - 1
    PROVE  Denotes(Signed(neg, Fixed(Float(neg, d, e))), neg, d, e)
<1> DEFINE m == e - Len(d) + 1
           z == Zeros(m)
           w == d \o z
           f == <<"0">>
           b == Fixed(Float(neg, d, e))
<1>1. /\ Numeral(d) /\ d \in Seq(Chars) /\ e \in Int /\ "0" \in Chars /\ "." \in Chars /\ IsDigit("0")
      /\ Len(d) \in Nat /\ Len(d) >= 1 /\ d[1] # "0"
  BY DigitsOfFloats, NotDigits DEF Chars
<1>2. m \in Nat /\ Len(d) + m = e + 1
  BY <1>1
<1>3. b = w \o Fraction
  BY <1>1 DEF Fixed, Float
<1> HIDE DEF m
<1>4. Numeral(z) /\ z \in Seq(Chars) /\ Len(z) = m /\ z \o f = Zeros(m + 1)
  BY <1>2, ZerosAreNumerals, OneZeroMore DEF Numeral
<1>5. Numeral(f) /\ f \in Seq(Chars) /\ f # << >> /\ <<".">> \o f = Fraction
  BY <1>1, OneDigit, PairIs DEF Fraction
<1> HIDE DEF z, f, b
<1>6. Numeral(w) /\ w \in Seq(Chars) /\ Len(w) = e + 1 /\ w # << >> /\ w[1] = d[1]
  <2>1. Numeral(w)
    BY <1>1, <1>4, JoinedNumerals
  <2>2. w \in Seq(Chars) /\ Len(w) = Len(d) + Len(z) /\ \A i \in 1 .. Len(d) : w[i] = d[i]
    BY <1>1, <1>4, JoinIs
  <2> HIDE DEF w
  <2>3. Len(w) = e + 1 /\ Len(w) # 0 /\ 1 \in 1 .. Len(d)
    BY <1>1, <1>2, <1>4, <2>2
  <2>4. w # << >>
    BY <2>2, <2>3
  <2> QED
    BY <2>1, <2>2, <2>3, <2>4
<1>7. w \o f = Zeros(0) \o (d \o Zeros(m + 1))
  <2> DEFINE s == Zeros(m + 1)
  <2>1. (d \o z) \o f = d \o (z \o f)
    <3>1. d \in Seq(Chars) /\ z \in Seq(Chars) /\ f \in Seq(Chars)
      BY <1>1, <1>4, <1>5
    <3> QED
      BY <3>1, CharsJoined
  <2>2. s \in Seq(Chars)
    BY <1>2, ZerosAreNumerals DEF Numeral
  <2> HIDE DEF s
  <2>3. << >> \o (d \o s) = d \o s
    <3>1. d \o s \in Seq(Chars)
      BY <1>1, <2>2, JoinIs
    <3> DEFINE r == d \o s
    <3> HIDE DEF r
    <3>2. << >> \o r = r
      BY <3>1, CharsJoined DEF r
    <3> QED
      BY <3>2 DEF r
  <2> QED
    BY <1>4, <2>1, <2>3, NoZeros DEF s
<1> HIDE DEF w
<1>8. e = Len(w) - (0 + 1) /\ m + 1 \in Nat /\ 0 \in Nat
  BY <1>1, <1>2, <1>6
<1>9. b = w \o (<<".">> \o f)
  BY <1>3, <1>5
<1>10. Denotes(Signed(neg, b), neg, d, e)
  <2> DEFINE k == m + 1
  <2>1. k \in Nat /\ w \o f = Zeros(0) \o (d \o Zeros(k))
    BY <1>7, <1>8
  <2> HIDE DEF k
  <2> QED
    BY <1>1, <1>5, <1>6, <1>8, <1>9, <2>1, FixedReadsBack
<1> QED
  BY <1>10 DEF b

\* A float whose point stands between its digits.
LEMMA MixedReadsBack ==
    ASSUME NEW neg, NEW d, NEW e, IsFloat(neg, d, e), d # << >>, e >= 0, ~(e >= Len(d) - 1)
    PROVE  Denotes(Signed(neg, Fixed(Float(neg, d, e))), neg, d, e)
<1> DEFINE w == SubSeq(d, 1, e + 1)
           f == SubSeq(d, e + 2, Len(d))
           b == Fixed(Float(neg, d, e))
           dot == <<".">>
<1>1. /\ Numeral(d) /\ d \in Seq(Chars) /\ e \in Int /\ "." \in Chars /\ dot \in Seq(Chars)
      /\ Len(d) \in Nat /\ Len(d) >= 1 /\ d[1] # "0"
  <2>1. "." \in Chars
    BY DEF Chars
  <2>2. dot \in Seq(Chars)
    BY <2>1
  <2> QED
    BY <2>1, <2>2, DigitsOfFloats
<1>2. e + 1 \in Nat /\ e + 2 \in Nat /\ e + 1 <= Len(d) /\ e + 2 <= Len(d) /\ (e + 1) + 1 = e + 2
  BY <1>1
<1>3. b = (w \o dot) \o f
  <2> DEFINE r == Float(neg, d, e)
  <2>1. r.digits = d /\ r.exp = e
    BY DEF Float
  <2>2. ~(e < 0)
    BY <1>1
  <2> HIDE DEF r
  <2>3. Fixed(r) = (SubSeq(d, 1, e + 1) \o <<".">>) \o SubSeq(d, e + 2, Len(d))
    BY <2>1, <2>2, Zenon DEF Fixed
  <2> QED
    BY <2>3 DEF r
<1>4. Numeral(w) /\ w \in Seq(Chars) /\ Len(w) = e + 1 /\ w[1] = d[1] /\ w # << >>
  <2>1. w \in Seq(Chars) /\ Len(w) = e + 1 /\ \A i \in 1 .. e + 1 : w[i] = d[i]
    BY <1>1, <1>2
  <2>2. Numeral(w)
    <3>1. /\ 1 \in Nat /\ 1 <= 1 /\ 1 <= (e + 1) + 1
      BY <1>2
    <3> QED
      BY <1>1, <1>2, <3>1, PartsOfNumerals
  <2>3. 1 \in 1 .. e + 1 /\ e + 1 # 0
    BY <1>1
  <2> HIDE DEF w
  <2>4. w # << >>
    BY <2>1, <2>3
  <2> QED
    BY <2>1, <2>2, <2>3, <2>4
<1>5. Numeral(f) /\ f \in Seq(Chars) /\ f # << >>
  <2>1. Numeral(f) /\ Len(f) = (Len(d) - (e + 2)) + 1
    <3>1. /\ 1 <= e + 2 /\ e + 2 <= Len(d) + 1
      BY <1>1, <1>2
    <3> QED
      BY <1>1, <1>2, <3>1, PartsOfNumerals
  <2> HIDE DEF f
  <2>2. f \in Seq(Chars) /\ Len(f) # 0
    BY <1>1, <1>2, <2>1 DEF Numeral
  <2>3. f # << >>
    BY <2>2
  <2> QED
    BY <2>1, <2>2, <2>3
<1>6. w \o f = Zeros(0) \o (d \o Zeros(0))
  <2>1. w \o f = d
    <3> DEFINE n == e + 1
    <3>1. n \in Nat /\ n <= Len(d) /\ n + 1 = e + 2
      BY <1>2
    <3> HIDE DEF n
    <3>2. SubSeq(d, 1, n) \o SubSeq(d, n + 1, Len(d)) = d
      BY <1>1, <3>1, CutInTwo
    <3> QED
      BY <3>1, <3>2 DEF n
  <2>2. << >> \o (d \o << >>) = d
    BY <1>1, CharsJoined
  <2> QED
    BY <2>1, <2>2, NoZeros
<1> HIDE DEF w, f, b, dot
<1>7. b = w \o (<<".">> \o f)
  BY <1>1, <1>3, <1>4, <1>5, CharsJoined DEF dot
<1>8. e = Len(w) - (0 + 1) /\ 0 \in Nat
  BY <1>1, <1>4
<1>9. Denotes(Signed(neg, b), neg, d, e)
  BY <1>1, <1>4, <1>5, <1>6, <1>7, <1>8, FixedReadsBack
<1> QED
  BY <1>9 DEF b

\* Whatever its form, a float is read back from it.
LEMMA FloatsReadBack ==
    ASSUME NEW neg, NEW d, NEW e, IsFloat(neg, d, e)
    PROVE  Denotes(formatCanonicalFloat(Float(neg, d, e)), neg, d, e)
<1> DEFINE f == Float(neg, d, e)
<1>1. f.negative = neg /\ f.digits = d /\ f.exp = e
  BY DEF Float
<1>2. e \in Int /\ Len(d) \in Nat
  BY DigitsOfFloats
<1> HIDE DEF f
<1>3. CASE d = << >>
  <2>1. formatCanonicalFloat(f) = Signed(neg, <<"0", ".", "0">>)
    BY <1>1, <1>3 DEF formatCanonicalFloat, Signed
  <2>2. e = 0 /\ neg \in BOOLEAN
    BY <1>3 DEF IsFloat
  <2> QED
    BY <1>3, <2>1, <2>2, ZeroReadsBack DEF f
<1>4. CASE d # << >> /\ IsScientific(f)
  <2>1. formatCanonicalFloat(f) = Signed(neg, Scientific(f))
    BY <1>1, <1>4 DEF formatCanonicalFloat, Signed
  <2> QED
    BY <1>4, <2>1, ScientificReadsBack DEF f
<1>5. CASE d # << >> /\ ~IsScientific(f)
  <2>1. formatCanonicalFloat(f) = Signed(neg, Fixed(f))
    BY <1>1, <1>5 DEF formatCanonicalFloat, Signed
  <2>2. Denotes(Signed(neg, Fixed(f)), neg, d, e)
    <3>1. e < 0 \/ (e >= 0 /\ e >= Len(d) - 1) \/ (e >= 0 /\ ~(e >= Len(d) - 1))
      BY <1>2
    <3> QED
      BY <1>5, <3>1, SmallReadsBack, IntegralReadsBack, MixedReadsBack DEF f
  <2> QED
    BY <2>1, <2>2 DEF f
<1> QED
  BY <1>3, <1>4, <1>5

\* A sequence of digits is a numeral.
LEMMA DigitsAreNumerals ==
    ASSUME NEW s, IsPath(s), \A i \in 1 .. Len(s) : IsDigit(s[i])
    PROVE  Numeral(s)
<1>1. Len(s) \in Nat /\ s = [i \in 1 .. Len(s) |-> s[i]]
  BY DEF IsPath
<1>2. \A i \in 1 .. Len(s) : s[i] \in Chars
  BY DigitsHaveValues
<1>3. s \in Seq(Chars)
  BY <1>1, <1>2
<1> QED
  BY <1>3 DEF Numeral

\* What is not there.
LEMMA NothingBehind ==
    ASSUME NEW s, IsPath(s)
    PROVE  SubSeq(s, Len(s) + 2, Len(s)) = << >>
<1>1. Len(s) \in Nat
  BY DEF IsPath
<1>2. SubSeq(s, Len(s) + 2, Len(s)) = [i \in 1 .. (1 + Len(s)) - (Len(s) + 2) |-> s[(i + (Len(s) + 2)) - 1]]
  OBVIOUS
<1>3. 1 .. (1 + Len(s)) - (Len(s) + 2) = {}
  BY <1>1
<1> QED
  BY <1>2, <1>3

\* The digits of a token of the grammar.
LEMMA GrammarHasDigits ==
    ASSUME NEW t, IsPath(t), InGrammar(t)
    PROVE  t # << >> /\ Numeral(AllDigits(t))
<1>1. Len(t) \in Nat
  BY DEF IsPath
<1>2. t # << >>
  <2>1. HasShape(t)
    BY GrammarIsOneShape
  <2>2. PICK d \in Places(t), e \in Places(t) : Shape(t, d, e)
    BY <2>1 DEF HasShape
  <2>3. Offset(t) < d - 1 /\ d - 1 <= Len(t) /\ Offset(t) \in {0, 1} /\ d \in Int
    BY <2>2 DEF Shape, MantissaOn, WholeOn, Offset, Places
  <2>4. Len(t) # 0
    BY <1>1, <2>3
  <2> QED
    BY <2>4
<1> DEFINE u == BodyOf(t)
           e == Find(u, ExpLetters)
           m == SubSeq(u, 1, e - 1)
           d == Find(m, {"."})
           w == SubSeq(m, 1, d - 1)
           f == SubSeq(m, d + 1, Len(m))
<1>3. /\ AllAreDigits(w) /\ (d <= Len(m) => AllAreDigits(f))
  BY Zenon DEF InGrammar, BodyOf, ExpLetters
<1>4. Unsigned(t) = u
  BY <1>2 DEF Unsigned, Negative, BodyOf
<1>5. Mantissa(t) = m
  BY <1>4, Zenon DEF Mantissa, ExpLetters
<1>6. IsPath(u) /\ Len(u) \in Nat /\ e \in Places(u)
  <2>1. IsPath(u)
    BY BodyIs
  <2> HIDE DEF u
  <2> QED
    BY <2>1, FindIsFirst DEF IsPath
<1> HIDE DEF u, e
<1>7. IsPath(m) /\ Len(m) \in Nat
  <2>1. e - 1 \in Nat /\ 1 <= (e - 1) + 1 /\ e - 1 <= Len(u) /\ 1 \in Nat
    BY <1>6 DEF Places
  <2>2. IsPath(m)
    BY <1>6, <2>1, PartOf
  <2> QED
    BY <2>2 DEF IsPath
<1> HIDE DEF m
<1>8. d \in Nat /\ 1 <= d /\ d <= Len(m) + 1 /\ d - 1 \in Nat
  <2>1. d \in Places(m)
    BY <1>7, FindIsFirst
  <2> QED
    BY <1>7, <2>1 DEF Places
<1>9. WholeDigits(t) = d - 1 /\ AllDigits(t) = SubSeq(m, 1, d - 1) \o SubSeq(m, (d - 1) + 2, Len(m))
  BY <1>5, Zenon DEF WholeDigits, AllDigits
<1> HIDE DEF d
<1>10. (d - 1) + 2 = d + 1
  BY <1>8
<1>11. Numeral(w)
  <2>1. 1 <= (d - 1) + 1 /\ d - 1 <= Len(m) /\ 1 \in Nat
    BY <1>7, <1>8
  <2>2. IsPath(w)
    BY <1>7, <1>8, <2>1, PartOf
  <2> HIDE DEF w
  <2> QED
    BY <1>3, <2>2, DigitsAreNumerals DEF AllAreDigits
<1>12. Numeral(f)
  <2>1. CASE d <= Len(m)
    <3>1. d + 1 \in Nat /\ d + 1 >= 1 /\ d + 1 <= Len(m) + 1
      BY <1>7, <1>8, <2>1
    <3>2. IsPath(f)
      BY <1>7, <3>1, PartOf
    <3> HIDE DEF f
    <3> QED
      BY <1>3, <2>1, <3>2, DigitsAreNumerals DEF AllAreDigits
  <2>2. CASE ~(d <= Len(m))
    <3>1. d + 1 = Len(m) + 2
      BY <1>7, <1>8, <2>2
    <3>2. f = << >>
      BY <1>7, <3>1, NothingBehind
    <3>3. << >> \in Seq(Chars) /\ Len(<< >>) = 0
      OBVIOUS
    <3>4. Numeral(<< >>)
      BY <3>3 DEF Numeral
    <3> QED
      BY <3>2, <3>4
  <2> QED
    BY <2>1, <2>2
<1>13. AllDigits(t) = w \o f
  BY <1>9, <1>10
<1> HIDE DEF w, f
<1> QED
  BY <1>2, <1>11, <1>12, <1>13, JoinedNumerals

\* What is read of it is a float, if it is exact.
LEMMA ExactIsFloat ==
    ASSUME NEW t, IsPath(t), InGrammar(t), IsExact(t)
    PROVE  /\ IsFloat(ParseFloat(t).negative, ParseFloat(t).digits, ParseFloat(t).exp)
           /\ ParseFloat(t) = Float(ParseFloat(t).negative, ParseFloat(t).digits, ParseFloat(t).exp)
<1> DEFINE s == Significant(t)
           e == IF s.digits = << >> THEN 0 ELSE WholeDigits(t) - s.lead + Power(t)
<1>1. ParseFloat(t) = [negative |-> Negative(t), digits |-> s.digits, exp |-> e]
  BY DEF ParseFloat
<1>2. Numeral(s.digits) /\ (s.digits # << >> => s.digits[1] # "0" /\ s.digits[Len(s.digits)] # "0")
  BY GrammarHasDigits, SignificantDigits
<1>3. Negative(t) \in BOOLEAN
  BY DEF Negative
<1>4. s.digits = << >> => e = 0
  OBVIOUS
<1> HIDE DEF s, e
<1>5. ParseFloat(t).negative = Negative(t) /\ ParseFloat(t).digits = s.digits /\ ParseFloat(t).exp = e
  BY <1>1
<1>6. e \in -300 .. 300
  BY <1>5 DEF IsExact
<1> QED
  BY <1>1, <1>2, <1>3, <1>4, <1>5, <1>6 DEF IsFloat, Float

\* What the canonical form of t must be.
Kept(t, c) ==
    /\ InGrammar(c)
    /\ isJSONIntegerToken(c) <=> isJSONIntegerToken(t)
    /\ Canonical(c) = c
    /\ ParseFloat(c).digits = ParseFloat(t).digits
    /\ ParseFloat(c).exp = ParseFloat(t).exp
    /\ ~isJSONIntegerToken(t) => Negative(c) = Negative(t)

\* That of a float.
LEMMA FloatKept ==
    ASSUME NEW t, IsPath(t), InGrammar(t), IsExact(t), ~isJSONIntegerToken(t)
    PROVE  Kept(t, Canonical(t))
<1> DEFINE neg == ParseFloat(t).negative
           d == ParseFloat(t).digits
           e == ParseFloat(t).exp
           c == formatCanonicalFloat(Float(neg, d, e))
<1>1. IsFloat(neg, d, e) /\ ParseFloat(t) = Float(neg, d, e)
  BY ExactIsFloat
<1>2. neg = Negative(t)
  BY DEF ParseFloat
<1> HIDE DEF neg, d, e
<1>3. Canonical(t) = c
  BY <1>1 DEF Canonical
<1>4. Denotes(c, neg, d, e)
  BY <1>1, FloatsReadBack
<1> HIDE DEF c
<1>5. InGrammar(c) /\ ~isJSONIntegerToken(c) /\ ParseFloat(c) = ParseFloat(t)
  BY <1>1, <1>4 DEF Denotes
<1>6. Canonical(c) = c
  BY <1>3, <1>5 DEF Canonical
<1>7. ParseFloat(c).negative = Negative(c) /\ ParseFloat(t).negative = Negative(t)
  BY DEF ParseFloat
<1>8. Negative(c) = Negative(t)
  BY <1>5, <1>7
<1> QED
  BY <1>3, <1>5, <1>6, <1>8 DEF Kept

\* That of an integer.
LEMMA IntegerKept ==
    ASSUME NEW t, InGrammar(t), isJSONIntegerToken(t)
    PROVE  Kept(t, Canonical(t))
<1>1. CASE t # <<"-", "0">>
  <2>1. Canonical(t) = t
    BY <1>1 DEF Canonical
  <2> QED
    BY <2>1 DEF Kept
<1>2. CASE t = <<"-", "0">>
  <2> DEFINE o == <<"0">>
  <2>1. Canonical(t) = o
    BY <1>2 DEF Canonical
  <2>2. "0" \in Chars /\ "-" \in Chars /\ IsDigit("0") /\ << >> \in Seq(Chars) /\ Len(<< >>) = 0
    BY NotDigits DEF Chars
  <2>3. o \in Seq(Chars) /\ Len(o) = 1 /\ o[1] = "0" /\ o # << >> /\ Numeral(o) /\ Numeral(<< >>)
    BY <2>2, OneDigit DEF Numeral
  <2>4. o \o << >> = o /\ << >> \o o = o
    BY <2>3, CharsJoined
  <2>5. t = <<"-">> \o o
    BY <1>2, <2>2, PairIs
  <2>6. o = Zeros(1)
    <3>1. <<"0">> \o Zeros(0) = Zeros(0 + 1)
      BY OneZeroMore
    <3>2. 0 + 1 = 1
      OBVIOUS
    <3> QED
      BY <2>4, <3>1, <3>2, NoZeros
  <2> HIDE DEF o
  <2>7. Spelt(o, FALSE, o, << >>, << >>, << >>, << >>)
    BY <2>2, <2>3, <2>4 DEF Spelt
  <2>8. Spelt(t, TRUE, o, << >>, << >>, << >>, << >>)
    BY <2>2, <2>3, <2>4, <2>5 DEF Spelt
  <2>9. InGrammar(o)
    BY <2>3, <2>7, SpellingIsNumber
  <2>10. o \o << >> = Zeros(1) /\ 1 \in Nat
    BY <2>4, <2>6
  <2>11. ParseFloat(o) = [negative |-> FALSE, digits |-> << >>, exp |-> 0]
    BY <2>7, <2>10, SpellingDenotesZero
  <2>12. ParseFloat(t) = [negative |-> TRUE, digits |-> << >>, exp |-> 0]
    BY <2>8, <2>10, SpellingDenotesZero
  <2>13. isJSONIntegerToken(o)
    BY <2>3 DEF isJSONIntegerToken, Holds
  <2>14. o # <<"-", "0">>
    <3>1. Len(<<"-", "0">>) = 2
      OBVIOUS
    <3> QED
      BY <2>3, <3>1
  <2>15. Canonical(o) = o
    BY <2>13, <2>14 DEF Canonical
  <2>16. ParseFloat(o).digits = ParseFloat(t).digits /\ ParseFloat(o).exp = ParseFloat(t).exp
    BY <2>11, <2>12
  <2> QED
    BY <2>1, <2>9, <2>13, <2>15, <2>16 DEF Kept
<1> QED
  BY <1>1, <1>2

\* A token is not valid before the scan has ended.
NumberInv == ScanInv /\ (valid => part = "done")

\* So it is at first.
LEMMA NumberStarts == NumberInit => NumberInv
BY ScanStarts DEF NumberInit, NumberInv

\* And after every step.
LEMMA NumberContinues == NumberInv /\ [NumberNext]_numberVars => NumberInv'
<1> SUFFICES ASSUME NumberInv, [NumberNext]_numberVars PROVE NumberInv'
  OBVIOUS
<1>1. ScanInv'
  BY ScanContinues DEF NumberInv
<1>2. (valid => part = "done")'
  <2> USE DEF NumberInv, Consume, Skip, Answer
  <2>1. CASE Sign
    BY <2>1 DEF Sign
  <2>2. CASE IntegerPart
    BY <2>2 DEF IntegerPart
  <2>3. CASE MoreDigits("moreInt", "point")
    BY <2>3 DEF MoreDigits
  <2>4. CASE Point
    BY <2>4 DEF Point
  <2>5. CASE AtLeastOneDigit("fraction", "moreFraction")
    BY <2>5 DEF AtLeastOneDigit
  <2>6. CASE MoreDigits("moreFraction", "exp")
    BY <2>6 DEF MoreDigits
  <2>7. CASE Exponent
    BY <2>7 DEF Exponent
  <2>8. CASE ExponentSign
    BY <2>8 DEF ExponentSign
  <2>9. CASE AtLeastOneDigit("expDigits", "moreExp")
    BY <2>9 DEF AtLeastOneDigit
  <2>10. CASE MoreDigits("moreExp", "end")
    BY <2>10 DEF MoreDigits
  <2>11. CASE End
    BY <2>11 DEF End
  <2>12. CASE UNCHANGED numberVars
    BY <2>12 DEF numberVars
  <2> QED
    BY <2>1, <2>2, <2>3, <2>4, <2>5, <2>6, <2>7, <2>8, <2>9, <2>10, <2>11, <2>12 DEF NumberNext
<1> QED
  BY <1>1, <1>2 DEF NumberInv

\* The canonical form of a number (writeCanonicalValue, canonical.go:377) is a valid token of
\* the same kind for the same number, and its own canonical form, whatever the token.
THEOREM NumbersAreKept == NumberSpec => []CanonicalKeepsTheNumber
<1>1. NumberInv => CanonicalKeepsTheNumber
  <2> SUFFICES ASSUME NumberInv, valid, IsExact(token) PROVE Kept(token, Canonical(token))
    BY DEF CanonicalKeepsTheNumber, Kept
  <2>1. IsPath(token)
    BY TokensAssumption, OverOwnRange DEF NumberInv, ScanInv, IsPath
  <2>2. InGrammar(token)
    BY <2>1, GrammarIsOneShape DEF NumberInv, ScanInv
  <2> QED
    BY <2>1, <2>2, FloatKept, IntegerKept
<1> QED
  BY <1>1, NumberStarts, NumberContinues, PTL DEF NumberSpec
=============================================================================
