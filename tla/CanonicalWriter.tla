-------------------------- MODULE CanonicalWriter --------------------------
(***************************************************************************)
(* writeCanonicalValue: one walk over a Go value in memory, which may      *)
(* share parts and may contain itself, that yields the bytes a digest is   *)
(* taken over, or an error.  The recursion is a stack of frames here; the  *)
(* deferred leaveContainer calls run when a frame is left, be it by its    *)
(* end, by an error or by a panic.                                         *)
(*                                                                         *)
(* A value is a graph of nodes.  How strings and numbers are written is in *)
(* CanonicalStrings and CanonicalNumbers; here a scalar has a text or has  *)
(* not.  Keys are numbers, ordered as their bytes are.                     *)
(***************************************************************************)
EXTENDS Integers, Sequences, FiniteSets

CONSTANTS
    Nodes,
    Root,
    Keys,           \* keys of maps, and indices
    BadKeys,        \* those that are not valid UTF-8
    Heaps,          \* the memories in which values are written
    MaxDepth,       \* frames that fit on the goroutine's stack
    NoNode

Kinds == {"scalar", "nil", "unsupported", "slice", "array", "map", "namedMap", "pointer"}

ASSUME HeapAssumption ==
    /\ MaxDepth \in Nat
    /\ Root \in Nodes /\ NoNode \notin Nodes
    /\ Keys \subseteq Nat /\ IsFiniteSet(Keys) /\ BadKeys \subseteq Keys
    /\ \A h \in Heaps : DOMAIN h = Nodes
    /\ \A h \in Heaps, n \in Nodes :
         /\ h[n].kind \in Kinds
         /\ h[n].addr \in Nat
         /\ DOMAIN h[n].items \subseteq Keys
         /\ \A k \in DOMAIN h[n].items : h[n].items[k] \in Nodes
         /\ h[n].kind = "pointer" => DOMAIN h[n].items = {1}
         /\ h[n].kind \in {"scalar", "nil", "unsupported"} => DOMAIN h[n].items = {}

VARIABLES
    heap,
    at,             \* the value being dispatched on; NoNode between two items
    stack,          \* the values being written: [node, todo, first]
    seen,
    out,            \* tokens written
    status          \* "writing", "ok", "error", "panic" or "overflow"

vars == <<heap, at, stack, seen, out, status>>

Init ==
    /\ heap \in Heaps
    /\ at = Root
    /\ stack = << >>
    /\ seen = {}
    /\ out = << >>
    /\ status = "writing"

Token(t) == <<t, 0>>
KeyToken(k) == <<"key", k>>
ScalarToken(n) == <<"scalar", n>>

IsMap(n) == heap[n].kind \in {"map", "namedMap"}
IsContainer(n) == IsMap(n) \/ heap[n].kind \in {"slice", "array"}
Opening(n) == Token(IF IsMap(n) THEN "{" ELSE "[")
Closing(n) == Token(IF IsMap(n) THEN "}" ELSE "]")

-----------------------------------------------------------------------------
(***************************************************************************)
(* enterContainer and leaveContainer.  An array has no address of its own. *)
(***************************************************************************)
Tracked(n) == IsContainer(n) /\ heap[n].kind # "array" /\ heap[n].addr # 0
Visit(n) == <<IsMap(n), heap[n].addr>>

Circular_MapsOnly(n) == Tracked(n) /\ IsMap(n) /\ Visit(n) \in seen
Circular(n) == Tracked(n) /\ Visit(n) \in seen

Entered(n) == IF Tracked(n) THEN seen \cup {Visit(n)} ELSE seen

Left_Never(n) == seen
Left(n) == IF Tracked(n) THEN seen \ {Visit(n)} ELSE seen

\* The order of the items: a range over a map yields its keys in any order, and they are
\* sorted then.
Listings(S) == {s \in [1 .. Cardinality(S) -> S] : \A i, j \in DOMAIN s : i # j => s[i] # s[j]}
Orders_AsYielded(n) == Listings(DOMAIN heap[n].items)
Orders(n) == {s \in Listings(DOMAIN heap[n].items) : \A i, j \in DOMAIN s : i < j => s[i] < s[j]}

-----------------------------------------------------------------------------
\* An error or a panic unwinds all frames, and nothing that was written is returned.
Unwind(outcome) ==
    /\ status' = outcome
    /\ at' = NoNode
    /\ stack' = << >>
    /\ seen' = {}
    /\ out' = << >>
    /\ UNCHANGED heap

WriteScalar ==
    /\ status = "writing"
    /\ at # NoNode
    /\ heap[at].kind \in {"scalar", "nil"}
    /\ out' = Append(out, IF heap[at].kind = "nil" THEN Token("null") ELSE ScalarToken(at))
    /\ at' = NoNode
    /\ UNCHANGED <<heap, stack, seen, status>>

\* NaN, an invalid string, a struct, a func: no representation.
RejectValue ==
    /\ status = "writing"
    /\ at # NoNode
    /\ heap[at].kind = "unsupported"
    /\ Unwind("error")

\* A value whose frame no longer fits ends the process.
Push(n, order) ==
    stack' = Append(stack, [node |-> n, todo |-> order, first |-> TRUE])

\* A pointer is followed; a nil one is a "nil" node.
FollowPointer ==
    /\ status = "writing"
    /\ at # NoNode
    /\ heap[at].kind = "pointer"
    /\ IF Len(stack) = MaxDepth
       THEN Unwind("overflow")
       ELSE /\ Push(at, << >>)
            /\ at' = heap[at].items[1]
            /\ UNCHANGED <<heap, seen, out, status>>

EnterContainer ==
    /\ status = "writing"
    /\ at # NoNode
    /\ IsContainer(at)
    /\ IF Circular(at) THEN Unwind("error")
       ELSE IF Len(stack) = MaxDepth THEN Unwind("overflow")
       ELSE /\ seen' = Entered(at)
            /\ \E order \in Orders(at) : Push(at, order)
            /\ out' = Append(out, Opening(at))
            /\ at' = NoNode
            /\ UNCHANGED <<heap, status>>

-----------------------------------------------------------------------------
Top == stack[Len(stack)]

Comma == IF Top.first THEN << >> ELSE <<Token(",")>>
KeyOf(n, k) == IF IsMap(n) THEN <<KeyToken(k), Token(":")>> ELSE << >>

WritesKey(n, k) == IsMap(n) => k \notin BadKeys

\* MapIndex of a string panics on a map whose key type is a named string type.
IndexPanics(n) == heap[n].kind = "namedMap"

WriteItem ==
    /\ status = "writing"
    /\ at = NoNode
    /\ stack # << >>
    /\ Top.todo # << >>
    /\ LET n == Top.node  k == Head(Top.todo) IN
         IF ~WritesKey(n, k) THEN Unwind("error")
         ELSE IF IndexPanics(n) THEN Unwind("panic")
         ELSE /\ out' = out \o Comma \o KeyOf(n, k)
              /\ at' = heap[n].items[k]
              /\ stack' = [stack EXCEPT ![Len(stack)] =
                             [node |-> n, todo |-> Tail(Top.todo), first |-> FALSE]]
              /\ UNCHANGED <<heap, seen, status>>

\* The end of a container, or of a pointer's value.
LeaveContainer ==
    /\ status = "writing"
    /\ at = NoNode
    /\ stack # << >>
    /\ Top.todo = << >>
    /\ out' = IF IsContainer(Top.node) THEN Append(out, Closing(Top.node)) ELSE out
    /\ seen' = Left(Top.node)
    /\ stack' = SubSeq(stack, 1, Len(stack) - 1)
    /\ UNCHANGED <<heap, at, status>>

Return ==
    /\ status = "writing"
    /\ at = NoNode
    /\ stack = << >>
    /\ status' = "ok"
    /\ UNCHANGED <<heap, at, stack, seen, out>>

Next ==
    \/ WriteScalar
    \/ RejectValue
    \/ FollowPointer
    \/ EnterContainer
    \/ WriteItem
    \/ LeaveContainer
    \/ Return

Spec == Init /\ [][Next]_vars
=============================================================================
