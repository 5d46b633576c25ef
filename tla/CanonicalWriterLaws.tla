------------------------ MODULE CanonicalWriterLaws ------------------------
(***************************************************************************)
(* What the canonical form of a value is, and what the walk promises.      *)
(***************************************************************************)
EXTENDS CanonicalWriter, SequencesExt

\* The stack has room for the longest path there is without a cycle: every value that is
\* tracked once, and before, between and after them every other value once.
ASSUME StackAssumption ==
    /\ IsFiniteSet(Nodes)
    /\ \A t \in 0 .. Cardinality(Nodes) : t + (t + 1) * (Cardinality(Nodes) - t) <= MaxDepth

ItemsOf(n) == {heap[n].items[k] : k \in DOMAIN heap[n].items}

Closed(S) == \A n \in S : ItemsOf(n) \subseteq S
Reachable(n) == {m \in Nodes : \A S \in SUBSET Nodes : n \in S /\ Closed(S) => m \in S}

IsInside(m, n) == \E i \in ItemsOf(n) : m \in Reachable(i)

IsCircular == \E n \in Reachable(Root) : IsInside(n, n)

\* One slice inside another that begins at the same address, s[1] = s[:1] for one.
HoldsItsArray ==
    \E n \in Reachable(Root), m \in Nodes :
      m # n /\ IsInside(m, n) /\ Tracked(m) /\ Tracked(n) /\ Visit(m) = Visit(n)

\* A cycle of arrays and pointers, which have no address that is tracked.
HasUntrackedCycle ==
    \E S \in SUBSET {n \in Reachable(Root) : ~Tracked(n)} :
      S # {} /\ \A n \in S : ItemsOf(n) \cap S # {}

IsRepresentable ==
    \A n \in Reachable(Root) :
      /\ heap[n].kind # "unsupported"
      /\ IsMap(n) => DOMAIN heap[n].items \cap BadKeys = {}

OrderOf(n) == CHOOSE s \in Orders(n) : TRUE

\* What is written for the item at a place, before its value.
Lead(n, i) == (IF i = 1 THEN << >> ELSE <<Token(",")>>) \o KeyOf(n, OrderOf(n)[i])

\* The text of a value, its items in the order of their keys.  It has one if no value
\* contains itself.
Text[n \in Reachable(Root)] ==
    LET items == FlattenSeq([i \in DOMAIN OrderOf(n) |->
                               Lead(n, i) \o Text[heap[n].items[OrderOf(n)[i]]]])
    IN  IF IsContainer(n) THEN <<Opening(n)>> \o items \o <<Closing(n)>>
        ELSE IF heap[n].kind = "pointer" THEN items
        ELSE <<IF heap[n].kind = "nil" THEN Token("null") ELSE ScalarToken(n)>>

TypeOK ==
    /\ at \in Nodes \cup {NoNode}
    /\ \A i \in 1 .. Len(stack) :
         /\ stack[i].node \in Nodes
         /\ stack[i].todo \in Seq(DOMAIN heap[stack[i].node].items)
         /\ stack[i].first \in BOOLEAN
    /\ seen \subseteq BOOLEAN \X Nat
    /\ status \in {"writing", "ok", "error", "panic", "overflow"}
    /\ status # "writing" => at = NoNode /\ stack = << >>

\* canonical.go:346: seen holds the ancestors of the value being written and nothing that
\* was written before it, and no container is its own ancestor.
SeenAreAncestors ==
    LET visited == {i \in 1 .. Len(stack) : Tracked(stack[i].node)} IN
      /\ seen = {Visit(stack[i].node) : i \in visited}
      /\ \A i, j \in visited : i # j => Visit(stack[i].node) # Visit(stack[j].node)

\* canonical.go:32 and workspace_state.go:20: what is returned is the value's one text, in
\* which every part occurs as often as it is reachable, whatever order maps were ranged
\* over in, and never for a value that has none.
WrittenAsTheirText ==
    status = "ok" => /\ ~IsCircular
                     /\ IsRepresentable
                     /\ out = Text[Root]

\* canonical.go:349 and :252: a value reachable by two paths is not a cycle, so only a value
\* that contains itself, a part without a representation, or a slice inside another one of
\* the same array is refused; and one that contains itself is refused before its frames
\* outgrow a stack that has room for the longest path, unless the cycle is of arrays and
\* pointers alone.
OnlyCyclesAreRefused ==
    /\ status = "error" => IsCircular \/ ~IsRepresentable \/ HoldsItsArray
    /\ status = "overflow" => HasUntrackedCycle
=============================================================================
