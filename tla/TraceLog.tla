------------------------------ MODULE TraceLog ------------------------------
(***************************************************************************)
(* What the trace store is to its users: one append-only log per owner     *)
(* path, batches that enter the logs whole and once per intent, and        *)
(* frontiers that mark a place of a log for ever.                          *)
(***************************************************************************)
EXTENDS Naturals, Sequences, SequencesExt

CONSTANTS
    Paths,          \* the owner paths
    WitnessPath     \* the path on which a commit may also retain witnesses

VARIABLES
    log,        \* the ids retained on each path, in order
    commits,    \* intent -> its batch: of each fact, in order, [path, place, id]
    marks       \* frontier id -> [path, place, id]

vars == <<log, commits, marks>>

Init ==
    /\ log = [p \in Paths |-> << >>]
    /\ commits = << >>
    /\ marks = << >>

\* The places by which a step continues the log of a path.
NewPlaces(p) == Len(log[p]) + 1 .. Len(log'[p])

\* Every fact of a batch stands at a new place of the path it is due on, behind
\* those that precede it there in the batch.
EntersInOrder(facts) ==
    \A k \in DOMAIN facts :
      LET f == facts[k]
      IN  /\ f.path \in Paths
          /\ f.place \in NewPlaces(f.path)
          /\ log'[f.path][f.place] = f.id
          /\ \A j \in DOMAIN facts : (j < k /\ facts[j].path = f.path) => facts[j].place < f.place

\* The new places of a path that none of the facts of a batch has.
Beside(facts, p) == {n \in NewPlaces(p) : \A k \in DOMAIN facts : facts[k].path = p => facts[k].place # n}

\* A witness is retained once: no path had its id, and no other place beside the
\* batch gets it.
Witnesses(facts) ==
    \A n \in Beside(facts, WitnessPath) :
      /\ \A p \in Paths : log'[WitnessPath][n] \notin Range(log[p])
      /\ \A m \in Beside(facts, WitnessPath) : log'[WitnessPath][m] = log'[WitnessPath][n] => m = n

\* The batch of an intent that was not committed before enters the logs: each of its
\* facts once, on the path it is due on and in order, and nothing else but witnesses.
Commit ==
    /\ \A p \in Paths : IsPrefix(log[p], log'[p])
    /\ \E i \in DOMAIN commits' :
         /\ i \notin DOMAIN commits
         /\ DOMAIN commits' = DOMAIN commits \cup {i}
         /\ \A j \in DOMAIN commits : commits'[j] = commits[j]
         /\ EntersInOrder(commits'[i])
         /\ \A p \in Paths \ {WitnessPath} : Beside(commits'[i], p) = {}
         /\ Witnesses(commits'[i])

Keep == UNCHANGED <<log, commits>>

\* A new frontier id marks a place that is in the log by the end of the step.
Mark ==
    \E f \in DOMAIN marks' :
      /\ f \notin DOMAIN marks
      /\ DOMAIN marks' = DOMAIN marks \cup {f}
      /\ \A g \in DOMAIN marks : marks'[g] = marks[g]
      /\ marks'[f].path \in Paths
      /\ marks'[f].place \in DOMAIN log'[marks'[f].path]
      /\ log'[marks'[f].path][marks'[f].place] = marks'[f].id

Next == (Commit \/ Keep) /\ (Mark \/ UNCHANGED marks)

Spec == Init /\ [][Next]_vars
=============================================================================
