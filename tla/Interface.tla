----------------------------- MODULE Interface -----------------------------
(***************************************************************************)
(* What the screens of a user interface have in common: a program runs one *)
(* of the three, and a screen hears of the answer of a goroutine only when *)
(* the loop of the interface takes it (tea/run.go Update, ui_results.go,   *)
(* Synchronize in walk_ui_handlers.go).                                    *)
(***************************************************************************)
EXTENDS Integers, Sequences, FiniteSets

CONSTANT Interfaces  \* the kinds tried: "terminal", "fyne", "windows"
VARIABLE ui          \* the one this program runs

\* The newest of a set of event numbers, newest first, at most limit of them: what
\* the queries of the repository answer with.
Newest(set, limit) ==
    LET above(n) == Cardinality({k \in set : k >= n})
        size == IF Cardinality(set) < limit THEN Cardinality(set) ELSE limit
    IN [i \in 1 .. size |-> CHOOSE n \in set : above(n) = i]
=============================================================================
