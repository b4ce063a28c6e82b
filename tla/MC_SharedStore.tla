--------------------------- MODULE MC_SharedStore ---------------------------
(***************************************************************************)
(* An instance of SharedStore for TLC.                                     *)
(***************************************************************************)
EXTENDS SharedStore

CONSTANTS w1, w2, t1, t2, p1, p2, o

\* A watcher in each process, and in the second one two threads that share an
\* article object.
MCProcessOf == [w \in Writers |-> IF w = w1 THEN p1 ELSE p2]
MCObjectOf == [w \in Writers |-> IF w \in {t1, t2} THEN o ELSE NoObject]

\* Titles with quotes: one at the end, four in a row.
MCTitles == {<<"x", "'">>, <<"'", "'", "'", "'">>}
MCTitleOf == [object \in {o} |-> <<"x", "'">>]
=============================================================================
