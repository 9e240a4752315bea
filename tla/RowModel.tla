------------------------------- MODULE RowModel -------------------------------
(***************************************************************************)
(* RowModel (aprsx/head/models.py): rows with a key, kept sorted, and what *)
(* a Qt view makes of its signals.                                         *)
(*                                                                         *)
(* A model is a record of its rows and of the view, which knows only the   *)
(* signals: where rows were inserted, removed, moved to, and which changed.*)
(* Positions count from 1.                                                 *)
(***************************************************************************)
EXTENDS Integers, Sequences, SequencesExt

CONSTANT Below(_, _)    \* sort_key(a) > sort_key(b)

EmptyModel == [rows |-> <<>>, view |-> <<>>]

Keys(rows) == {rows[i].key: i \in DOMAIN rows}

\* _find
Find(rows, key) == CHOOSE i \in DOMAIN rows: rows[i].key = key

\* _position
Position(row, rows) ==
    CHOOSE p \in 1..(Len(rows) + 1):
        /\ \A i \in 1..(p - 1): ~Below(rows[i], row)
        /\ p \in DOMAIN rows => Below(rows[p], row)

\* Qt: the row at from lands before the one that was at dest; a move to where it is is refused.
MoveRows(view, from, dest) ==
    IF dest \in {from, from + 1} THEN view
    ELSE InsertAt(RemoveAt(view, from), IF dest > from THEN dest - 1 ELSE dest, view[from])

\* Mutant of Destination: the place in the numbering after the move.
DestinationAfter(old, new) == new

\* The row before which it lands, in the numbering from before the move.
Destination(old, new) == IF new > old THEN new + 1 ELSE new

Insert(m, row) ==
    LET new == Position(row, m.rows)
    IN  [rows |-> InsertAt(m.rows, new, row), view |-> InsertAt(m.view, new, row)]

Change(m, old, row) ==
    LET rest == RemoveAt(m.rows, old)
        new == Position(row, rest)
        moved == IF new = old THEN m.view ELSE MoveRows(m.view, old, Destination(old, new))
    IN  [rows |-> InsertAt(rest, new, row), view |-> [moved EXCEPT ![new] = row]]

Upsert(m, row) ==
    IF row.key \notin Keys(m.rows) THEN Insert(m, row)
    ELSE IF m.rows[Find(m.rows, row.key)] = row THEN m
    ELSE Change(m, Find(m.rows, row.key), row)

\* Mutant of Removed: rows that are gone stay.
NothingRemoved(m, keep) == m

\* The first half of sync: from the end, the rows whose key is not to be kept.
Dropped(keep, m, i) ==
    IF m.rows[i].key \in keep THEN m
    ELSE [rows |-> RemoveAt(m.rows, i), view |-> RemoveAt(m.view, i)]

Removed(m, keep) ==
    FoldLeft(LAMBDA acc, i: Dropped(keep, acc, i), m, Reverse([i \in DOMAIN m.rows |-> i]))

Sync(m, rows) == FoldLeft(Upsert, Removed(m, Keys(rows)), rows)

\* sorted, which is stable: each row goes to its position among those before it.
Placed(rows, row) == InsertAt(rows, Position(row, rows), row)
Ordered(rows) == FoldLeft(Placed, <<>>, rows)

Reset(rows) == [rows |-> Ordered(rows), view |-> Ordered(rows)]
===============================================================================
