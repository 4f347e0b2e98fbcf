----------------------------- MODULE FortVector -----------------------------
(***************************************************************************)
(* The growing array of fort.c ("vector.c", f_vector_t), which holds the   *)
(* rows, the separators and the property entries of a table and the cells  *)
(* of a row.  A vector is its stored items and its capacity; positions     *)
(* count from 0 as in C.  An insert beyond the end leaves the positions in *)
(* between unwritten: they hold Junk, which nothing may look into.         *)
(*                                                                         *)
(* Memory is not modelled: no allocation fails.                            *)
(***************************************************************************)
EXTENDS Naturals, Sequences, SequencesExt

CONSTANT
  Junk    \* what memory holds before anything is stored there

create_vector(capacity) == [items |-> << >>, cap |-> capacity]

vector_size(v) == Len(v.items)

\* vector_at; the code answers NULL beyond the end, and every caller below
\* stays inside.
vector_at(v, i) == v.items[i + 1]

\* An allocation of the capacity asked for, if there is less.
Grown(v, capacity) == IF v.cap < capacity THEN capacity ELSE v.cap

\* Unwritten positions from the end of v up to position pos.
Gap(v, pos) == [i \in 1 .. (pos - vector_size(v)) |-> Junk]

\* The items before position pos.
Before(v, pos) == SubSeq(v.items, 1, IF pos < vector_size(v) THEN pos ELSE vector_size(v))

\* A full vector doubles.
vector_push(v, item) ==
  [items |-> Append(v.items, item),
   cap   |-> IF vector_size(v) = v.cap THEN 2 * v.cap ELSE v.cap]

vector_insert(v, item, pos) ==
  LET size == vector_size(v)
  IN  IF pos >= size
      THEN [items |-> v.items \o Gap(v, pos) \o <<item>>, cap |-> Grown(v, pos + 1)]
      ELSE [items |-> InsertAt(v.items, pos + 1, item), cap |-> Grown(v, size + 1)]

\* The part that stays, and the new vector with the part from pos on, which
\* is as large as what it holds.
vector_split(v, pos) ==
  LET trailing == SubSeq(v.items, pos + 1, vector_size(v))
  IN  [head |-> [v EXCEPT !.items = Before(v, pos)],
       tail |-> [items |-> trailing, cap |-> Len(trailing)]]

\* The items of mv take the place of those of cur from pos on, and mv gets
\* what was there.
vector_swap(cur, mv, pos) ==
  LET target == pos + vector_size(mv)
      past   == SubSeq(cur.items, target + 1, vector_size(cur))
  IN  IF vector_size(mv) = 0
      THEN [cur |-> cur, mv |-> mv]
      ELSE [cur |-> [items |-> Before(cur, pos) \o Gap(cur, pos) \o mv.items \o past,
                     cap   |-> Grown(cur, target)],
            mv  |-> [mv EXCEPT !.items = SubSeq(cur.items, pos + 1,
                               IF target < vector_size(cur) THEN target ELSE vector_size(cur))]]

vector_erase(v, i) ==
  IF i < vector_size(v) THEN [v EXCEPT !.items = RemoveAt(@, i + 1)] ELSE v

\* n items pushed one after the other.
PushTimes(v, item, n) ==
  LET pushed[k \in 0 .. n] == IF k = 0 THEN v ELSE vector_push(pushed[k - 1], item)
  IN  pushed[n]

\* Every copy of a vector starts from an empty one and pushes item by item.
PushAll(v, items) ==
  LET pushed[k \in 0 .. Len(items)] ==
        IF k = 0 THEN v ELSE vector_push(pushed[k - 1], items[k])
  IN  pushed[Len(items)]
=============================================================================
