------------------------------ MODULE FortRow -------------------------------
(***************************************************************************)
(* Cells and rows of fort.c ("cell.c", "row.c" and the texts of            *)
(* "string_buffer.c").  A text is the sequence of the lengths of its       *)
(* lines, so "" is <<0>>; a cell has a text and a type; a row is a vector  *)
(* of cells.  A cell that spans several columns is a MASTER cell followed  *)
(* by SLAVE cells, and nothing but their neighbourhood ties them together. *)
(*                                                                         *)
(* Texts of char are modelled; the wchar_t and UTF-8 variants differ in    *)
(* the size of a character.                                                *)
(***************************************************************************)
EXTENDS FortVector, FiniteSetsExt, Integers

CONSTANTS
  DEFAULT_VECTOR_CAPACITY,    \* of a new vector
  SIZE_MODULUS                \* size_t counts modulo this

ASSUME CapacityAssumption == DEFAULT_VECTOR_CAPACITY \in Nat \ {0}
ASSUME ModulusAssumption == SIZE_MODULUS \in Nat \ {0}

Words == Seq(Nat) \ {<< >>}

EmptyText == <<0>>

\* The length of the string: the lines and the newlines between them.
buf_str_len(text) == FoldLeft(LAMBDA sum, w : sum + w, 0, text) + Len(text) - 1

buffer_text_visible_height(text) == IF buf_str_len(text) = 0 THEN 0 ELSE Len(text)

buffer_text_visible_width(text) == Max({text[i] : i \in 1 .. Len(text)})

\* Two texts with the column separator between them.
Joined(a, b) == Front(a) \o <<Last(a) + 1 + Head(b)>> \o Tail(b)

\* Texts joined one after the other.
AllJoined(texts) ==
  LET joined[i \in 0 .. (Len(texts) - 1)] ==
        IF i = 0 THEN texts[1] ELSE Joined(joined[i - 1], texts[i + 1])
  IN  joined[Len(texts) - 1]
-----------------------------------------------------------------------------
Cells == [text : Words, type : {"COMMON", "MASTER", "SLAVE"}]

ASSUME JunkAssumption == Junk \notin Cells

create_cell == [text |-> EmptyText, type |-> "COMMON"]

fill_cell_from_string(cell, text) == [cell EXCEPT !.text = text]

create_row == create_vector(DEFAULT_VECTOR_CAPACITY)

columns_in_row(row) == vector_size(row)

split_row(row, pos) == vector_split(row, pos)

\* Empty cells are pushed until the row has column col.
get_cell_and_create_if_not_exists(row, col) ==
  PushTimes(row, create_cell, Max({0, col + 1 - columns_in_row(row)}))

\* The new cell pushes the others to the right.
create_cell_in_position(row, col) == vector_insert(row, create_cell, col)

SetText(row, col, text) ==
  [row EXCEPT !.items[col + 1] = fill_cell_from_string(@, text)]

\* The type of a column; where the row has no cell it counts as common.
get_row_cell_types(row, col) ==
  IF col < columns_in_row(row) THEN vector_at(row, col).type ELSE "COMMON"

\* How many columns the cell covers.
group_cell_number(row, col) ==
  IF vector_at(row, col).type # "MASTER"
  THEN 1
  ELSE Max({n \in 1 .. (columns_in_row(row) - col) :
              \A k \in 1 .. (n - 1) : vector_at(row, col + k).type = "SLAVE"})

\* Cell col becomes a master and the next hor_span - 1 its slaves, created
\* where they are missing.
row_set_cell_span(row, col, hor_span) ==
  LET filled == get_cell_and_create_if_not_exists(row, col + hor_span - 1)
  IN  [filled EXCEPT !.items = [i \in DOMAIN @ |->
         IF i = col + 1 THEN [@[i] EXCEPT !.type = "MASTER"]
         ELSE IF i \in (col + 2) .. (col + hor_span) THEN [@[i] EXCEPT !.type = "SLAVE"]
         ELSE @[i]]]
-----------------------------------------------------------------------------
\* A row made from a format: "origin" columns in the format string, "cells"
\* the columns of the printed string.  Arguments may hold the separator
\* character themselves: then a format of one column makes one cell and any
\* other is refused.
RowCanBeMade(fmt) == Len(fmt.cells) = fmt.origin \/ fmt.origin = 1

create_row_from_fmt_string(fmt) ==
  LET texts == IF Len(fmt.cells) = fmt.origin
               THEN fmt.cells
               ELSE <<AllJoined(fmt.cells)>>
  IN  PushAll(create_row, [i \in DOMAIN texts |-> fill_cell_from_string(create_cell, texts[i])])

\* INSERT: missing cells are created, the new ones move the rest right.
insert_row(cur, ins, pos) ==
  LET padded == PushTimes(cur, create_cell, Max({0, pos - columns_in_row(cur)}))
      inserted[i \in 0 .. columns_in_row(ins)] ==
        IF i = 0 THEN padded ELSE vector_insert(inserted[i - 1], ins.items[i], pos + i - 1)
  IN  inserted[columns_in_row(ins)]

\* REPLACE: the new cells take the place of what is there, and nothing
\* creates the cells between the end of the row and pos.
swap_row(cur, ins, pos) ==
  IF columns_in_row(cur) = 0 /\ pos = 0
  THEN [cur |-> ins, mv |-> cur]
  ELSE vector_swap(cur, ins, pos)

\* The copies are common cells.
copy_row_AllCommon(row) ==
  PushAll(create_row, [i \in DOMAIN row.items |-> [row.items[i] EXCEPT !.type = "COMMON"]])

copy_row(row) == PushAll(create_row, row.items)

\* The number of cells the erasing loop takes away, in size_t: from a row
\* that ends before "left" it is huge.
EraseCount(row, left, right) ==
  (Min({columns_in_row(row) - 1, right}) - left + 1) % SIZE_MODULUS

\* The loop ends in reasonable time.
EraseEnds(row, left, right) ==
  columns_in_row(row) = 0 \/ EraseCount(row, left, right) <= columns_in_row(row)

ft_row_erase_range(row, left, right) ==
  LET erased[n \in 0 .. EraseCount(row, left, right)] ==
        IF n = 0 THEN row ELSE vector_erase(erased[n - 1], left)
  IN  IF columns_in_row(row) = 0 THEN row ELSE erased[EraseCount(row, left, right)]
=============================================================================
