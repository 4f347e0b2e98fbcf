----------------------------- MODULE FortTable ------------------------------
(***************************************************************************)
(* A table of fort.c in the hands of a caller ("fort_impl.c" and the rows  *)
(* half of "table.c"): one action per function of fort.h that changes the  *)
(* table or converts it, in any order, with MaxCalls calls at most.        *)
(*                                                                         *)
(* The program goes wrong in three ways that no return value shows: it     *)
(* reads a NULL pointer ("crashed"), runs a loop of 2^32 or 2^64 steps     *)
(* ("hung") or looks into memory nothing was stored in ("undefined").      *)
(* After that nothing is known of it and no call follows.                  *)
(***************************************************************************)
EXTENDS FortLayout

CONSTANTS
  CUR,              \* FT_CUR_ROW and FT_CUR_COLUMN, which are one number
  MaxCalls,         \* bound: calls on the table
  MaxSize,          \* bound: rows and columns of the table
  FreshTables,      \* to start with: tables just created, by style, margins,
                    \* strategy and defaults,
  UsedTables,       \* and such tables after FirstRows were written
  FirstRows,
  Texts, Formats,   \* what is written
  Positions,        \* arguments of ft_set_cur_cell
  Spans,            \* arguments of ft_set_cell_span: row, column, columns
  Ranges,           \* arguments of ft_erase_range: top, left, bottom, right
  Settings,         \* arguments of ft_set_cell_prop: row, column, property, value
  TableSettings,    \* arguments of ft_set_tbl_prop
  Styles,           \* arguments of ft_set_border_style
  Nothing

ASSUME BoundsAssumption == MaxCalls \in Nat /\ MaxSize \in Nat

ASSUME TablesAssumption ==
  \A t \in FreshTables \cup UsedTables :
    /\ t = create_table(t.border_style, t.tprops, t.defaults)
    /\ IsEntry(t.defaults) /\ t.defaults.row = ANY /\ t.defaults.col = ANY
    /\ TypedValues(t.defaults.val) /\ TypedMargins(t.tprops) /\ TypedStyle(t.border_style)

ASSUME TextsAssumption ==
  /\ Texts \subseteq Words
  /\ FirstRows \in Seq(Seq(Words)) /\ FirstRows # << >>
  /\ \A fmt \in Formats : fmt.cells \in Seq(Words) \ {<< >>}

ASSUME ArgumentsAssumption ==
  /\ Positions \subseteq Nat \X Nat
  /\ \A s \in Spans : {s.row, s.col} \subseteq Nat \cup {CUR} /\ s.cols \in Nat
  /\ \A e \in Ranges : {e.top, e.left, e.bottom, e.right} \subseteq Nat \cup {CUR}
  /\ \A s \in Settings : s.prop \in CellProps /\ s.value # Nothing
                          /\ (s.prop \in Measures => s.value \in Int)
                          /\ (s.prop \in TextStyles => IsFiniteSet(s.value))
  /\ \A s \in TableSettings : s.prop \in Margins => s.value \in Int
  /\ \A s \in Styles : TypedStyle(s)

\* All sizes and positions a caller can reach fit into a size_t.
ASSUME SizesAssumption ==
  /\ MaxSize < SIZE_MODULUS /\ Len(FirstRows) + MaxCalls < SIZE_MODULUS
  /\ \A p \in Positions : p[1] + MaxCalls + 1 < SIZE_MODULUS
  /\ \A e \in Ranges : \A x \in {e.top, e.left, e.bottom, e.right} \ {CUR} :
       x + 1 < SIZE_MODULUS

ASSUME ResultsAssumption ==
  Nothing # NULL /\ NULL \notin Seq([cols : Nat, bytes : Nat])

VARIABLES
  table,
  status,     \* "fine", "crashed", "hung" or "undefined"
  printed,    \* what the last call returned, if it was a conversion
  calls,      \* number of calls
  moved,      \* history: the cursor was set or a range erased
  asked       \* history: the last value accepted for a property of a key,
              \* Nothing where all calls were refused

vars == <<table, status, printed, calls, moved, asked>>

\* Looking into any of the cells has no defined meaning.
AnyJunk(t, cells) ==
  \E p \in cells : p[1] < Rows(t) /\ HasCell(t, p[1], p[2]) /\ CellAt(t, p[1], p[2]) = Junk

AllCells(t) ==
  {p \in (0 .. (Rows(t) - 1)) \X (0 .. (Cols(t) - 1)) : HasCell(t, p[1], p[2])}

SetRow(t, r, row) == [t EXCEPT !.rows.items[r + 1] = row]

\* Rows are pushed until there is row r.
get_row_and_create_if_not_exists(t, r) ==
  [t EXCEPT !.rows = PushTimes(@, create_row, Max({0, r + 1 - vector_size(@)}))]

Strategy(t) == t.tprops["ADDING_STRATEGY"]
-----------------------------------------------------------------------------
(* The calls as functions of the table.                                    *)

\* One text into the current cell, which an inserting table creates afresh.
ft_write_impl(t, text) ==
  LET u   == get_row_and_create_if_not_exists(t, t.cur_row)
      row == RowAt(u, t.cur_row)
      new == IF Strategy(t) = "INSERT"
             THEN create_cell_in_position(row, t.cur_col)
             ELSE get_cell_and_create_if_not_exists(row, t.cur_col)
  IN  [SetRow(u, t.cur_row, SetText(new, t.cur_col, text)) EXCEPT !.cur_col = @ + 1]

\* Also at the end of the row, where nothing is left to move.
SplitsRow_AtEnd(t) ==
  Strategy(t) = "INSERT" /\ t.cur_row < Rows(t) /\ t.cur_col <= columns_in_row(RowAt(t, t.cur_row))

\* The row is split at the cursor if the table inserts and there is
\* something to the right; separators stay where they are.
SplitsRow(t) ==
  Strategy(t) = "INSERT" /\ t.cur_row < Rows(t) /\ t.cur_col < columns_in_row(RowAt(t, t.cur_row))

\* The new row is entered in the column the old one was left.
ft_ln_KeepsColumn(t) ==
  LET parts == split_row(RowAt(t, t.cur_row), t.cur_col)
      rows  == IF SplitsRow(t)
               THEN vector_insert(SetRow(t, t.cur_row, parts.head).rows, parts.tail, t.cur_row + 1)
               ELSE t.rows
  IN  [t EXCEPT !.rows = rows, !.cur_row = @ + 1]

ft_ln(t) ==
  LET parts == split_row(RowAt(t, t.cur_row), t.cur_col)
      rows  == IF SplitsRow(t)
               THEN vector_insert(SetRow(t, t.cur_row, parts.head).rows, parts.tail, t.cur_row + 1)
               ELSE t.rows
  IN  [t EXCEPT !.rows = rows, !.cur_col = 0, !.cur_row = @ + 1]

\* Texts one after the other, and rows of them with a line break between.
ft_row_write(t, texts) ==
  LET written[i \in 0 .. Len(texts)] ==
        IF i = 0 THEN t ELSE ft_write_impl(written[i - 1], texts[i])
  IN  written[Len(texts)]

ft_table_write(t, rows) ==
  LET written[i \in 0 .. (Len(rows) - 1)] ==
        IF i = 0 THEN ft_row_write(t, rows[1])
        ELSE ft_row_write(ft_ln(written[i - 1]), rows[i + 1])
  IN  written[Len(rows) - 1]

\* The cells of the format, put in by the strategy.
ft_row_printf_impl(t, fmt) ==
  LET u   == get_row_and_create_if_not_exists(t, t.cur_row)
      new == create_row_from_fmt_string(fmt)
      cur == RowAt(u, t.cur_row)
      row == IF Strategy(t) = "INSERT"
             THEN insert_row(cur, new, t.cur_col)
             ELSE swap_row(cur, new, t.cur_col).cur
  IN  [SetRow(u, t.cur_row, row) EXCEPT !.cur_col = @ + columns_in_row(new)]

\* The cells that a replacing format takes out and destroys.
Displaced(t, fmt) ==
  IF Strategy(t) = "INSERT" THEN {}
  ELSE {<<t.cur_row, t.cur_col + k>> :
          k \in 0 .. (columns_in_row(create_row_from_fmt_string(fmt)) - 1)}

\* Disabled separators fill the vector up to the current row.
ft_add_separator(t) ==
  LET filled == PushTimes(t.separators, FALSE, Max({0, t.cur_row + 1 - vector_size(t.separators)}))
  IN  [t EXCEPT !.separators = [filled EXCEPT !.items[t.cur_row + 1] = TRUE]]

ft_set_cell_prop(t, s) ==
  LET row == IF s.row = CUR THEN t.cur_row ELSE s.row
      col == IF s.col = CUR THEN t.cur_col ELSE s.col
  IN  [t EXCEPT !.cell_properties = set_cell_property(@, row, col, s.prop, s.value, t.defaults)]

\* Only the row may be the current one: the test for the column compares the
\* row, which was replaced a line earlier.
ft_set_cell_span(t, row, col, hor_span) ==
  LET u == get_row_and_create_if_not_exists(t, row)
  IN  SetRow(u, row, row_set_cell_span(RowAt(u, row), col, hor_span))

ft_copy_table(t) ==
  [create_table(t.border_style, t.tprops, t.defaults) EXCEPT
     !.rows            = PushAll(@, [i \in DOMAIN t.rows.items |-> copy_row(t.rows.items[i])]),
     !.separators      = PushAll(@, t.separators.items),
     !.cell_properties = copy_cell_properties(t.cell_properties),
     !.cur_row         = t.cur_row,
     !.cur_col         = t.cur_col]
-----------------------------------------------------------------------------
(* ft_erase_range.                                                         *)

\* CUR stands for the current row, in the place of a column too.
Resolve(t, x) == IF x = CUR THEN t.cur_row ELSE x

\* Cells are erased row by row.
ErasedRows(t, top, bottom) == {r \in 0 .. (Rows(t) - 1) : r \in top .. bottom}

CellsErased(t, top, left, bottom, right) ==
  [t EXCEPT !.rows.items = [i \in DOMAIN @ |->
     IF (i - 1) \in ErasedRows(t, top, bottom) THEN ft_row_erase_range(@[i], left, right) ELSE @[i]]]

\* The row behind the last one counts as a row.
EraseRounds_OneMore(t, top, bottom) ==
  ((IF Rows(t) < bottom THEN Rows(t) ELSE bottom) - top + 1) % SIZE_MODULUS

\* Rounds of the second loop, in size_t.
EraseRounds(t, top, bottom) ==
  LET last == (Rows(t) - 1) % SIZE_MODULUS
  IN  ((IF last < bottom THEN last ELSE bottom) - top + 1) % SIZE_MODULUS

\* The row goes and its separator stays.
EraseRound_KeepsSeparator(s) ==
  IF columns_in_row(RowAt(s.t, s.i)) > 0
  THEN [s EXCEPT !.i = @ + 1]
  ELSE [s EXCEPT !.t.rows = vector_erase(@, s.i)]

\* One round: an empty row goes, with the separator above it.
EraseRound(s) ==
  IF columns_in_row(RowAt(s.t, s.i)) > 0
  THEN [s EXCEPT !.i = @ + 1]
  ELSE [s EXCEPT !.t.rows = vector_erase(@, s.i), !.t.separators = vector_erase(@, s.i)]

\* The loop state after n rounds; a round that finds no row at i crashes.
EraseLoop(t, top, rounds) ==
  LET state[n \in 0 .. rounds] ==
        IF n = 0 THEN [t |-> t, i |-> top, crashed |-> FALSE]
        ELSE LET s == state[n - 1]
             IN  IF s.crashed \/ s.i >= Rows(s.t) THEN [s EXCEPT !.crashed = TRUE]
                 ELSE EraseRound(s)
  IN  state[rounds]
-----------------------------------------------------------------------------
(* The calls as actions.                                                   *)

\* A call is made while the program is sound and the budget lasts.
Call == status = "fine" /\ calls < MaxCalls /\ calls' = calls + 1

\* The bound on the size.
Small(t) == Rows(t) <= MaxSize /\ Cols(t) <= MaxSize

\* The call ends with t, or looks into cells without content on its way.
Becomes(t, cells) ==
  /\ printed' = Nothing
  /\ IF AnyJunk(table, cells)
     THEN status' = "undefined" /\ UNCHANGED table
     ELSE Small(t) /\ table' = t /\ UNCHANGED status

Fails(how) == status' = how /\ printed' = Nothing /\ UNCHANGED table

\* The cells a replacing write fills, in the current row and in those below.
Filled(t, texts) ==
  IF Strategy(t) = "INSERT" THEN {}
  ELSE {<<t.cur_row, t.cur_col + k>> : k \in 0 .. (Len(texts) - 1)}

FilledBelow(t, rows) ==
  IF Strategy(t) = "INSERT" THEN {}
  ELSE UNION {{<<t.cur_row + i - 1, k>> : k \in 0 .. (Len(rows[i]) - 1)} : i \in 2 .. Len(rows)}

\* ft_write, ft_nwrite and ft_row_write, and with _ln.
WriteRow(texts) ==
  /\ Call
  /\ Becomes(ft_row_write(table, texts), Filled(table, texts))
  /\ UNCHANGED <<moved, asked>>

WriteRowLn(texts) ==
  /\ Call
  /\ Becomes(ft_ln(ft_row_write(table, texts)), Filled(table, texts))
  /\ UNCHANGED <<moved, asked>>

\* ft_table_write; the rows after the first start in column 0.
WriteTable(rows) ==
  /\ Call
  /\ Becomes(ft_table_write(table, rows),
             Filled(table, Head(rows)) \cup FilledBelow(table, rows))
  /\ UNCHANGED <<moved, asked>>

Ln ==
  /\ Call
  /\ Becomes(ft_ln(table), {})
  /\ UNCHANGED <<moved, asked>>

\* A format that makes no row leaves the table alone.
Printf(fmt) ==
  /\ Call
  /\ IF RowCanBeMade(fmt)
     THEN Becomes(ft_row_printf_impl(table, fmt), Displaced(table, fmt))
     ELSE Becomes(table, {})
  /\ UNCHANGED <<moved, asked>>

PrintfLn(fmt) ==
  /\ Call
  /\ IF RowCanBeMade(fmt)
     THEN Becomes(ft_ln(ft_row_printf_impl(table, fmt)), Displaced(table, fmt))
     ELSE Becomes(table, {})
  /\ UNCHANGED <<moved, asked>>

SetCurCell(row, col) ==
  /\ Call
  /\ Becomes([table EXCEPT !.cur_row = row, !.cur_col = col], {})
  /\ moved' = TRUE
  /\ UNCHANGED asked

AddSeparator ==
  /\ Call
  /\ Becomes(ft_add_separator(table), {})
  /\ UNCHANGED <<moved, asked>>

\* The property is looked up by the same key as it is set.
SetCellProp(s) ==
  LET key == <<IF s.row = CUR THEN table.cur_row ELSE s.row,
               IF s.col = CUR THEN table.cur_col ELSE s.col, s.prop>>
      old == IF key \in DOMAIN asked THEN asked[key] ELSE Nothing
      new == IF Refused(s.prop, s.value) THEN old ELSE s.value
  IN  /\ Call
      /\ Becomes(ft_set_cell_prop(table, s), {})
      /\ asked' = [k \in DOMAIN asked \cup {key} |-> IF k = key THEN new ELSE asked[k]]
      /\ UNCHANGED moved

SetTableProp(s) ==
  /\ Call
  /\ Becomes([table EXCEPT
                !.tprops = set_entire_table_property_internal(@, s.prop, s.value)], {})
  /\ UNCHANGED <<moved, asked>>

SetBorderStyle(style) ==
  /\ Call
  /\ Becomes([table EXCEPT !.border_style = style], {})
  /\ UNCHANGED <<moved, asked>>

\* Fewer than two columns are refused; CUR for a column is a column number
\* of ten digits.
SetCellSpan(s) ==
  LET row == Resolve(table, s.row)
  IN  /\ Call
      /\ CASE s.cols < 2 -> Becomes(table, {})
           [] s.cols >= 2 /\ s.col = CUR -> Fails("hung")
           [] OTHER -> Becomes(ft_set_cell_span(table, row, s.col, s.cols),
                               {<<row, s.col + k>> : k \in 0 .. (s.cols - 1)})
      /\ UNCHANGED <<moved, asked>>

EraseRange(e) ==
  LET top    == Resolve(table, e.top)
      left   == Resolve(table, e.left)
      bottom == Resolve(table, e.bottom)
      right  == Resolve(table, e.right)
      rows   == ErasedRows(table, top, bottom)
      end    == EraseLoop(CellsErased(table, top, left, bottom, right), top,
                          EraseRounds(table, top, bottom))
  IN  /\ Call
      /\ CASE top > bottom \/ left > right -> Becomes(table, {})
           [] top <= bottom /\ left <= right
              /\ \E r \in rows : ~ EraseEnds(RowAt(table, r), left, right) -> Fails("hung")
           [] OTHER -> IF end.crashed THEN Fails("crashed")
                       ELSE Becomes(end.t, rows \X (left .. right))
      /\ moved' = TRUE
      /\ UNCHANGED asked

\* ft_copy_table; the caller goes on with the copy.
Copy ==
  /\ Call
  /\ Becomes(ft_copy_table(table), AllCells(table))
  /\ UNCHANGED <<moved, asked>>

\* ft_to_string.
Convert ==
  /\ Call
  /\ IF AnyJunk(table, AllCells(table))
     THEN Fails("undefined")
     ELSE \E widths \in {col_width_arr(table, "VISIBLE")}, geometry \in {table_geometry(table)} :
            /\ printed' = ft_to_string_impl(table, widths, Lines(table, widths), geometry)
            /\ table' = [table EXCEPT !.conv_buffer = ConvBuffer(table, geometry)]
            /\ UNCHANGED status
  /\ UNCHANGED <<moved, asked>>
-----------------------------------------------------------------------------
\* A table that was written to, with a separator below.
Begun(t) == ft_add_separator(ft_table_write(t, FirstRows))

Init ==
  /\ table \in FreshTables \cup {Begun(t) : t \in UsedTables}
  /\ Small(table)
  /\ status = "fine"
  /\ printed = Nothing
  /\ calls = 0
  /\ moved = FALSE
  /\ asked = << >>

Next ==
  \/ \E x \in Texts : WriteRow(<<x>>) \/ WriteRowLn(<<x>>)
  \/ \E x, y \in Texts : WriteTable(<< <<x, y>>, <<y>> >>)
  \/ \E f \in Formats : Printf(f) \/ PrintfLn(f)
  \/ \E p \in Positions : SetCurCell(p[1], p[2])
  \/ \E s \in Settings : SetCellProp(s)
  \/ \E s \in TableSettings : SetTableProp(s)
  \/ \E s \in Styles : SetBorderStyle(s)
  \/ \E s \in Spans : SetCellSpan(s)
  \/ \E e \in Ranges : EraseRange(e)
  \/ Ln \/ AddSeparator \/ Copy \/ Convert

Spec == Init /\ [][Next]_vars
-----------------------------------------------------------------------------
IsVector(v) == v.cap \in Nat /\ Len(v.items) \in Nat

IsCell(x) == x = Junk \/ x \in Cells

\* Every part of the table has its type: the vectors hold rows of cells with
\* a text and a type (or Junk), flags of separators and entries that are
\* unique for their key, and the cursor is a pair of numbers.
TypeOK ==
  /\ status \in {"fine", "crashed", "hung", "undefined"}
  /\ calls \in 0 .. MaxCalls /\ moved \in BOOLEAN
  /\ IsVector(table.rows) /\ IsVector(table.separators) /\ IsVector(table.cell_properties)
  /\ \A i \in DOMAIN table.rows.items :
       /\ IsVector(table.rows.items[i])
       /\ \A j \in DOMAIN table.rows.items[i].items : IsCell(table.rows.items[i].items[j])
  /\ \A i \in DOMAIN table.separators.items : table.separators.items[i] \in BOOLEAN
  /\ \A i, j \in DOMAIN table.cell_properties.items :
       LET a == table.cell_properties.items[i]
           b == table.cell_properties.items[j]
       IN  a.set \subseteq CellProps /\ (a.row = b.row /\ a.col = b.col => i = j)
  /\ table.cur_row \in Nat /\ table.cur_col \in Nat
  /\ table.conv_buffer # NULL => table.conv_buffer \in Nat \ {0}

HasRoom(v) == v.cap > 0 /\ vector_size(v) <= v.cap

\* No vector is without capacity, which vector_push could only double to
\* none (its assertion would end the program), and none holds more than it
\* has room for: neither the vectors that split_row makes exactly as large as
\* their items, nor those that change places in swap_row.
RoomToGrow ==
  /\ HasRoom(table.rows) /\ HasRoom(table.separators) /\ HasRoom(table.cell_properties)
  /\ \A i \in DOMAIN table.rows.items : HasRoom(table.rows.items[i])

\* Only a caller who sets the cursor or erases cells gets cells without
\* content: ft_printf, the only function that can leave a gap in a row, is
\* never behind the end of the row on the way of ft_write, ft_printf, ft_ln
\* and spans, whatever the strategy.
GapsNeedJump == AnyJunk(table, AllCells(table)) => moved

\* What callers asked for property p of a cell: the last value accepted for
\* the nearest of the cell, its column, its row and the table, or else the
\* default.  A call that was refused with FT_EINVAL still hides what is
\* further away, and stands for 0 (for the table: for the default).
Requested(r, c, p) ==
  LET near(k) == (IF k[2] = ANY THEN 0 ELSE 2) + (IF k[1] = ANY THEN 0 ELSE 1)
      hits == {k \in {r, ANY} \X {c, ANY} : <<k[1], k[2], p>> \in DOMAIN asked}
      key  == CHOOSE k \in hits : \A l \in hits : near(k) >= near(l)
  IN  CASE hits = {} -> table.defaults.val[p]
        [] hits # {} /\ asked[<<key[1], key[2], p>>] # Nothing -> asked[<<key[1], key[2], p>>]
        [] OTHER -> IF key = <<ANY, ANY>> THEN table.defaults.val[p] ELSE 0

\* The property that holds for a cell is the one callers asked for, in every
\* order of calls for cells, rows, columns and the table, and through copies.
NearestSetting ==
  \A p \in {s.prop : s \in Settings} \ TextStyles, r, c \in (0 .. 2) \cup {ANY} :
    Prop(table, r, c, p) = Requested(r, c, p)

\* A slave that follows no master.
Orphaned == \E p \in AllCells(table) : CellType(table, p[1], p[2]) = "SLAVE"
                                         /\ ~ Covered(table, p[1], p[2])
Spanned == \E p \in AllCells(table) : CellType(table, p[1], p[2]) = "MASTER"
Tagged == \E p \in AllCells(table) : cell_invis_codes_width(table, p[1], p[2]) > 0

\* ft_to_string prints the whole table: the size estimated beforehand is
\* enough for every line, and every cell fits its columns, unless a slave
\* lost its master (its width was never counted) or spans and style tags meet
\* (the estimate counts tags towards the width of a span, though they may be
\* in other rows).
PrintsWhole == (printed = NULL) => (Orphaned \/ (Spanned /\ Tagged))

\* Borders and bars of the same columns on every line of a style: the lines
\* between the rows have ends, junctions and at least one character wherever
\* the rows have them, or are not printed at all.
EvenItems(items, side, bar) ==
  \/ \A f \in {"L", "I", "IV", "R"} : items[f] = 0
  \/ /\ Shown(items.L) = side /\ Shown(items.R) = side /\ items.I > 0
     /\ \A f \in {"IV", "IT", "IB"} : Shown(items[f]) = bar
     /\ bar = 1 => items.II > 0

EvenStyle(style) ==
  LET side == Shown(style.body["LL"])
      bar  == Shown(style.body["IV"])
  IN  \A chars \in {style.body, style.header} :
        /\ Shown(chars["LL"]) = side /\ Shown(chars["RR"]) = side /\ Shown(chars["IV"]) = bar
        /\ \A enabled, first, last \in BOOLEAN :
             EvenItems(SeparatorItemsAt(chars, style.sep, enabled, first, last), side, bar)

\* All lines of the text, separators and rows, of one or several lines, with
\* and without spans, headers and missing cells, take the same number of
\* columns on the screen.  In a style without bars between cells a span is
\* wider than the cells it covers.
LinesAligned ==
  /\ printed \notin {NULL, Nothing}
  /\ EvenStyle(table.border_style)
  /\ Spanned \/ Orphaned => table.border_style.body["IV"] > 0
  => \A i, j \in DOMAIN printed : printed[i].cols = printed[j].cols

\* The rows that a range empties.
Emptied(top, left, bottom, right) ==
  {r \in ErasedRows(table, top, bottom) :
     \A c \in 0 .. (columns_in_row(RowAt(table, r)) - 1) : c \in left .. right}

\* Where row r, and the separator above it, is when the rows "gone" are not
\* there any more.
Place(r, gone) == r - Cardinality({g \in gone : g < r})

\* The cells of a row but for those in the columns left .. right.
Remaining(row, left, right) ==
  SubSeq(row.items, 1, left) \o SubSeq(row.items, right + 2, columns_in_row(row))

\* ft_erase_range keeps every remaining row together with the separator above
\* it: exactly the emptied rows go, and their separators with them; the other
\* rows close ranks with the cells that are not in the range.
SeparatorsFollowRows ==
  [][\A e \in Ranges :
       LET top    == Resolve(table, e.top)
           left   == Resolve(table, e.left)
           bottom == Resolve(table, e.bottom)
           right  == Resolve(table, e.right)
           gone   == Emptied(top, left, bottom, right)
       IN  EraseRange(e) /\ status' = "fine" /\ top <= bottom /\ left <= right =>
             /\ Rows(table') = Rows(table) - Cardinality(gone)
             /\ \A r \in (0 .. (Rows(table) - 1)) \ gone :
                  RowAt(table', Place(r, gone)).items =
                    IF r \in top .. bottom
                    THEN Remaining(RowAt(table, r), left, right)
                    ELSE RowAt(table, r).items
             /\ \A r \in ((0 .. Rows(table)) \cup (0 .. vector_size(table.separators))) \ gone :
                  SepEnabled(table', Place(r, gone)) <=> SepEnabled(table, r)]_vars

\* A range that is empty to begin with is refused or ignored; any other ends
\* the program exactly when the table is empty, when it starts more than one
\* row below the table, or more than one column behind one of its rows.
OutOfRange(top, left, bottom, right) ==
  /\ top <= bottom /\ left <= right
  /\ \/ Rows(table) = 0 \/ top > Rows(table)
     \/ \E r \in ErasedRows(table, top, bottom) :
          columns_in_row(RowAt(table, r)) \in 1 .. (left - 1)

\* ft_erase_range comes back from every range within the table, ragged rows
\* included, and from no other.
ErasesInRange ==
  [][\A e \in Ranges :
       EraseRange(e) =>
         (status' \in {"crashed", "hung"}
            <=> OutOfRange(Resolve(table, e.top), Resolve(table, e.left),
                           Resolve(table, e.bottom), Resolve(table, e.right)))]_vars

\* A copy prints the same text as the original.
CopyPrintsTheSame ==
  [][Copy /\ status' = "fine" => TextLines(table') = TextLines(table)]_vars
=============================================================================
