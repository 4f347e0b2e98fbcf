----------------------------- MODULE FortLayout -----------------------------
(***************************************************************************)
(* How fort.c turns a table into text: the widths of the columns and       *)
(* heights of the rows, the size it estimates for the text and the lines   *)
(* it then prints ("table.c", the printing half of "row.c" and "cell.c",   *)
(* ft_to_string_impl).                                                     *)
(*                                                                         *)
(* A table is the record of ft_create_table below.  A printed line is kept *)
(* as the columns it takes on the screen and its bytes.                    *)
(***************************************************************************)
EXTENDS FortProperties

CONSTANT NULL

\* struct ft_table, and with it the defaults every table refers to.
create_table(style, tprops, defaults) ==
  [rows            |-> create_vector(DEFAULT_VECTOR_CAPACITY),
   separators      |-> create_vector(DEFAULT_VECTOR_CAPACITY),
   cell_properties |-> create_cell_prop_container,
   border_style    |-> style,
   tprops          |-> tprops,
   defaults        |-> defaults,
   conv_buffer     |-> NULL,
   cur_row         |-> 0,
   cur_col         |-> 0]

Rows(t) == vector_size(t.rows)
RowAt(t, r) == vector_at(t.rows, r)
Cols(t) == Max({0} \cup {columns_in_row(t.rows.items[i]) : i \in DOMAIN t.rows.items})
HasCell(t, r, c) == c < columns_in_row(RowAt(t, r))
CellAt(t, r, c) == vector_at(RowAt(t, r), c)
CellType(t, r, c) == get_row_cell_types(RowAt(t, r), c)

Prop(t, r, c, p) == get_cell_property_hierarchically(t.cell_properties, t.defaults, r, c, p)
-----------------------------------------------------------------------------
cell_vis_width(t, r, c) ==
  Max({Prop(t, r, c, "LEFT_PADDING") + Prop(t, r, c, "RIGHT_PADDING")
         + buffer_text_visible_width(CellAt(t, r, c).text),
       Prop(t, r, c, "MIN_WIDTH")})

cell_invis_codes_width(t, r, c) == TagBytes([p \in StyleProps |-> Prop(t, r, c, p)])

hint_height_cell(t, r, c) ==
  LET height == buffer_text_visible_height(CellAt(t, r, c).text)
  IN  Prop(t, r, c, "TOP_PADDING") + Prop(t, r, c, "BOTTOM_PADDING")
        + IF height = 0 THEN Prop(t, r, c, "EMPTY_STR_HEIGHT") ELSE height

\* What a column without a cell asks of its row.
NoCellHeight(t, r, c) ==
  LET height == Prop(t, r, c, "EMPTY_STR_HEIGHT")
  IN  IF height = 0 THEN 0
      ELSE height + Prop(t, r, c, "TOP_PADDING") + Prop(t, r, c, "BOTTOM_PADDING")

RowHeight(t, r) ==
  Max({0} \cup {IF HasCell(t, r, c) THEN hint_height_cell(t, r, c) ELSE NoCellHeight(t, r, c) :
                  c \in 0 .. (Cols(t) - 1)})

\* The invisible bytes of a cell count in the estimate alone (geom is
\* INTERN), not on the screen.
Invisible(t, r, c, geom) == IF geom = "INTERN" THEN cell_invis_codes_width(t, r, c) ELSE 0

\* Column c by its common cells, the widest of which counts, and the most
\* invisible bytes of any cell in it.
CommonWidth(t, c, geom) ==
  LET rows == {r \in 0 .. (Rows(t) - 1) : HasCell(t, r, c)}
  IN  Max({0} \cup {cell_vis_width(t, r, c) : r \in {q \in rows : CellType(t, q, c) = "COMMON"}})
        + Max({0} \cup {Invisible(t, r, c, geom) : r \in rows})

\* The separators within the cell are forgotten.
GroupWidth_NoBars(widths, first, last) == SumFunctionOnSet(widths, first .. last)

\* Columns first .. last, and the separators between them.
GroupWidth(widths, first, last) ==
  SumFunctionOnSet(widths, first .. last) + (last - first)

\* Columns first .. last grow in turn until they hold "hint".
Widened(widths, first, last, hint) ==
  LET lack == Max({0, hint - GroupWidth(widths, first, last)})
      n    == last - first + 1
  IN  [c \in DOMAIN widths |->
         IF c \in first .. last
         THEN widths[c] + (lack \div n) + IF c - first < lack % n THEN 1 ELSE 0
         ELSE widths[c]]

\* The masters are served column by column, each in the widths its
\* predecessors left.
col_width_arr(t, geom) ==
  LET cols   == Cols(t)
      places == cols * Rows(t)
      common == [c \in 0 .. (cols - 1) |-> CommonWidth(t, c, geom)]
      widths[k \in 0 .. places] ==
        IF k = 0 THEN common
        ELSE LET c == (k - 1) \div Rows(t)
                 r == (k - 1) % Rows(t)
             IN  IF HasCell(t, r, c) /\ CellType(t, r, c) = "MASTER"
                 THEN Widened(widths[k - 1], c, c + group_cell_number(RowAt(t, r), c) - 1,
                              cell_vis_width(t, r, c) + Invisible(t, r, c, geom))
                 ELSE widths[k - 1]
  IN  widths[places]

\* The newline at the end of a line is forgotten.
table_geometry_NoNewline(t) ==
  LET cols   == Cols(t)
      widths == col_width_arr(t, "INTERN")
  IN  [width  |-> max_border_elem_strlen(t.border_style)
                    * (1 + Max({1, cols}) + SumFunction(widths)
                         + t.tprops["LEFT_MARGIN"] + t.tprops["RIGHT_MARGIN"]),
       height |-> 1 + Max({1, Rows(t)})
                    + SumFunction([r \in 0 .. (Rows(t) - 1) |-> RowHeight(t, r)])
                    + t.tprops["TOP_MARGIN"] + t.tprops["BOTTOM_MARGIN"]]

\* The estimate: a character for every boundary and newline, and all of a
\* line as long as the longest border element.
table_geometry(t) ==
  LET cols   == Cols(t)
      widths == col_width_arr(t, "INTERN")
  IN  [width  |-> max_border_elem_strlen(t.border_style)
                    * (2 + Max({1, cols}) + SumFunction(widths)
                         + t.tprops["LEFT_MARGIN"] + t.tprops["RIGHT_MARGIN"]),
       height |-> 1 + Max({1, Rows(t)})
                    + SumFunction([r \in 0 .. (Rows(t) - 1) |-> RowHeight(t, r)])
                    + t.tprops["TOP_MARGIN"] + t.tprops["BOTTOM_MARGIN"]]
-----------------------------------------------------------------------------
\* A border character takes one column on the screen if it prints at all.
Shown(len) == IF len = 0 THEN 0 ELSE 1

IsHeader(t, r) == r \in 0 .. (Rows(t) - 1) /\ Prop(t, r, ANY, "ROW_TYPE") = Header

SepEnabled(t, i) == i < vector_size(t.separators) /\ vector_at(t.separators, i)

\* The characters of a line of rows and of separators without own ones.
CharsAt(t, header) == IF header THEN t.border_style.header ELSE t.border_style.body

\* The items of the line above row i (below the last row if there is none):
\* left, in the columns, right, and between two columns by whether the cells
\* above and below are slaves.
SeparatorItemsAt(chars, sep, enabled, first, last) ==
  LET ends  == CASE last -> [L |-> chars["BL"], R |-> chars["BR"]]
                 [] first /\ ~ last -> [L |-> chars["TL"], R |-> chars["TR"]]
                 [] OTHER -> IF enabled
                             THEN [L |-> sep["LH"], R |-> sep["RH"]]
                             ELSE [L |-> chars["LH"], R |-> chars["RH"]]
      inner == CASE enabled -> [I  |-> sep["IH"], IV |-> sep["II"], IT |-> sep["TI"],
                                IB |-> sep["BI"], II |-> sep["IH"]]
                 [] ~ enabled /\ first ->
                      [I  |-> chars["TT"], IV |-> chars["TV"], IT |-> chars["TV"],
                       IB |-> chars["TV"], II |-> chars["TT"]]
                 [] ~ enabled /\ ~ first /\ last ->
                      [I  |-> chars["BB"], IV |-> chars["BV"], IT |-> chars["BV"],
                       IB |-> chars["BV"], II |-> chars["BB"]]
                 [] OTHER -> [I  |-> chars["IH"], IV |-> chars["II"], IT |-> chars["TI"],
                              IB |-> chars["BI"], II |-> chars["IH"]]
  IN  [f \in DOMAIN inner \cup DOMAIN ends |->
         IF f \in DOMAIN inner THEN inner[f] ELSE ends[f]]

\* The junction to the left of column c > 0.
Junction(t, i, c, items) ==
  LET Slave(r) == IF r \in 0 .. (Rows(t) - 1) THEN CellType(t, r, c) = "SLAVE" ELSE TRUE
  IN  CASE Slave(i - 1) /\ Slave(i) -> items.II
        [] Slave(i - 1) /\ ~ Slave(i) -> items.IT
        [] ~ Slave(i - 1) /\ Slave(i) -> items.IB
        [] OTHER -> items.IV

Line(cols, bytes) == [cols |-> cols, bytes |-> bytes + 1]    \* and the newline

MarginWidth(t) == t.tprops["LEFT_MARGIN"] + t.tprops["RIGHT_MARGIN"]

OnScreen(items) == [f \in DOMAIN items |-> Shown(items[f])]

SeparatorLength(t, i, widths, items) ==
  MarginWidth(t) + (IF DOMAIN widths = {} THEN 0 ELSE items.L) + items.R
    + SumFunction([c \in DOMAIN widths \ {0} |-> Junction(t, i, c, items)])
    + SumFunction(widths) * items.I

\* No line at all when nothing of it would print.
SeparatorLine(t, i, widths, items) ==
  IF \A f \in {"L", "I", "IV", "R"} : items[f] = 0
  THEN << >>
  ELSE <<Line(SeparatorLength(t, i, widths, OnScreen(items)),
              SeparatorLength(t, i, widths, items))>>

print_row_separator_impl(t, i, widths) ==
  SeparatorLine(t, i, widths,
    SeparatorItemsAt(CharsAt(t, IsHeader(t, i - 1) \/ IsHeader(t, i)), t.border_style.sep,
                   SepEnabled(t, i), i = 0, i = Rows(t)))

\* Column c of row r is printed within a cell further left.
Covered(t, r, c) ==
  \E m \in 0 .. (c - 1) : HasCell(t, r, c) /\ c < m + group_cell_number(RowAt(t, r), m)

\* The last column of what is printed from column c on.
UnitEnd(t, r, c) ==
  IF HasCell(t, r, c) THEN c + group_cell_number(RowAt(t, r), c) - 1 ELSE c

\* cell_printf refuses a cell that is wider than its columns.
CellsFit(t, r, widths) ==
  \A c \in 0 .. (columns_in_row(RowAt(t, r)) - 1) :
    Covered(t, r, c) \/ cell_vis_width(t, r, c) <= GroupWidth(widths, c, UnitEnd(t, r, c))

\* The columns where something of row r is printed.
Units(t, r, widths) == {c \in DOMAIN widths : ~ Covered(t, r, c)}

RowLength(t, r, widths, units, chars) ==
  MarginWidth(t) + chars["LL"] + chars["RR"]
    + SumFunction([c \in units |-> GroupWidth(widths, c, UnitEnd(t, r, c))])
    + Max({0, Cardinality(units) - 1}) * chars["IV"]

\* The bytes of the style tags.
RowTags(t, r, units) ==
  SumFunction([c \in {d \in units : HasCell(t, r, d)} |-> cell_invis_codes_width(t, r, c)])

\* The lines of row r, all alike; every one repeats the style tags.
RowLines(t, r, widths, units, chars) ==
  [k \in 1 .. RowHeight(t, r) |->
     Line(RowLength(t, r, widths, units, OnScreen(chars)),
          RowLength(t, r, widths, units, chars) + RowTags(t, r, units))]

snprintf_row(t, r, widths) ==
  RowLines(t, r, widths, Units(t, r, widths), CharsAt(t, IsHeader(t, r)))
-----------------------------------------------------------------------------
\* The text without the margins above and below: before each row the line of
\* its separator, and one at the end.
Lines(t, widths) ==
  LET printed[i \in 0 .. Rows(t)] ==
        (IF i = 0 THEN << >> ELSE printed[i - 1] \o snprintf_row(t, i - 1, widths))
          \o print_row_separator_impl(t, i, widths)
  IN  printed[Rows(t)]

TextLines(t) == Lines(t, col_width_arr(t, "VISIBLE"))

\* Bytes of the whole text without the terminating zero.
TextBytes(t, lines, width) ==
  SumFunction([k \in DOMAIN lines |-> lines[k].bytes])
    + (t.tprops["TOP_MARGIN"] + t.tprops["BOTTOM_MARGIN"]) * width

\* The buffer doubles until it holds the estimate.
Enlarged(size, estimate) ==
  LET doubled[n \in Nat] == IF n >= estimate THEN n ELSE doubled[2 * n]
  IN  doubled[size]

\* The buffer after a conversion: made as large as the first estimate, kept
\* from then on.
ConvBuffer(t, geometry) ==
  LET estimate == geometry.width * geometry.height + 1
  IN  IF t.conv_buffer = NULL THEN estimate ELSE Enlarged(t.conv_buffer, estimate)

\* The text is NULL, or its lines: a cell that is too wide fails, or a piece
\* that does not leave room for the zero behind it, and with it the conversion.
ft_to_string_impl(t, widths, lines, geometry) ==
  IF Rows(t) = 0 THEN << >>
  ELSE IF /\ \A r \in 0 .. (Rows(t) - 1) : CellsFit(t, r, widths)
          /\ TextBytes(t, lines, geometry.width) < ConvBuffer(t, geometry)
       THEN lines ELSE NULL
=============================================================================
