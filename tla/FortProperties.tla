--------------------------- MODULE FortProperties ---------------------------
(***************************************************************************)
(* Properties of tables and cells in fort.c ("properties.c").  A table     *)
(* keeps a vector of entries, one per (row, column) that was ever named,   *)
(* where either may be ANY; an entry says which properties were set for it *)
(* and their values.  What holds for a cell is looked up for the cell, its *)
(* column, its row and the whole table, in this order, and then in the     *)
(* defaults.                                                               *)
(*                                                                         *)
(* Alignment only moves blanks within a cell and is left out, and of the   *)
(* border characters only their length in bytes is kept: 0 for one that    *)
(* does not print, 1 for ASCII, 3 for the box drawing characters.          *)
(***************************************************************************)
EXTENDS FortRow

CONSTANT ANY    \* FT_ANY_ROW and FT_ANY_COLUMN

\* Properties that must not be negative.
Measures == {"MIN_WIDTH", "TOP_PADDING", "BOTTOM_PADDING", "LEFT_PADDING", "RIGHT_PADDING",
             "EMPTY_STR_HEIGHT"}

TextStyles == {"CELL_TEXT_STYLE", "CONT_TEXT_STYLE"}

CellProps == Measures \cup TextStyles
               \cup {"ROW_TYPE", "CONT_FG_COLOR", "CELL_BG_COLOR", "CONT_BG_COLOR"}

Common == 0    \* FT_ROW_COMMON
Header == 1    \* FT_ROW_HEADER

\* Text styles are sets of flags, of which "DEFAULT" is one.
g_default_cell_properties ==
  [row |-> ANY, col |-> ANY, set |-> CellProps \ {"ROW_TYPE"},
   val |-> [p \in CellProps |->
              CASE p \in TextStyles -> {"DEFAULT"}
                [] p \in {"LEFT_PADDING", "RIGHT_PADDING", "EMPTY_STR_HEIGHT"} -> 1
                [] OTHER -> 0]]

\* memset(&opt, 0, ..)
BlankEntry(row, col) ==
  [row |-> row, col |-> col, set |-> {},
   val |-> [p \in CellProps |-> IF p \in TextStyles THEN {} ELSE 0]]

IsEntry(opt) ==
  /\ opt = [row |-> opt.row, col |-> opt.col, set |-> opt.set, val |-> opt.val]
  /\ opt.set \subseteq CellProps
  /\ opt.val = [p \in CellProps |-> opt.val[p]]

\* The measures are numbers, the text styles sets of flags.
TypedValues(val) ==
  /\ \A p \in Measures : val[p] \in Nat
  /\ \A p \in TextStyles : IsFiniteSet(val[p])

create_cell_prop_container == create_vector(DEFAULT_VECTOR_CAPACITY)

\* Where the entry for (row, col) is; there is one at most.
EntriesFor(cont, row, col) ==
  {i \in DOMAIN cont.items : cont.items[i].row = row /\ cont.items[i].col = col}

\* An entry is made without a look for the old one.
get_cell_prop_and_create_AlwaysNew(cont, row, col, defaults) ==
  vector_push(cont, IF row = ANY /\ col = ANY THEN defaults ELSE BlankEntry(row, col))

get_cell_prop_and_create_if_not_exists(cont, row, col, defaults) ==
  IF EntriesFor(cont, row, col) # {}
  THEN cont
  ELSE vector_push(cont, IF row = ANY /\ col = ANY THEN defaults ELSE BlankEntry(row, col))

\* The entry says the property is set before the value is looked at.
set_cell_property_impl(opt, property, value) ==
  [opt EXCEPT
     !.set = @ \cup {property},
     !.val[property] =
        CASE property \in Measures /\ value < 0 -> @
          [] property \in TextStyles /\ value # {"DEFAULT"} -> @ \cup value
          [] OTHER -> value]

\* The call answers FT_EINVAL.
Refused(property, value) == property \in Measures /\ value < 0

set_cell_property(cont, row, col, property, value, defaults) ==
  LET found == get_cell_prop_and_create_if_not_exists(cont, row, col, defaults)
      i     == Min(EntriesFor(found, row, col))
  IN  [found EXCEPT !.items[i] = set_cell_property_impl(@, property, value)]

\* An entry for the key has the property.
Sets(cont, key, property) ==
  \E i \in EntriesFor(cont, key[1], key[2]) : property \in cont.items[i].set

EntryValue(cont, key, property) ==
  cont.items[Min(EntriesFor(cont, key[1], key[2]))].val[property]

\* The row is asked before the column.
SearchPath_RowFirst(row, col) == << <<row, col>>, <<row, ANY>>, <<ANY, col>>, <<ANY, ANY>> >>

\* The keys in the order of the search.
SearchPath(row, col) == << <<row, col>>, <<ANY, col>>, <<row, ANY>>, <<ANY, ANY>> >>

get_cell_property_hierarchically(cont, defaults, row, col, property) ==
  LET path == SearchPath(row, col)
      hits == {k \in DOMAIN path : Sets(cont, path[k], property)}
  IN  IF hits = {} THEN defaults.val[property]
      ELSE EntryValue(cont, path[Min(hits)], property)
-----------------------------------------------------------------------------
(* Lengths of the escape sequences around a cell and around its text.      *)

FgTag(color) == IF color = 0 THEN 0 ELSE 5
BgTag(color) == IF color = 0 THEN 0 ELSE IF color <= 8 THEN 5 ELSE 6
StyleTag(flags) == 4 * Cardinality(flags \ {"DEFAULT"})
ResetTag == 4

StyleProps == {"CELL_TEXT_STYLE", "CELL_BG_COLOR",
               "CONT_TEXT_STYLE", "CONT_FG_COLOR", "CONT_BG_COLOR"}

\* P[p] is the value of property p for the cell, p one of StyleProps.
get_style_tag_for_cell(P) == StyleTag(P["CELL_TEXT_STYLE"]) + BgTag(P["CELL_BG_COLOR"])

get_reset_style_tag_for_cell(P) == IF get_style_tag_for_cell(P) = 0 THEN 0 ELSE ResetTag

get_style_tag_for_content(P) ==
  StyleTag(P["CONT_TEXT_STYLE"]) + FgTag(P["CONT_FG_COLOR"]) + BgTag(P["CONT_BG_COLOR"])

\* After its text a cell takes up its own style again.
get_reset_style_tag_for_content(P) ==
  IF get_style_tag_for_content(P) = 0 THEN 0 ELSE ResetTag + get_style_tag_for_cell(P)

TagBytes(P) ==
  get_style_tag_for_cell(P) + get_reset_style_tag_for_cell(P)
    + get_style_tag_for_content(P) + get_reset_style_tag_for_content(P)
-----------------------------------------------------------------------------
(* Border styles: the length of every border character.                    *)

BorderItems == {"TL", "TT", "TV", "TR", "LL", "IV", "RR", "LH", "IH", "II", "RH",
                "BL", "BB", "BV", "BR", "LI", "TI", "RI", "BI"}
SeparatorItems == {"LH", "IH", "II", "RH", "TI", "BI"}

\* All items have n bytes but those of "empty", which do not print.
Bars(items, empty, n) == [i \in items |-> IF i \in empty THEN 0 ELSE n]

Inner == {"LH", "IH", "II", "RH"}
Sides == {"TL", "TR", "LL", "RR", "LH", "RH", "BL", "BR"}

\* Without and with lines between the rows.
OpenStyle(n) == [body   |-> Bars(BorderItems, Inner, n), header |-> Bars(BorderItems, {}, n),
                 sep    |-> Bars(SeparatorItems, {}, n)]
ClosedStyle(n) == [OpenStyle(n) EXCEPT !.body = Bars(BorderItems, {}, n)]

BASIC_STYLE == OpenStyle(1)
BASIC2_STYLE == ClosedStyle(1)
SIMPLE_STYLE == [body   |-> Bars(BorderItems, BorderItems \ {"IV"}, 1),
                 header |-> Bars(BorderItems, Sides \cup {"TT", "TV"}, 1),
                 sep    |-> Bars(SeparatorItems, {"LH", "RH"}, 1)]
PLAIN_STYLE == [SIMPLE_STYLE EXCEPT !.header = Bars(BorderItems, Sides, 1)]
DOT_STYLE == OpenStyle(1)
EMPTY_STYLE == [body   |-> Bars(BorderItems, BorderItems, 1),
                header |-> Bars(BorderItems, BorderItems, 1),
                sep    |-> Bars(SeparatorItems, SeparatorItems \ {"IH"}, 1)]
EMPTY2_STYLE == [OpenStyle(1) EXCEPT !.header = Bars(BorderItems, Inner, 1)]
SOLID_STYLE == OpenStyle(3)
SOLID_ROUND_STYLE == OpenStyle(3)
NICE_STYLE == OpenStyle(3)
DOUBLE_STYLE == OpenStyle(3)
DOUBLE2_STYLE == ClosedStyle(3)
BOLD_STYLE == OpenStyle(3)
BOLD2_STYLE == ClosedStyle(3)
FRAME_STYLE == OpenStyle(3)

built_in_styles ==
  {BASIC_STYLE, BASIC2_STYLE, SIMPLE_STYLE, PLAIN_STYLE, DOT_STYLE, EMPTY_STYLE, EMPTY2_STYLE,
   SOLID_STYLE, SOLID_ROUND_STYLE, NICE_STYLE, DOUBLE_STYLE, DOUBLE2_STYLE, BOLD_STYLE,
   BOLD2_STYLE, FRAME_STYLE}

\* The characters a caller chooses for the body or the header: top, bottom,
\* side and separator, and the intersections on the outside and inside.
FromChars(c) ==
  [i \in BorderItems |->
     CASE i = "TT" -> c.top
       [] i = "BB" -> c.bottom
       [] i = "IH" -> c.separator
       [] i \in {"LL", "IV", "RR"} -> c.side
       [] i \in {"II", "LI", "TI", "RI", "BI"} -> c.in_intersect
       [] OTHER -> c.out_intersect]

NoInnerLines(c) == c.separator = 0 /\ c.in_intersect = 0

\* A header without inner lines takes the ends off the lines of the body.
set_border_props_for_props(border, header, hor_separator) ==
  [body   |-> [i \in BorderItems |->
                 IF i \in {"LH", "RH"} /\ (NoInnerLines(border) \/ NoInnerLines(header))
                 THEN 0 ELSE FromChars(border)[i]],
   header |-> FromChars(header),
   sep    |-> [i \in SeparatorItems |->
                 IF i = "IH" THEN hor_separator ELSE header.out_intersect]]

\* Every border character has a length.
TypedStyle(style) ==
  /\ style.body \in [BorderItems -> Nat] /\ style.header \in [BorderItems -> Nat]
  /\ style.sep \in [SeparatorItems -> Nat]

max_border_elem_strlen(style) ==
  Max({1} \cup {style.body[i] : i \in BorderItems} \cup {style.header[i] : i \in BorderItems}
          \cup {style.sep[i] : i \in SeparatorItems})
-----------------------------------------------------------------------------
(* Properties of the table as a whole.                                     *)

Margins == {"LEFT_MARGIN", "TOP_MARGIN", "RIGHT_MARGIN", "BOTTOM_MARGIN"}

g_entire_table_properties ==
  [p \in Margins \cup {"ADDING_STRATEGY"} |-> IF p \in Margins THEN 0 ELSE "REPLACE"]

TypedMargins(tprops) == \A m \in Margins : m \in DOMAIN tprops /\ tprops[m] \in Nat

\* A negative margin is refused.
set_entire_table_property_internal(tprops, property, value) ==
  IF property \in Margins /\ value < 0 THEN tprops ELSE [tprops EXCEPT ![property] = value]

\* A copy of the entries, pushed into a fresh container.
copy_cell_properties(cont) == PushAll(create_cell_prop_container, cont.items)
=============================================================================
