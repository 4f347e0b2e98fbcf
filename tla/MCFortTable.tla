---------------------------- MODULE MCFortTable -----------------------------
(***************************************************************************)
(* FortTable for TLC: vectors of capacity 1 or 2 at first, so that they    *)
(* grow, texts of one and two lines, and one setting of every kind the     *)
(* layout depends on.                                                      *)
(***************************************************************************)
EXTENDS FortTable

Empty(style, strategy) ==
  create_table(style, [g_entire_table_properties EXCEPT !["ADDING_STRATEGY"] = strategy],
               g_default_cell_properties)

MCFresh == {Empty(BASIC_STYLE, "REPLACE"), Empty(BASIC2_STYLE, "INSERT")}

MCUsed == {Empty(BASIC2_STYLE, "REPLACE"), Empty(BASIC_STYLE, "INSERT")}

\* Two cells and one cell.
MCRows == << << <<2>>, <<1, 1>> >>, << <<3>> >> >>

MCTexts == {<<3>>, <<1, 2>>}

MCFormats == {[origin |-> 2, cells |-> << <<1>>, <<2>> >>],
              [origin |-> 1, cells |-> << <<1>>, <<1>> >>],
              [origin |-> 2, cells |-> << <<1>>, <<1>>, <<1>> >>]}

MCPositions == {<<0, 0>>, <<0, 1>>, <<1, 1>>}

MCSpans == {[row |-> 0, col |-> 0, cols |-> 2], [row |-> CUR, col |-> 1, cols |-> 2],
            [row |-> 0, col |-> CUR, cols |-> 2], [row |-> 0, col |-> 0, cols |-> 1]}

MCRanges == {[top |-> 0, left |-> 0, bottom |-> 0, right |-> 0],
             [top |-> 0, left |-> 1, bottom |-> 1, right |-> 2],
             [top |-> 1, left |-> 0, bottom |-> CUR, right |-> 3],
             [top |-> 0, left |-> CUR, bottom |-> 1, right |-> 0]}

MCSettings == {[row |-> 0, col |-> ANY, prop |-> "ROW_TYPE", value |-> Header],
               [row |-> ANY, col |-> 0, prop |-> "LEFT_PADDING", value |-> 2],
               [row |-> CUR, col |-> CUR, prop |-> "LEFT_PADDING", value |-> -1],
               [row |-> 0, col |-> ANY, prop |-> "LEFT_PADDING", value |-> 0],
               [row |-> ANY, col |-> ANY, prop |-> "CONT_FG_COLOR", value |-> 2]}

MCTableSettings == {[prop |-> "LEFT_MARGIN", value |-> 2], [prop |-> "TOP_MARGIN", value |-> 1]}

MCStyles == {SIMPLE_STYLE, EMPTY_STYLE, SOLID_STYLE}

\* All styles that fort.c comes with have borders and bars of the same columns
\* on every line, so that LinesAligned says something of each of them.
ASSUME BuiltInsEven == \A style \in built_in_styles : EvenStyle(style)
=============================================================================
