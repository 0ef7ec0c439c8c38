----------------------------- MODULE MCCsvTable -----------------------------
(* CsvTable for TLC: two rows of two cells of every kind, three lines of    *)
(* fewer kinds among which some may be blank, one column, and two lines of  *)
(* one to three cells, not always as many, each with and without a newline  *)
(* at the end.                                                              *)
EXTENDS CsvTable

Plain(t)  == [quoted |-> FALSE, text |-> t]
Quoted(t) == [quoted |-> TRUE, text |-> t]
AllCells ==
  {Plain(<<>>), Plain(<<Other>>), Quoted(<<>>), Quoted(<<Other>>), Quoted(<<Comma>>),
   Quoted(<<Other, NL>>), Quoted(<<Comma, Other>>), Quoted(<<NL, NL>>)}
FewCells == {Plain(<<>>), Plain(<<Other>>), Quoted(<<>>), Quoted(<<Comma, NL>>)}

LinesOf(cells, n) == [1..n -> cells]
FilesOf(lines, n) == [lines : [1..n -> lines], newline : BOOLEAN]
MCFiles ==
  FilesOf(LinesOf(AllCells, 2), 2)
  \cup FilesOf(LinesOf({Plain(<<Other>>), Quoted(<<>>), Quoted(<<NL>>)}, 2) \cup {<<>>}, 3)
  \cup FilesOf(LinesOf(AllCells, 1), 3)
  \cup FilesOf(UNION {LinesOf(FewCells, n) : n \in 1..3}, 2)
=============================================================================
