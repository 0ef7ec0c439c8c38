------------------------------ MODULE CsvTable ------------------------------
(***************************************************************************)
(* How the server of Final/Server/main.c reads its table from a CSV file   *)
(* (read_csv), gives it back as records (SELECT *, split2) and frees it    *)
(* (release_table).                                                        *)
(*                                                                         *)
(* The file is given as lines of cells, which the writer of the file put   *)
(* between quotes or not; the code sees its text.  Characters are commas,  *)
(* quotes, newlines and others.  A variable read before it is set (prev)   *)
(* may hold any of them.                                                   *)
(***************************************************************************)
EXTENDS Integers, FiniteSets, Sequences, SequencesExt

CONSTANTS Files,               \* the files: [lines: lines of cells, newline: is one at the end?]
          Comma, Quote, NL, NUL, Space, Other,       \* characters
          Unset                \* what a row holds before its cells are assigned

Character == {Comma, Quote, NL, Other}
Null == <<"null">>             \* the string "null"

(* A cell between quotes may hold anything but quotes.                     *)
Cell == {c \in [quoted : BOOLEAN, text : Seq(Character \ {Quote})] :
           ~c.quoted => {Comma, NL} \cap ToSet(c.text) = {}}
(* A line may have any number of cells, and none.                          *)
IsFile(f) == f.lines \in Seq(Seq(Cell)) /\ f.lines # <<>> /\ f.newline \in BOOLEAN

ASSUME CsvAssumption ==
  /\ Cardinality({Comma, Quote, NL, NUL, Space, Other}) = 6
  /\ "null" \notin {Comma, Quote, NL, NUL, Space, Other}
  /\ Unset \notin Seq(Seq(Character \cup {"null"}))
  /\ \A f \in Files : IsFile(f)

-----------------------------------------------------------------------------
(* The text of a file.                                                     *)

(* Each of seqs with c behind it; the same without the last c.             *)
Ended(seqs, c) ==
  LET text[n \in 0..Len(seqs)] ==
        IF n = 0 THEN <<>> ELSE text[n - 1] \o Append(seqs[n], c)
  IN  text[Len(seqs)]
Joined(seqs, c) == SubSeq(Ended(seqs, c), 1, Len(Ended(seqs, c)) - 1)

CellText(c) == IF c.quoted THEN <<Quote>> \o c.text \o <<Quote>> ELSE c.text
LineText(l) == Joined([j \in DOMAIN l |-> CellText(l[j])], Comma)
Text(f) ==
  LET texts == [k \in DOMAIN f.lines |-> LineText(f.lines[k])]
  IN  IF f.newline THEN Ended(texts, NL) ELSE Joined(texts, NL)

-----------------------------------------------------------------------------
(* The functions that take text apart.                                     *)

Odd(n) == n % 2 = 1
CharAt(d, k) == IF k > Len(d) THEN NUL ELSE d[k]        \* the mapping ends in zeros
Quotes(d, from, k) == Cardinality({q \in from..k : CharAt(d, q) = Quote})

(* The numbers in S, in their order.                                       *)
Ordered(S) == [n \in 1..Cardinality(S) |->
                 CHOOSE k \in S : Cardinality({l \in S : l <= k}) = n]

(* Where the row that begins at from ends (get_current_row).               *)
EndsRow(d, from, k) == CharAt(d, k) \in {NL, NUL} /\ ~Odd(Quotes(d, from, k))
RowEnd(d, from) == CHOOSE k \in from..Len(d) + 1 :
                     EndsRow(d, from, k) /\ \A l \in from..k - 1 : ~EndsRow(d, from, l)

(* calculate_row_number: newlines outside quotes, but for one that follows *)
(* another; g is what prev holds at first.                                 *)
CountsLine(c, prev) == c = NL /\ prev # NL
RowNumber(d, g) ==
  LET prev(k) == IF k = 1 THEN g ELSE d[k - 1]
  IN  Cardinality({k \in DOMAIN d : CountsLine(d[k], prev(k)) /\ ~Odd(Quotes(d, 1, k))})
        + (IF d # <<>> /\ Last(d) # NL THEN 1 ELSE 0)

(* calculate_column_number: the first line's commas outside quotes, and    *)
(* one more unless it ends with a comma.                                   *)
ColumnNumber(d, g) ==
  LET end  == RowEnd(d, 1)
      prev == IF end = 1 THEN g ELSE d[end - 1]
  IN  Cardinality({k \in 1..end - 1 : d[k] = Comma /\ ~Odd(Quotes(d, 1, k))})
        + (IF prev = Comma THEN 0 ELSE 1)

(* split: text ends at a comma outside quotes, at a quote and at the end;  *)
(* what ends at k is a cell, "null" when there is nothing in it, unless it *)
(* stands between a quote and a comma or is an opening quote's.            *)
Ends(str) ==
  {k \in 1..Len(str) + 1 :
     \/ CharAt(str, k) \in {NUL, Quote}
     \/ (CharAt(str, k) = Comma /\ ~Odd(Quotes(str, 1, k)))}
Start(str, k) == Max({0} \cup {l \in Ends(str) : l < k})       \* the end before
BadIsCell(str, k, g) == Start(str, k) < k - 1 \/ CharAt(str, k) # Quote
IsCell(str, k, g) ==
  LET prev == IF k = 1 THEN g ELSE str[k - 1]
      b    == Start(str, k)
  IN  \/ b < k - 1
      \/ CharAt(str, k) = Comma /\ (b = 0 \/ CharAt(str, b) # Quote)
      \/ CharAt(str, k) = NUL /\ prev = Comma
      \/ CharAt(str, k) = Quote /\ prev = Quote
split(str, g) ==
  LET cells == Ordered({k \in Ends(str) : IsCell(str, k, g)})
      text(k) == SubSeq(str, Start(str, k) + 1, k - 1)
  IN  [n \in DOMAIN cells |-> IF text(cells[n]) = <<>> THEN Null ELSE text(cells[n])]

(* split2 with one separator: the texts between separators that are not    *)
(* empty.                                                                  *)
split2(str, c) ==
  LET start(k) == Max({0} \cup {l \in 1..k : CharAt(str, l) = c})
      ends == Ordered({k \in DOMAIN str : str[k] # c /\ CharAt(str, k + 1) \in {c, NUL}})
  IN  [n \in DOMAIN ends |-> SubSeq(str, start(ends[n]) + 1, ends[n])]

-----------------------------------------------------------------------------
VARIABLES
  file,          \* the file as it was meant
  data,          \* its text, as it is mapped
  stage,         \* "count", "rows", "loaded", "answered", "freed" or "corrupt"
  rSize, cSize,
  csvTable,      \* csvTable[i] is Unset or the cells of row i
  i,             \* the row set_table comes to
  curIndex,      \* the place in the text it has come to
  records        \* the answer to SELECT *, cut into records

loadVars == <<file, data, stage, rSize, cSize, csvTable, i, curIndex, records>>

LoadInit ==
  /\ file \in Files /\ data = Text(file) /\ stage = "count" /\ rSize = 0 /\ cSize = 0
  /\ csvTable = <<>> /\ i = 0 /\ curIndex = 1 /\ records = <<>>

(* The two countings, each with a prev of its own, and the allocation.     *)
Count ==
  /\ stage = "count"
  /\ \E g \in Character : rSize' = RowNumber(data, g)
  /\ \E g \in Character : cSize' = ColumnNumber(data, g)
  /\ csvTable' = [k \in 0..rSize' - 1 |-> Unset] /\ stage' = "rows"
  /\ UNCHANGED <<file, data, i, curIndex, records>>

More == curIndex <= Len(data)
Row == SubSeq(data, curIndex, RowEnd(data, curIndex) - 1)

(* A blank line takes a row as well (L646-650).                            *)
SkipRow ==
  /\ stage = "rows" /\ More /\ Row = <<>>
  /\ i' = i + 1 /\ curIndex' = curIndex + 1
  /\ UNCHANGED <<file, data, stage, rSize, cSize, csvTable, records>>

Copied(cells) == SubSeq(cells, 1, cSize)

(* A row that has no place in the table, or not as many cells as it has    *)
(* columns, takes set_table out of its arrays.                             *)
SetRow ==
  /\ stage = "rows" /\ More /\ Row # <<>>
  /\ \E row \in {Row} : \E cells \in {split(row, g) : g \in Character} :
       IF i < rSize /\ cSize <= Len(cells)
       THEN /\ csvTable' = [csvTable EXCEPT ![i] = Copied(cells)]
            /\ i' = i + 1 /\ curIndex' = RowEnd(data, curIndex) + 1
            /\ stage' = stage
       ELSE stage' = "corrupt" /\ UNCHANGED <<csvTable, i, curIndex>>
  /\ UNCHANGED <<file, data, rSize, cSize, records>>

Loaded ==
  /\ stage = "rows" /\ ~More /\ stage' = "loaded"
  /\ UNCHANGED <<file, data, rSize, cSize, csvTable, i, curIndex, records>>

AllSet == \A k \in DOMAIN csvTable : csvTable[k] # Unset

(* SELECT *: every cell followed by a space, every row by a newline; the   *)
(* worker cuts the answer at newlines.                                     *)
Record(row) == Ended(row, Space)
BadAnswer == Ended([k \in 1..rSize |-> Record(csvTable[k - 1])], Space)
Answer == Ended([k \in 1..rSize |-> Record(csvTable[k - 1])], NL)
Select ==
  /\ stage = "loaded"
  /\ IF AllSet THEN records' = split2(Answer, NL) /\ stage' = "answered"
     ELSE stage' = "corrupt" /\ UNCHANGED records
  /\ UNCHANGED <<file, data, rSize, cSize, csvTable, i, curIndex>>

(* release_table frees every cell, the ones never assigned too.            *)
Release ==
  /\ stage \in {"loaded", "answered"}
  /\ IF AllSet THEN stage' = "freed" /\ csvTable' = <<>>
     ELSE stage' = "corrupt" /\ UNCHANGED csvTable
  /\ UNCHANGED <<file, data, rSize, cSize, i, curIndex, records>>

LoadNext == Count \/ SkipRow \/ SetRow \/ Loaded \/ Select \/ Release
LoadSpec == LoadInit /\ [][LoadNext]_loadVars

-----------------------------------------------------------------------------
Blank(k) == LineText(file.lines[k]) = <<>>
Lines == DOMAIN file.lines
Stored(k) == k - 1 \in DOMAIN csvTable /\ csvTable[k - 1] # Unset
Value(c) == IF c.text = <<>> THEN Null ELSE c.text
ValuesOf(k) == [j \in DOMAIN file.lines[k] |-> Value(file.lines[k][j])]

LoadTypeOK ==
  /\ file \in Files /\ stage \in {"count", "rows", "loaded", "answered", "freed", "corrupt"}
  /\ rSize \in 0..Len(data) + 1 /\ cSize \in 0..Len(data) + 1
  /\ \A k \in DOMAIN csvTable : csvTable[k] = Unset \/ Len(csvTable[k]) = cSize
  /\ i \in 0..Len(file.lines) + 1 /\ curIndex \in 1..Len(data) + 2

(* The numbers found before anything is read are those of the file: rSize  *)
(* the lines that are not blank, cSize the cells of the header - but an    *)
(* empty name at the end of the header is lost with its column (L719).     *)
SizesAgree ==
  (stage # "count" /\ ~Blank(1)) =>
    /\ rSize = Cardinality({k \in Lines : ~Blank(k)})
    /\ LET header == file.lines[1] IN
       cSize = Len(header) - (IF Len(header) > 1 /\ CellText(Last(header)) = <<>> THEN 1 ELSE 0)

(* Every row begins with the cells of its line, as many as there are       *)
(* columns, with the text they were given, between quotes or not, commas   *)
(* and newlines between quotes included, and an empty one as null - but a  *)
(* row that begins with a quote may be stored behind a null that is not in *)
(* the file, for split looks at prev before it is set (L805).              *)
StartsWithQuote(k) == file.lines[k] # <<>> /\ Head(file.lines[k]).quoted
CellsAgree ==
  \A k \in Lines : Stored(k) =>
    /\ ~Blank(k)
    /\ \/ IsPrefix(csvTable[k - 1], ValuesOf(k))
       \/ StartsWithQuote(k) /\ IsPrefix(csvTable[k - 1], <<Null>> \o ValuesOf(k))

(* Only a blank line with more lines after it, or a line of fewer cells    *)
(* than the header, makes the server read or write outside its arrays, or  *)
(* use cells nobody assigned; when all is read, every line has its row.    *)
GapBefore(k) == \E l \in Lines : l < k /\ Blank(l)
Short(k) == Len(file.lines[k]) < Len(file.lines[1])
OnlyIrregularHurts ==
  /\ stage = "corrupt" => Blank(1) \/ \E k \in Lines : ~Blank(k) /\ (GapBefore(k) \/ Short(k))
  /\ stage \in {"loaded", "answered"} => \A k \in Lines : Blank(k) \/ Stored(k)

(* The table is the file: as many rows and columns, every cell in its      *)
(* place, but for the two faults named above.                              *)
TableIsFile == LoadTypeOK /\ SizesAgree /\ CellsAgree /\ OnlyIrregularHurts

(* The records a client gets are the rows, unless a cell has a newline in  *)
(* it, which cuts its row in two or more.                                  *)
NoNewlines == \A k \in DOMAIN csvTable : \A j \in DOMAIN csvTable[k] : NL \notin ToSet(csvTable[k][j])
RecordsAreRows ==
  (stage = "answered" /\ NoNewlines /\ cSize > 0) =>
    /\ Len(records) = rSize
    /\ \A k \in DOMAIN records : records[k] = Record(csvTable[k - 1])
=============================================================================
