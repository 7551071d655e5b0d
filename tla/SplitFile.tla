----------------------------- MODULE SplitFile -----------------------------
(***************************************************************************)
(* A request file split between the secondaries: the ranges the primary    *)
(* computes (cluster-executor/src/split_request.rs) and the cursor with    *)
(* which a secondary reads its own range round and round                   *)
(* (SplitRequestFile in cluster-executor/src/request_providers.rs).        *)
(*                                                                         *)
(* Rows are numbered from 1 on without gaps, as the upload of a CSV file   *)
(* writes them.                                                            *)
(***************************************************************************)
EXTENDS Naturals, Sequences, FiniteSets

Smaller(m, n) == IF m < n THEN m ELSE n

\* The length of the i-th range: the first ones take the remainder.
Block(rows, n, i) == rows \div n + (IF i <= rows % n THEN 1 ELSE 0)

\* last_end after i ranges.
Ends(rows, n) ==
  LET end[i \in 0..n] ==
        IF i = 0 THEN 0 ELSE Smaller(rows, end[i - 1] + Block(rows, n, i))
  IN  end

\* A mutant: a range starts at the row the one before it ends with.
MutStart(rows, last_end) == Smaller(last_end, rows)

Start(rows, last_end) == Smaller(last_end + 1, rows)

split_ranges(rows, n) ==
  [i \in 1..n |-> [start |-> Start(rows, Ends(rows, n)[i - 1]),
                   end |-> Ends(rows, n)[i]]]

Rows(range) == range.start..range.end

-----------------------------------------------------------------------------
(* A reader: its range, its cursor, the rows a get_n that has not returned *)
(* still needs and, for bookkeeping, how often each row was read more than *)
(* the row of the range that was read least.                               *)

NoRange == [start |-> 0, end |-> 0]

\* clone_with_new_range, and the file opened anew by the first get_n.
Reader(rows, range) ==
  [range |-> range, cursor |-> range.start, data_need |-> 0,
   used |-> [row \in 1..rows |-> 0]]

\* get_n is called.
GetN(reader, n) == [reader EXCEPT !.data_need = n]

\* A mutant: the last row of the range is never read.
MutBlockEnd(reader) ==
  Smaller(reader.range.end, reader.cursor + reader.data_need)

\* The end of the next block, exclusive.
BlockEnd(reader) ==
  Smaller(reader.range.end + 1, reader.cursor + reader.data_need)

\* A mutant: a cursor past the range goes to the start of the file.
MutWrapped(reader, end) == IF end > reader.range.end THEN 1 ELSE end

\* The cursor goes back to the start of the range.
Wrapped(reader, end) ==
  IF end > reader.range.end THEN reader.range.start ELSE end

\* One round of the loop of get_n: the query for a block of rows, and the
\* cursor.
ReadBlock(reader) ==
  LET end == BlockEnd(reader)
      rows == DOMAIN reader.used
      data == {row \in rows : reader.cursor <= row /\ row < end}
      read == [row \in rows |->
                 reader.used[row] + (IF row \in data THEN 1 ELSE 0)]
      least == CHOOSE n \in {read[row] : row \in Rows(reader.range)} :
                 \A row \in Rows(reader.range) : n <= read[row]
  IN  [reader EXCEPT
         !.data_need = @ - Cardinality(data),
         !.cursor = Wrapped(reader, end),
         !.used = [row \in rows |->
                     IF row \in Rows(reader.range) THEN read[row] - least
                                                   ELSE read[row]]]

\* The range is read in turn: no row of it is ahead of another by more than
\* one, and no row outside of it is read.
InTurn(reader) ==
  \A row \in DOMAIN reader.used :
    reader.used[row] <= IF row \in Rows(reader.range) THEN 1 ELSE 0
=============================================================================
