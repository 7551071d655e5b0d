----------------------------- MODULE UrlParams ------------------------------
(***************************************************************************)
(* The parameters of the URL of a random request                           *)
(* (RandomDataRequest in overload-http/src/request_specs.rs): where they   *)
(* are in the URL is found once, in a BinaryHeap ordered by the start; for *)
(* every request the data replace them, range by range.                    *)
(*                                                                         *)
(* A URL is a sequence of parts, a parameter (its name) or "/".  What the  *)
(* ranges count is its text, a sequence of cells, one per character: a     *)
(* cell says what its text is of and which character of that it is.        *)
(***************************************************************************)
EXTENDS Integers, Sequences, SequencesExt, SchemaData

\* What stands for a URL after a panic.
NoText == <<<<Panic, 0>>>>

\* The text of a part of a URL: a parameter is written {name}.
PartText(part) ==
  IF part = "/" THEN <<<<Str(part), 1>>>>
  ELSE [i \in 1..(Len(part) + 2) |-> <<Str(part), i>>]

UrlText(parts) == FlattenSeq([i \in DOMAIN parts |-> PartText(parts[i])])

\* The characters of a number.
RECURSIVE Digits(_)
Digits(n) ==
  IF n < 0 THEN 1 + Digits(-n) ELSE IF n < 10 THEN 1 ELSE 1 + Digits(n \div 10)

\* The text of a datum: of a string, of a number, and "unknown" of the rest.
ValueText(d) ==
  LET length == CASE d[1] = "letters" -> d[2]
                  [] d[1] = "str" -> Len(d[2])
                  [] d[1] = "int" -> Digits(d[2])
                  [] OTHER -> Len("unknown")
  IN  [i \in 1..length |-> <<d, i>>]

\* The matches in the URL, from left to right, as ranges [start, end).
Matches(parts) ==
  LET before(i) == Len(UrlText(SubSeq(parts, 1, i - 1)))
      match(i) == [name |-> parts[i], start |-> before(i),
                   end |-> before(i) + Len(PartText(parts[i]))]
      params == {i \in DOMAIN parts : parts[i] # "/"}
  IN  [j \in DOMAIN SetToSortSeq(params, <) |->
         match(SetToSortSeq(params, <)[j])]

\* BinaryHeap::push: the new element rises to below a parent not smaller.
RECURSIVE SiftUp(_, _)
SiftUp(heap, i) ==
  LET parent == i \div 2 IN
    IF i = 1 \/ heap[i].start <= heap[parent].start THEN heap
    ELSE SiftUp([heap EXCEPT ![i] = heap[parent], ![parent] = heap[i]], parent)

Push(heap, match) == SiftUp(Append(heap, match), Len(heap) + 1)

\* A mutant: the ranges are kept in the order in which they are found.
MutFindParamPositions(parts) == Matches(parts)

\* find_param_positions: the array of the heap.
FindParamPositions(parts) == FoldLeft(Push, <<>>, Matches(parts))

\* String::replace_range, which panics on a range outside of the string.
ReplaceRange(url, start, end, text) ==
  IF end > Len(url) THEN NoText
  ELSE SubSeq(url, 1, start) \o text \o SubSeq(url, end + 1, Len(url))

\* substitute_param_with_data: iter() goes through the array of the heap as it
\* lies, which is not the order of the starts.
SubstituteParamWithData(url, positions, data) ==
  FoldLeft(LAMBDA text, param :
             IF text = NoText \/ param.name \notin DOMAIN data
             THEN text
             ELSE ReplaceRange(text, param.start, param.end,
                               ValueText(data[param.name])),
           url, positions)

\* What the URL should be: the text of each part, with the data put in.
Substituted(parts, data) ==
  FlattenSeq([i \in DOMAIN parts |->
                IF parts[i] \in DOMAIN data THEN ValueText(data[parts[i]])
                                            ELSE PartText(parts[i])])
=============================================================================
