------------------------------- MODULE Paging -------------------------------
(***************************************************************************)
(* How a listing is cut into pages: by LIMIT in the statement, or in the   *)
(* program after the rows were filtered by their labels.  A listing is a   *)
(* sequence of names, in the order the database gave its rows; a page size *)
(* of 0 asks for all of it.                                                *)
(***************************************************************************)
EXTENDS Naturals, FiniteSets, SequencesExt

AnyLabel == "" \* the selector that every row matches

\* Mutant: pages are counted from 0.
GetLimitOffset_FromZero(no, size) == no * size

\* Filter.GetLimitOffset: page 0 is page 1.
GetLimitOffset(no, size) == ((IF no = 0 THEN 1 ELSE no) - 1) * size

\* LIMIT offset, size.
Limit(s, no, size) ==
  IF size = 0 THEN s
  ELSE SubSeq(s, GetLimitOffset(no, size) + 1, Min({GetLimitOffset(no, size) + size, Len(s)}))

\* GetPagingParam: the bounds of the slice, which never leave the listing.
GetPagingParam(no, size, len) ==
  LET start == GetLimitOffset(no, size)
      end == start + size
  IN IF size = 0 THEN <<0, len>>
     ELSE IF start > len THEN <<0, 0>>
     ELSE <<start, IF end > len THEN len ELSE end>>

Slice(s, no, size) ==
  LET p == GetPagingParam(no, size, Len(s)) IN SubSeq(s, p[1] + 1, p[2])

-----------------------------------------------------------------------------
\* Read page after page, List(no) gives every row of s once, in the order of s.
Covers(List(_), s, size) ==
  FlattenSeq([no \in 1..(Len(s) + 1) |-> List(no)]) = s

\* The orders the rows with these names may come in.
Listings(names) == SetToSeqs(names)
=============================================================================
