----------------------------- MODULE Pagination -----------------------------
(***************************************************************************)
(* One page of the list of a PON (GetByBoardIDAndPonIDWithPagination of    *)
(* internal/usecase/onu.go) and the numbers that come with it              *)
(* (pkg/pagination/pagination.go).  Lists stand for the lists of ONUs.     *)
(***************************************************************************)
EXTENDS Integers, Sequences

CONSTANTS DefaultPageSize, MaxPageSize, NoNumber  \* NoNumber: missing, or not a number

ASSUME PageSizes == DefaultPageSize \in Nat \ {0} /\ MaxPageSize \in Nat \ {0} /\ NoNumber \notin Int

PageOf(page)  == IF page = NoNumber THEN 1 ELSE page
LimitOf(size) == IF size = NoNumber THEN DefaultPageSize ELSE size

\* The page is cut with the size as it was asked for; a slice with a negative bound, or
\* an end before its start, panics.
Page(list, page, size) ==
  LET start == (page - 1) * size
      end == IF start + size > Len(list) THEN Len(list) ELSE start + size IN
  IF start >= Len(list) THEN [panic |-> FALSE, rows |-> <<>>]
  ELSE IF start < 0 \/ end < start THEN [panic |-> TRUE, rows |-> <<>>]
  ELSE [panic |-> FALSE, rows |-> SubSeq(list, start + 1, end)]

\* Mutant: the last page does not count when it is not full.
Pages_Floor(page, size, total) ==
  LET limit == CASE size <= 0 -> DefaultPageSize [] size > MaxPageSize -> MaxPageSize [] OTHER -> size IN
  [page |-> IF page <= 0 THEN 0 ELSE page, limit |-> limit, count |-> total \div limit, total |-> total]

\* pagination.New: the count is made with the size in its bounds.
Pages(page, size, total) ==
  LET limit == CASE size <= 0 -> DefaultPageSize [] size > MaxPageSize -> MaxPageSize [] OTHER -> size IN
  [page |-> IF page <= 0 THEN 0 ELSE page, limit |-> limit,
   count |-> (total + limit - 1) \div limit, total |-> total]

\* The handler: an empty page is "not found".
Paginate(list, page, size) ==
  LET part == Page(list, PageOf(page), LimitOf(size)) IN
  CASE part.panic -> [status |-> "aborted"]
    [] ~part.panic /\ part.rows = <<>> -> [status |-> "not found"]
    [] OTHER -> [status |-> "ok", rows |-> part.rows, meta |-> Pages(PageOf(page), LimitOf(size), Len(list))]
=============================================================================
