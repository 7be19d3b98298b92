------------------------------- MODULE Listing -------------------------------
(***************************************************************************)
(* The admin panel's list of files: AdminListFiles and ListFiles, which    *)
(* counts and selects in two statements, and the dashboard that walks      *)
(* through the pages. Tables change between any two statements.            *)
(*                                                                         *)
(* A row has a value in each sort column and says whether it matches the   *)
(* search for names and types and the one for addresses.                   *)
(***************************************************************************)
EXTENDS Integers, Sequences, FiniteSets

\* the dashboard's PAGE_SIZE of 25 is a parameter of the walk, at most
\* maxAdminPageSize
CONSTANTS
  defaultAdminPageSize,  \* 50
  maxAdminPageSize       \* 200

ASSUME ListingAssumption ==
  /\ {defaultAdminPageSize, maxAdminPageSize} \subseteq Nat \ {0}
  /\ defaultAdminPageSize <= maxAdminPageSize

\* query parameters: <<>> for one that is missing or not a number
clampLimit(raw) ==
  IF raw = <<>> \/ (raw # <<>> /\ raw[1] <= 0) THEN defaultAdminPageSize
  ELSE IF raw[1] > maxAdminPageSize THEN maxAdminPageSize ELSE raw[1]

parseOffset(raw) == IF raw = <<>> \/ (raw # <<>> /\ raw[1] < 0) THEN 0 ELSE raw[1]

buildListFilesWhere(filter, row) ==
  /\ filter.search => row.named
  /\ filter.ip => row.addressed

\* from public sort keys to columns; "downloads", "expiration" and "name" are
\* like "size"
listFilesSortColumns == [created_at |-> "created_at", size |-> "file_size"]

SortColumn(filter) ==
  IF filter.sortBy \in DOMAIN listFilesSortColumns
  THEN listFilesSortColumns[filter.sortBy] ELSE "created_at"

\* a fault: the pages are not ordered
Unordered(filter, a, b) == TRUE

\* ORDER BY: may a come right before b?
buildListFilesOrderBy(filter, a, b) ==
  LET column == SortColumn(filter)
  IN IF filter.sortDir = "asc" THEN a[column] <= b[column] ELSE a[column] >= b[column]

Matching(filter, table) == {row \in table: buildListFilesWhere(filter, row)}

\* every order in which the database may return these rows
Orders(filter, rows) ==
  {s \in [1 .. Cardinality(rows) -> rows]:
     \A i, j \in DOMAIN s:
       i < j => s[i] # s[j] /\ buildListFilesOrderBy(filter, s[i], s[j])}

\* the rows of a page: LIMIT and OFFSET
Items(order, limit, offset) ==
  {order[i]: i \in {n \in DOMAIN order: n > offset /\ n <= offset + limit}}

-----------------------------------------------------------------------------
(* A walk: page p is counted over one table and selected from a later one. *)

Offset(p, limit) == (p - 1) * limit

\* what the dashboard can know of page p once it has asked for it
ListFiles(filter, counted, selected, order, limit, offset) ==
  [total |-> Cardinality(Matching(filter, counted)),
   items |-> Items(order, clampLimit(<<limit>>), parseOffset(<<offset>>))]

\* hasNext of the dashboard
HasNext(page, p, limit) == p * limit < page.total

(***************************************************************************)
(* Files that are uploaded while somebody walks through the pages hide     *)
(* nothing: when the walk ends, every file that matched all along was on   *)
(* one of its pages, although each page was counted and selected over      *)
(* another table, unless the dashboard ended it on a count that an upload  *)
(* had overtaken before the last page was selected. If nothing is          *)
(* uploaded, no file is on two pages. (This is for rows that differ in the *)
(* sort column: ORDER BY has no tie breaker. Files that are deleted during *)
(* the walk do hide others.)                                               *)
(***************************************************************************)
UploadsHideNothing(filter, limit, tables) ==
  LET Pages == 1 .. (Len(tables) \div 2)
      counted(p) == tables[2 * p - 1]
      selected(p) == tables[2 * p]
      orders == [p \in Pages |-> Orders(filter, Matching(filter, selected(p)))]
      page(p, order) == ListFiles(filter, counted(p), selected(p), order, limit,
                                  Offset(p, limit))
      overtaken(p) == Matching(filter, counted(p)) # Matching(filter, selected(p))
  IN \A walk \in {w \in [Pages -> UNION {orders[p]: p \in Pages}]:
                    \A p \in Pages: w[p] \in orders[p]}:
       LET shown(p) == page(p, walk[p]).items
           last == {p \in Pages: ~HasNext(page(p, walk[p]), p, limit)}
       IN /\ \A p \in last:
               \/ overtaken(p)
               \/ Matching(filter, tables[1]) \subseteq UNION {shown(q): q \in 1 .. p}
          /\ (\A i \in DOMAIN tables: tables[i] = tables[1]) =>
               \A p, q \in Pages: p # q => shown(p) \cap shown(q) = {}

=============================================================================
