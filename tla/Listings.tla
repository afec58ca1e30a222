------------------------------- MODULE Listings -------------------------------
(***************************************************************************)
(* The paged listings of the API.  A request for a page counts the rows in *)
(* one statement and takes a page of them by OFFSET and LIMIT in another,  *)
(* so rows come and go between the two and between a client's pages.       *)
(***************************************************************************)
EXTENDS Integers, FiniteSets, SequencesExt

CONSTANTS
  MaxRows,      \* rows there may ever be in the listing
  PageSizes,    \* page sizes a client may ask for
  MaxMoves,     \* rows that join or leave while the client turns the pages
  MaxFailures   \* statements that fail

ASSUME ListingsAssumption ==
  /\ MaxRows \in Nat /\ MaxMoves \in Nat /\ MaxFailures \in Nat
  /\ PageSizes \subseteq Nat \ {0}

VARIABLES
  listing,    \* the listing read, and its order
  list,       \* the rows of the listing in its order; a row is its time of creation
  newest,     \* the newest row there ever was
  pager,     \* the client turning the pages
  turning,    \* what happened to the listing since the client began
  queryFailures

listingsVars == <<listing, list, newest, pager, turning, queryFailures>>
-------------------------------------------------------------------------------
(***************************************************************************)
(* The listings: the orders they offer, whether a page number below 1      *)
(* becomes 1, whether rows may leave the listing, and whether a row may    *)
(* join it that is not new, because what it is filtered by has changed.    *)
(***************************************************************************)
Traits(orders, clamped, leave, join) ==
  [orders |-> orders, clamped |-> clamped, leave |-> leave, join |-> join]

ListUsers           == Traits({"newest"}, TRUE, TRUE, TRUE)
ListTransactions    == Traits({"newest"}, TRUE, TRUE, FALSE)
ListInvoices        == Traits({"newest"}, TRUE, TRUE, TRUE)
GetUserInvoices     == Traits({"newest"}, TRUE, TRUE, FALSE)
GetUserTransactions == Traits({"newest"}, TRUE, TRUE, FALSE)
GetUserActivity     == Traits({"newest"}, TRUE, FALSE, FALSE)
ListPayments        == Traits({"newest"}, TRUE, TRUE, TRUE)
AdminListPayments   == Traits({"newest"}, TRUE, TRUE, TRUE)

buildInvoiceQuery        == Traits({"newest", "oldest"}, FALSE, TRUE, TRUE)
buildSearchQuery         == Traits({"relevance"}, FALSE, TRUE, TRUE)
GetTransactionsPaginated == Traits({"newest"}, FALSE, TRUE, FALSE)
GetUserNotifications     == Traits({"newest", "oldest"}, FALSE, TRUE, TRUE)

(* Comments of an invoice, or the replies to one: the rows of the listing  *)
(* go when DeleteInvoice or DeleteComment takes them.                      *)
GetComments == Traits({"newest", "oldest"}, TRUE, TRUE, FALSE)

AllListings ==
  {ListUsers, ListTransactions, ListInvoices, GetUserInvoices, GetUserTransactions,
   GetUserActivity, ListPayments, AdminListPayments, buildInvoiceQuery, buildSearchQuery,
   GetTransactionsPaginated, GetUserNotifications, GetComments}
-------------------------------------------------------------------------------
Rows == ToSet(list)
NotPaging == [phase |-> "idle", page |-> 0, limit |-> 0, total |-> 0, seen |-> {}, repeats |-> 0]

NothingHappened(rows) == [stayed |-> rows, left |-> 0, joined |-> 0, late |-> 0]

ListingsInit ==
  /\ \E l \in AllListings, order \in {"newest", "oldest", "relevance"} :
       order \in l.orders /\ listing = [traits |-> l, order |-> order]
  /\ list = <<>> /\ newest = 0
  /\ pager = NotPaging /\ turning = NothingHappened({}) /\ queryFailures = 0

Reading == pager.phase \in {"count", "page"}
-------------------------------------------------------------------------------
(***************************************************************************)
(* The writers of the tables.                                              *)
(***************************************************************************)
MayMove == Reading => turning.joined + turning.left < MaxMoves

Puts(row, place) ==
  /\ MayMove
  /\ list' = InsertAt(list, place, row)
  /\ turning' = IF Reading
                THEN [turning EXCEPT !.joined = @ + 1,
                                     !.late = IF pager.phase = "page" THEN @ + 1 ELSE @]
                ELSE turning
  /\ UNCHANGED <<listing, pager, queryFailures>>

(* Where a new row goes.                                                   *)
NewPlaces ==
  CASE listing.order = "newest"    -> {1}
    [] listing.order = "oldest"    -> {Len(list) + 1}
    [] listing.order = "relevance" -> 1..(Len(list) + 1)

RowAdded ==
  /\ newest < MaxRows
  /\ newest' = newest + 1
  /\ \E place \in NewPlaces : Puts(newest + 1, place)

RowLeaves(row) ==
  /\ MayMove
  /\ listing.traits.leave
  /\ \E place \in DOMAIN list : list[place] = row /\ list' = RemoveAt(list, place)
  /\ turning' = IF Reading
                THEN [turning EXCEPT !.stayed = @ \ {row}, !.left = @ + 1]
                ELSE turning
  /\ UNCHANGED <<listing, newest, pager, queryFailures>>

(* An older row, back or for the first time, takes the place of its age.   *)
PlaceOf(row) ==
  LET before == {r \in Rows : IF listing.order = "newest" THEN r > row ELSE r < row} IN
  IF listing.order = "relevance" THEN 1..(Len(list) + 1) ELSE {Cardinality(before) + 1}

RowJoins(row) ==
  /\ listing.traits.join
  /\ row \in (1..newest) \ Rows
  /\ \E place \in PlaceOf(row) : Puts(row, place)
  /\ UNCHANGED newest
-------------------------------------------------------------------------------
(***************************************************************************)
(* The client: from the first page on while the answer says there are more.*)
(***************************************************************************)
FirstPage(asked) == IF listing.traits.clamped /\ asked < 1 THEN 1 ELSE asked

(* Where a page number below 1 stays as it is, OFFSET is negative and      *)
(* PostgreSQL refuses the statement.                                       *)
Ask(asked, limit) ==
  /\ pager.phase = "idle"
  /\ FirstPage(asked) >= 1
  /\ pager' = [NotPaging EXCEPT !.phase = "count", !.page = FirstPage(asked), !.limit = limit]
  /\ turning' = NothingHappened(Rows)
  /\ UNCHANGED <<listing, list, newest, queryFailures>>

CountRows ==
  /\ pager.phase = "count"
  /\ pager' = [pager EXCEPT !.phase = "page", !.total = Len(list)]
  /\ turning' = [turning EXCEPT !.late = 0]
  /\ UNCHANGED <<listing, list, newest, queryFailures>>

(* Mutated form of totalPages: rounded down.                               *)
fullPages(total, limit) == total \div limit

totalPages(total, limit) == (total + limit - 1) \div limit

(* Mutated form of offset: pages are taken for rows.                       *)
pagesSkipped(page, limit) == page - 1

offset(page, limit) == (page - 1) * limit

FetchPage ==
  LET from == offset(pager.page, pager.limit)
      page == {list[i] : i \in DOMAIN list \cap (from + 1)..(from + pager.limit)}
      more == pager.page < totalPages(pager.total, pager.limit) IN
  /\ pager.phase = "page"
  /\ pager' = [pager EXCEPT
       !.phase = IF more THEN "count" ELSE "done",
       !.page = IF more THEN @ + 1 ELSE @,
       !.seen = @ \cup page,
       !.repeats = @ + Cardinality(page \cap turning.stayed \cap pager.seen)]
  /\ UNCHANGED <<listing, list, newest, turning, queryFailures>>

(* A statement fails: the client asks for the page again.                  *)
QueryFails ==
  /\ queryFailures < MaxFailures /\ pager.phase = "page"
  /\ queryFailures' = queryFailures + 1
  /\ pager' = [pager EXCEPT !.phase = "count"]
  /\ UNCHANGED <<listing, list, newest, turning>>

ListingsNext ==
  \/ RowAdded
  \/ \E row \in 1..MaxRows : RowLeaves(row) \/ RowJoins(row)
  \/ \E asked \in {0, 1}, limit \in PageSizes : Ask(asked, limit)
  \/ CountRows \/ FetchPage \/ QueryFails

ListingsSpec == ListingsInit /\ [][ListingsNext]_listingsVars
-------------------------------------------------------------------------------
(* A client that turned all the pages saw every row that was there all the *)
(* time, but for one for each row that left meanwhile and for each that    *)
(* came between counting and fetching the last page: OFFSET skips a row    *)
(* only when an earlier one goes, and the client stops early only when the *)
(* count is behind.                                                        *)
MissedBounded ==
  pager.phase = "done" =>
    Cardinality(turning.stayed \ pager.seen) <= turning.left + turning.late

(* A client sees a row that was there all the time a second time only when *)
(* another one came in front of it meanwhile, once for each that came.     *)
RepeatedBounded == pager.repeats <= turning.joined

(* What a client that turns the pages of a changing list can rely on.      *)
PagesBounded == MissedBounded /\ RepeatedBounded
=============================================================================
