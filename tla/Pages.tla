-------------------------------- MODULE Pages --------------------------------
(***************************************************************************)
(* How the read tools cut a collection into pages and tell the caller      *)
(* where to go on.  A controller's page is a record                        *)
(*   [offset, limit, count, total, rows]                                   *)
(* of which the first four are what the controller says about the fifth.   *)
(* A row is [id, key]; its key is the name or the time it is sorted by.    *)
(***************************************************************************)
EXTENDS Naturals, Sequences, FiniteSets, FiniteSetsExt, SequencesExt

CONSTANT End   \* there is no next page

ASSUME EndAssumption == End \notin Nat

-----------------------------------------------------------------------------
(* Lists that are fetched whole with every call.                           *)

\* Iterator::skip and take.
SkipTake(s, offset, limit) == SubSeq(s, offset + 1, Min({offset + limit, Len(s)}))

\* The next page's offset whenever unread rows remain.
NextOffset(offset, returned, total) ==
    IF offset + returned < total THEN offset + returned ELSE End

\* The members of s at the places, sorted.  slice::sort_by is stable: ties
\* keep the order they were read in.  Each member's place is told by how many
\* come before it.
Arranged(s, places, Before(_, _)) ==
    LET ahead(i) == {j \in places : Before(s[j], s[i]) \/ (~Before(s[i], s[j]) /\ j < i)}
        at(n) == CHOOSE i \in places : Cardinality(ahead(i)) = n - 1
    IN  [n \in 1..Cardinality(places) |-> s[at(n)]]

AsTheyCome(a, b) == FALSE
ByName(a, b) == a.key < b.key
ByNameAndId(a, b) == a.key < b.key \/ (a.key = b.key /\ a.id < b.id)
NewestFirst(a, b) == a.key > b.key

\* Iterator::filter
Filtered(s, Test(_)) == Arranged(s, {n \in DOMAIN s : Test(s[n])}, AsTheyCome)

\* A filter, then a sort.
Sorted(s, places, order) ==
    CASE order = "nameAndId" -> Arranged(s, places, ByNameAndId)
      [] order = "name" -> Arranged(s, places, ByName)
      [] order = "newest" -> Arranged(s, places, NewestFirst)
      [] order = "none" -> Arranged(s, places, AsTheyCome)

-----------------------------------------------------------------------------
(* Pages the controller cuts.                                              *)

\* The largest page the controller's API knows.
NativeLimit(asked, cap) == Min({asked, cap})

After(page) == page.offset + Len(page.rows)

\* The page is the one that was asked for and its counts agree.
AsAsked(offset, limit, page) ==
    /\ page.offset = offset
    /\ page.limit # 0 /\ page.limit <= limit
    /\ Len(page.rows) <= page.limit
    /\ page.count = Len(page.rows)

Beyond(page) == page.rows # << >> /\ After(page) > page.total
EmptyTooEarly(page) == page.rows = << >> /\ After(page) < page.total

\* Mutant: the offset the controller reports is not compared.
PageAcceptedAnywhere(offset, limit, page) ==
    AsAsked(page.offset, limit, page) /\ ~Beyond(page) /\ ~EmptyTooEarly(page)
\* Mutant: a page without rows is taken before the end is reached.
EmptyPageAccepted(offset, limit, page) == AsAsked(offset, limit, page) /\ ~Beyond(page)
\* The check of most list tools.
PageAccepted(offset, limit, page) ==
    AsAsked(offset, limit, page) /\ ~Beyond(page) /\ ~EmptyTooEarly(page)

\* vouchers.search also refuses an empty page behind the end.
VoucherPageAccepted(offset, limit, page) ==
    AsAsked(offset, limit, page) /\ After(page) <= page.total /\ ~EmptyTooEarly(page)

\* The total of a filtered DPI catalogue does not count the filter, so only
\* the rows tell whether there are more.
CatalogPageAccepted(offset, limit, page) == AsAsked(offset, limit, page) /\ ~Beyond(page)

Accepted(how, offset, limit, page) ==
    CASE how = "page" -> PageAccepted(offset, limit, page)
      [] how = "vouchers" -> VoucherPageAccepted(offset, limit, page)
      [] how = "catalog" -> CatalogPageAccepted(offset, limit, page)

PageNext(how, page) ==
    IF how = "catalog" THEN IF Len(page.rows) = page.limit THEN After(page) ELSE End
    ELSE NextOffset(page.offset, Len(page.rows), page.total)

-----------------------------------------------------------------------------
(* Scans over several pages inside one call (paged_gather,                 *)
(* device_inventory): pages are taken as they come.                        *)
ScanOver(offset, page) == page.rows = << >> \/ offset + Len(page.rows) >= page.total
ScanCut(start, offset, page, ceiling) == offset + Len(page.rows) - start >= ceiling

-----------------------------------------------------------------------------
(* System log pages have a number; page.total counts all rows, page.pages  *)
(* all pages.                                                              *)

\* SystemLogQuery::validate_response
LogPageAccepted(number, size, page) ==
    /\ page.number = number
    /\ Len(page.rows) <= size
    /\ page.total >= Len(page.rows)
    /\ ~(page.rows = << >> /\ page.total # 0 /\ page.number < page.pages)
    /\ ~(page.rows # << >> /\ page.pages = 0)

LogNext(page) == IF page.number + 1 < page.pages THEN page.number + 1 ELSE End

\* pagination_incomplete of events.read
LogIncomplete(page) ==
    page.number = 0 /\ LogNext(page) = End /\ page.total > Len(page.rows)

\* SystemLogPage::has_more
HasMore(page) ==
    (page.number = 0 /\ page.total > Len(page.rows)) \/ page.number + 1 < page.pages

-----------------------------------------------------------------------------
(* Protect events go on by time: one row more than the limit is asked for, *)
(* and a group of equal times is never split.                              *)

EventPage(events, next) == [refused |-> FALSE, events |-> events, next |-> next]
NoEventPage == [refused |-> TRUE, events |-> << >>, next |-> End]

\* The controller kept to what was asked.
EventsAsAsked(end, limit, events) ==
    /\ \A i \in DOMAIN events : events[i].key <= end
    /\ \A i, j \in DOMAIN events : i < j => events[i].key >= events[j].key
    /\ Len(events) <= limit + 1

\* Where the next page starts when the page ends at boundary and the row
\* behind it has time ahead.
BeforeBoundary(page, boundary, ahead) ==
    LET kept == Filtered(page, LAMBDA e : e.key # boundary)
    IN  CASE boundary = ahead /\ kept = << >> -> NoEventPage
          [] boundary = ahead /\ kept # << >> -> EventPage(kept, boundary)
          [] boundary # ahead -> EventPage(page, IF boundary = 0 THEN End ELSE boundary - 1)

\* Mutant: the whole page is returned, and the next one starts behind it.
SplitGroup(start, end, limit, events) ==
    IF Len(events) > limit
    THEN EventPage(SubSeq(events, 1, limit),
                   IF events[limit].key <= start THEN End ELSE events[limit].key - 1)
    ELSE EventPage(Filtered(events, LAMBDA e : e.key >= start), End)
\* finish_protect_event_page
FinishProtectEventPage(start, end, limit, events) ==
    LET page == SkipTake(events, 0, limit)
        more == Len(events) > limit /\ events[limit + 1].key >= start
    IN  CASE ~EventsAsAsked(end, limit, events) -> NoEventPage
          [] EventsAsAsked(end, limit, events) ->
                IF more THEN BeforeBoundary(page, Last(page).key, events[limit + 1].key)
                ELSE EventPage(Filtered(page, LAMBDA e : e.key >= start), End)
=============================================================================
