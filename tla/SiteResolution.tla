--------------------------- MODULE SiteResolution ---------------------------
(***************************************************************************)
(* A request on its way from the socket to its tool (handler.rs), composed *)
(* with Ingress: the caller's identity is established, then the site the   *)
(* tool acts on is looked up in the controller's catalog, once for all     *)
(* requests.  OnceCell::get_or_try_init lets one request scan the catalog; *)
(* the others wait, take the site if it finds one, and otherwise scan      *)
(* themselves, one after the other.                                        *)
(*                                                                         *)
(* The controller is external: it may send fewer rows than were asked for, *)
(* and sites come and go between two pages.                                *)
(***************************************************************************)
EXTENDS Ingress

CONSTANTS
    Sites,       \* sites of the controller
    Configured,  \* the one whose internal reference is configured
    PageLimit,   \* SITES_PAGE_LIMIT
    ScanCeiling, \* SITES_SCAN_CEILING
    MaxEdits,    \* bound: sites added or removed
    NoSite       \* no site

ASSUME SiteAssumption ==
    /\ IsFiniteSet(Sites) /\ Configured \in Sites /\ NoSite \notin Sites
    /\ {PageLimit, ScanCeiling} \subseteq Nat \ {0} /\ MaxEdits \in Nat

VARIABLES
    cell,     \* the OnceCell site_id
    scanner,  \* the request that holds its permit
    waiters,  \* the requests that wait for it, in their order
    scan,     \* the scan under way: offset, sole, and whether it is intact
    catalog,  \* the controller's sites
    edits     \* changes of the catalog so far

site == <<cell, scanner, waiters, scan>>
controller == <<catalog, edits>>
vars == <<ingress, site, controller>>

Catalogs == UNION {{c \in [1..n -> Sites] : IsInjective(c)} : n \in 0..Cardinality(Sites)}
NewScan == [offset |-> 0, sole |-> NoSite, intact |-> TRUE]

\* Who is let in is known, waiters and holders are where their stage says,
\* and nobody scans once the site is known.
TypeOK ==
    /\ IngressTypeOK
    /\ \A r \in Requests :
          /\ r \in Range(waiters) <=> stage[r] = "siteWaiting"
          /\ r = scanner <=> stage[r] = "scanning"
    /\ cell \in Sites \cup {NoSite} /\ (cell # NoSite => scanner = Nobody)
    /\ scanner \in Requests \cup {Nobody}
    /\ waiters \in Seq(Requests) /\ IsInjective(waiters)
    /\ scan \in [offset : Nat, sole : Sites \cup {NoSite}, intact : BOOLEAN]
    /\ catalog \in Catalogs /\ edits \in 0..MaxEdits

Init ==
    /\ IngressInit
    /\ cell = NoSite /\ scanner = Nobody /\ waiters = << >> /\ scan = NewScan
    /\ catalog \in Catalogs /\ edits = 0

-----------------------------------------------------------------------------
(* The call, and the cell.                                                 *)
Outside == UNCHANGED <<transport, now, token, cache, refresh, gateway, lastFetch, controller>>

\* The tool needs no site, or the site is known, or the request queues up
\* for the permit.
Call(r) ==
    /\ At(r, "admitted")
    /\ \/ GoTo(r, "idle") /\ UNCHANGED waiters
       \/ cell = NoSite /\ GoTo(r, "siteWaiting") /\ waiters' = Append(waiters, r)
    /\ UNCHANGED <<cell, scanner, scan>> /\ Outside

\* The permit is free: the first in the queue scans.
TakePermit(r) ==
    /\ At(r, "siteWaiting") /\ cell = NoSite /\ scanner = Nobody /\ Head(waiters) = r
    /\ GoTo(r, "scanning") /\ scanner' = r /\ waiters' = Tail(waiters) /\ scan' = NewScan
    /\ UNCHANGED cell /\ Outside

\* Another request has found the site.
TakeSite(r) ==
    /\ At(r, "siteWaiting") /\ cell # NoSite
    /\ GoTo(r, "idle") /\ waiters' = RemoveFirst(waiters, r)
    /\ UNCHANGED <<cell, scanner, scan>> /\ Outside

-----------------------------------------------------------------------------
(* The scan of the catalog.                                                *)

\* Pages the controller may send for an offset.
PagesAt(offset) ==
    {SubSeq(catalog, offset + 1, offset + n) :
        n \in {k \in 0..PageLimit : k = 0 \/ offset + k <= Len(catalog)}}

\* The scan is over, with a site or without one; only a site is kept.
Over(r, end) == GoTo(r, end) /\ scanner' = Nobody /\ scan' = NewScan
Found(r, s) == Over(r, "idle") /\ cell' = s
Ends(r, end) == Over(r, end) /\ UNCHANGED cell

\* Mutant: the only row of the first page counts as the only site.
SoleOnPage(offset, rows) == IF offset = 0 /\ Len(rows) = 1 THEN rows[1] ELSE scan.sole
\* The sole site so far.
Sole(offset, rows) ==
    IF offset = 0 /\ Len(catalog) = 1 /\ Len(rows) = 1 THEN rows[1] ELSE scan.sole

\* The error is the same whether all rows were seen or an empty page ended
\* the scan; the stage tells them apart for SiteIsRight.
NoneFound(offset) == IF offset >= Len(catalog) THEN "notFound" ELSE "idle"

\* One page: the configured site is on it, or the catalog ends with it, or
\* the ceiling is reached, or the scan goes on.
ReadPage(r) ==
    /\ At(r, "scanning")
    /\ \E rows \in PagesAt(scan.offset) :
          LET sole == Sole(scan.offset, rows)
              offset == scan.offset + Len(rows)
              over == rows = << >> \/ offset >= Len(catalog)
              here == Configured \in Range(rows)
          IN  \/ here /\ Found(r, Configured)
              \/ ~here /\ over /\ sole # NoSite /\ Found(r, sole)
              \/ ~here /\ over /\ sole = NoSite /\ Ends(r, NoneFound(offset))
              \/ ~here /\ ~over /\ offset >= ScanCeiling /\ Ends(r, "idle")
              \/ /\ ~here /\ ~over /\ offset < ScanCeiling
                 /\ scan' = [scan EXCEPT !.offset = offset, !.sole = sole]
                 /\ UNCHANGED <<stage, cell, scanner>>
    /\ UNCHANGED waiters /\ Outside

\* The controller does not answer: api_error.
PageFails(r) ==
    /\ At(r, "scanning") /\ Ends(r, "idle")
    /\ UNCHANGED waiters /\ Outside

\* Mutant: the permit stays with a call that is gone.
DropCallKeepsPermit(r) ==
    /\ stage[r] \in {"siteWaiting", "scanning"}
    /\ GoTo(r, "idle")
    /\ waiters' = RemoveFirst(waiters, r)
    /\ UNCHANGED <<cell, scanner, scan>> /\ Outside
\* The deadline of the call passes, or the client hangs up: the permit goes
\* to the next in the queue, and nothing of the scan is kept.
DropCall(r) ==
    /\ stage[r] \in {"siteWaiting", "scanning"}
    /\ GoTo(r, "idle")
    /\ waiters' = RemoveFirst(waiters, r)
    /\ scanner' = IF scanner = r THEN Nobody ELSE scanner
    /\ scan' = IF scanner = r THEN NewScan ELSE scan
    /\ UNCHANGED cell /\ Outside

Resolve(r) == Call(r) \/ TakePermit(r) \/ TakeSite(r) \/ ReadPage(r) \/ PageFails(r)

-----------------------------------------------------------------------------
(* The controller: a site is added or removed anywhere.  Once the cell is  *)
(* set the catalog is not read any more.                                   *)
Edit ==
    /\ cell = NoSite /\ edits < MaxEdits /\ edits' = edits + 1
    /\ \/ \E i \in 1..Len(catalog) : catalog' = RemoveAt(catalog, i)
       \/ \E s \in Sites \ Range(catalog), i \in 1..(Len(catalog) + 1) :
             catalog' = InsertAt(catalog, i, s)
    /\ scan' = [scan EXCEPT !.intact = (scanner = Nobody)]
    /\ UNCHANGED <<ingress, cell, scanner, waiters>>

-----------------------------------------------------------------------------
Next ==
    \/ \E r \in Requests :
          \/ (Arrive(r) \/ Authenticate(r) \/ Abandon(r)) /\ UNCHANGED <<site, controller>>
          \/ Resolve(r) \/ DropCall(r)
    \/ (Rotate \/ Tick) /\ UNCHANGED <<site, controller>>
    \/ Edit

\* A request that can go on does: fetches and pages end by their timeouts,
\* and both queues are served in their order.  Nothing is assumed of new
\* requests, drops, the gateway's keys, the catalog, or the clock.
Fairness ==
    \A r \in Requests :
        WF_vars((Authenticate(r) /\ UNCHANGED <<site, controller>>) \/ Resolve(r))

Spec == Init /\ [][Next]_vars /\ Fairness

-----------------------------------------------------------------------------
(* Properties.                                                             *)

\* The site is set once, to the one that is configured or to the only one
\* there is, whatever the page sizes and whatever happened to the catalog
\* during the scan; and "not found" is the answer only if neither exists,
\* or the controller lost rows or changed its catalog during the scan.
SiteIsRight ==
    [][/\ cell' # cell => /\ cell = NoSite
                          /\ cell' = Configured => Configured \in Range(catalog)
                          /\ cell' # Configured => catalog = <<cell'>>
       /\ \A r \in Requests :
             stage[r] = "scanning" /\ stage'[r] = "notFound" /\ scan.intact
             => Configured \notin Range(catalog) /\ Len(catalog) # 1]_vars

\* Every request gets an answer or is dropped: a request that is dropped
\* while it holds the mutex of the key cache or the permit of the site cell
\* holds up nobody, and no scan goes on for ever.
EveryRequestEnds == \A r \in Requests : stage[r] \notin Idle ~> stage[r] \in Idle

-----------------------------------------------------------------------------
\* The inductive invariant behind SiteIsRight.  A scan that goes on has no
\* sole site, and as long as the catalog does not change under it, it has
\* passed rows none of which is the configured site, with rows to come.
ScanInv ==
    /\ scan.sole = NoSite
    /\ scanner # Nobody /\ scan.intact =>
          /\ scan.offset = 0 \/ scan.offset < Len(catalog)
          /\ \A i \in 1..scan.offset : catalog[i] # Configured

ResolutionInv == TypeOK /\ IngressInv /\ ScanInv
=============================================================================
