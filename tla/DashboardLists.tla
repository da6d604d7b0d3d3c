---------------------------- MODULE DashboardLists ----------------------------
(***************************************************************************)
(* The lists of the dashboard and the page of each that is shown: one of   *)
(* the lists, one of its filters, which a user sets and clears, and rows   *)
(* that come and go as the filter and the backend will have it.  A render  *)
(* and the effects that follow it are steps of their own.  What a filter   *)
(* keeps is left open: after a change there may be any number of rows      *)
(* (none, while a filter of the backend's is being asked for).             *)
(***************************************************************************)
EXTENDS Integers, Sequences, FiniteSetsExt

CONSTANTS MaxRows,       \* bound: rows of a list
          PageSizes,     \* LIST_PAGE_SIZE_OPTIONS, in units of this model
          FirstSize      \* DEFAULT_LIST_PAGE_SIZE and the PAGE_SIZE of the audit log

ASSUME ListBounds == MaxRows \in Nat /\ PageSizes \subseteq Nat \ {0} /\ FirstSize \in PageSizes

VARIABLES listed,    \* [list, filter]: a list and the one of its filters that varies
          setting,   \* [typed, applied]: the value of the filter, in its control and in use
          rowCount,  \* the rows that pass the filters
          pager,     \* [page, size]: the state of useClientPagination
          kept,      \* of the rows the backend cuts pages of, those a filter of the page keeps
          seen,      \* [applied, rowCount] when the effects last ran
          turned     \* history: the value of the filter in use when a page was asked for

listVars == <<listed, setting, rowCount, pager, kept, seen, turned>>

-----------------------------------------------------------------------------
(* Pages of a list (lib/list-controls.ts).                                 *)

paginateArray(items, page, size) == SubSeq(items, page * size + 1, Min({(page + 1) * size, Len(items)}))
getListPageCount(total, size) == Max({1, (total + size - 1) \div size})

\* Mutant: a page past the last one stays.
clampFrom0(page, pages) == Max({0, page})

clampPage(page, pages) == Max({0, Min({page, pages - 1})})

getListRange(total, page, size) ==
    LET shown == clampPage(page, getListPageCount(total, size))
    IN IF total = 0 THEN [start |-> 0, end |-> 0]
       ELSE [start |-> shown * size + 1, end |-> Min({total, (shown + 1) * size})]

-----------------------------------------------------------------------------
(* The lists: the filters of each, and those whose change resets the page. *)

List(filters, resetDeps) ==
    [filters |-> filters, resetDeps |-> resetDeps, clamped |-> TRUE, sized |-> TRUE]

UsersList == List({"search", "role", "status", "schoolId"}, {"search", "role", "status", "schoolId"})
SchoolsList == List({"search", "status"}, {"search", "status"})
ParentsList == List({"search"}, {"search"})

CamerasFilters == {"schoolId", "status", "quality", "search"}
CamerasList == List(CamerasFilters, {"search", "status", "quality", "schoolId"})

AlertsFilters == {"status", "severity", "alertType", "schoolId", "cameraId", "search"}
AlertsList ==
    List(AlertsFilters, {"search", "status", "severity", "alertType", "schoolId", "cameraId"})

BillingFiltersBar(methods) ==
    {"search", "schoolId", "parentId", "status"} \union (IF methods THEN {"method"} ELSE {})
SubscriptionsList ==
    List(BillingFiltersBar(FALSE), {"search", "schoolId", "parentId", "status"})

\* Mutant: the method of payment does not reset the page.
PaymentsListKept ==
    List(BillingFiltersBar(TRUE), {"search", "schoolId", "parentId", "status"})

PaymentsList ==
    List(BillingFiltersBar(TRUE), {"search", "schoolId", "parentId", "status", "method"})
InvoicesList ==
    List(BillingFiltersBar(FALSE), {"search", "schoolId", "parentId", "status"})

\* The audit log turns its own pages: the backend cuts them, at an offset, none is
\* clamped, the size is fixed and the number of rows resets nothing.  For a search
\* the page filters and then cuts for itself; but for a part of a user's id, and a
\* search beside a whole one, it filters what the backend has cut (FilterCut).
AuditLogsFilters == {"schoolId", "userId", "cameraId", "action", "dateFrom", "dateTo", "search"}
AuditLogsList ==
    [filters |-> AuditLogsFilters, resetDeps |-> AuditLogsFilters, clamped |-> FALSE, sized |-> FALSE]

Lists ==
    [users |-> UsersList, schools |-> SchoolsList, parents |-> ParentsList,
     cameras |-> CamerasList, alerts |-> AlertsList, subscriptions |-> SubscriptionsList,
     payments |-> PaymentsList, invoices |-> InvoicesList, auditLogs |-> AuditLogsList]

theList == Lists[listed.list]

-----------------------------------------------------------------------------
Values == 0..1          \* a filter is at rest, or set
AllRows == 1..MaxRows

ListTypeOK ==
    /\ listed \in UNION {[list : {n}, filter : Lists[n].filters] : n \in DOMAIN Lists}
    /\ setting \in [typed : Values, applied : Values]
    /\ rowCount \in 0..MaxRows
    /\ pager \in [page : 0..MaxRows, size : PageSizes]
    /\ kept \subseteq AllRows
    /\ seen \in [applied : Values, rowCount : 0..MaxRows]
    /\ turned \in Values

ListInit ==
    /\ listed \in UNION {[list : {n}, filter : Lists[n].filters] : n \in DOMAIN Lists}
    /\ setting = [typed |-> 0, applied |-> 0]
    /\ rowCount = 0
    /\ pager = [page |-> 0, size |-> FirstSize]
    /\ kept = AllRows
    /\ seen = [applied |-> 0, rowCount |-> 0]
    /\ turned = 0

totalPages == getListPageCount(rowCount, pager.size)

\* The page a render shows: the one asked for, or the last there is.
safePage == IF theList.clamped THEN clampPage(pager.page, totalPages) ELSE pager.page

\* The page may filter what the backend has cut; rowCount is the backend's total.
FilterCut ==
    listed.list = "auditLogs" /\ listed.filter \in {"userId", "search"} /\ setting.applied = 1

\* The rows of the page and the range that stands above them; the audit log counts
\* from the offset (what it cuts for itself ends with the page, or the last row).
cutItems == paginateArray([i \in 1..rowCount |-> i], safePage, pager.size)
paginatedItems == IF kept = AllRows THEN cutItems ELSE SelectSeq(cutItems, LAMBDA i : i \in kept)

auditRange ==
    LET offset == pager.page * pager.size
    IN IF rowCount = 0 THEN [start |-> 0, end |-> 0]
       ELSE [start |-> offset + 1, end |-> offset + Len(paginatedItems)]
listRange ==
    IF theList.clamped THEN getListRange(rowCount, safePage, pager.size) ELSE auditRange

\* Where nothing is shown there is no pager either.
pagerShown == paginatedItems # <<>> /\ (~theList.clamped => rowCount > pager.size \/ pager.page > 0)

\* Search boxes are debounced, but for that of the audit log.
debounced == listed.filter = "search" /\ theList.clamped

\* The effects of a render: a change of what resets the page resets it.  React runs
\* them before the next render, whatever causes it.
effectDue ==
    \/ listed.filter \in theList.resetDeps /\ seen.applied # setting.applied
    \/ theList.clamped /\ seen.rowCount # rowCount
ResetEffect ==
    /\ effectDue
    /\ pager' = [pager EXCEPT !.page = 0]
    /\ seen' = [applied |-> setting.applied, rowCount |-> rowCount]
    /\ UNCHANGED <<listed, setting, rowCount, kept, turned>>

\* The rows of another filter, page or moment.
OtherRows ==
    /\ rowCount' \in 0..MaxRows
    /\ kept' \in IF FilterCut' THEN SUBSET AllRows ELSE {AllRows}

\* A filter is set or cleared; other rows pass.
SetFilter ==
    /\ ~effectDue
    /\ UNCHANGED <<listed, pager, seen, turned>>
    /\ \E value \in Values :
        /\ value # setting.typed
        /\ setting' = [typed |-> value, applied |-> IF debounced THEN setting.applied ELSE value]
    /\ IF debounced THEN UNCHANGED <<rowCount, kept>> ELSE OtherRows

\* Nothing was typed for 300 ms.
useDebouncedValue ==
    /\ ~effectDue /\ debounced /\ setting.applied # setting.typed
    /\ setting' = [setting EXCEPT !.applied = setting.typed]
    /\ rowCount' \in 0..MaxRows
    /\ UNCHANGED <<listed, pager, kept, seen, turned>>

\* The query answers, for the first time or again.
DataArrives ==
    /\ ~effectDue
    /\ UNCHANGED <<listed, setting, pager, seen, turned>>
    /\ OtherRows /\ <<rowCount, kept>>' # <<rowCount, kept>>

\* Previous and Next; another page of the audit log is another query.
setPage ==
    /\ ~effectDue /\ pagerShown
    /\ \/ safePage > 0 /\ pager' = [pager EXCEPT !.page = safePage - 1]
       \/ safePage + 1 < totalPages /\ pager' = [pager EXCEPT !.page = safePage + 1]
    /\ turned' = setting.applied
    /\ UNCHANGED <<listed, setting, seen>>
    /\ IF theList.clamped THEN UNCHANGED <<rowCount, kept>> ELSE OtherRows

setPageSizeAndReset ==
    /\ ~effectDue /\ pagerShown /\ theList.sized
    /\ \E size \in PageSizes : pager' = [page |-> 0, size |-> size]
    /\ UNCHANGED <<listed, setting, rowCount, kept, seen, turned>>

ListNext ==
    \/ SetFilter \/ useDebouncedValue \/ DataArrives \/ ResetEffect \/ setPage
    \/ setPageSizeAndReset

ListSpec == ListInit /\ [][ListNext]_listVars

-----------------------------------------------------------------------------
(* Properties                                                              *)

\* A page number never outlives the filter it was asked for under: with the
\* effects done, a page other than the first was turned to under the value of
\* the filter in use now.
PageTurnedHere == ~effectDue /\ pager.page # 0 => turned = setting.applied

\* What stands above a list is what is in it, in every render, the one between a
\* change of the rows and the effect that resets the page included; and a list
\* that has rows never shows an empty page.  Not so the audit log: its page may be
\* empty, and once it drops rows of a page that the backend has cut, its range says
\* how many rows are shown and not which of the backend's they are.
RangeTruthful ==
    /\ pagerShown /\ (FilterCut => kept = AllRows) =>
        /\ listRange.start \in 1..rowCount
        /\ paginatedItems = [i \in 1..Len(paginatedItems) |-> listRange.start + i - 1]
        /\ listRange.end = listRange.start + Len(paginatedItems) - 1
    /\ theList.clamped /\ rowCount > 0 => paginatedItems # <<>>
=============================================================================
