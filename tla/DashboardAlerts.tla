---------------------------- MODULE DashboardAlerts ----------------------------
(***************************************************************************)
(* The alerts page at work: a table of alerts that is asked for again and  *)
(* again, a drawer that holds an alert as it was when it was opened, and   *)
(* the two operations on an alert, started from either, several of them    *)
(* under way at once.  Filters and pages are in DashboardLists.            *)
(***************************************************************************)
EXTENDS FiniteSets, Naturals

CONSTANTS Ids,           \* the alerts on the page
          MaxUnderWay    \* bound: operations under way

ASSUME AlertsBounds == "none" \notin Ids /\ MaxUnderWay \in Nat

VARIABLES alertStatus,     \* external: the status of each alert in the backend
          hadStatus,       \* history: every status an alert has had there
          tableStatus,     \* alertsQuery.data: the status of each alert in the table
          selectedAlert,   \* the alert in the drawer, as it was then, or NoAlert
          actingAlertId,   \* the alert whose operation was started last, or "none"
          action           \* [Operations -> [Ids -> how far it has come]]

alertVars == <<alertStatus, hadStatus, tableStatus, selectedAlert, actingAlertId, action>>

Statuses == {"open", "acknowledged", "resolved"}

\* An operation: the statuses in which it is offered, and the one it sets.
Operations ==
    [acknowledge |-> [offered |-> {"open"}, sets |-> "acknowledged"],
     resolve |-> [offered |-> {"open", "acknowledged"}, sets |-> "resolved"]]

\* Sent, written by the backend, and answered: onSuccess has the list fetched anew.
Progress == {"none", "sent", "written", "refetched"}

NoAlert == [id |-> "none", status |-> "open"]

AlertsTypeOK ==
    /\ alertStatus \in [Ids -> Statuses]
    /\ hadStatus \in [Ids -> SUBSET Statuses]
    /\ tableStatus \in [Ids -> Statuses]
    /\ selectedAlert \in [id : Ids, status : Statuses] \union {NoAlert}
    /\ actingAlertId \in Ids \union {"none"}
    /\ action \in [DOMAIN Operations -> [Ids -> Progress]]

AlertsInit ==
    /\ alertStatus = [a \in Ids |-> "open"]
    /\ hadStatus = [a \in Ids |-> {"open"}]
    /\ tableStatus = alertStatus
    /\ selectedAlert = NoAlert /\ actingAlertId = "none"
    /\ action = [o \in DOMAIN Operations |-> [a \in Ids |-> "none"]]

\* A row is opened; the drawer keeps what the row says now.
onView(a) ==
    /\ selectedAlert' = [id |-> a, status |-> tableStatus[a]]
    /\ UNCHANGED <<alertStatus, hadStatus, tableStatus, actingAlertId, action>>

onClose ==
    /\ selectedAlert # NoAlert
    /\ selectedAlert' = NoAlert
    /\ UNCHANGED <<alertStatus, hadStatus, tableStatus, actingAlertId, action>>

\* handleAcknowledge, handleResolve: the row's buttons rest while that row acts,
\* the drawer's while any does.  (Bound: one of a kind for an alert, MaxUnderWay in all.)
offeredInTable(o, a) == tableStatus[a] \in Operations[o].offered /\ actingAlertId # a
offeredInDrawer(o, a) ==
    selectedAlert.id = a /\ selectedAlert.status \in Operations[o].offered /\ actingAlertId = "none"
underWay == {p \in (DOMAIN Operations) \X Ids : action[p[1]][p[2]] # "none"}
handleAlert(o, a) ==
    /\ action[o][a] = "none" /\ Cardinality(underWay) < MaxUnderWay
    /\ offeredInTable(o, a) \/ offeredInDrawer(o, a)
    /\ action' = [action EXCEPT ![o][a] = "sent"]
    /\ actingAlertId' = a
    /\ UNCHANGED <<alertStatus, hadStatus, tableStatus, selectedAlert>>

AlertWritten(o, a) ==
    /\ action[o][a] = "sent"
    /\ action' = [action EXCEPT ![o][a] = "written"]
    /\ alertStatus' = [alertStatus EXCEPT ![a] = Operations[o].sets]
    /\ hadStatus' = [hadStatus EXCEPT ![a] = @ \union {Operations[o].sets}]
    /\ UNCHANGED <<tableStatus, selectedAlert, actingAlertId>>

\* The list arrives: for the interval, or for an operation that waits for it.
AlertsArrive ==
    /\ tableStatus' = alertStatus
    /\ action' = [o \in DOMAIN Operations |-> [a \in Ids |->
                     IF action[o][a] = "written" THEN "refetched" ELSE action[o][a]]]
    /\ UNCHANGED <<alertStatus, hadStatus, selectedAlert, actingAlertId>>

\* Mutant: whatever alert is in the drawer is taken for the one acted on.
drawerAfterAny(o, a) ==
    IF selectedAlert # NoAlert THEN [selectedAlert EXCEPT !.status = Operations[o].sets]
    ELSE selectedAlert

\* The drawer follows if it still shows the alert acted on.
drawerAfter(o, a) ==
    IF selectedAlert.id = a THEN [selectedAlert EXCEPT !.status = Operations[o].sets]
    ELSE selectedAlert

\* mutateAsync returns; the wait for the list may end without one.
AlertHandled(o, a) ==
    /\ action[o][a] \in {"written", "refetched"}
    /\ selectedAlert' = drawerAfter(o, a)
    /\ actingAlertId' = "none"
    /\ action' = [action EXCEPT ![o][a] = "none"]
    /\ UNCHANGED <<alertStatus, hadStatus, tableStatus>>

\* The request is refused, or it or its answer is lost.
AlertRefused(o, a) ==
    /\ action[o][a] \in {"sent", "written"}
    /\ actingAlertId' = "none"
    /\ action' = [action EXCEPT ![o][a] = "none"]
    /\ UNCHANGED <<alertStatus, hadStatus, tableStatus, selectedAlert>>

\* Another operator, or the worker that watches the cameras, resolves an alert.
ResolvedElsewhere(a) ==
    /\ alertStatus[a] # "resolved"
    /\ alertStatus' = [alertStatus EXCEPT ![a] = "resolved"]
    /\ hadStatus' = [hadStatus EXCEPT ![a] = @ \union {"resolved"}]
    /\ UNCHANGED <<tableStatus, selectedAlert, actingAlertId, action>>

AlertsNext ==
    \/ onClose \/ AlertsArrive
    \/ \E a \in Ids :
        \/ onView(a) \/ ResolvedElsewhere(a)
        \/ \E o \in DOMAIN Operations :
            handleAlert(o, a) \/ AlertWritten(o, a) \/ AlertHandled(o, a) \/ AlertRefused(o, a)

AlertsSpec == AlertsInit /\ [][AlertsNext]_alertVars

-----------------------------------------------------------------------------
(* Properties                                                              *)

\* The drawer never says of an alert what was never true of it: whichever alerts
\* are being acknowledged and resolved meanwhile, and whichever the drawer was
\* opened for in between, the status it shows is one this alert has had.  (It may
\* be an old one: the drawer is not fetched anew.)
DrawerTruthful == selectedAlert.id \in Ids => selectedAlert.status \in hadStatus[selectedAlert.id]
=============================================================================
