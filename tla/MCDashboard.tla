----------------------------- MODULE MCDashboard -----------------------------
(***************************************************************************)
(* One run for the parts of the dashboard.  They share no variable, so one *)
(* of them moves and the others rest in a state in which they could: this  *)
(* checks each for itself and spares the product of their states.          *)
(***************************************************************************)
EXTENDS DashboardSession, DashboardAccess, DashboardData, DashboardLists, DashboardAlerts,
        DashboardForms, DashboardValues

\* One word, two words, and two words with two spaces between them; an address of one line.
FewNames == {<<"a">>, <<"a", Space, "a">>, <<"a", Space, Space, "a">>}
OneStreet == {<<[key |-> "street", value |-> "x"]>>}

VARIABLE part

listsOn == <<listVars, alertVars, formVars, valuesVars>>
vars == <<part, sessionVars, accessVars, dataVars, listsOn>>

SessionRests ==
    /\ server = [unspent |-> {1}, withdrawn |-> NoToken, next |-> 2,
                 profile |-> "admin"]
    /\ stored = [refresh |-> NoToken, user |-> "none"]
    /\ tab = [access |-> NoToken, refresh |-> NoToken, user |-> "none", isLoading |-> FALSE]
    /\ refreshing = [r \in Callers |-> NotWaiting]
    /\ call = [c \in Calls |-> NoCall]
    /\ form = [login |-> FALSE, logout |-> NoToken]
    /\ path = "/login"
    /\ outside = [count |-> 0, lost |-> FALSE]
AccessRests ==
    /\ role = "TECHNICIAN" /\ route = <<"dashboard">> /\ reached = "link" /\ openTab = "overview"
    /\ sidebar = [collapsed |-> FALSE, mobileOpen |-> FALSE, stored |-> FALSE]
DataRests ==
    /\ pair = [query |-> "alerts", mutation |-> "acknowledgeAlert"]
    /\ db = 0 /\ cache = Absent
    /\ write = [pc |-> "idle", step |-> 0, version |-> 0]
ListRests == ListInit /\ listed = [list |-> "users", filter |-> "search"]
FormsRest == FormsInit /\ formKind = "UserForm"
ValuesRest == recordKind = "revenueShare" /\ record \in Records.revenueShare

Init ==
    \/ /\ part = "session" /\ SessionInit
       /\ AccessRests /\ DataRests /\ ListRests /\ AlertsInit /\ FormsRest /\ ValuesRest
    \/ /\ part = "access" /\ AccessInit
       /\ SessionRests /\ DataRests /\ ListRests /\ AlertsInit /\ FormsRest /\ ValuesRest
    \/ /\ part = "data" /\ DataInit
       /\ SessionRests /\ AccessRests /\ ListRests /\ AlertsInit /\ FormsRest /\ ValuesRest
    \/ /\ part = "list" /\ ListInit
       /\ SessionRests /\ AccessRests /\ DataRests /\ AlertsInit /\ FormsRest /\ ValuesRest
    \/ /\ part = "alerts" /\ AlertsInit
       /\ SessionRests /\ AccessRests /\ DataRests /\ ListRests /\ FormsRest /\ ValuesRest
    \/ /\ part = "form" /\ FormsInit
       /\ SessionRests /\ AccessRests /\ DataRests /\ ListRests /\ AlertsInit /\ ValuesRest
    \/ /\ part = "values" /\ ValuesInit
       /\ SessionRests /\ AccessRests /\ DataRests /\ ListRests /\ AlertsInit /\ FormsRest

core == <<part, sessionVars, accessVars, dataVars>>
Next ==
    \/ part = "session" /\ SessionNext /\ UNCHANGED <<part, accessVars, dataVars, listsOn>>
    \/ part = "access" /\ AccessNext /\ UNCHANGED <<part, sessionVars, dataVars, listsOn>>
    \/ part = "data" /\ DataNext /\ UNCHANGED <<part, sessionVars, accessVars, listsOn>>
    \/ part = "list" /\ ListNext /\ UNCHANGED <<core, alertVars, formVars, valuesVars>>
    \/ part = "alerts" /\ AlertsNext /\ UNCHANGED <<core, listVars, formVars, valuesVars>>
    \/ part = "form" /\ FormsNext /\ UNCHANGED <<core, listVars, alertVars, valuesVars>>
    \/ part = "values" /\ ValuesNext /\ UNCHANGED <<core, listVars, alertVars, formVars>>

Spec == Init /\ [][Next]_vars /\ SessionFairness /\ DataFairness

\* The state of every part is of its type.
TypeOK ==
    /\ SessionTypeOK /\ AccessTypeOK /\ DataTypeOK /\ ListTypeOK /\ AlertsTypeOK
    /\ FormsTypeOK /\ ValuesTypeOK
=============================================================================
