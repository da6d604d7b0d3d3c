--------------------------- MODULE DashboardAccess ---------------------------
(***************************************************************************)
(* Who sees what in the dashboard: the permissions of the roles, the       *)
(* permission each route asks for, the menu and the links of every page,   *)
(* the operations a page offers and the data it asks the backend for, and  *)
(* one signed-in user who follows links, types addresses, opens tabs and   *)
(* is given another role.  A route is a sequence of segments, an           *)
(* identifier in it the segment "id".  Layout is left out.                 *)
(***************************************************************************)
EXTENDS DashboardApi

VARIABLES role,     \* the role of the user, as the tab knows it
          route,    \* the route shown
          reached,  \* how: "link" (the dashboard led here) or "otherwise"
          openTab,  \* the tab open on a school's or a camera's page
          sidebar   \* [collapsed, mobileOpen, stored], stored in localStorage

accessVars == <<role, route, reached, openTab, sidebar>>

-----------------------------------------------------------------------------
(* Permissions.                                                            *)

TechnicianPermissions ==
    {"dashboard:view", "cameraMonitoring:view", "alerts:view", "alerts:manage",
     "cameras:view", "system:view", "auth:changeOwnPassword"}

SchoolAdminPermissions ==
    (TechnicianPermissions \ {"system:view"}) \union
    {"cameras:create", "cameras:update", "schools:view", "schools:update",
     "revenueShare:view", "classrooms:view", "classrooms:create", "classrooms:update",
     "children:view", "children:create", "children:update", "parents:view",
     "parents:create", "parents:linkChildren", "billing:view", "billing:manage",
     "auditLogs:view"}

SuperAdminPermissions ==
    SchoolAdminPermissions \union
    {"schools:create", "schoolAdmins:manage", "revenueShare:manage", "system:view",
     "settings:view", "users:view", "users:create", "users:update",
     "users:resetPassword", "users:changeRole", "users:disable"}

ROLE_PERMISSIONS ==
    [SUPER_ADMIN |-> SuperAdminPermissions, SCHOOL_ADMIN |-> SchoolAdminPermissions,
     TECHNICIAN |-> TechnicianPermissions]

hasPermission(r, permission) == permission \in ROLE_PERMISSIONS[r]

Asks(pattern, permission) == [p \in {pattern} |-> permission]

ROUTE_PERMISSIONS ==
    Together({[dashboard |-> "dashboard:view", alerts |-> "alerts:view", cameras |-> "cameras:view",
               schools |-> "schools:view", parents |-> "parents:view",
               children |-> "children:view", billing |-> "billing:view",
               system |-> "system:view", settings |-> "settings:view", users |-> "users:view"],
              Asks("camera-monitoring", "cameraMonitoring:view"),
              Asks("audit-logs", "auditLogs:view"),
              Asks("change-password", "auth:changeOwnPassword")})

\* These are tried first: the general pattern of their first segment matches too.
SPECIAL_ROUTE_PERMISSIONS ==
    Together({Asks(<<"schools", "new">>, "schools:create"),
              Asks(<<"schools", "id", "edit">>, "schools:update"),
              Asks(<<"parents", "new">>, "parents:create"), Asks(<<"users", "new">>, "users:create"),
              Asks(<<"settings", "security">>, "auth:changeOwnPassword")})

\* Mutant: the general patterns are tried first.
GeneralPermission(p) == ROUTE_PERMISSIONS[p[1]]

getRoutePermission(p) ==
    IF p \in DOMAIN SPECIAL_ROUTE_PERMISSIONS THEN SPECIAL_ROUTE_PERMISSIONS[p]
    ELSE ROUTE_PERMISSIONS[p[1]]

\* RequirePermission inside the shell: the page, or AccessDenied in its place.
RequirePermission(r, p) == hasPermission(r, getRoutePermission(p))

canManageBilling(r) == hasPermission(r, "billing:manage")
canManageCameras(r) == hasPermission(r, "cameras:update")
canCreateCamera(r) == hasPermission(r, "cameras:create")
canEditSchool(r) == hasPermission(r, "schools:update")
canEditSchoolFull(r) == canEditSchool(r) /\ r = "SUPER_ADMIN"
canUpdateSchedule(r) == r = "SUPER_ADMIN"
canViewSystemWorkers(r) == hasPermission(r, "system:view") /\ r # "SCHOOL_ADMIN"
canManageSchoolStructure(r) ==
    \E p \in {"classrooms:create", "children:create", "parents:create"} : hasPermission(r, p)

-----------------------------------------------------------------------------
(* What a component shows: the routes it links or sends to, the calls its  *)
(* controls make and the calls its queries make.                           *)

Shows(links, offers, reads) == [links |-> links, offers |-> offers, reads |-> reads]
Nothing == Shows({}, {}, {})
If(condition, shown) == IF condition THEN shown ELSE Nothing
All(S) == Shows(UNION {s.links : s \in S}, UNION {s.offers : s \in S}, UNION {s.reads : s \in S})

Camera == <<"cameras", "id">>
CameraHealth == <<"cameras", "id", "health">>
School == <<"schools", "id">>

mainNavItems ==
    {<<"dashboard">>, <<"camera-monitoring">>, <<"alerts">>, <<"cameras">>, <<"schools">>,
     <<"users">>, <<"parents">>, <<"billing", "subscriptions">>, <<"audit-logs">>, <<"system">>}

\* The sidebar shows an item to whom the item's own permission is given.
AppSidebar(r) ==
    Shows({p \in mainNavItems : hasPermission(r, ROUTE_PERMISSIONS[p[1]])}, {}, {})

\* The alerts of the overview lead to their page.
AlertsSummary == Shows({<<"alerts">>}, {}, {})
DashboardOverview == All({AlertsSummary, Shows({}, {}, {"getAdminDashboard"})})

CameraStatusTable == Shows({CameraHealth}, {}, {})
CameraMonitoringPage ==
    All({CameraStatusTable, Shows({}, {}, {"listSchools", "getSchoolCameraStatus"})})

CameraHealthPage ==
    Shows({<<"camera-monitoring">>}, {}, {"getCameraHealthDetail", "getSchedulerStatus"})

AlertsTable == Shows({}, {"acknowledgeAlert", "resolveAlert"}, {})
AlertDetailDrawer == AlertsTable
AlertsPage == All({AlertsTable, AlertDetailDrawer,
                   Shows({}, {}, {"getAlerts", "getAlertDeliveries", "listSchools"})})

\* The classrooms are asked for once a school is known: given, or the first listed.
CameraTable(canManage) ==
    All({Shows({Camera, CameraHealth}, {}, {}), If(canManage, Shows({}, {"updateCamera"}, {}))})
CreateCameraDialog == Shows({Camera}, {"createCamera"}, {"getSchoolClassrooms"})
CamerasPage(r, fixedSchool) ==
    All({CameraTable(canManageCameras(r)), Shows({}, {}, {"listSchools"}),
         If(fixedSchool \/ BackendAccepts(r, "listSchools"),
            Shows({}, {}, {"getSchoolCameras", "getSchoolCameraStatus", "getSchoolClassrooms"})),
         If(canManageCameras(r), CreateCameraDialog)})

\* The form asks for the school's classrooms, editable or not.
EditCameraForm(canManage) ==
    All({Shows({}, {}, {"getSchoolClassrooms"}), If(canManage, Shows({}, {"updateCamera"}, {}))})
CameraHealthSummaryCard == Shows({CameraHealth}, {}, {"getCameraHealthDetail"})
CameraStreamStateCard == Shows({}, {}, {"getCameraStreamState"})
CameraDetailPage(r, t) ==
    All({Shows({<<"cameras">>, CameraHealth}, {}, {"getCamera", "listSchools"}),
         If(t = "configuration", EditCameraForm(canManageCameras(r))),
         If(t = "health", CameraHealthSummaryCard),
         If(t = "stream-state", CameraStreamStateCard),
         If(t = "danger-zone" /\ canManageCameras(r), Shows({}, {"updateCamera"}, {}))})

SchoolsTable(canEdit) ==
    All({Shows({School}, {}, {}), If(canEdit, Shows({<<"schools", "id", "edit">>}, {}, {}))})

\* Mutant: the button that creates a school is shown to everyone.
SchoolsPageForAll(r) ==
    All({SchoolsTable(canEditSchool(r)), Shows({<<"schools", "new">>}, {}, {"getSchools"})})

SchoolsPage(r) ==
    All({SchoolsTable(canEditSchool(r)), Shows({}, {}, {"getSchools"}),
         If(hasPermission(r, "schools:create"), Shows({<<"schools", "new">>}, {}, {}))})

CreateSchoolPage == Shows({<<"schools">>, School}, {"createSchoolFromForm"}, {})

EditSchoolPage(r) ==
    Shows({<<"schools">>, School},
          {IF canEditSchoolFull(r) THEN "updateSchoolFromForm" ELSE "updateSchoolLimited"},
          {"getSchool"})

BillingNav ==
    Shows({<<"billing", "subscriptions">>, <<"billing", "payments">>, <<"billing", "invoices">>}, {}, {})

\* On a school's own pages the three lists stand below one another, without the menu.
SubscriptionsTable(canManage) ==
    All({Shows({<<"parents", "id">>}, {}, {}),
         If(canManage, Shows({}, {"updateSubscriptionStatus", "extendSubscription"}, {}))})
SubscriptionsPage(r, fixed) ==
    All({If(~fixed, BillingNav), Shows({}, {}, {"getSubscriptions", "getSchools", "getParents"}),
         SubscriptionsTable(canManageBilling(r)),
         If(canManageBilling(r), Shows({}, {"createSubscription"}, {}))})

PaymentsPage(r, fixed) ==
    All({If(~fixed, BillingNav), Shows({}, {}, {"getPayments", "getSchools", "getParents"}),
         If(canManageBilling(r), Shows({}, {"createPayment", "approvePayment", "rejectPayment"}, {}))})

InvoicesPage(r, fixed) ==
    All({If(~fixed, BillingNav), Shows({}, {}, {"getInvoices", "getSchools", "getParents"}),
         If(canManageBilling(r), Shows({}, {"createInvoice", "markInvoicePaid", "voidInvoice"}, {}))})

SchoolAdminsSection == Shows({}, {"assignSchoolAdmin"}, {"getSchoolAdmins"})
RevenueShareSection(canEdit) ==
    All({Shows({}, {}, {"getSchoolRevenueShare"}),
         If(canEdit, Shows({}, {"setSchoolRevenueShare"}, {}))})

SchoolOverviewTab(r) ==
    All({Shows({}, {}, {"getSchoolClassrooms", "getSchoolChildren", "getSchoolCameras",
                        "getSchoolCameraStatus", "getSchoolStorageUsage", "getAlerts"}),
         If(hasPermission(r, "schoolAdmins:manage"), SchoolAdminsSection),
         RevenueShareSection(hasPermission(r, "revenueShare:manage"))})

ClassroomsTab(r) ==
    All({Shows({}, {}, {"getSchoolClassrooms", "getSchoolChildren", "getSchoolCameras"}),
         If(canManageSchoolStructure(r), Shows({}, {"createClassroom", "updateClassroom"}, {}))})

ChildParentsDialog == Shows({}, {"linkParentToChild"}, {"getParents", "getChildParents"})
ChildrenTab(r) ==
    All({Shows({}, {}, {"getSchoolClassrooms", "getSchoolChildren"}), ChildParentsDialog,
         If(canManageSchoolStructure(r), Shows({}, {"createChild", "updateChild"}, {}))})

SchoolCamerasTab(r) ==
    All({Shows({<<"schools", "id", "cameras">>}, {},
               {"getSchools", "getSchoolCameras", "getSchoolCameraStatus"}),
         CameraTable(canManageCameras(r))})

SchoolScheduleTab(r) ==
    All({Shows({}, {}, {"getSchoolSchedule"}),
         If(canUpdateSchedule(r), Shows({}, {"updateSchoolSchedule"}, {}))})

SchoolBilling(r) ==
    All({RevenueShareSection(hasPermission(r, "revenueShare:manage")), SubscriptionsPage(r, TRUE),
         PaymentsPage(r, TRUE), InvoicesPage(r, TRUE)})
SchoolBillingPage(r) == All({SchoolBilling(r), Shows({<<"schools">>, School}, {}, {"getSchool"})})
SchoolBillingTab(r) == All({SchoolBilling(r), Shows({<<"schools", "id", "billing">>}, {}, {})})
SchoolAlertsTab == Shows({<<"alerts">>}, {}, {"getAlerts"})
SchoolStorageTab == Shows({}, {}, {"getSchoolStorageUsage"})
SchoolParentsTab == Shows({<<"parents">>}, {}, {})

TAB_PERMISSIONS ==
    [overview |-> "schools:view", classrooms |-> "classrooms:view", children |-> "children:view",
     parents |-> "parents:view", cameras |-> "cameras:view", schedule |-> "schools:view",
     billing |-> "billing:view", alerts |-> "alerts:view", storage |-> "billing:view"]
cameraTabs == {"overview", "configuration", "health", "stream-state", "danger-zone"}

SchoolDetailPage(r, t) ==
    All({Shows({<<"schools">>}, {}, {"getSchool"}),
         If(canEditSchool(r), Shows({<<"schools", "id", "edit">>}, {}, {})),
         If(canCreateCamera(r), Shows({<<"schools", "id", "cameras">>}, {}, {})),
         If(t = "overview", SchoolOverviewTab(r)),
         If(t = "classrooms", ClassroomsTab(r)),
         If(t = "children", ChildrenTab(r)),
         If(t = "parents", SchoolParentsTab),
         If(t = "cameras", SchoolCamerasTab(r)),
         If(t = "schedule", SchoolScheduleTab(r)),
         If(t = "billing", SchoolBillingTab(r)),
         If(t = "alerts", SchoolAlertsTab),
         If(t = "storage", SchoolStorageTab)})

UsersTable == Shows({<<"users", "id">>}, {}, {})
UsersPage(r) ==
    All({UsersTable, Shows({}, {}, {"getUsers", "getSchools"}),
         If(hasPermission(r, "users:create"), Shows({<<"users", "new">>}, {}, {}))})

UserForm == Shows({<<"users", "id">>}, {"createUser"}, {"getSchools"})

ResetPasswordDialog == Shows({}, {"resetUserPassword"}, {})
ForcePasswordChangeDialog == Shows({}, {"forceUserPasswordChange"}, {})
UserDetailPage ==
    All({Shows({<<"users">>}, {"updateUser", "updateUserStatus", "updateUserRole", "assignUserSchools"},
               {"getUserById", "getSchools"}),
         ResetPasswordDialog, ForcePasswordChangeDialog})

ParentsPage(r) ==
    All({Shows({<<"parents", "id">>}, {}, {"getParents"}),
         If(hasPermission(r, "parents:create"), Shows({<<"parents", "new">>}, {}, {}))})

ParentForm == Shows({<<"parents">>, <<"parents", "id">>}, {"createParent"}, {})

BillingCreates(r) ==
    If(canManageBilling(r), Shows({}, {"createSubscription", "createPayment", "createInvoice"}, {}))

ParentBillingSection(r) ==
    All({Shows({<<"billing", "subscriptions">>, <<"billing", "payments">>, <<"billing", "invoices">>},
               {}, {"getSubscriptions", "getPayments", "getInvoices", "getSchools", "getParents"}),
         BillingCreates(r)})

ParentCodeSection ==
    Shows({}, {"generateParentInvitationCode", "revokeParentInvitationCode"},
          {"listParentInvitationCodes"})
ParentDetailPage(r) ==
    All({Shows({<<"parents">>}, {}, {"getParentById"}),
         If(hasPermission(r, "parents:create"), ParentCodeSection),
         If(hasPermission(r, "billing:view"), ParentBillingSection(r))})

AuditLogsPage == Shows({}, {}, {"getAuditLogsPage", "listSchools", "getSchoolCameras"})

SystemNavTabs(r) ==
    All({Shows({<<"system">>, <<"system", "storage">>, <<"system", "scheduler">>}, {}, {}),
         If(canViewSystemWorkers(r),
            Shows({<<"system", "workers">>, <<"system", "retention">>}, {}, {}))})

SystemOverviewPage(r) ==
    All({SystemNavTabs(r), Shows({}, {}, {"getHealthSummary", "getSchedulerStatus", "getStorageUsage"}),
         If(canViewSystemWorkers(r), Shows({}, {}, {"getWorkers", "getRetentionStatus"}))})

\* The routes of app/.  CreateSchoolGuard around CreateSchoolPage asks for the
\* permission of the route once more.
Page(p, shown) == [route |-> p, shown |-> shown]
Pages(r, t) ==
    {Page(<<"dashboard">>, DashboardOverview),
     Page(<<"camera-monitoring">>, CameraMonitoringPage),
     Page(<<"alerts">>, AlertsPage),
     Page(<<"cameras">>, CamerasPage(r, FALSE)),
     Page(Camera, CameraDetailPage(r, t)),
     Page(CameraHealth, CameraHealthPage),
     Page(<<"schools">>, SchoolsPage(r)),
     Page(<<"schools", "new">>, CreateSchoolPage),
     Page(School, SchoolDetailPage(r, t)),
     Page(<<"schools", "id", "edit">>, EditSchoolPage(r)),
     Page(<<"schools", "id", "cameras">>, All({CamerasPage(r, TRUE), Shows({School}, {}, {})})),
     Page(<<"schools", "id", "billing">>, SchoolBillingPage(r)),
     Page(<<"schools", "id", "classrooms">>,
          All({ClassroomsTab(r), Shows({<<"schools">>, School}, {}, {})})),
     Page(<<"schools", "id", "children">>,
          All({ChildrenTab(r), Shows({<<"schools">>, School}, {}, {})})),
     Page(<<"users">>, UsersPage(r)),
     Page(<<"users", "new">>, UserForm),
     Page(<<"users", "id">>, UserDetailPage),
     Page(<<"parents">>, ParentsPage(r)),
     Page(<<"parents", "new">>, ParentForm),
     Page(<<"parents", "id">>, ParentDetailPage(r)),
     Page(<<"billing", "subscriptions">>, SubscriptionsPage(r, FALSE)),
     Page(<<"billing", "payments">>, PaymentsPage(r, FALSE)),
     Page(<<"billing", "invoices">>, InvoicesPage(r, FALSE)),
     Page(<<"audit-logs">>, AuditLogsPage),
     Page(<<"system">>, SystemOverviewPage(r)),
     Page(<<"system", "workers">>,
          All({SystemNavTabs(r), If(canViewSystemWorkers(r), Shows({}, {}, {"getWorkers"}))})),
     Page(<<"system", "storage">>, All({SystemNavTabs(r), Shows({}, {}, {"getStorageUsage"})})),
     Page(<<"system", "scheduler">>,
          All({SystemNavTabs(r), Shows({}, {}, {"getSchedulerStatus"})})),
     Page(<<"system", "retention">>,
          All({SystemNavTabs(r), If(canViewSystemWorkers(r), Shows({}, {}, {"getRetentionStatus"}))})),
     Page(<<"settings", "security">>, Shows({<<"change-password">>}, {}, {})),
     Page(<<"change-password">>, Shows({<<"dashboard">>}, {}, {}))}

Tabs == DOMAIN TAB_PERMISSIONS \union cameraTabs
PagesOf == [r \in Roles |-> [t \in Tabs |-> Pages(r, t)]]
Routes == {page.route : page \in PagesOf["SUPER_ADMIN"]["overview"]}
PageAt(r, t, p) == All({page.shown : page \in {x \in PagesOf[r][t] : x.route = p}})

AccessDenied == Shows({<<"dashboard">>}, {}, {})

\* The new-password page has no shell, so neither sidebar nor permission check.
ShownOf ==
    [r \in Roles |-> [t \in Tabs |-> [p \in Routes |->
        LET page == IF RequirePermission(r, p) THEN PageAt(r, t, p) ELSE AccessDenied
        IN IF p = <<"change-password">> THEN page ELSE All({page, AppSidebar(r)})]]]
Shown == ShownOf[role][openTab][route]

-----------------------------------------------------------------------------
(* The user.                                                               *)

tabsOf(r, p) ==
    CASE p = School -> {t \in DOMAIN TAB_PERMISSIONS : hasPermission(r, TAB_PERMISSIONS[t])}
      [] p = Camera -> cameraTabs
      [] OTHER -> {"overview"}

AccessTypeOK ==
    /\ role \in Roles /\ route \in Routes /\ reached \in {"link", "otherwise"}
    /\ openTab \in Tabs
    /\ sidebar \in [collapsed : BOOLEAN, mobileOpen : BOOLEAN, stored : BOOLEAN]

\* A page mounts a shell of its own, which reads the stored state; the billing
\* pages share one.
ShellMounts(p) ==
    sidebar' = IF route[1] = "billing" /\ p[1] = "billing" THEN sidebar
               ELSE [sidebar EXCEPT !.collapsed = sidebar.stored, !.mobileOpen = FALSE]

AccessInit ==
    /\ role \in Roles /\ route = <<"dashboard">> /\ reached = "link" /\ openTab = "overview"
    /\ sidebar \in {[collapsed |-> b, mobileOpen |-> FALSE, stored |-> b] : b \in BOOLEAN}

\* Mutant: the tab a link names is not looked up.
OpensUnchecked(p) ==
    /\ route' = p
    /\ openTab' \in Tabs \union {"devices"}
    /\ ShellMounts(p)

\* A link may name a tab in its query; a tab the role may not see gives way to
\* the first one it may.
Opens(p) ==
    /\ route' = p
    /\ openTab' \in IF tabsOf(role, p) = {} THEN {"overview"} ELSE tabsOf(role, p)
    /\ ShellMounts(p)

FollowLink == \E p \in Shown.links : Opens(p) /\ reached' = "link" /\ UNCHANGED role

TypeAddress == \E p \in Routes : Opens(p) /\ reached' = "otherwise" /\ UNCHANGED role

OpenTab ==
    /\ RequirePermission(role, route)
    /\ openTab' \in tabsOf(role, route)
    /\ UNCHANGED <<role, route, reached, sidebar>>

\* A refreshed session brings the profile another administrator has changed.
RoleChanges ==
    /\ role' \in Roles /\ reached' = "otherwise"
    /\ openTab' = IF openTab \in tabsOf(role', route) THEN openTab ELSE "overview"
    /\ UNCHANGED <<route, sidebar>>

toggleCollapsed ==
    /\ sidebar' = [sidebar EXCEPT !.collapsed = ~@, !.stored = ~sidebar.collapsed]
    /\ UNCHANGED <<role, route, reached, openTab>>

setMobileOpen ==
    /\ sidebar' = [sidebar EXCEPT !.mobileOpen = ~@]
    /\ UNCHANGED <<role, route, reached, openTab>>

AccessNext == FollowLink \/ TypeAddress \/ OpenTab \/ RoleChanges \/ toggleCollapsed \/ setMobileOpen

AccessSpec == AccessInit /\ [][AccessNext]_accessVars

-----------------------------------------------------------------------------
(* Properties                                                              *)

\* Whoever only follows what the dashboard shows (menu, links, redirects after
\* a form) never arrives at a page that is denied to his role.
NoLinkDenied == reached = "link" => RequirePermission(role, route)

\* The roles of the dashboard and those of the backend's router are kept in two
\* programs: whatever address was typed and whatever role a refresh brought,
\* a page offers only operations the backend accepts from that role.
NoRefusedOffer == \A c \in Shown.offers : BackendAccepts(role, c)

\* A query the backend refuses to the role is one whose refusal becomes an
\* empty list, so the page still works; the storage figures, and the classrooms
\* of a camera's form, are known to fail for a technician.
NoRefusedRead ==
    \A c \in Shown.reads :
        \/ BackendAccepts(role, c) \/ Api[c].refused = "empty"
        \/ role = "TECHNICIAN" /\ \/ c = "getStorageUsage" /\ route[1] = "system"
                                  \/ c = "getSchoolClassrooms" /\ route = Camera
=============================================================================
