--------------------------- MODULE DashboardProofs ---------------------------
(***************************************************************************)
(* Where the dashboard leads each role and what it offers there, what the  *)
(* drawer of the alerts says, for whom the forms save, and the pages of    *)
(* the lists; then all parts of the dashboard together, as the run of      *)
(* MCDashboard has them.                                                   *)
(***************************************************************************)
EXTENDS MCDashboard, DashboardSessionProofs, DashboardDataProofs, DashboardValuesProofs

USE AlertsBounds

-----------------------------------------------------------------------------
(* Permissions and routes.                                                 *)

\* What each role may (ROLE_PERMISSIONS of permissions.ts), permission by permission.
LEMMA Grants ==
    ASSUME NEW r \in Roles
    PROVE  /\ \A x \in {"dashboard:view", "cameraMonitoring:view", "alerts:view", "cameras:view",
                        "auth:changeOwnPassword"} : hasPermission(r, x)
           /\ \A x \in {"schools:view", "schools:update", "parents:view", "parents:create",
                        "billing:view", "billing:manage", "auditLogs:view", "cameras:create",
                        "cameras:update", "classrooms:create", "children:create"} :
                hasPermission(r, x) <=> r # "TECHNICIAN"
           /\ \A x \in {"schools:create", "schoolAdmins:manage", "revenueShare:manage",
                        "users:view", "users:create"} :
                hasPermission(r, x) <=> r = "SUPER_ADMIN"
           /\ hasPermission(r, "system:view") <=> r # "SCHOOL_ADMIN"
<1>1. CASE r = "TECHNICIAN"
  BY <1>1 DEF hasPermission, ROLE_PERMISSIONS, TechnicianPermissions
<1>2. CASE r = "SCHOOL_ADMIN"
  BY <1>2 DEF hasPermission, ROLE_PERMISSIONS, TechnicianPermissions, SchoolAdminPermissions
<1>3. CASE r = "SUPER_ADMIN"
  BY <1>3 DEF hasPermission, ROLE_PERMISSIONS, TechnicianPermissions, SchoolAdminPermissions,
              SuperAdminPermissions
<1> QED
  BY <1>1, <1>2, <1>3 DEF Roles

\* The addresses there are.
AnyRoute ==
    {<<"dashboard">>, <<"camera-monitoring">>, <<"alerts">>, <<"cameras">>, Camera, CameraHealth,
     <<"settings", "security">>, <<"change-password">>}
SchoolRoutes ==
    {<<"schools">>, School, <<"schools", "id", "edit">>, <<"schools", "id", "cameras">>,
     <<"schools", "id", "billing">>, <<"schools", "id", "classrooms">>,
     <<"schools", "id", "children">>, <<"parents">>, <<"parents", "new">>, <<"parents", "id">>,
     <<"billing", "subscriptions">>, <<"billing", "payments">>, <<"billing", "invoices">>,
     <<"audit-logs">>}
SystemRoutes ==
    {<<"system">>, <<"system", "workers">>, <<"system", "storage">>, <<"system", "scheduler">>,
     <<"system", "retention">>}
AdminRoutes == {<<"schools", "new">>, <<"users">>, <<"users", "new">>, <<"users", "id">>}

\* The pages there are, grouped the same way.
AnyPages(r, t) ==
    {Page(<<"dashboard">>, DashboardOverview),
     Page(<<"camera-monitoring">>, CameraMonitoringPage), Page(<<"alerts">>, AlertsPage),
     Page(<<"cameras">>, CamerasPage(r, FALSE)), Page(Camera, CameraDetailPage(r, t)),
     Page(CameraHealth, CameraHealthPage),
     Page(<<"settings", "security">>, Shows({<<"change-password">>}, {}, {})),
     Page(<<"change-password">>, Shows({<<"dashboard">>}, {}, {}))}
SchoolPages(r, t) ==
    {Page(<<"schools">>, SchoolsPage(r)), Page(School, SchoolDetailPage(r, t)),
     Page(<<"schools", "id", "edit">>, EditSchoolPage(r)),
     Page(<<"schools", "id", "cameras">>, All({CamerasPage(r, TRUE), Shows({School}, {}, {})})),
     Page(<<"schools", "id", "billing">>, SchoolBillingPage(r)),
     Page(<<"schools", "id", "classrooms">>,
          All({ClassroomsTab(r), Shows({<<"schools">>, School}, {}, {})})),
     Page(<<"schools", "id", "children">>,
          All({ChildrenTab(r), Shows({<<"schools">>, School}, {}, {})})),
     Page(<<"parents">>, ParentsPage(r)), Page(<<"parents", "new">>, ParentForm),
     Page(<<"parents", "id">>, ParentDetailPage(r)),
     Page(<<"billing", "subscriptions">>, SubscriptionsPage(r, FALSE)),
     Page(<<"billing", "payments">>, PaymentsPage(r, FALSE)),
     Page(<<"billing", "invoices">>, InvoicesPage(r, FALSE)),
     Page(<<"audit-logs">>, AuditLogsPage)}
SystemPages(r) ==
    {Page(<<"system">>, SystemOverviewPage(r)),
     Page(<<"system", "workers">>,
          All({SystemNavTabs(r), If(canViewSystemWorkers(r), Shows({}, {}, {"getWorkers"}))})),
     Page(<<"system", "storage">>, All({SystemNavTabs(r), Shows({}, {}, {"getStorageUsage"})})),
     Page(<<"system", "scheduler">>,
          All({SystemNavTabs(r), Shows({}, {}, {"getSchedulerStatus"})})),
     Page(<<"system", "retention">>,
          All({SystemNavTabs(r),
               If(canViewSystemWorkers(r), Shows({}, {}, {"getRetentionStatus"}))}))}
AdminPages(r) ==
    {Page(<<"schools", "new">>, CreateSchoolPage), Page(<<"users">>, UsersPage(r)),
     Page(<<"users", "new">>, UserForm), Page(<<"users", "id">>, UserDetailPage)}

LEMMA PagesThere ==
    ASSUME NEW r, NEW t
    PROVE  Pages(r, t) = AnyPages(r, t) \cup SchoolPages(r, t) \cup SystemPages(r)
                         \cup AdminPages(r)
BY DEF Pages, AnyPages, SchoolPages, SystemPages, AdminPages

LEMMA RouteOfPage ==
    ASSUME NEW p, NEW shown, Page(p, shown) \in Pages("SUPER_ADMIN", "overview")
    PROVE  p \in Routes
<1>1. "SUPER_ADMIN" \in Roles /\ "overview" \in Tabs
  BY DEF Roles, Tabs, TAB_PERMISSIONS
<1>2. PagesOf["SUPER_ADMIN"]["overview"] = Pages("SUPER_ADMIN", "overview")
  BY <1>1 DEF PagesOf
<1>3. Page(p, shown).route = p
  BY DEF Page
<1> QED
  BY <1>2, <1>3 DEF Routes

LEMMA RoutesThere ==
    AnyRoute \cup SchoolRoutes \cup SystemRoutes \cup AdminRoutes \subseteq Routes
<1> SUFFICES ASSUME NEW p \in AnyRoute \cup SchoolRoutes \cup SystemRoutes \cup AdminRoutes
             PROVE  \E shown : Page(p, shown) \in Pages("SUPER_ADMIN", "overview")
  BY RouteOfPage
<1>1. CASE p \in AnyRoute
  BY <1>1, PagesThere DEF AnyRoute, AnyPages
<1>2. CASE p \in SchoolRoutes
  BY <1>2, PagesThere DEF SchoolRoutes, SchoolPages
<1>3. CASE p \in SystemRoutes
  BY <1>3, PagesThere DEF SystemRoutes, SystemPages
<1>4. CASE p \in AdminRoutes
  BY <1>4, PagesThere DEF AdminRoutes, AdminPages
<1> QED
  BY <1>1, <1>2, <1>3, <1>4

LEMMA FirstSegments ==
    /\ ROUTE_PERMISSIONS["dashboard"] = "dashboard:view"
    /\ ROUTE_PERMISSIONS["alerts"] = "alerts:view"
    /\ ROUTE_PERMISSIONS["cameras"] = "cameras:view"
    /\ ROUTE_PERMISSIONS["schools"] = "schools:view"
    /\ ROUTE_PERMISSIONS["parents"] = "parents:view"
    /\ ROUTE_PERMISSIONS["billing"] = "billing:view"
    /\ ROUTE_PERMISSIONS["system"] = "system:view"
    /\ ROUTE_PERMISSIONS["users"] = "users:view"
    /\ ROUTE_PERMISSIONS["camera-monitoring"] = "cameraMonitoring:view"
    /\ ROUTE_PERMISSIONS["audit-logs"] = "auditLogs:view"
    /\ ROUTE_PERMISSIONS["change-password"] = "auth:changeOwnPassword"
<1> DEFINE named ==
           [dashboard |-> "dashboard:view", alerts |-> "alerts:view", cameras |-> "cameras:view",
            schools |-> "schools:view", parents |-> "parents:view",
            children |-> "children:view", billing |-> "billing:view",
            system |-> "system:view", settings |-> "settings:view", users |-> "users:view"]
           monitoring == Asks("camera-monitoring", "cameraMonitoring:view")
           audit == Asks("audit-logs", "auditLogs:view")
           password == Asks("change-password", "auth:changeOwnPassword")
           tables == {named, monitoring, audit, password}
<1>1. ROUTE_PERMISSIONS = Together(tables)
  BY DEF ROUTE_PERMISSIONS
<1>2. /\ DOMAIN named = {"dashboard", "alerts", "cameras", "schools", "parents", "children",
                         "billing", "system", "settings", "users"}
      /\ DOMAIN monitoring = {"camera-monitoring"} /\ DOMAIN audit = {"audit-logs"}
      /\ DOMAIN password = {"change-password"}
  BY DEF Asks
<1>3. /\ named["dashboard"] = "dashboard:view" /\ named["alerts"] = "alerts:view"
      /\ named["cameras"] = "cameras:view" /\ named["schools"] = "schools:view"
      /\ named["parents"] = "parents:view" /\ named["billing"] = "billing:view"
      /\ named["system"] = "system:view" /\ named["users"] = "users:view"
      /\ monitoring["camera-monitoring"] = "cameraMonitoring:view"
      /\ audit["audit-logs"] = "auditLogs:view"
      /\ password["change-password"] = "auth:changeOwnPassword"
  BY DEF Asks
<1> HIDE DEF named, monitoring, audit, password
<1>4. Distinct(tables)
  BY <1>2 DEF Distinct
<1>5. /\ \A x \in DOMAIN named : Together(tables)[x] = named[x]
      /\ \A x \in DOMAIN monitoring : Together(tables)[x] = monitoring[x]
      /\ \A x \in DOMAIN audit : Together(tables)[x] = audit[x]
      /\ \A x \in DOMAIN password : Together(tables)[x] = password[x]
  BY <1>4, TogetherKeeps
<1> HIDE DEF tables
<1> QED
  BY <1>1, <1>2, <1>3, <1>5

\* The five addresses that are tried first.
Special ==
    {<<"schools", "new">>, <<"schools", "id", "edit">>, <<"parents", "new">>, <<"users", "new">>,
     <<"settings", "security">>}

LEMMA SpecialRoutes ==
    /\ DOMAIN SPECIAL_ROUTE_PERMISSIONS = Special
    /\ SPECIAL_ROUTE_PERMISSIONS[<<"schools", "new">>] = "schools:create"
    /\ SPECIAL_ROUTE_PERMISSIONS[<<"schools", "id", "edit">>] = "schools:update"
    /\ SPECIAL_ROUTE_PERMISSIONS[<<"parents", "new">>] = "parents:create"
    /\ SPECIAL_ROUTE_PERMISSIONS[<<"users", "new">>] = "users:create"
    /\ SPECIAL_ROUTE_PERMISSIONS[<<"settings", "security">>] = "auth:changeOwnPassword"
<1> DEFINE a == Asks(<<"schools", "new">>, "schools:create")
           b == Asks(<<"schools", "id", "edit">>, "schools:update")
           c == Asks(<<"parents", "new">>, "parents:create")
           d == Asks(<<"users", "new">>, "users:create")
           e == Asks(<<"settings", "security">>, "auth:changeOwnPassword")
           tables == {a, b, c, d, e}
<1>1. SPECIAL_ROUTE_PERMISSIONS = Together(tables)
  BY DEF SPECIAL_ROUTE_PERMISSIONS
<1>2. \A p, permission : /\ DOMAIN Asks(p, permission) = {p}
                        /\ Asks(p, permission)[p] = permission
  BY DEF Asks
<1>3. /\ DOMAIN a = {<<"schools", "new">>} /\ a[<<"schools", "new">>] = "schools:create"
      /\ DOMAIN b = {<<"schools", "id", "edit">>}
      /\ b[<<"schools", "id", "edit">>] = "schools:update"
      /\ DOMAIN c = {<<"parents", "new">>} /\ c[<<"parents", "new">>] = "parents:create"
      /\ DOMAIN d = {<<"users", "new">>} /\ d[<<"users", "new">>] = "users:create"
      /\ DOMAIN e = {<<"settings", "security">>}
      /\ e[<<"settings", "security">>] = "auth:changeOwnPassword"
  BY <1>2
<1>4. /\ <<"schools", "new">> # <<"schools", "id", "edit">>
      /\ <<"schools", "new">> # <<"parents", "new">> /\ <<"schools", "new">> # <<"users", "new">>
      /\ <<"schools", "new">> # <<"settings", "security">>
      /\ <<"schools", "id", "edit">> # <<"parents", "new">>
      /\ <<"schools", "id", "edit">> # <<"users", "new">>
      /\ <<"schools", "id", "edit">> # <<"settings", "security">>
      /\ <<"parents", "new">> # <<"users", "new">>
      /\ <<"parents", "new">> # <<"settings", "security">>
      /\ <<"users", "new">> # <<"settings", "security">>
  OBVIOUS
<1> HIDE DEF a, b, c, d, e
<1>5. Distinct(tables)
  BY <1>3, <1>4 DEF Distinct
<1>6. /\ Together(tables)[<<"schools", "new">>] = a[<<"schools", "new">>]
      /\ Together(tables)[<<"schools", "id", "edit">>] = b[<<"schools", "id", "edit">>]
      /\ Together(tables)[<<"parents", "new">>] = c[<<"parents", "new">>]
      /\ Together(tables)[<<"users", "new">>] = d[<<"users", "new">>]
      /\ Together(tables)[<<"settings", "security">>] = e[<<"settings", "security">>]
  BY <1>3, <1>5, TogetherKeeps
<1>7. DOMAIN Together(tables) = DOMAIN a \cup DOMAIN b \cup DOMAIN c \cup DOMAIN d \cup DOMAIN e
  BY DEF Together
<1> HIDE DEF tables
<1> QED
  BY <1>1, <1>3, <1>6, <1>7 DEF Special

\* To whom the addresses are open.
LEMMA OpenToAll == \A r \in Roles, p \in AnyRoute : RequirePermission(r, p)
<1> SUFFICES ASSUME NEW r \in Roles, NEW p \in AnyRoute
             PROVE  RequirePermission(r, p)
  OBVIOUS
<1>1. CASE p = <<"settings", "security">>
  BY <1>1, SpecialRoutes, Grants DEF RequirePermission, getRoutePermission, Special
<1>2. CASE p # <<"settings", "security">>
  <2>1. p \notin Special /\ p[1] \in {"dashboard", "camera-monitoring", "alerts", "cameras",
                                    "change-password"}
    BY <1>2 DEF AnyRoute, Special, Camera, CameraHealth
  <2> QED
    BY <2>1, SpecialRoutes, FirstSegments, Grants DEF RequirePermission, getRoutePermission
<1> QED
  BY <1>1, <1>2

LEMMA OpenToSchools ==
    \A r \in Roles, p \in SchoolRoutes : RequirePermission(r, p) <=> r # "TECHNICIAN"
<1> SUFFICES ASSUME NEW r \in Roles, NEW p \in SchoolRoutes
             PROVE  RequirePermission(r, p) <=> r # "TECHNICIAN"
  OBVIOUS
<1>1. CASE p \in {<<"schools", "id", "edit">>, <<"parents", "new">>}
  BY <1>1, SpecialRoutes, Grants DEF RequirePermission, getRoutePermission, Special
<1>2. CASE p \notin {<<"schools", "id", "edit">>, <<"parents", "new">>}
  <2>1. p \notin Special /\ p[1] \in {"schools", "parents", "billing", "audit-logs"}
    BY <1>2 DEF SchoolRoutes, Special, School
  <2> QED
    BY <2>1, SpecialRoutes, FirstSegments, Grants DEF RequirePermission, getRoutePermission
<1> QED
  BY <1>1, <1>2

LEMMA OpenToOperators ==
    \A r \in Roles, p \in SystemRoutes : RequirePermission(r, p) <=> r # "SCHOOL_ADMIN"
<1> SUFFICES ASSUME NEW r \in Roles, NEW p \in SystemRoutes
             PROVE  RequirePermission(r, p) <=> r # "SCHOOL_ADMIN"
  OBVIOUS
<1>1. p \notin Special /\ p[1] = "system"
  BY DEF SystemRoutes, Special
<1> QED
  BY <1>1, SpecialRoutes, FirstSegments, Grants DEF RequirePermission, getRoutePermission

LEMMA OpenToAdmins ==
    \A r \in Roles, p \in AdminRoutes : RequirePermission(r, p) <=> r = "SUPER_ADMIN"
<1> SUFFICES ASSUME NEW r \in Roles, NEW p \in AdminRoutes
             PROVE  RequirePermission(r, p) <=> r = "SUPER_ADMIN"
  OBVIOUS
<1>1. CASE p \in {<<"schools", "new">>, <<"users", "new">>}
  BY <1>1, SpecialRoutes, Grants DEF RequirePermission, getRoutePermission, Special
<1>2. CASE p \in {<<"users">>, <<"users", "id">>}
  <2>1. p \notin Special /\ p[1] = "users"
    BY <1>2 DEF Special
  <2> QED
    BY <2>1, SpecialRoutes, FirstSegments, Grants DEF RequirePermission, getRoutePermission
<1> QED
  BY <1>1, <1>2 DEF AdminRoutes

-----------------------------------------------------------------------------
(* What fits a role on a page: links that are not denied, offers that are  *)
(* accepted, and queries that are answered or known to fail.               *)

Goes(r, l) == l \in Routes /\ RequirePermission(r, l)
Answered(r, p, c) ==
    \/ BackendAccepts(r, c) \/ Api[c].refused = "empty"
    \/ r = "TECHNICIAN" /\ \/ c = "getStorageUsage" /\ p[1] = "system"
                           \/ c = "getSchoolClassrooms" /\ p = Camera
Fits(r, p, shown) ==
    /\ \A l \in shown.links : Goes(r, l)
    /\ \A c \in shown.offers : BackendAccepts(r, c)
    /\ \A c \in shown.reads : Answered(r, p, c)

LEMMA LinksGo ==
    ASSUME NEW r \in Roles
    PROVE  /\ \A l \in AnyRoute : Goes(r, l)
           /\ r # "TECHNICIAN" => \A l \in SchoolRoutes : Goes(r, l)
           /\ r # "SCHOOL_ADMIN" => \A l \in SystemRoutes : Goes(r, l)
           /\ r = "SUPER_ADMIN" => \A l \in AdminRoutes : Goes(r, l)
BY RoutesThere, OpenToAll, OpenToSchools, OpenToOperators, OpenToAdmins DEF Goes

\* What an administrator of a school is accepted for.
SchoolCalls ==
    {"listSchools", "getSchoolClassrooms", "getSchoolChildren", "getSchools", "getSchool",
     "getSubscriptions", "getPayments", "getInvoices", "getSchoolSchedule", "getStorageUsage",
     "getSchoolStorageUsage", "getSchoolRevenueShare", "getChildParents", "getAuditLogsPage",
     "listParentInvitationCodes", "createCamera", "updateCamera", "updateSchoolLimited",
     "updateSchoolFromForm", "createClassroom", "updateClassroom", "createChild", "updateChild",
     "createParent", "linkParentToChild", "generateParentInvitationCode",
     "revokeParentInvitationCode"} \cup BillingWrites

AdminCalls ==
    {"createSchoolFromForm", "updateSchoolSchedule", "assignSchoolAdmin", "getSchoolAdmins",
     "setSchoolRevenueShare", "getUsers", "getUserById", "getParents", "createUser", "updateUser",
     "updateUserStatus", "updateUserRole", "resetUserPassword", "forceUserPasswordChange",
     "assignUserSchools"}

LEMMA Accepted ==
    ASSUME NEW r \in Roles
    PROVE  /\ \A c \in EveryRole : BackendAccepts(r, c)
           /\ r # "TECHNICIAN" => \A c \in SchoolCalls : BackendAccepts(r, c)
           /\ r # "SCHOOL_ADMIN" => \A c \in WithoutSchoolAdmin : BackendAccepts(r, c)
           /\ r = "SUPER_ADMIN" => \A c \in AdminCalls : BackendAccepts(r, c)
           /\ BackendAccepts(r, "listSchools") => r # "TECHNICIAN"
<1>1. \A c \in SchoolCalls : c \notin SuperAdminOnly \union WithoutSchoolAdmin
  BY ApiNames2 DEF SchoolCalls, BillingWrites, SuperAdminOnly, WithoutSchoolAdmin
<1>2. "listSchools" \notin EveryRole /\ "listSchools" \notin WithoutSchoolAdmin
  BY DEF EveryRole, WithoutSchoolAdmin
<1> QED
  BY <1>1, <1>2 DEF BackendAccepts, Roles

LEMMA RefusedIsEmpty ==
    \A c \in {"getAlertDeliveries", "getSubscriptions", "getPayments", "getInvoices",
             "listSchools", "listParentInvitationCodes", "getParents", "getParentById",
             "getUsers"} :
        Api[c].refused = "empty"
<1> USE DEF Get, GetOrEmpty, ApiTables
<1>1. Api["getAlertDeliveries"].refused = "empty"
  BY ApiOf, ApiNames1 DEF AlertsApi
<1>2. /\ Api["getSubscriptions"].refused = "empty" /\ Api["getPayments"].refused = "empty"
      /\ Api["getInvoices"].refused = "empty"
  BY ApiOf, ApiNames1 DEF BillingApi
<1>3. Api["listSchools"].refused = "empty"
  BY ApiOf, ApiNames1 DEF CameraMonitoringApi
<1>4. Api["listParentInvitationCodes"].refused = "empty"
  BY ApiOf, ApiNames2 DEF ParentCodesApi
<1>5. Api["getParents"].refused = "empty" /\ Api["getParentById"].refused = "empty"
  BY ApiOf, ApiNames2 DEF ParentsApi
<1>6. Api["getUsers"].refused = "empty"
  BY ApiOf, ApiNames2 DEF UsersApi
<1> QED
  BY <1>1, <1>2, <1>3, <1>4, <1>5, <1>6

\* From these three it is put together for every page.
LEMMA FitsShows ==
    ASSUME NEW r, NEW p, NEW links, NEW offers, NEW reads,
           \A l \in links : Goes(r, l), \A c \in offers : BackendAccepts(r, c),
           \A c \in reads : Answered(r, p, c)
    PROVE  Fits(r, p, Shows(links, offers, reads))
BY DEF Fits, Shows

LEMMA FitsAll ==
    ASSUME NEW r, NEW p, NEW S, \A s \in S : Fits(r, p, s)
    PROVE  Fits(r, p, All(S))
BY DEF Fits, All, Shows

LEMMA FitsIf ==
    ASSUME NEW r, NEW p, NEW condition, NEW shown, condition => Fits(r, p, shown)
    PROVE  Fits(r, p, If(condition, shown))
BY DEF Fits, If, Nothing, Shows

LEMMA AlertsFit ==
    ASSUME NEW r \in Roles, NEW p
    PROVE  /\ Fits(r, p, AlertsSummary)
           /\ Fits(r, p, DashboardOverview)
           /\ Fits(r, p, CameraStatusTable)
           /\ Fits(r, p, CameraMonitoringPage)
           /\ Fits(r, p, CameraHealthPage)
           /\ Fits(r, p, AlertsTable)
           /\ Fits(r, p, AlertsPage)
<1>1. Fits(r, p, AlertsSummary)
  BY FitsShows, LinksGo DEF AnyRoute, AlertsSummary
<1>2. Fits(r, p, DashboardOverview)
  <2>2. Fits(r, p, Shows({}, {}, {"getAdminDashboard"}))
    BY FitsShows, Accepted DEF EveryRole, Answered
  <2> QED
    BY <1>1, <2>2, FitsAll DEF DashboardOverview
<1>3. Fits(r, p, CameraStatusTable)
  BY FitsShows, LinksGo DEF AnyRoute, CameraStatusTable
<1>4. Fits(r, p, CameraMonitoringPage)
  <2>2. Fits(r, p, Shows({}, {}, {"listSchools", "getSchoolCameraStatus"}))
    BY FitsShows, Accepted, RefusedIsEmpty DEF EveryRole, SchoolCalls, Answered
  <2> QED
    BY <1>3, <2>2, FitsAll DEF CameraMonitoringPage
<1>5. Fits(r, p, CameraHealthPage)
  BY FitsShows, LinksGo, Accepted DEF AnyRoute, EveryRole, Answered, CameraHealthPage
<1>6. Fits(r, p, AlertsTable)
  BY FitsShows, Accepted DEF EveryRole, Answered, AlertsTable
<1>7. Fits(r, p, AlertsPage)
  <2>2. Fits(r, p, AlertDetailDrawer)
    BY <1>6 DEF AlertDetailDrawer
  <2>3. Fits(r, p, Shows({}, {}, {"getAlerts", "getAlertDeliveries", "listSchools"}))
    BY FitsShows, Accepted, RefusedIsEmpty DEF EveryRole, SchoolCalls, Answered
  <2> QED
    BY <1>6, <2>2, <2>3, FitsAll DEF AlertsPage
<1> QED
  BY <1>1, <1>2, <1>3, <1>4, <1>5, <1>6, <1>7

LEMMA CamerasFit ==
    ASSUME NEW r \in Roles, NEW p
    PROVE  /\ Fits(r, p, CameraTable(canManageCameras(r)))
           /\ Fits(r, p, CamerasPage(r, FALSE))
           /\ Fits(r, p, CameraHealthSummaryCard)
           /\ Fits(r, p, CameraStreamStateCard)
<1>1. Fits(r, p, CameraTable(canManageCameras(r)))
  <2>1. Fits(r, p, Shows({Camera, CameraHealth}, {}, {}))
    BY FitsShows, LinksGo DEF AnyRoute
  <2>2. Fits(r, p, If(canManageCameras(r), Shows({}, {"updateCamera"}, {})))
    BY FitsShows, FitsIf, Accepted, Grants DEF SchoolCalls, Answered, canManageCameras
  <2> QED
    BY <2>1, <2>2, FitsAll DEF CameraTable
<1>2. Fits(r, p, CamerasPage(r, FALSE))
  <2>2. Fits(r, p, Shows({}, {}, {"listSchools"}))
    BY FitsShows, Accepted, RefusedIsEmpty DEF SchoolCalls, Answered
  <2>3. Fits(r, p, If(FALSE \/ BackendAccepts(r, "listSchools"),
                      Shows({}, {}, {"getSchoolCameras", "getSchoolCameraStatus",
                                     "getSchoolClassrooms"})))
    BY FitsShows, FitsIf, Accepted, RefusedIsEmpty DEF EveryRole, SchoolCalls, Answered
  <2>4. Fits(r, p, If(canManageCameras(r), CreateCameraDialog))
    BY FitsShows, FitsIf, LinksGo, Accepted, Grants
    DEF AnyRoute, SchoolCalls, Answered, CreateCameraDialog, canManageCameras
  <2> QED
    BY <1>1, <2>2, <2>3, <2>4, FitsAll DEF CamerasPage
<1>3. Fits(r, p, CameraHealthSummaryCard)
  BY FitsShows, LinksGo, Accepted DEF AnyRoute, EveryRole, Answered, CameraHealthSummaryCard
<1>4. Fits(r, p, CameraStreamStateCard)
  BY FitsShows, Accepted DEF EveryRole, Answered, CameraStreamStateCard
<1> QED
  BY <1>1, <1>2, <1>3, <1>4

LEMMA CameraDetailFits ==
    ASSUME NEW r \in Roles, NEW p, NEW t, p = Camera
    PROVE  /\ Fits(r, p, EditCameraForm(canManageCameras(r)))
           /\ Fits(r, p, CameraDetailPage(r, t))
<1>1. Fits(r, p, EditCameraForm(canManageCameras(r)))
  <2>1. Fits(r, p, Shows({}, {}, {"getSchoolClassrooms"}))
    BY FitsShows, Accepted DEF SchoolCalls, Answered
  <2>2. Fits(r, p, If(canManageCameras(r), Shows({}, {"updateCamera"}, {})))
    BY FitsShows, FitsIf, Accepted, Grants DEF SchoolCalls, Answered, canManageCameras
  <2> QED
    BY <2>1, <2>2, FitsAll DEF EditCameraForm
<1>2. Fits(r, p, CameraDetailPage(r, t))
  <2>1. Fits(r, p, Shows({<<"cameras">>, CameraHealth}, {}, {"getCamera", "listSchools"}))
    BY FitsShows, LinksGo, Accepted, RefusedIsEmpty
    DEF AnyRoute, EveryRole, SchoolCalls, Answered
  <2>3. Fits(r, p, If(t = "health", CameraHealthSummaryCard))
    BY CamerasFit, FitsIf
  <2>4. Fits(r, p, If(t = "stream-state", CameraStreamStateCard))
    BY CamerasFit, FitsIf
  <2>5. Fits(r, p, If(t = "danger-zone" /\ canManageCameras(r),
                      Shows({}, {"updateCamera"}, {})))
    BY FitsShows, FitsIf, Accepted, Grants DEF SchoolCalls, Answered, canManageCameras
  <2> QED
    BY <2>1, <1>1, <2>3, <2>4, <2>5, FitsAll, FitsIf DEF CameraDetailPage
<1> QED
  BY <1>1, <1>2

LEMMA SchoolCamerasFit ==
    ASSUME NEW r \in Roles, NEW p, r # "TECHNICIAN"
    PROVE  /\ Fits(r, p, CamerasPage(r, TRUE))
           /\ Fits(r, p, All({CamerasPage(r, TRUE), Shows({School}, {}, {})}))
           /\ Fits(r, p, SchoolCamerasTab(r))
<1>1. Fits(r, p, CamerasPage(r, TRUE))
  <2>1. Fits(r, p, CameraTable(canManageCameras(r)))
    BY CamerasFit DEF canManageCameras
  <2>2. Fits(r, p, Shows({}, {}, {"listSchools"}))
    BY FitsShows, Accepted, RefusedIsEmpty DEF SchoolCalls, Answered
  <2>3. Fits(r, p, If(TRUE \/ BackendAccepts(r, "listSchools"),
                      Shows({}, {}, {"getSchoolCameras", "getSchoolCameraStatus",
                                     "getSchoolClassrooms"})))
    BY FitsShows, FitsIf, Accepted, RefusedIsEmpty DEF EveryRole, SchoolCalls, Answered
  <2>4. Fits(r, p, If(canManageCameras(r), CreateCameraDialog))
    BY FitsShows, FitsIf, LinksGo, Accepted, Grants
    DEF AnyRoute, SchoolCalls, Answered, CreateCameraDialog, canManageCameras
  <2> QED
    BY <2>1, <2>2, <2>3, <2>4, FitsAll DEF CamerasPage
<1>2. Fits(r, p, All({CamerasPage(r, TRUE), Shows({School}, {}, {})}))
  <2>2. Fits(r, p, Shows({School}, {}, {}))
    BY FitsShows, LinksGo DEF SchoolRoutes
  <2> QED
    BY <1>1, <2>2, FitsAll
<1>3. Fits(r, p, SchoolCamerasTab(r))
  <2>1. Fits(r, p, Shows({<<"schools", "id", "cameras">>}, {},
                         {"getSchools", "getSchoolCameras", "getSchoolCameraStatus"}))
    BY FitsShows, LinksGo, Accepted DEF SchoolRoutes, EveryRole, SchoolCalls, Answered
  <2>2. Fits(r, p, CameraTable(canManageCameras(r)))
    BY CamerasFit DEF canManageCameras
  <2> QED
    BY <2>1, <2>2, FitsAll DEF SchoolCamerasTab
<1> QED
  BY <1>1, <1>2, <1>3

LEMMA SchoolsFit ==
    ASSUME NEW r \in Roles, NEW p, r # "TECHNICIAN"
    PROVE  /\ Fits(r, p, SchoolsPage(r))
           /\ Fits(r, p, EditSchoolPage(r))
           /\ Fits(r, p, RevenueShareSection(hasPermission(r, "revenueShare:manage")))
           /\ Fits(r, p, ClassroomsTab(r))
           /\ Fits(r, p, ChildrenTab(r))
           /\ Fits(r, p, All({ClassroomsTab(r), Shows({<<"schools">>, School}, {}, {})}))
           /\ Fits(r, p, All({ChildrenTab(r), Shows({<<"schools">>, School}, {}, {})}))
           /\ Fits(r, p, SchoolScheduleTab(r))
           /\ Fits(r, p, SchoolAlertsTab)
           /\ Fits(r, p, SchoolStorageTab)
           /\ Fits(r, p, SchoolParentsTab)
<1>1. Fits(r, p, SchoolsPage(r))
  <2>1. Fits(r, p, SchoolsTable(canEditSchool(r)))
    BY FitsShows, FitsIf, FitsAll, LinksGo, Grants DEF SchoolRoutes, SchoolsTable
  <2>2. Fits(r, p, Shows({}, {}, {"getSchools"}))
    BY FitsShows, Accepted DEF SchoolCalls, Answered
  <2>3. Fits(r, p, If(hasPermission(r, "schools:create"),
                      Shows({<<"schools", "new">>}, {}, {})))
    BY FitsShows, FitsIf, LinksGo, Grants DEF AdminRoutes
  <2> QED
    BY <2>1, <2>2, <2>3, FitsAll DEF SchoolsPage
<1>2. Fits(r, p, EditSchoolPage(r))
  BY FitsShows, LinksGo, Accepted, Grants
  DEF SchoolRoutes, SchoolCalls, Answered, EditSchoolPage, canEditSchoolFull
<1>3. Fits(r, p, RevenueShareSection(hasPermission(r, "revenueShare:manage")))
  <2>1. Fits(r, p, Shows({}, {}, {"getSchoolRevenueShare"}))
    BY FitsShows, Accepted DEF SchoolCalls, Answered
  <2>2. Fits(r, p, If(hasPermission(r, "revenueShare:manage"),
                      Shows({}, {"setSchoolRevenueShare"}, {})))
    BY FitsShows, FitsIf, Accepted, Grants DEF AdminCalls, Answered
  <2> QED
    BY <2>1, <2>2, FitsAll DEF RevenueShareSection
<1>4. Fits(r, p, ClassroomsTab(r))
  <2>1. Fits(r, p, Shows({}, {},
                         {"getSchoolClassrooms", "getSchoolChildren", "getSchoolCameras"}))
    BY FitsShows, Accepted DEF EveryRole, SchoolCalls, Answered
  <2>2. Fits(r, p, If(canManageSchoolStructure(r),
                      Shows({}, {"createClassroom", "updateClassroom"}, {})))
    BY FitsShows, FitsIf, Accepted, Grants DEF SchoolCalls, Answered, canManageSchoolStructure
  <2> QED
    BY <2>1, <2>2, FitsAll DEF ClassroomsTab
<1>5. Fits(r, p, ChildrenTab(r))
  <2>1. Fits(r, p, Shows({}, {}, {"getSchoolClassrooms", "getSchoolChildren"}))
    BY FitsShows, Accepted DEF SchoolCalls, Answered
  <2>2. Fits(r, p, ChildParentsDialog)
    BY FitsShows, Accepted, RefusedIsEmpty
    DEF SchoolCalls, AdminCalls, Answered, ChildParentsDialog
  <2>3. Fits(r, p, If(canManageSchoolStructure(r),
                      Shows({}, {"createChild", "updateChild"}, {})))
    BY FitsShows, FitsIf, Accepted, Grants DEF SchoolCalls, Answered, canManageSchoolStructure
  <2> QED
    BY <2>1, <2>2, <2>3, FitsAll DEF ChildrenTab
<1>6. Fits(r, p, All({ClassroomsTab(r), Shows({<<"schools">>, School}, {}, {})}))
  <2>2. Fits(r, p, Shows({<<"schools">>, School}, {}, {}))
    BY FitsShows, LinksGo DEF SchoolRoutes
  <2> QED
    BY <1>4, <2>2, FitsAll
<1>7. Fits(r, p, All({ChildrenTab(r), Shows({<<"schools">>, School}, {}, {})}))
  <2>2. Fits(r, p, Shows({<<"schools">>, School}, {}, {}))
    BY FitsShows, LinksGo DEF SchoolRoutes
  <2> QED
    BY <1>5, <2>2, FitsAll
<1>8. Fits(r, p, SchoolScheduleTab(r))
  <2>1. Fits(r, p, Shows({}, {}, {"getSchoolSchedule"}))
    BY FitsShows, Accepted DEF SchoolCalls, Answered
  <2>2. Fits(r, p, If(canUpdateSchedule(r), Shows({}, {"updateSchoolSchedule"}, {})))
    BY FitsShows, FitsIf, Accepted, Grants DEF AdminCalls, Answered, canUpdateSchedule
  <2> QED
    BY <2>1, <2>2, FitsAll DEF SchoolScheduleTab
<1>9. Fits(r, p, SchoolAlertsTab)
  BY FitsShows, LinksGo, Accepted DEF AnyRoute, EveryRole, Answered, SchoolAlertsTab
<1>10. Fits(r, p, SchoolStorageTab)
  BY FitsShows, Accepted DEF SchoolCalls, Answered, SchoolStorageTab
<1>11. Fits(r, p, SchoolParentsTab)
  BY FitsShows, LinksGo DEF SchoolRoutes, SchoolParentsTab
<1> QED
  BY <1>1, <1>2, <1>3, <1>4, <1>5, <1>6, <1>7, <1>8, <1>9, <1>10, <1>11

LEMMA CreateSchoolFits ==
    ASSUME NEW r \in Roles, NEW p, r = "SUPER_ADMIN"
    PROVE  /\ Fits(r, p, CreateSchoolPage)
           /\ Fits(r, p, SchoolAdminsSection)
<1>1. Fits(r, p, CreateSchoolPage)
  BY FitsShows, LinksGo, Accepted DEF SchoolRoutes, AdminCalls, Answered, CreateSchoolPage
<1>2. Fits(r, p, SchoolAdminsSection)
  BY FitsShows, Accepted DEF AdminCalls, Answered, SchoolAdminsSection
<1> QED
  BY <1>1, <1>2

LEMMA BillingFits ==
    ASSUME NEW r \in Roles, NEW p, r # "TECHNICIAN", NEW fixed
    PROVE  /\ Fits(r, p, BillingNav)
           /\ Fits(r, p, SubscriptionsTable(canManageBilling(r)))
           /\ Fits(r, p, SubscriptionsPage(r, fixed))
           /\ Fits(r, p, PaymentsPage(r, fixed))
           /\ Fits(r, p, InvoicesPage(r, fixed))
<1>1. Fits(r, p, BillingNav)
  BY FitsShows, LinksGo DEF SchoolRoutes, BillingNav
<1>2. Fits(r, p, SubscriptionsTable(canManageBilling(r)))
  <2>1. Fits(r, p, Shows({<<"parents", "id">>}, {}, {}))
    BY FitsShows, LinksGo DEF SchoolRoutes
  <2>2. Fits(r, p, If(canManageBilling(r),
                      Shows({}, {"updateSubscriptionStatus", "extendSubscription"}, {})))
    BY FitsShows, FitsIf, Accepted, Grants
    DEF BillingWrites, SchoolCalls, Answered, canManageBilling
  <2> QED
    BY <2>1, <2>2, FitsAll DEF SubscriptionsTable
<1>3. Fits(r, p, SubscriptionsPage(r, fixed))
  <2>2. Fits(r, p, Shows({}, {}, {"getSubscriptions", "getSchools", "getParents"}))
    BY FitsShows, Accepted, RefusedIsEmpty DEF SchoolCalls, AdminCalls, Answered
  <2>4. Fits(r, p, If(canManageBilling(r), Shows({}, {"createSubscription"}, {})))
    BY FitsShows, FitsIf, Accepted, Grants
    DEF BillingWrites, SchoolCalls, Answered, canManageBilling
  <2> QED
    BY <1>1, <2>2, <1>2, <2>4, FitsAll, FitsIf DEF SubscriptionsPage
<1>4. Fits(r, p, PaymentsPage(r, fixed))
  <2>2. Fits(r, p, Shows({}, {}, {"getPayments", "getSchools", "getParents"}))
    BY FitsShows, Accepted, RefusedIsEmpty DEF SchoolCalls, AdminCalls, Answered
  <2>3. Fits(r, p, If(canManageBilling(r),
                      Shows({}, {"createPayment", "approvePayment", "rejectPayment"}, {})))
    BY FitsShows, FitsIf, Accepted, Grants
    DEF BillingWrites, SchoolCalls, Answered, canManageBilling
  <2> QED
    BY <1>1, <2>2, <2>3, FitsAll, FitsIf DEF PaymentsPage
<1>5. Fits(r, p, InvoicesPage(r, fixed))
  <2>2. Fits(r, p, Shows({}, {}, {"getInvoices", "getSchools", "getParents"}))
    BY FitsShows, Accepted, RefusedIsEmpty DEF SchoolCalls, AdminCalls, Answered
  <2>3. Fits(r, p, If(canManageBilling(r),
                      Shows({}, {"createInvoice", "markInvoicePaid", "voidInvoice"}, {})))
    BY FitsShows, FitsIf, Accepted, Grants
    DEF BillingWrites, SchoolCalls, Answered, canManageBilling
  <2> QED
    BY <1>1, <2>2, <2>3, FitsAll, FitsIf DEF InvoicesPage
<1> QED
  BY <1>1, <1>2, <1>3, <1>4, <1>5

LEMMA SchoolBillingFits ==
    ASSUME NEW r \in Roles, NEW p, r # "TECHNICIAN"
    PROVE  /\ Fits(r, p, SchoolBilling(r))
           /\ Fits(r, p, SchoolBillingPage(r))
           /\ Fits(r, p, SchoolBillingTab(r))
<1>1. Fits(r, p, SchoolBilling(r))
  <2>1. Fits(r, p, RevenueShareSection(hasPermission(r, "revenueShare:manage")))
    BY SchoolsFit
  <2>2. Fits(r, p, SubscriptionsPage(r, TRUE))
    BY BillingFits
  <2>3. Fits(r, p, PaymentsPage(r, TRUE))
    BY BillingFits
  <2>4. Fits(r, p, InvoicesPage(r, TRUE))
    BY BillingFits
  <2> QED
    BY <2>1, <2>2, <2>3, <2>4, FitsAll DEF SchoolBilling
<1>2. Fits(r, p, SchoolBillingPage(r))
  <2>2. Fits(r, p, Shows({<<"schools">>, School}, {}, {"getSchool"}))
    BY FitsShows, LinksGo, Accepted DEF SchoolRoutes, SchoolCalls, Answered
  <2> QED
    BY <1>1, <2>2, FitsAll DEF SchoolBillingPage
<1>3. Fits(r, p, SchoolBillingTab(r))
  <2>2. Fits(r, p, Shows({<<"schools", "id", "billing">>}, {}, {}))
    BY FitsShows, LinksGo DEF SchoolRoutes
  <2> QED
    BY <1>1, <2>2, FitsAll DEF SchoolBillingTab
<1> QED
  BY <1>1, <1>2, <1>3

LEMMA SchoolDetailFits ==
    ASSUME NEW r \in Roles, NEW p, r # "TECHNICIAN", NEW t
    PROVE  /\ Fits(r, p, SchoolOverviewTab(r))
           /\ Fits(r, p, SchoolDetailPage(r, t))
<1>1. Fits(r, p, SchoolOverviewTab(r))
  <2>1. Fits(r, p, Shows({}, {}, {"getSchoolClassrooms", "getSchoolChildren", "getSchoolCameras",
                                  "getSchoolCameraStatus", "getSchoolStorageUsage", "getAlerts"}))
    BY FitsShows, Accepted DEF EveryRole, SchoolCalls, Answered
  <2>2. Fits(r, p, If(hasPermission(r, "schoolAdmins:manage"), SchoolAdminsSection))
    BY CreateSchoolFits, FitsIf, Grants
  <2>3. Fits(r, p, RevenueShareSection(hasPermission(r, "revenueShare:manage")))
    BY SchoolsFit
  <2> QED
    BY <2>1, <2>2, <2>3, FitsAll DEF SchoolOverviewTab
<1>2. Fits(r, p, SchoolDetailPage(r, t))
  <2>1. Fits(r, p, Shows({<<"schools">>}, {}, {"getSchool"}))
    BY FitsShows, LinksGo, Accepted DEF SchoolRoutes, SchoolCalls, Answered
  <2>2. Fits(r, p, If(canEditSchool(r), Shows({<<"schools", "id", "edit">>}, {}, {})))
    BY FitsShows, FitsIf, LinksGo, Grants DEF SchoolRoutes, canEditSchool
  <2>3. Fits(r, p, If(canCreateCamera(r), Shows({<<"schools", "id", "cameras">>}, {}, {})))
    BY FitsShows, FitsIf, LinksGo, Grants DEF SchoolRoutes, canCreateCamera
  <2>5. Fits(r, p, If(t = "classrooms", ClassroomsTab(r)))
    BY SchoolsFit, FitsIf
  <2>6. Fits(r, p, If(t = "children", ChildrenTab(r)))
    BY SchoolsFit, FitsIf
  <2>7. Fits(r, p, If(t = "parents", SchoolParentsTab))
    BY SchoolsFit, FitsIf
  <2>8. Fits(r, p, If(t = "cameras", SchoolCamerasTab(r)))
    BY SchoolCamerasFit, FitsIf
  <2>9. Fits(r, p, If(t = "schedule", SchoolScheduleTab(r)))
    BY SchoolsFit, FitsIf
  <2>10. Fits(r, p, If(t = "billing", SchoolBillingTab(r)))
    BY SchoolBillingFits, FitsIf
  <2>11. Fits(r, p, If(t = "alerts", SchoolAlertsTab))
    BY SchoolsFit, FitsIf
  <2>12. Fits(r, p, If(t = "storage", SchoolStorageTab))
    BY SchoolsFit, FitsIf
  <2> QED
    BY <2>1, <2>2, <2>3, <1>1, <2>5, <2>6, <2>7, <2>8, <2>9, <2>10, <2>11, <2>12, FitsAll,
       FitsIf
    DEF SchoolDetailPage
<1> QED
  BY <1>1, <1>2

LEMMA UsersFit ==
    ASSUME NEW r \in Roles, NEW p, r = "SUPER_ADMIN"
    PROVE  /\ Fits(r, p, UsersPage(r))
           /\ Fits(r, p, UserForm)
           /\ Fits(r, p, UserDetailPage)
<1>1. Fits(r, p, UsersPage(r))
  <2>1. Fits(r, p, UsersTable)
    BY FitsShows, LinksGo DEF AdminRoutes, UsersTable
  <2>2. Fits(r, p, Shows({}, {}, {"getUsers", "getSchools"}))
    BY FitsShows, Accepted, RefusedIsEmpty DEF SchoolCalls, AdminCalls, Answered
  <2>3. Fits(r, p, If(hasPermission(r, "users:create"), Shows({<<"users", "new">>}, {}, {})))
    BY FitsShows, FitsIf, LinksGo, Grants DEF AdminRoutes
  <2> QED
    BY <2>1, <2>2, <2>3, FitsAll DEF UsersPage
<1>2. Fits(r, p, UserForm)
  BY FitsShows, LinksGo, Accepted DEF AdminRoutes, SchoolCalls, AdminCalls, Answered, UserForm
<1>3. Fits(r, p, UserDetailPage)
  <2>1. Fits(r, p, Shows({<<"users">>},
                         {"updateUser", "updateUserStatus", "updateUserRole", "assignUserSchools"},
                         {"getUserById", "getSchools"}))
    BY FitsShows, LinksGo, Accepted DEF AdminRoutes, SchoolCalls, AdminCalls, Answered
  <2>2. Fits(r, p, ResetPasswordDialog)
    BY FitsShows, Accepted DEF AdminCalls, Answered, ResetPasswordDialog
  <2>3. Fits(r, p, ForcePasswordChangeDialog)
    BY FitsShows, Accepted DEF AdminCalls, Answered, ForcePasswordChangeDialog
  <2> QED
    BY <2>1, <2>2, <2>3, FitsAll DEF UserDetailPage
<1> QED
  BY <1>1, <1>2, <1>3

LEMMA ParentsFit ==
    ASSUME NEW r \in Roles, NEW p, r # "TECHNICIAN"
    PROVE  /\ Fits(r, p, ParentsPage(r))
           /\ Fits(r, p, ParentForm)
           /\ Fits(r, p, ParentCodeSection)
           /\ Fits(r, p, BillingCreates(r))
           /\ Fits(r, p, ParentBillingSection(r))
           /\ Fits(r, p, ParentDetailPage(r))
           /\ Fits(r, p, AuditLogsPage)
<1>1. Fits(r, p, ParentsPage(r))
  <2>1. Fits(r, p, Shows({<<"parents", "id">>}, {}, {"getParents"}))
    BY FitsShows, LinksGo, Accepted, RefusedIsEmpty DEF SchoolRoutes, AdminCalls, Answered
  <2>2. Fits(r, p, If(hasPermission(r, "parents:create"),
                      Shows({<<"parents", "new">>}, {}, {})))
    BY FitsShows, FitsIf, LinksGo, Grants DEF SchoolRoutes
  <2> QED
    BY <2>1, <2>2, FitsAll DEF ParentsPage
<1>2. Fits(r, p, ParentForm)
  BY FitsShows, LinksGo, Accepted DEF SchoolRoutes, SchoolCalls, Answered, ParentForm
<1>3. Fits(r, p, ParentCodeSection)
  BY FitsShows, Accepted, RefusedIsEmpty DEF SchoolCalls, Answered, ParentCodeSection
<1>4. Fits(r, p, BillingCreates(r))
  BY FitsShows, FitsIf, Accepted, Grants
  DEF BillingWrites, SchoolCalls, Answered, BillingCreates, canManageBilling
<1>5. Fits(r, p, ParentBillingSection(r))
  <2>1. Fits(r, p, Shows({<<"billing", "subscriptions">>, <<"billing", "payments">>,
                          <<"billing", "invoices">>}, {},
                         {"getSubscriptions", "getPayments", "getInvoices", "getSchools",
                          "getParents"}))
    BY FitsShows, LinksGo, Accepted, RefusedIsEmpty
    DEF SchoolRoutes, SchoolCalls, AdminCalls, Answered
  <2> QED
    BY <2>1, <1>4, FitsAll DEF ParentBillingSection
<1>6. Fits(r, p, ParentDetailPage(r))
  <2>1. Fits(r, p, Shows({<<"parents">>}, {}, {"getParentById"}))
    BY FitsShows, LinksGo, RefusedIsEmpty DEF SchoolRoutes, Answered
  <2> QED
    BY <2>1, <1>3, <1>5, FitsAll, FitsIf DEF ParentDetailPage
<1>7. Fits(r, p, AuditLogsPage)
  BY FitsShows, Accepted, RefusedIsEmpty DEF EveryRole, SchoolCalls, Answered, AuditLogsPage
<1> QED
  BY <1>1, <1>2, <1>3, <1>4, <1>5, <1>6, <1>7

LEMMA SystemFits ==
    ASSUME NEW r \in Roles, NEW p, r # "SCHOOL_ADMIN", p[1] = "system"
    PROVE  /\ Fits(r, p, SystemNavTabs(r))
           /\ Fits(r, p, SystemOverviewPage(r))
           /\ Fits(r, p, All({SystemNavTabs(r),
                            If(canViewSystemWorkers(r), Shows({}, {}, {"getWorkers"}))}))
           /\ Fits(r, p, All({SystemNavTabs(r), Shows({}, {}, {"getStorageUsage"})}))
           /\ Fits(r, p, All({SystemNavTabs(r), Shows({}, {}, {"getSchedulerStatus"})}))
           /\ Fits(r, p, All({SystemNavTabs(r),
                            If(canViewSystemWorkers(r), Shows({}, {}, {"getRetentionStatus"}))}))
<1>1. Fits(r, p, SystemNavTabs(r))
  <2>1. Fits(r, p, Shows({<<"system">>, <<"system", "storage">>, <<"system", "scheduler">>}, {},
                         {}))
    BY FitsShows, LinksGo DEF SystemRoutes
  <2>2. Fits(r, p, If(canViewSystemWorkers(r),
                      Shows({<<"system", "workers">>, <<"system", "retention">>}, {}, {})))
    BY FitsShows, FitsIf, LinksGo, Grants DEF SystemRoutes, canViewSystemWorkers
  <2> QED
    BY <2>1, <2>2, FitsAll DEF SystemNavTabs
<1>2. Fits(r, p, SystemOverviewPage(r))
  <2>2. Fits(r, p, Shows({}, {}, {"getHealthSummary", "getSchedulerStatus", "getStorageUsage"}))
    BY FitsShows, Accepted DEF EveryRole, SchoolCalls, Answered
  <2>3. Fits(r, p, If(canViewSystemWorkers(r),
                      Shows({}, {}, {"getWorkers", "getRetentionStatus"})))
    BY FitsShows, FitsIf, Accepted, Grants
    DEF WithoutSchoolAdmin, Answered, canViewSystemWorkers
  <2> QED
    BY <1>1, <2>2, <2>3, FitsAll DEF SystemOverviewPage
<1>3. Fits(r, p, All({SystemNavTabs(r),
                            If(canViewSystemWorkers(r), Shows({}, {}, {"getWorkers"}))}))
  <2>2. Fits(r, p, If(canViewSystemWorkers(r), Shows({}, {}, {"getWorkers"})))
    BY FitsShows, FitsIf, Accepted, Grants
    DEF WithoutSchoolAdmin, Answered, canViewSystemWorkers
  <2> QED
    BY <1>1, <2>2, FitsAll
<1>4. Fits(r, p, All({SystemNavTabs(r), Shows({}, {}, {"getStorageUsage"})}))
  <2>2. Fits(r, p, Shows({}, {}, {"getStorageUsage"}))
    BY FitsShows, Accepted DEF SchoolCalls, Answered
  <2> QED
    BY <1>1, <2>2, FitsAll
<1>5. Fits(r, p, All({SystemNavTabs(r), Shows({}, {}, {"getSchedulerStatus"})}))
  <2>2. Fits(r, p, Shows({}, {}, {"getSchedulerStatus"}))
    BY FitsShows, Accepted DEF EveryRole, Answered
  <2> QED
    BY <1>1, <2>2, FitsAll
<1>6. Fits(r, p, All({SystemNavTabs(r),
                            If(canViewSystemWorkers(r), Shows({}, {}, {"getRetentionStatus"}))}))
  <2>2. Fits(r, p, If(canViewSystemWorkers(r), Shows({}, {}, {"getRetentionStatus"})))
    BY FitsShows, FitsIf, Accepted, Grants
    DEF WithoutSchoolAdmin, Answered, canViewSystemWorkers
  <2> QED
    BY <1>1, <2>2, FitsAll
<1> QED
  BY <1>1, <1>2, <1>3, <1>4, <1>5, <1>6

\* Page by page: whom a page is open to, it fits.
LEMMA AnyPagesFit ==
    ASSUME NEW r \in Roles, NEW t, NEW x \in AnyPages(r, t)
    PROVE  Fits(r, x.route, x.shown)
<1>1. \A p : /\ Fits(r, p, Shows({<<"change-password">>}, {}, {}))
             /\ Fits(r, p, Shows({<<"dashboard">>}, {}, {}))
  BY FitsShows, LinksGo DEF AnyRoute
<1>2. \A q, shown : Fits(r, q, shown) => Fits(r, Page(q, shown).route, Page(q, shown).shown)
  BY DEF Page
<1> QED
  BY <1>1, <1>2, AlertsFit, CamerasFit, CameraDetailFits DEF AnyPages

LEMMA SchoolPagesFit ==
    ASSUME NEW r \in Roles, NEW t, NEW x \in SchoolPages(r, t), RequirePermission(r, x.route)
    PROVE  Fits(r, x.route, x.shown)
<1>1. x.route \in SchoolRoutes
  <2>1. \E q \in SchoolRoutes : \E shown : x = Page(q, shown)
    BY DEF SchoolPages, SchoolRoutes
  <2> QED
    BY <2>1 DEF Page
<1>2. r # "TECHNICIAN"
  BY <1>1, OpenToSchools
<1>3. \A q, shown : Fits(r, q, shown) => Fits(r, Page(q, shown).route, Page(q, shown).shown)
  BY DEF Page
<1> QED
  BY <1>2, <1>3, SchoolsFit, SchoolCamerasFit, SchoolDetailFits, SchoolBillingFits, BillingFits,
     ParentsFit DEF SchoolPages

LEMMA SystemPagesFit ==
    ASSUME NEW r \in Roles, NEW x \in SystemPages(r), RequirePermission(r, x.route)
    PROVE  Fits(r, x.route, x.shown)
<1>1. x.route \in SystemRoutes
  BY DEF SystemPages, SystemRoutes, Page
<1>2. r # "SCHOOL_ADMIN" /\ x.route[1] = "system"
  BY <1>1, OpenToOperators DEF SystemRoutes
<1>3. /\ Fits(r, x.route, SystemOverviewPage(r))
      /\ Fits(r, x.route, All({SystemNavTabs(r),
                               If(canViewSystemWorkers(r), Shows({}, {}, {"getWorkers"}))}))
      /\ Fits(r, x.route, All({SystemNavTabs(r), Shows({}, {}, {"getStorageUsage"})}))
      /\ Fits(r, x.route, All({SystemNavTabs(r), Shows({}, {}, {"getSchedulerStatus"})}))
      /\ Fits(r, x.route, All({SystemNavTabs(r),
                               If(canViewSystemWorkers(r), Shows({}, {}, {"getRetentionStatus"}))}))
  BY <1>2, SystemFits
<1>4. \A q, shown : Page(q, shown).shown = shown
  BY DEF Page
<1> QED
  BY <1>3, <1>4 DEF SystemPages

LEMMA AdminPagesFit ==
    ASSUME NEW r \in Roles, NEW x \in AdminPages(r), RequirePermission(r, x.route)
    PROVE  Fits(r, x.route, x.shown)
<1>1. x.route \in AdminRoutes
  BY DEF AdminPages, AdminRoutes, Page
<1>2. r = "SUPER_ADMIN"
  BY <1>1, OpenToAdmins
<1>3. \A q, shown : Fits(r, q, shown) => Fits(r, Page(q, shown).route, Page(q, shown).shown)
  BY DEF Page
<1> QED
  BY <1>2, <1>3, CreateSchoolFits, UsersFit DEF AdminPages

LEMMA PageFits ==
    ASSUME NEW r \in Roles, NEW t \in Tabs, NEW p, RequirePermission(r, p)
    PROVE  Fits(r, p, PageAt(r, t, p))
<1>1. PagesOf[r][t] = Pages(r, t)
  BY DEF PagesOf
<1>2. \A x \in Pages(r, t) : x.route = p => Fits(r, p, x.shown)
  BY PagesThere, AnyPagesFit, SchoolPagesFit, SystemPagesFit, AdminPagesFit
<1> DEFINE shown == {page.shown : page \in {x \in PagesOf[r][t] : x.route = p}}
<1>3. \A s \in shown : Fits(r, p, s)
  BY <1>1, <1>2
<1> QED
  BY <1>3, FitsAll DEF PageAt

\* The menu leads where its own permission is that of the route.
LEMMA SidebarFits ==
    ASSUME NEW r \in Roles, NEW p
    PROVE  Fits(r, p, AppSidebar(r))
<1> SUFFICES ASSUME NEW l \in mainNavItems, hasPermission(r, ROUTE_PERMISSIONS[l[1]])
             PROVE  Goes(r, l)
  BY FitsShows DEF AppSidebar
<1>1. l \notin Special
  BY DEF mainNavItems, Special
<1>2. l \in Routes
  BY RoutesThere DEF mainNavItems, AnyRoute, SchoolRoutes, SystemRoutes, AdminRoutes
<1> QED
  BY <1>1, <1>2, SpecialRoutes DEF Goes, RequirePermission, getRoutePermission

LEMMA ShownFits == AccessTypeOK => Fits(role, route, Shown)
<1> SUFFICES ASSUME AccessTypeOK
             PROVE  Fits(role, route, Shown)
  OBVIOUS
<1> DEFINE page == IF RequirePermission(role, route) THEN PageAt(role, openTab, route)
                   ELSE AccessDenied
<1>1. role \in Roles /\ openTab \in Tabs /\ route \in Routes
  BY DEF AccessTypeOK
<1>2. Shown = IF route = <<"change-password">> THEN page ELSE All({page, AppSidebar(role)})
  BY <1>1 DEF Shown, ShownOf
<1>3. Fits(role, route, AccessDenied)
  BY <1>1, FitsShows, LinksGo DEF AccessDenied, AnyRoute
<1>4. Fits(role, route, page)
  BY <1>1, <1>3, PageFits
<1> HIDE DEF page
<1>5. Fits(role, route, All({page, AppSidebar(role)}))
  BY <1>1, <1>4, SidebarFits, FitsAll
<1> QED
  BY <1>2, <1>4, <1>5

-----------------------------------------------------------------------------
(* The user.                                                               *)

AccessInv == AccessTypeOK /\ NoLinkDenied

LEMMA TabsThere ==
    ASSUME NEW r, NEW p
    PROVE  tabsOf(r, p) \subseteq Tabs /\ "overview" \in Tabs
BY DEF tabsOf, Tabs, TAB_PERMISSIONS

LEMMA OpensType ==
    ASSUME AccessTypeOK, NEW p \in Routes, Opens(p)
    PROVE  /\ route' = p /\ openTab' \in Tabs
           /\ sidebar' \in [collapsed : BOOLEAN, mobileOpen : BOOLEAN, stored : BOOLEAN]
<1>1. route' = p /\ openTab' \in Tabs
  BY TabsThere DEF Opens
<1>2. sidebar' \in [collapsed : BOOLEAN, mobileOpen : BOOLEAN, stored : BOOLEAN]
  BY DEF Opens, ShellMounts, AccessTypeOK
<1> QED
  BY <1>1, <1>2

\* Only FollowLink needs to know what is shown.
LEMMA AccessInitInv == AccessInit => AccessInv
<1> SUFFICES ASSUME AccessInit
             PROVE  AccessInv
  OBVIOUS
<1>1. route \in Routes /\ RequirePermission(role, route)
  BY RoutesThere, OpenToAll DEF AccessInit, AnyRoute
<1>2. sidebar \in [collapsed : BOOLEAN, mobileOpen : BOOLEAN, stored : BOOLEAN]
  <2>1. PICK b \in BOOLEAN : sidebar = [collapsed |-> b, mobileOpen |-> FALSE, stored |-> b]
    BY DEF AccessInit
  <2> QED
    BY <2>1
<1>3. "overview" \in Tabs
  BY DEF Tabs, TAB_PERMISSIONS
<1> QED
  BY <1>1, <1>2, <1>3 DEF AccessInit, AccessInv, AccessTypeOK, NoLinkDenied

LEMMA AccessStepInv == AccessInv /\ [AccessNext]_accessVars => AccessInv'
<1> SUFFICES ASSUME AccessInv, [AccessNext]_accessVars
             PROVE  AccessInv'
  OBVIOUS
<1> USE DEF AccessInv
<1>1. CASE FollowLink
  <2>1. PICK p \in Shown.links : Opens(p) /\ reached' = "link" /\ UNCHANGED role
    BY <1>1 DEF FollowLink
  <2>2. p \in Routes /\ RequirePermission(role, p)
    BY <2>1, ShownFits DEF Fits, Goes
  <2>3. AccessTypeOK'
    BY <2>1, <2>2, OpensType DEF AccessTypeOK
  <2>4. NoLinkDenied'
    BY <2>1, <2>2, OpensType DEF NoLinkDenied
  <2> QED
    BY <2>3, <2>4
<1>2. CASE TypeAddress
  <2>1. PICK p \in Routes : Opens(p) /\ reached' = "otherwise" /\ UNCHANGED role
    BY <1>2 DEF TypeAddress
  <2> QED
    BY <2>1, OpensType DEF AccessTypeOK, NoLinkDenied
<1>3. CASE OpenTab
  BY <1>3, TabsThere DEF OpenTab, AccessTypeOK, NoLinkDenied
<1>4. CASE RoleChanges
  BY <1>4, TabsThere DEF RoleChanges, AccessTypeOK, NoLinkDenied
<1>5. CASE toggleCollapsed
  BY <1>5 DEF toggleCollapsed, AccessTypeOK, NoLinkDenied
<1>6. CASE setMobileOpen
  BY <1>6 DEF setMobileOpen, AccessTypeOK, NoLinkDenied
<1>7. CASE UNCHANGED accessVars
  BY <1>7 DEF accessVars, AccessTypeOK, NoLinkDenied
<1> QED
  BY <1>1, <1>2, <1>3, <1>4, <1>5, <1>6, <1>7 DEF AccessNext

LEMMA AccessAlways == AccessSpec => []AccessInv
BY AccessInitInv, AccessStepInv, PTL DEF AccessSpec

\* The role, the address, the open tab and the sidebar stay of their types: a tab a
\* link names is one of the page's (SchoolDetailPage, CameraDetailPage).
THEOREM AccessTypeCorrect == AccessSpec => []AccessTypeOK
<1>1. AccessInv => AccessTypeOK
  BY DEF AccessInv
<1> QED
  BY <1>1, AccessAlways, PTL

\* Whoever follows only what the dashboard shows (AppSidebar, the links and redirects
\* of the pages) is never shown AccessDenied (RequirePermission), whatever his role.
THEOREM LinksLeadOn == AccessSpec => []NoLinkDenied
<1>1. AccessInv => NoLinkDenied
  BY DEF AccessInv
<1> QED
  BY <1>1, AccessAlways, PTL

\* Whatever address was typed and whatever role a refresh of the session brought,
\* a page offers only operations the backend's router accepts from that role.
THEOREM OffersAccepted == AccessSpec => []NoRefusedOffer
<1>1. AccessInv => NoRefusedOffer
  BY ShownFits DEF AccessInv, Fits, NoRefusedOffer
<1> QED
  BY <1>1, AccessAlways, PTL

\* The queries of a page are answered, or their refusal becomes an empty list, but
\* for the two of a technician that are known to fail.
THEOREM ReadsAnswered == AccessSpec => []NoRefusedRead
<1>1. AccessInv => NoRefusedRead
  BY ShownFits DEF AccessInv, Fits, Answered, NoRefusedRead
<1> QED
  BY <1>1, AccessAlways, PTL

-----------------------------------------------------------------------------
(* The drawer of the alerts page, for any number of alerts and of           *)
(* operations under way.                                                   *)

\* The table, like the backend, has of an alert a status it has had; and what an
\* operation sets has been set when it is written.
TableTruthful ==
    \A a \in Ids : alertStatus[a] \in hadStatus[a] /\ tableStatus[a] \in hadStatus[a]
WrittenWasHad ==
    \A o \in DOMAIN Operations, a \in Ids :
        action[o][a] \in {"written", "refetched"} => Operations[o].sets \in hadStatus[a]

AlertsInv == AlertsTypeOK /\ TableTruthful /\ WrittenWasHad /\ DrawerTruthful

LEMMA OperationFacts ==
    /\ DOMAIN Operations = {"acknowledge", "resolve"}
    /\ \A o \in DOMAIN Operations : Operations[o].sets \in Statuses
  BY DEF Operations, Statuses

LEMMA AlertsInitInv == AlertsInit => AlertsInv
<1>. SUFFICES ASSUME AlertsInit PROVE AlertsInv
  OBVIOUS
<1>. USE DEF AlertsInit
<1>1. AlertsTypeOK
  BY OperationFacts DEF AlertsTypeOK, Statuses, Progress, NoAlert
<1>2. TableTruthful /\ WrittenWasHad /\ DrawerTruthful
  BY OperationFacts DEF TableTruthful, WrittenWasHad, DrawerTruthful, NoAlert
<1>. QED  BY <1>1, <1>2 DEF AlertsInv

\* No alert loses a status it has had.
LEMMA AlertsStepInv == AlertsInv /\ [AlertsNext]_alertVars => AlertsInv'
<1>. SUFFICES ASSUME AlertsInv, [AlertsNext]_alertVars PROVE AlertsInv'
  OBVIOUS
<1>. USE OperationFacts DEF AlertsInv, AlertsTypeOK
<1>1. ASSUME NEW a \in Ids, onView(a) PROVE AlertsInv'
  BY <1>1 DEF onView, TableTruthful, WrittenWasHad, DrawerTruthful
<1>2. CASE onClose
  BY <1>2 DEF onClose, TableTruthful, WrittenWasHad, DrawerTruthful, NoAlert
<1>3. ASSUME NEW o \in DOMAIN Operations, NEW a \in Ids, handleAlert(o, a) PROVE AlertsInv'
  <2>1. AlertsTypeOK'
    BY <1>3 DEF handleAlert, Progress
  <2>2. \A p \in DOMAIN Operations, b \in Ids :
            action'[p][b] \in {"written", "refetched"} => action'[p][b] = action[p][b]
    BY <1>3 DEF handleAlert
  <2>. QED  BY <1>3, <2>1, <2>2 DEF handleAlert, TableTruthful, WrittenWasHad, DrawerTruthful
<1>4. ASSUME NEW o \in DOMAIN Operations, NEW a \in Ids, AlertWritten(o, a) PROVE AlertsInv'
  <2>1. AlertsTypeOK'
    BY <1>4 DEF AlertWritten, Progress
  <2>2. \A b \in Ids : hadStatus[b] \subseteq hadStatus'[b]
    BY <1>4 DEF AlertWritten
  <2>3. alertStatus'[a] \in hadStatus'[a] /\ Operations[o].sets \in hadStatus'[a]
    BY <1>4 DEF AlertWritten
  <2>4. \A b \in Ids \ {a} : alertStatus'[b] = alertStatus[b]
    BY <1>4 DEF AlertWritten
  <2>5. \A p \in DOMAIN Operations, b \in Ids :
            (p # o \/ b # a) => action'[p][b] = action[p][b]
    BY <1>4 DEF AlertWritten
  <2>6. UNCHANGED <<tableStatus, selectedAlert>>
    BY <1>4 DEF AlertWritten
  <2>7. TableTruthful'
    BY <2>2, <2>3, <2>4, <2>6 DEF TableTruthful
  <2>8. WrittenWasHad'
    BY <2>2, <2>3, <2>5 DEF WrittenWasHad
  <2>9. DrawerTruthful'
    BY <2>2, <2>6 DEF DrawerTruthful
  <2>. QED  BY <2>1, <2>7, <2>8, <2>9
<1>5. CASE AlertsArrive
  <2>1. AlertsTypeOK'
    BY <1>5 DEF AlertsArrive, Progress
  <2>2. \A p \in DOMAIN Operations, b \in Ids :
            action'[p][b] \in {"written", "refetched"} => action[p][b] \in {"written", "refetched"}
    BY <1>5 DEF AlertsArrive
  <2>. QED  BY <1>5, <2>1, <2>2 DEF AlertsArrive, TableTruthful, WrittenWasHad, DrawerTruthful
<1>6. ASSUME NEW o \in DOMAIN Operations, NEW a \in Ids, AlertHandled(o, a) PROVE AlertsInv'
  <2>1. Operations[o].sets \in hadStatus[a]
    BY <1>6 DEF AlertHandled, WrittenWasHad
  <2>2. CASE selectedAlert.id = a
    <3>1. selectedAlert' = [selectedAlert EXCEPT !.status = Operations[o].sets]
      BY <1>6, <2>2 DEF AlertHandled, drawerAfter
    <3>2. selectedAlert \in [id : Ids, status : Statuses]
      BY <2>2 DEF NoAlert
    <3>3. /\ selectedAlert' \in [id : Ids, status : Statuses]
          /\ selectedAlert'.id = a /\ selectedAlert'.status = Operations[o].sets
      BY <3>1, <3>2, <2>2
    <3>. QED  BY <1>6, <2>1, <3>3 DEF AlertHandled, TableTruthful, WrittenWasHad, DrawerTruthful, Progress
  <2>3. CASE selectedAlert.id # a
    <3>1. selectedAlert' = selectedAlert
      BY <1>6, <2>3 DEF AlertHandled, drawerAfter
    <3>. QED  BY <1>6, <3>1 DEF AlertHandled, TableTruthful, WrittenWasHad, DrawerTruthful, Progress
  <2>. QED  BY <2>2, <2>3
<1>7. ASSUME NEW o \in DOMAIN Operations, NEW a \in Ids, AlertRefused(o, a) PROVE AlertsInv'
  BY <1>7 DEF AlertRefused, TableTruthful, WrittenWasHad, DrawerTruthful, Progress
<1>8. ASSUME NEW a \in Ids, ResolvedElsewhere(a) PROVE AlertsInv'
  <2>1. AlertsTypeOK'
    BY <1>8 DEF ResolvedElsewhere, Statuses
  <2>2. \A b \in Ids : hadStatus[b] \subseteq hadStatus'[b]
    BY <1>8 DEF ResolvedElsewhere
  <2>3. \A b \in Ids : alertStatus'[b] \in hadStatus'[b]
    BY <1>8 DEF ResolvedElsewhere, TableTruthful
  <2>. QED
    BY <1>8, <2>1, <2>2, <2>3 DEF ResolvedElsewhere, TableTruthful, WrittenWasHad, DrawerTruthful
<1>9. CASE UNCHANGED alertVars
  BY <1>9 DEF alertVars, TableTruthful, WrittenWasHad, DrawerTruthful
<1>. QED  BY <1>1, <1>2, <1>3, <1>4, <1>5, <1>6, <1>7, <1>8, <1>9 DEF AlertsNext

-----------------------------------------------------------------------------
\* Whatever is acknowledged, resolved and opened in between, in any order, the
\* status shown in the drawer is one the alert has had (handleAcknowledge and
\* handleResolve of AlertsPage change it only for the alert acted on).
THEOREM DrawerIsTruthful == AlertsSpec => []DrawerTruthful
<1>1. AlertsInv => DrawerTruthful
  BY DEF AlertsInv
<1>. QED  BY AlertsInitInv, AlertsStepInv, <1>1, PTL DEF AlertsSpec

-----------------------------------------------------------------------------
(* For whom the forms save what is typed into them: what the two runs of   *)
(* values, through a closed and reopened dialog and through the question   *)
(* before disabling, have in common.                                       *)

\* The values belong to the entity on screen, or to one the user turned away from;
\* those of a closed form may also be of the only entity it is ever open for.
ValuesKnown ==
    /\ open => typedFor \in {"nobody", shownFor} \union left
    /\ ~open => typedFor \in {"nobody"} \union left \/ theForm.entities = {typedFor}

\* So do the values a question is about, and only some forms ask one.
QuestionKnown ==
    /\ open => question \in {"nobody", shownFor} \union left
    /\ ~open => question \in {"nobody"} \union left
    /\ theForm.asks \/ question = "nobody"

FormsInv ==
    /\ formKind \in DOMAIN Forms
    /\ shownFor \in theForm.entities \union {"nobody"}
    /\ typedFor \in theForm.entities \union {"nobody"}
    /\ "nobody" \notin left
    /\ ValuesKnown /\ QuestionKnown /\ SavedForWhomTyped

-----------------------------------------------------------------------------
(* What the argument needs of the forms. *)

\* A form whose rows stay within reach asks nothing, and one that a success closes
\* with its values in it is open for one entity only.
Sound(f) ==
    /\ f.entities \subseteq Entities /\ "nobody" \notin f.entities /\ f.mutation \in BOOLEAN
    /\ f.asks => ~f.switches
    /\ f.fields /\ f.then # "stays" /\ "success" \notin f.clears => \E e : f.entities = {e}

LEMMA KeptDialogs ==
    /\ Sound(CreateSubscriptionDialog) /\ Sound(CreatePaymentDialog) /\ Sound(CreateInvoiceDialog)
    /\ Sound(CreateCameraDialogForm) /\ Sound(ResetPasswordDialogForm)
    /\ Sound(ForcePasswordChangeDialogForm) /\ Sound(ChildParentsDialogForm)
<1>. USE DEF Sound, Kept, Form, Switching, One, Either, Entities
<1>1. Sound(CreateSubscriptionDialog) /\ Sound(CreatePaymentDialog) /\ Sound(CreateInvoiceDialog)
  BY DEF CreateSubscriptionDialog, CreatePaymentDialog, CreateInvoiceDialog
<1>2. Sound(CreateCameraDialogForm) /\ Sound(ResetPasswordDialogForm)
  BY DEF CreateCameraDialogForm, ResetPasswordDialogForm
<1>3. Sound(ForcePasswordChangeDialogForm) /\ Sound(ChildParentsDialogForm)
  BY DEF ForcePasswordChangeDialogForm, ChildParentsDialogForm
<1>. QED  BY <1>1, <1>2, <1>3

LEMMA MountedDialogs ==
    /\ Sound(CreateChildDialog) /\ Sound(CreateClassroomDialog)
    /\ Sound(EditChildDialog) /\ Sound(EditClassroomDialog)
    /\ Sound(ExtendSubscriptionDialog) /\ Sound(ChangeSubscriptionStatusDialog)
  BY DEF Sound, Form, Around, Asking, Switching, One, Either, Entities, CreateChildDialog,
         CreateClassroomDialog, EditChildDialog, EditClassroomDialog,
         ExtendSubscriptionDialog, ChangeSubscriptionStatusDialog

LEMMA FormsOnPages ==
    /\ Sound(CreateSchoolForm) /\ Sound(EditSchoolForm) /\ Sound(UserFormFields)
    /\ Sound(ParentFormFields) /\ Sound(ChangePasswordForm) /\ Sound(CameraConfiguration)
    /\ Sound(RevenueShareForm) /\ Sound(UserProfile) /\ Sound(ScheduleForm)
    /\ Sound(AssignAdminForm)
  BY DEF Sound, Form, OnPage, One, Either, Entities, CreateSchoolForm, EditSchoolForm, UserFormFields,
         ParentFormFields, ChangePasswordForm, CameraConfiguration, RevenueShareForm,
         UserProfile, ScheduleForm, AssignAdminForm

LEMMA FormsSound == \A k \in DOMAIN Forms : Sound(Forms[k])
  BY KeptDialogs, MountedDialogs, FormsOnPages DEF Forms

LEMMA EntityIsSomebody == "nobody" \notin Entities
  BY DEF Entities, One, Either

-----------------------------------------------------------------------------
LEMMA FormsInitInv == FormsInit => FormsInv
  BY DEF FormsInit, FormsInv, ValuesKnown, QuestionKnown, SavedForWhomTyped, open

\* One step for each action; only OpenForm and CloseForm move the values from a
\* form on screen to one that is not, or back.
LEMMA FormsStepInv == FormsInv /\ [FormsNext]_formVars => FormsInv'
<1>. SUFFICES ASSUME FormsInv, [FormsNext]_formVars PROVE FormsInv'
  OBVIOUS
<1>. DEFINE f == theForm
<1>0. /\ formKind \in DOMAIN Forms /\ Sound(f)
      /\ shownFor \in f.entities \union {"nobody"}
      /\ typedFor \in f.entities \union {"nobody"}
      /\ "nobody" \notin left
      /\ ValuesKnown /\ QuestionKnown /\ SavedForWhomTyped
      /\ "nobody" \notin f.entities /\ (f.asks => ~f.switches)
      /\ f.fields /\ f.then # "stays" /\ "success" \notin f.clears => \E e : f.entities = {e}
  BY FormsSound DEF FormsInv, theForm, Sound
<1>. HIDE DEF f
<1>k. ASSUME formKind' = formKind PROVE theForm' = f
  BY <1>k DEF f, theForm
<1>. USE DEF FormsInv, ValuesKnown, QuestionKnown, SavedForWhomTyped, open
<1>1. CASE OpenForm
  BY <1>0, <1>1, <1>k DEF OpenForm, f
<1>2. CASE SwitchForm
  BY <1>0, <1>2, <1>k DEF SwitchForm, f
<1>3. CASE TypeInto
  BY <1>0, <1>3, <1>k DEF TypeInto, f
<1>4. CASE CloseForm
  BY <1>0, <1>4, <1>k DEF CloseForm, keptAfter, f
<1>5. CASE Resync
  BY <1>0, <1>5, <1>k DEF Resync, f
<1>6. CASE SubmitForm
  BY <1>0, <1>6, <1>k DEF SubmitForm, Save, afterRender, f
<1>7. CASE onConfirm
  BY <1>0, <1>7, <1>k DEF onConfirm, Save, afterRender, f
<1>8. CASE onCancel
  BY <1>0, <1>8, <1>k DEF onCancel, afterRender, f
<1>9. ASSUME NEW s \in saving, SaveSucceeds(s) PROVE FormsInv'
  BY <1>0, <1>9, <1>k DEF SaveSucceeds, keptAfter, questionAfter, f
<1>10. ASSUME NEW s \in saving, SaveFails(s) PROVE FormsInv'
  BY <1>0, <1>10, <1>k DEF SaveFails, afterRender, f
<1>11. CASE UNCHANGED formVars
  BY <1>0, <1>11, <1>k DEF formVars, f
<1>. QED  BY <1>1, <1>2, <1>3, <1>4, <1>5, <1>6, <1>7, <1>8, <1>9, <1>10, <1>11 DEF FormsNext

-----------------------------------------------------------------------------
\* What was typed for one entity is saved for that entity, or the user turned away
\* from it with the values still in the component (EditChildDialog and
\* EditClassroomDialog with their question open, the cards of SubscriptionsPage,
\* ChildParentsDialog), however many saves are under way.
THEOREM SavedWhereTyped == FormsSpec => []SavedForWhomTyped
<1>1. FormsInv => SavedForWhomTyped
  BY DEF FormsInv
<1>. QED  BY FormsInitInv, FormsStepInv, <1>1, PTL DEF FormsSpec

-----------------------------------------------------------------------------
(* The types of the forms and of the records they edit.                    *)

LEMMA FormsOpenForEntities == \A k \in DOMAIN Forms : Forms[k].entities \subseteq Entities
BY FormsSound DEF Sound

LEMMA FormsTypeStep == FormsInv /\ FormsTypeOK /\ [FormsNext]_formVars => FormsTypeOK'
<1> SUFFICES ASSUME FormsInv, FormsTypeOK, [FormsNext]_formVars
             PROVE  FormsTypeOK'
  OBVIOUS
<1>1. /\ formKind' \in DOMAIN Forms
      /\ shownFor' \in theForm'.entities \union {"nobody"}
      /\ typedFor' \in theForm'.entities \union {"nobody"} /\ "nobody" \notin left'
  BY FormsStepInv DEF FormsInv
<1>2. theForm'.entities \subseteq Entities
  BY <1>1, FormsOpenForEntities DEF theForm
<1>3. /\ shownFor \in OrNobody /\ typedFor \in OrNobody /\ question \in OrNobody
      /\ typedFor' \in OrNobody /\ left \subseteq Entities
  BY <1>1, <1>2, FormsOpenForEntities DEF FormsTypeOK, OrNobody, theForm
<1>4. /\ question' \in OrNobody /\ sent' \in [to : OrNobody, of : OrNobody]
      /\ left' \subseteq Entities
      /\ saving' \subseteq [to : Entities, of : OrNobody, here : BOOLEAN]
  <2> DEFINE Saves == [to : Entities, of : OrNobody, here : BOOLEAN]
  <2>0. /\ saving \subseteq Saves /\ sent \in [to : OrNobody, of : OrNobody]
        /\ "nobody" \in OrNobody /\ Entities = OrNobody \ {"nobody"}
    BY EntityIsSomebody DEF FormsTypeOK, OrNobody
  <2>1. ASSUME NEW values \in OrNobody, Save(values), open
        PROVE  saving' \subseteq Saves /\ sent' \in [to : OrNobody, of : OrNobody]
    <3>1. shownFor \in Entities
      BY <1>3, <2>0, <2>1 DEF open
    <3>2. [to |-> shownFor, of |-> values, here |-> TRUE] \in Saves
      BY <2>1, <3>1
    <3>3. saving' = saving \union {[to |-> shownFor, of |-> values, here |-> TRUE]}
      BY <2>1 DEF Save
    <3>4. sent' \in [to : OrNobody, of : OrNobody]
      BY <1>3, <2>1 DEF Save
    <3> QED
      BY <2>0, <3>2, <3>3, <3>4
  <2>2. CASE OpenForm \/ TypeInto \/ Resync \/ onCancel \/ UNCHANGED formVars
    BY <1>3, <2>0, <2>2 DEF OpenForm, TypeInto, Resync, onCancel, formVars
  <2>3. CASE SwitchForm
    BY <1>3, <2>0, <2>3 DEF SwitchForm
  <2>4. CASE CloseForm
    <3>1. theForm.mutation \in BOOLEAN
      BY FormsSound DEF FormsTypeOK, theForm, Sound
    <3>2. \A s \in saving : [s EXCEPT !.here = s.here /\ theForm.mutation] \in Saves
      BY <2>0, <3>1
    <3>3. saving' \subseteq Saves
      BY <2>4, <3>2 DEF CloseForm
    <3>4. left' \subseteq Entities /\ UNCHANGED <<question, sent>>
      BY <1>3, <2>0, <2>4 DEF CloseForm
    <3> QED
      BY <1>3, <2>0, <3>3, <3>4
  <2>5. CASE SubmitForm
    BY <1>3, <2>0, <2>1, <2>5 DEF SubmitForm
  <2>6. CASE onConfirm
    BY <1>3, <2>0, <2>1, <2>6 DEF onConfirm
  <2>7. ASSUME NEW s \in saving, SaveSucceeds(s) \/ SaveFails(s)
        PROVE  /\ question' \in OrNobody /\ saving' \subseteq saving
               /\ UNCHANGED <<sent, left>>
    BY <1>3, <2>0, <2>7 DEF SaveSucceeds, SaveFails, questionAfter
  <2> QED
    BY <1>3, <2>0, <2>2, <2>3, <2>4, <2>5, <2>6, <2>7 DEF FormsNext
<1> QED
  BY <1>1, <1>2, <1>3, <1>4 DEF FormsTypeOK

LEMMA FormsTypeInit == FormsInit => FormsTypeOK
BY DEF FormsInit, FormsTypeOK, OrNobody

-----------------------------------------------------------------------------
(* The pages of the lists, for any number of rows and any sizes of a page: *)
(* first the arithmetic of lib/list-controls.ts.                           *)

USE ListBounds

LEMMA MaxOfTwo ==
    ASSUME NEW a \in Int, NEW b \in Int
    PROVE  Max({a, b}) = IF a >= b THEN a ELSE b
<1>1. CASE a >= b
  <2>1. \A x \in {a, b} : (\A y \in {a, b} : x >= y) <=> x = a
    BY <1>1
  <2>. QED  BY <1>1, <2>1 DEF Max
<1>2. CASE ~(a >= b)
  <2>1. \A x \in {a, b} : (\A y \in {a, b} : x >= y) <=> x = b
    BY <1>2
  <2>. QED  BY <1>2, <2>1 DEF Max
<1>. QED  BY <1>1, <1>2

LEMMA MinOfTwo ==
    ASSUME NEW a \in Int, NEW b \in Int
    PROVE  Min({a, b}) = IF a <= b THEN a ELSE b
<1>1. CASE a <= b
  <2>1. \A x \in {a, b} : (\A y \in {a, b} : x <= y) <=> x = a
    BY <1>1
  <2>. QED  BY <1>1, <2>1 DEF Min
<1>2. CASE ~(a <= b)
  <2>1. \A x \in {a, b} : (\A y \in {a, b} : x <= y) <=> x = b
    BY <1>2
  <2>. QED  BY <1>2, <2>1 DEF Min
<1>. QED  BY <1>1, <1>2

LEMMA Products ==
    ASSUME NEW a \in Int, NEW b \in Int, NEW s \in Nat, a <= b
    PROVE  /\ a * s \in Int /\ b * s \in Int /\ a * s <= b * s
           /\ (a + 1) * s = a * s + s
  OBVIOUS

\* The number of pages is the least that holds all rows.
LEMMA PageCount ==
    ASSUME NEW n \in Nat, NEW s \in Nat \ {0}
    PROVE  /\ getListPageCount(n, s) \in Nat \ {0}
           /\ getListPageCount(n, s) * s >= n
           /\ n > 0 => (getListPageCount(n, s) - 1) * s < n
           /\ getListPageCount(n, s) = 1 \/ getListPageCount(n, s) <= n
<1>. DEFINE d == (n + s - 1) \div s
            q == getListPageCount(n, s)
<1>1. d \in Int /\ d * s <= n + s - 1 /\ n + s - 1 < (d + 1) * s
  OBVIOUS
<1>2. d \in Nat
  <2>. SUFFICES ASSUME d <= -1 PROVE FALSE
    BY <1>1
  <2>1. (d + 1) * s <= 0 * s
    BY <1>1, Products
  <2>. QED  BY <1>1, <2>1
<1>. HIDE DEF d
<1>3. q = IF 1 >= d THEN 1 ELSE d
  BY <1>1, MaxOfTwo DEF getListPageCount, d
<1>4. n > 0 => d >= 1
  <2>. SUFFICES ASSUME n > 0, d = 0 PROVE FALSE
    BY <1>2
  <2>. QED  BY <1>1
<1>5. (d + 1) * s = d * s + s /\ (d - 1) * s = d * s - s
  BY <1>2
<1>6. d * s >= n /\ (n > 0 => (d - 1) * s < n)
  BY <1>1, <1>5
<1>7. n = 0 => d <= 0
  <2>. SUFFICES ASSUME n = 0, d >= 1 PROVE FALSE
    BY <1>2
  <2>1. 1 * s <= d * s
    BY <1>2, Products
  <2>. QED  BY <1>1, <2>1
<1>8. d >= 1 => d <= n
  <2>. SUFFICES ASSUME d >= 1, n <= d - 1 PROVE FALSE
    BY <1>2
  <2>1. (d - 1) * s >= d - 1
    BY <1>2
  <2>. QED  BY <1>6, <1>7, <2>1, <1>2
<1>. QED  BY <1>2, <1>3, <1>4, <1>6, <1>7, <1>8

LEMMA PageOfIndex ==
    ASSUME NEW n \in Nat, NEW s \in Nat \ {0}, NEW p \in Int
    PROVE  /\ clampPage(p, getListPageCount(n, s)) \in Nat
           /\ clampPage(p, getListPageCount(n, s)) <= getListPageCount(n, s) - 1
           /\ n > 0 => clampPage(p, getListPageCount(n, s)) * s < n
           /\ p \in Nat /\ p * s < n => clampPage(p, getListPageCount(n, s)) = p
<1>. DEFINE q == getListPageCount(n, s)
            c == clampPage(p, q)
<1>1. q \in Nat \ {0} /\ q * s >= n /\ (n > 0 => (q - 1) * s < n)
  BY PageCount
<1>. HIDE DEF q
<1>2. Min({p, q - 1}) = IF p <= q - 1 THEN p ELSE q - 1
  BY <1>1, MinOfTwo
<1>3. c = IF p <= 0 THEN 0 ELSE IF p <= q - 1 THEN p ELSE q - 1
  <2>1. c = IF 0 >= Min({p, q - 1}) THEN 0 ELSE Min({p, q - 1})
    BY <1>1, <1>2, MaxOfTwo DEF clampPage
  <2>. QED  BY <1>1, <1>2, <2>1
<1>. HIDE DEF c
<1>4. c \in Nat /\ c <= q - 1 /\ (p \in 0..(q - 1) => c = p)
  BY <1>1, <1>3
<1>5. n > 0 => c * s < n
  <2>1. c * s <= (q - 1) * s /\ c * s \in Int /\ (q - 1) * s \in Int
    BY <1>1, <1>4, Products
  <2>. QED  BY <1>1, <2>1
<1>6. p \in Nat /\ p * s < n => c = p
  <2>. SUFFICES ASSUME p \in Nat, p * s < n, q <= p PROVE FALSE
    BY <1>1, <1>4
  <2>1. q * s <= p * s /\ q * s \in Int /\ p * s \in Int
    BY <1>1, Products
  <2>. QED  BY <1>1, <2>1
<1>. QED  BY <1>4, <1>5, <1>6 DEF c, q

\* The rows of a page: those from its first index on, as far as there are any.
LEMMA PageOfRows ==
    ASSUME NEW n \in Nat, NEW s \in Nat \ {0}, NEW p \in Nat
    PROVE  LET items == paginateArray([i \in 1..n |-> i], p, s)
               last == IF (p + 1) * s <= n THEN (p + 1) * s ELSE n
           IN /\ items \in Seq(Int)
              /\ Len(items) = IF p * s < n THEN last - p * s ELSE 0
              /\ \A i \in 1..Len(items) : items[i] = p * s + i
              /\ items = <<>> <=> p * s >= n
<1>. DEFINE rows == [i \in 1..n |-> i]
            items == paginateArray(rows, p, s)
            last == IF (p + 1) * s <= n THEN (p + 1) * s ELSE n
<1>1. p * s \in Nat /\ (p + 1) * s = p * s + s /\ last \in Int
  OBVIOUS
<1>2. Len(rows) = n
  OBVIOUS
<1>3. Min({(p + 1) * s, Len(rows)}) = last
  BY <1>1, <1>2, MinOfTwo
<1>4. items = SubSeq(rows, p * s + 1, last)
  BY <1>3 DEF paginateArray
<1>. HIDE DEF items
<1>5. \A i \in (p * s + 1)..last : rows[i] \in Int
  BY <1>1
<1>6. /\ items \in Seq(Int)
      /\ Len(items) = IF p * s + 1 <= last THEN last - p * s ELSE 0
      /\ \A i \in 1..(last - p * s) : items[i] = rows[p * s + i]
  <2>. DEFINE k == p * s + 1
  <2>1. k \in Int
    BY <1>1
  <2>2. /\ SubSeq(rows, k, last) \in Seq(Int)
        /\ Len(SubSeq(rows, k, last)) = IF k <= last THEN last - k + 1 ELSE 0
        /\ \A i \in 1..(last - k + 1) : SubSeq(rows, k, last)[i] = rows[k + i - 1]
    <3>. HIDE DEF rows, last, k
    <3>1. \A i \in k..last : rows[i] \in Int
      BY <1>5 DEF k
    <3>. QED  BY <1>1, <2>1, <3>1, SubSeqProperties
  <2>. QED  BY <1>1, <1>4, <2>2
<1>7. p * s + 1 <= last <=> p * s < n
  BY <1>1
<1>8. \A i \in 1..Len(items) : items[i] = p * s + i
  <2>. SUFFICES ASSUME NEW i \in 1..Len(items) PROVE items[i] = p * s + i
    OBVIOUS
  <2>1. i \in 1..(last - p * s)
    BY <1>1, <1>6, <1>7
  <2>2. p * s + i \in 1..n
    BY <1>1, <2>1
  <2>3. rows[p * s + i] = p * s + i
    BY <2>2
  <2>. QED  BY <1>6, <2>1, <2>3
<1>9. items = <<>> <=> Len(items) = 0
  BY <1>6, EmptySeq
<1>. QED  BY <1>1, <1>6, <1>7, <1>8, <1>9 DEF items

Rows(n) == [i \in 1..n |-> i]

\* getListRange and paginateArray agree wherever there are rows on the page.
LEMMA RangeOfPage ==
    ASSUME NEW n \in Nat, NEW s \in Nat \ {0}, NEW p \in Nat,
           paginateArray(Rows(n), p, s) # <<>>
    PROVE  /\ getListRange(n, p, s).start \in 1..n
           /\ paginateArray(Rows(n), p, s)
                = [i \in 1..Len(paginateArray(Rows(n), p, s)) |-> getListRange(n, p, s).start + i - 1]
           /\ getListRange(n, p, s).end
                = getListRange(n, p, s).start + Len(paginateArray(Rows(n), p, s)) - 1
<1>. DEFINE items == paginateArray(Rows(n), p, s)
            range == getListRange(n, p, s)
            first == p * s
            next == (p + 1) * s
<1>1. /\ items \in Seq(Int)
      /\ Len(items) = IF first < n THEN (IF next <= n THEN next ELSE n) - first ELSE 0
      /\ \A i \in 1..Len(items) : items[i] = first + i
      /\ items = <<>> <=> first >= n
  BY PageOfRows DEF Rows
<1>2. first \in Nat /\ next \in Nat /\ next = first + s
  OBVIOUS
<1>3. first < n
  BY <1>1, <1>2
<1>4. range.start = first + 1 /\ range.end = IF next <= n THEN next ELSE n
  <2>1. clampPage(p, getListPageCount(n, s)) = p
    BY <1>3, PageOfIndex
  <2>2. Min({n, next}) = IF n <= next THEN n ELSE next
    BY <1>2, MinOfTwo
  <2>3. n # 0
    BY <1>2, <1>3
  <2>4. range = [start |-> first + 1, end |-> Min({n, next})]
    BY <2>1, <2>3 DEF getListRange
  <2>. QED  BY <1>2, <2>2, <2>4
<1>. HIDE DEF items, range, first, next
<1>5. range.start \in 1..n /\ range.end = range.start + Len(items) - 1
  BY <1>1, <1>2, <1>3, <1>4
<1>6. \A i \in 1..Len(items) : items[i] = range.start + i - 1
  BY <1>1, <1>2, <1>4
<1>7. items = [i \in 1..Len(items) |-> items[i]]
  BY <1>1
<1>8. items = [i \in 1..Len(items) |-> range.start + i - 1]
  BY <1>6, <1>7
<1>. QED  BY <1>5, <1>8 DEF items, range

\* What the audit log counts from an offset is what is on the page.
LEMMA RangeFromOffset ==
    ASSUME NEW n \in Nat, NEW s \in Nat \ {0}, NEW p \in Nat,
           paginateArray(Rows(n), p, s) # <<>>
    PROVE  /\ n # 0 /\ p * s + 1 \in 1..n
           /\ paginateArray(Rows(n), p, s)
                = [i \in 1..Len(paginateArray(Rows(n), p, s)) |-> p * s + 1 + i - 1]
           /\ p * s + Len(paginateArray(Rows(n), p, s))
                = p * s + 1 + Len(paginateArray(Rows(n), p, s)) - 1
<1>. DEFINE items == paginateArray(Rows(n), p, s)
            first == p * s
<1>1. /\ items \in Seq(Int)
      /\ \A i \in 1..Len(items) : items[i] = first + i
      /\ items = <<>> <=> first >= n
  BY PageOfRows DEF Rows
<1>2. first \in Nat /\ first < n
  BY <1>1
<1>. HIDE DEF items, first
<1>3. Len(items) \in Nat /\ items = [i \in 1..Len(items) |-> items[i]]
  BY <1>1
<1>4. \A i \in 1..Len(items) : items[i] = first + 1 + i - 1
  BY <1>1, <1>2, <1>3
<1>5. items = [i \in 1..Len(items) |-> first + 1 + i - 1]
  BY <1>3, <1>4
<1>6. first + Len(items) = first + 1 + Len(items) - 1
  BY <1>2, <1>3
<1>7. n # 0 /\ first + 1 \in 1..n
  BY <1>2
<1>. QED  BY <1>5, <1>6, <1>7 DEF items, first

\* A page number that is clamped is that of a page with rows.
LEMMA ClampedPageHasRows ==
    ASSUME NEW n \in Nat, NEW s \in Nat \ {0}, NEW p \in Int, n > 0
    PROVE  paginateArray(Rows(n), clampPage(p, getListPageCount(n, s)), s) # <<>>
<1>. DEFINE c == clampPage(p, getListPageCount(n, s))
<1>1. c \in Nat /\ c * s < n
  BY PageOfIndex
<1>. HIDE DEF c
<1>2. paginateArray(Rows(n), c, s) = <<>> <=> c * s >= n
  BY <1>1, PageOfRows DEF Rows
<1>3. c * s \in Int
  BY <1>1
<1>. QED  BY <1>1, <1>2, <1>3 DEF c

-----------------------------------------------------------------------------
(* The lists. *)

\* Whatever can be set resets the page.
Resets(l) == l.filters \subseteq l.resetDeps

LEMMA EveryFilterResets == \A n \in DOMAIN Lists : Resets(Lists[n])
<1>1. Resets(UsersList) /\ Resets(SchoolsList) /\ Resets(ParentsList)
  BY DEF Resets, UsersList, SchoolsList, ParentsList, List
<1>2. Resets(CamerasList) /\ Resets(AlertsList) /\ Resets(AuditLogsList)
  BY DEF Resets, CamerasList, CamerasFilters, AlertsList, AlertsFilters, AuditLogsList,
         AuditLogsFilters, List
<1>3. Resets(SubscriptionsList) /\ Resets(PaymentsList) /\ Resets(InvoicesList)
  BY DEF Resets, SubscriptionsList, PaymentsList, InvoicesList, BillingFiltersBar, List
<1>. QED  BY <1>1, <1>2, <1>3 DEF Lists

Listed == listed.list \in DOMAIN Lists /\ listed.filter \in theList.filters

LEMMA ListedFacts ==
    /\ listed \in UNION {[list : {n}, filter : Lists[n].filters] : n \in DOMAIN Lists} => Listed
    /\ Listed => listed.filter \in theList.resetDeps
<1>1. ASSUME NEW n \in DOMAIN Lists, listed \in [list : {n}, filter : Lists[n].filters]
      PROVE  Listed
  BY <1>1 DEF Listed, theList
<1>2. Listed => listed.filter \in theList.resetDeps
  BY EveryFilterResets DEF Listed, theList, Resets
<1>. QED  BY <1>1, <1>2

\* A page is turned only with the effects done, so under the value they last saw.
TurnedUnderSeen == pager.page # 0 => turned = seen.applied

\* Rows are dropped from a page only by those filters of the audit log.
KeptInFull == ~FilterCut => kept = AllRows

PageInv == ListTypeOK /\ TurnedUnderSeen /\ KeptInFull

LEMMA CountsTyped ==
    ASSUME ListTypeOK
    PROVE  /\ rowCount \in Nat /\ rowCount <= MaxRows
           /\ pager.page \in 0..MaxRows /\ pager.size \in Nat \ {0}
<1>1. rowCount \in 0..MaxRows /\ pager \in [page : 0..MaxRows, size : PageSizes]
  BY Zenon DEF ListTypeOK
<1>2. pager.page \in 0..MaxRows /\ pager.size \in PageSizes
  BY <1>1
<1>3. pager.size \in Nat \ {0}
  BY <1>2, Zenon
<1>. QED  BY <1>1, <1>2, <1>3

LEMMA PageBounded ==
    ASSUME ListTypeOK
    PROVE  /\ totalPages \in 1..(MaxRows + 1) /\ (totalPages > 1 => totalPages <= MaxRows)
           /\ pager.size \in Nat \ {0}
           /\ safePage \in 0..MaxRows
<1>1. /\ rowCount \in Nat /\ rowCount <= MaxRows
      /\ pager.page \in 0..MaxRows /\ pager.size \in Nat \ {0}
  BY CountsTyped
<1>2. totalPages \in Nat \ {0} /\ (totalPages = 1 \/ totalPages <= rowCount)
  BY <1>1, PageCount DEF totalPages
<1>3. clampPage(pager.page, totalPages) \in Nat /\ clampPage(pager.page, totalPages) <= totalPages - 1
  <2>1. pager.page \in Int
    BY <1>1
  <2>. QED  BY <1>1, <2>1, PageOfIndex, Zenon DEF totalPages
<1>4. safePage \in 0..MaxRows
  BY <1>1, <1>2, <1>3 DEF safePage
<1>. QED  BY <1>1, <1>2, <1>4

LEMMA ListInitInv == ListInit => PageInv
  BY DEF ListInit, PageInv, ListTypeOK, TurnedUnderSeen, KeptInFull, Values

LEMMA OtherRowsTyped ==
    ASSUME OtherRows
    PROVE  rowCount' \in 0..MaxRows /\ kept' \subseteq AllRows /\ KeptInFull'
<1>1. rowCount' \in 0..MaxRows
  BY DEF OtherRows
<1>2. kept' \subseteq AllRows
  BY DEF OtherRows
<1>3. KeptInFull'
  BY DEF OtherRows, KeptInFull, AllRows
<1>. QED  BY <1>1, <1>2, <1>3

\* The filters of the audit log are not debounced.
LEMMA CutIsAudit == FilterCut => ~theList.clamped /\ ~debounced
<1>1. ~AuditLogsList.clamped
  BY DEF AuditLogsList
<1>2. listed.list = "auditLogs" => theList = AuditLogsList
  BY DEF theList, Lists
<1>. QED  BY <1>1, <1>2 DEF FilterCut, debounced

LEMMA ListStepInv == PageInv /\ [ListNext]_listVars => PageInv'
<1>. SUFFICES ASSUME PageInv, [ListNext]_listVars PROVE PageInv'
  OBVIOUS
<1>. USE DEF PageInv, TurnedUnderSeen
<1>0. Listed /\ listed.filter \in theList.resetDeps
  BY ListedFacts DEF ListTypeOK
<1>1. CASE SetFilter
  <2>1. rowCount' \in 0..MaxRows /\ kept' \subseteq AllRows /\ KeptInFull'
    <3>1. CASE ~debounced
      BY <1>1, <3>1, OtherRowsTyped DEF SetFilter
    <3>2. CASE debounced
      <4>1. UNCHANGED <<rowCount, kept>> /\ listed' = listed /\ setting'.applied = setting.applied
        BY <1>1, <3>2 DEF SetFilter, ListTypeOK
      <4>. QED  BY <4>1 DEF ListTypeOK, KeptInFull, FilterCut, AllRows
    <3>. QED  BY <3>1, <3>2
  <2>. QED  BY <1>1, <2>1 DEF SetFilter, ListTypeOK, Values, AllRows
<1>2. CASE useDebouncedValue
  <2>1. debounced
    BY <1>2 DEF useDebouncedValue
  <2>2. ~FilterCut' /\ ~FilterCut
    <3>1. listed.list # "auditLogs"
      BY <2>1 DEF debounced, theList, Lists, AuditLogsList
    <3>. QED  BY <1>2, <3>1 DEF useDebouncedValue, FilterCut
  <2>3. KeptInFull'
    BY <1>2, <2>2 DEF useDebouncedValue, KeptInFull, AllRows
  <2>. QED  BY <1>2, <2>3 DEF useDebouncedValue, ListTypeOK, Values, AllRows
<1>3. CASE DataArrives
  BY <1>3, OtherRowsTyped DEF DataArrives, ListTypeOK, AllRows
<1>4. CASE ResetEffect
  BY <1>4 DEF ResetEffect, ListTypeOK, KeptInFull, FilterCut, AllRows
<1>5. CASE setPage
  <2>1. seen.applied = setting.applied
    BY <1>0, <1>5 DEF setPage, effectDue
  <2>2. pager' \in [page : 0..MaxRows, size : PageSizes]
    <3>1. pager'.page \in 0..MaxRows /\ pager' = [pager EXCEPT !.page = pager'.page]
      <4>1. CASE safePage > 0 /\ pager' = [pager EXCEPT !.page = safePage - 1]
        BY <4>1, PageBounded DEF ListTypeOK
      <4>2. CASE safePage + 1 < totalPages /\ pager' = [pager EXCEPT !.page = safePage + 1]
        BY <4>2, PageBounded DEF ListTypeOK
      <4>. QED  BY <1>5, <4>1, <4>2 DEF setPage
    <3>. QED  BY <3>1 DEF ListTypeOK
  <2>3. rowCount' \in 0..MaxRows /\ kept' \subseteq AllRows /\ KeptInFull'
    <3>1. CASE theList.clamped
      BY <1>5, <3>1 DEF setPage, ListTypeOK, KeptInFull, FilterCut, AllRows
    <3>2. CASE ~theList.clamped
      BY <1>5, <3>2, OtherRowsTyped DEF setPage
    <3>. QED  BY <3>1, <3>2
  <2>. QED  BY <1>5, <2>1, <2>2, <2>3 DEF setPage, ListTypeOK, AllRows
<1>6. CASE setPageSizeAndReset
  BY <1>6 DEF setPageSizeAndReset, ListTypeOK, KeptInFull, FilterCut, AllRows
<1>7. CASE UNCHANGED listVars
  BY <1>7 DEF listVars, ListTypeOK, KeptInFull, FilterCut, AllRows
<1>. QED  BY <1>1, <1>2, <1>3, <1>4, <1>5, <1>6, <1>7 DEF ListNext

-----------------------------------------------------------------------------
\* The state of a list is of its type: a page is never asked for beyond the rows
\* there can be (setPage and the buttons of ListPagination).
THEOREM ListTypeCorrect == ListSpec => []ListTypeOK
<1>1. PageInv => ListTypeOK
  BY DEF PageInv
<1>. QED  BY ListInitInv, ListStepInv, <1>1, PTL DEF ListSpec

\* No list keeps a page that was turned to under another value of a filter, the
\* effect of useClientPagination done.
THEOREM PagesTurnedHere == ListSpec => []PageTurnedHere
<1>1. PageInv => PageTurnedHere
  BY ListedFacts DEF PageInv, ListTypeOK, TurnedUnderSeen, PageTurnedHere, effectDue
<1>. QED  BY ListInitInv, ListStepInv, <1>1, PTL DEF ListSpec

\* The range above a list is that of the rows in it, whatever their number, the size
\* of a page and the page asked for (getListRange and paginateArray agree), and a
\* list with rows shows some.  Nothing is said of the audit log where a filter of its
\* page has dropped rows of what the backend had cut (FilterCut).
THEOREM RangesTruthful == ListSpec => []RangeTruthful
<1>1. PageInv => RangeTruthful
  <2>. SUFFICES ASSUME PageInv PROVE RangeTruthful
    OBVIOUS
  <2>. DEFINE n == rowCount
              s == pager.size
              p == safePage
              page == paginateArray(Rows(n), p, s)
  <2>0. ListTypeOK /\ KeptInFull
    BY DEF PageInv
  <2>1. n \in Nat /\ s \in Nat \ {0} /\ p \in Nat /\ pager.page \in Nat
    BY <2>0, CountsTyped, PageBounded
  <2>2. kept = AllRows => paginatedItems = page
    BY DEF paginatedItems, cutItems, Rows
  <2>3. theList.clamped => listRange = getListRange(n, p, s)
    BY DEF listRange
  <2>4. ~theList.clamped /\ n # 0 =>
            listRange = [start |-> p * s + 1, end |-> p * s + Len(paginatedItems)]
    BY DEF listRange, auditRange, safePage
  <2>. HIDE DEF n, s, p
  <2>5. ASSUME pagerShown, FilterCut => kept = AllRows
        PROVE  /\ listRange.start \in 1..n
               /\ paginatedItems = [i \in 1..Len(paginatedItems) |-> listRange.start + i - 1]
               /\ listRange.end = listRange.start + Len(paginatedItems) - 1
    <3>1. paginatedItems = page /\ page # <<>>
      BY <2>0, <2>2, <2>5 DEF pagerShown, KeptInFull
    <3>2. CASE theList.clamped
      <4>1. /\ getListRange(n, p, s).start \in 1..n
            /\ page = [i \in 1..Len(page) |-> getListRange(n, p, s).start + i - 1]
            /\ getListRange(n, p, s).end = getListRange(n, p, s).start + Len(page) - 1
        BY <2>1, <3>1, RangeOfPage, Zenon
      <4>. QED  BY <2>3, <3>1, <3>2, <4>1, Zenon
    <3>3. CASE ~theList.clamped
      <4>1. /\ n # 0 /\ p * s + 1 \in 1..n
            /\ page = [i \in 1..Len(page) |-> p * s + 1 + i - 1]
            /\ p * s + Len(page) = p * s + 1 + Len(page) - 1
        BY <2>1, <3>1, RangeFromOffset, Zenon
      <4>2. listRange.start = p * s + 1 /\ listRange.end = p * s + Len(page)
        BY <2>4, <3>1, <3>3, <4>1
      <4>. QED  BY <3>1, <4>1, <4>2, Zenon
    <3>. QED  BY <3>2, <3>3
  <2>6. ASSUME theList.clamped, n > 0 PROVE paginatedItems # <<>>
    <3>1. p = clampPage(pager.page, getListPageCount(n, s))
      BY <2>6 DEF safePage, totalPages, n, s, p
    <3>2. pager.page \in Int
      BY <2>1
    <3>3. paginatedItems = page
      BY <2>0, <2>2, <2>6, CutIsAudit DEF KeptInFull
    <3>. QED  BY <2>1, <2>6, <3>1, <3>2, <3>3, ClampedPageHasRows
  <2>. QED  BY <2>5, <2>6 DEF RangeTruthful, n
<1>. QED  BY ListInitInv, ListStepInv, <1>1, PTL DEF ListSpec

-----------------------------------------------------------------------------
(* The parts together.                                                     *)

LEMMA RestingSession == SessionRests => SessionInv
<1> SUFFICES ASSUME SessionRests
             PROVE  SessionInv
  OBVIOUS
<1>1. SessionTypeOK
  BY SessionBounds DEF SessionRests, SessionTypeOK, ServerRecord, NotWaiting, NoCall, NoToken,
                       Tokens, Profiles, Paths
<1>2. TokenInv
  BY DEF SessionRests, TokenInv, TokensIssued, NewPairsUnshared, StoredNotSignedOut,
         StoredIsReplaced, NotWaiting, NoToken
<1>3. CallsCounted
  BY DEF SessionRests, CallsCounted, NotWaiting, NoCall, Calls, Callers, OwnCallers
<1> QED
  BY <1>1, <1>2, <1>3 DEF SessionInv

LEMMA RestingData == DataRests => DataInit
<1>1. Entry("alerts", <<"alerts", "filters">>, {"alert"})
  <2>1. AlertsQueries \in QueryTables /\ AlertsApi \in ApiTables
    BY DEF QueryTables, ApiTables
  <2>2. /\ "alerts" \in DOMAIN Queries /\ Queries["alerts"].calls = {"getAlerts"}
        /\ Queries["alerts"].key = <<"alerts", "filters">> /\ Queries["alerts"].drops = {}
    BY <2>1, QueryOf, QueryNames DEF AlertsQueries, Query, Polled
  <2>3. Api["getAlerts"].reads = {"alert"}
    BY <2>1, ApiOf, ApiNames1 DEF AlertsApi, Get
  <2> QED
    BY <2>2, <2>3 DEF Entry, Reads
<1>2. Change("acknowledgeAlert", {"alert"}, <<{<<"alerts">>}>>)
  BY AlertsChanges
<1>3. Concerns("acknowledgeAlert", "alerts")
  BY <1>1, <1>2 DEF Entry, Change, Reads, Writes, Concerns
<1> QED
  BY <1>1, <1>2, <1>3 DEF DataRests, DataInit, Entry, Change

LEMMA PartsOfInit ==
    Init => /\ SessionInit \/ SessionRests
            /\ AccessInit /\ DataInit /\ ListInit /\ AlertsInit /\ FormsInit /\ ValuesInit
<1>1. AccessRests => AccessInit
  BY DEF AccessRests, AccessInit, Roles
<1>2. ValuesRest => ValuesInit
  BY DEF ValuesRest, ValuesInit, Records
<1> QED
  BY <1>1, <1>2, RestingData DEF Init, ListRests, FormsRest

LEMMA PartsOfStep ==
    [Next]_vars => /\ [SessionNext]_sessionVars /\ [AccessNext]_accessVars
                   /\ [DataNext]_dataVars /\ [ListNext]_listVars /\ [AlertsNext]_alertVars
                   /\ [FormsNext]_formVars /\ [ValuesNext]_valuesVars
BY DEF Next, vars, core, listsOn

\* The run of MCDashboard takes of each part the steps of that part's own
\* specification: what is proved of the parts holds of the whole, and of any
\* number of them at work at once.
THEOREM PartsImplemented ==
    Spec => AccessSpec /\ DataSpec /\ ListSpec /\ AlertsSpec /\ FormsSpec /\ ValuesSpec
BY PartsOfInit, PartsOfStep, PTL
   DEF Spec, AccessSpec, DataSpec, ListSpec, AlertsSpec, FormsSpec, ValuesSpec

LEMMA SessionWithin == Spec => []SessionInv
<1>1. Init => SessionInv
  BY PartsOfInit, RestingSession, SessionInitInv
<1>2. SessionInv /\ [Next]_vars => SessionInv'
  BY PartsOfStep, SessionStepInv
<1> QED
  BY <1>1, <1>2, PTL DEF Spec

LEMMA AlertsTypeCorrect == AlertsSpec => []AlertsTypeOK
<1>1. AlertsInv => AlertsTypeOK
  BY DEF AlertsInv
<1> QED
  BY <1>1, AlertsInitInv, AlertsStepInv, PTL DEF AlertsSpec

LEMMA FormsTypeCorrect == FormsSpec => []FormsTypeOK
<1>1. FormsInit => FormsInv /\ FormsTypeOK
  BY FormsInitInv, FormsTypeInit
<1>2. FormsInv /\ FormsTypeOK /\ [FormsNext]_formVars => (FormsInv /\ FormsTypeOK)'
  BY FormsStepInv, FormsTypeStep
<1> QED
  BY <1>1, <1>2, PTL DEF FormsSpec

\* Every variable of the dashboard's parts stays of its type, for any number of
\* calls, rows, alerts and writes.
THEOREM DashboardTypeCorrect == Spec => []TypeOK
<1>1. SessionInv => SessionTypeOK
  BY DEF SessionInv
<1>2. /\ SessionTypeOK /\ AccessTypeOK /\ DataTypeOK /\ ListTypeOK /\ AlertsTypeOK
      /\ FormsTypeOK /\ ValuesTypeOK
      => TypeOK
  BY DEF TypeOK
<1> QED
  BY <1>1, <1>2, SessionWithin, ValuesInvariant, ValuesTyped, PartsImplemented, AccessTypeCorrect,
     DataTypeCorrect, ListTypeCorrect, AlertsTypeCorrect, FormsTypeCorrect, PTL

\* What the run of MCDashboard checks for a few tokens, rows, alerts, writes, names and
\* streets holds for any number of them.
THEOREM DashboardSafe ==
    Spec => [](/\ QuietTokenUnspent /\ RetriedAtMostOnce
               /\ NoLinkDenied /\ NoRefusedOffer /\ NoRefusedRead /\ OwnWriteSeen
               /\ PageTurnedHere /\ RangeTruthful /\ DrawerTruthful /\ SavedForWhomTyped
               /\ UneditedSaveKeeps)
<1>1. SessionInv => QuietTokenUnspent /\ RetriedAtMostOnce
  BY DEF SessionInv, TokenInv, StoredIsReplaced, QuietTokenUnspent, CallsCounted,
         RetriedAtMostOnce
<1> QED
  BY <1>1, SessionWithin, PartsImplemented, LinksLeadOn, OffersAccepted, ReadsAnswered,
     OwnWriteIsSeen, PagesTurnedHere, RangesTruthful, DrawerIsTruthful, SavedWhereTyped,
     UneditedSavesKeep, PTL
=============================================================================
