# A verification project for the school camera platform

TLA+ models, TLC runs and TLAPS proofs for the Go backend in `src/backend`
(streams from school cameras, the parents who are allowed to watch them, and
what they pay) and for the admin dashboard in `src/admin-dashboard`, the Next.js
program its operators use. Paths below are relative to `src/backend` unless they
start with `src/`; in the sections on the dashboard they are relative to
`src/admin-dashboard`.

## The system

| Part | State it keeps | Operations | Talks to |
|---|---|---|---|
| **stream worker** (`apps/stream-worker/worker`) | map of camera to `CameraStream`, each with a context, restart count, `lastUploadAt`, `markedOffline`; scratch directories; `cameras.status` | poll, sweep, start, supervise FFmpeg, watch and upload segments, offline check, stop, temp cleanup, heartbeat | database, object storage, FFmpeg |
| **scheduler worker** (`internal/scheduler`, `internal/schoolschedule`) | `camera_stream_states` | upsert of the desired state of each camera | read by the stream worker's poll |
| **wallet payments** (`apps/api/handlers/internalapi`, `handlers/parent/superapp_payment.go`) | `school_camera_payment_requests` | create a request, capture it | subscriptions, payments |
| **admin billing** (`handlers/admin/billing.go`) | `subscriptions`, `payments`, `invoices` | create, patch, extend, approve, reject, void, mark paid | the same rows as the captures |
| **parent link** (`handlers/parent/link.go`, `handlers/admin/invitation_codes.go`) | `parent_invitation_codes`, `parent_superapp_links` | generate, revoke, redeem a code | creates trial subscriptions |
| **health monitor** (`internal/health`) | `alerts` | open, touch, resolve on each tick | reads cameras, heartbeats, segments |
| **alert delivery** (`internal/alertdelivery`) | `alert_deliveries` | ensure, send, mark sent or failed, on each tick | Telegram |
| **retention worker** (`internal/retention`) | `recording_segments`, objects | delete expired objects, then rows | object storage |
| **playback and live access** (`internal/playback`) | playback sessions | decide on access, build playlists | subscriptions, children, schedules |
| **authentication** (`internal/auth`) | `refresh_tokens`, Redis counters | login, refresh, logout, rate limits | every API call |
| **the rest** | rows of users, schools, classrooms, children, devices; caches | CRUD, lists, reports | database |

The dashboard runs in a browser tab. Its parts share the state of React
components, the query cache and `localStorage`:

| Part (in `src/admin-dashboard`) | State it keeps | Operations | Talks to |
|---|---|---|---|
| **session** (`lib/auth`, `lib/api.ts`) | access token in memory; refresh token and user in `localStorage`; requests in flight | load, refresh (timer, 401, mount), sign in, sign out, change password, retry a call, redirect | `/auth/*`, other tabs |
| **permissions and pages** (`lib/auth/permissions.ts`, `page-permissions.ts`, `app`, `components/*Page.tsx`) | role, route, open tab, side bar | follow a link, type an address, open a tab | router of the backend (its roles) |
| **API client** (`lib/admin/*-api.ts`) | none | one function per endpoint; some turn a 403 into an empty list | backend |
| **query cache** (`lib/admin/use-*.ts`) | entries by key: data, age, invalidated or not, fetch under way | fetch, poll, mutate, invalidate | API client |
| **lists** (`hooks`, `lib/list-controls.ts`, `components/common`) | filters, debounced filter, page, page size | set a filter, turn a page, reset | cache |
| **alerts page** (`components/alerts`) | table, drawer, operation started last | view, acknowledge, resolve | cache |
| **forms and dialogs** (`components/*`) | entity, typed values, question asked, saves under way | open, type, submit, confirm, close | mutations |
| **values** (`lib/*-form.ts`, normalizers, payloads) | none | record to form and back | forms, API client |

The processes share one PostgreSQL database and nothing else; every coupling
between them is a row that one writes and the other polls. Inside the stream
worker the coupling is shared memory (the job map under `jobsMu`, atomics in a
job) and the file system. API handlers run one goroutine per request, with no
lock; `LinkSuperApp` alone opens a transaction.

### Which behaviours are hard

* **Stream worker.** A stream has three goroutines that end at their own time,
  and is replaced while they still run. The deferred `removeJob` works by camera
  id, `stop()` by directory, the offline flag by job and the status by camera.
  Correct means: one FFmpeg per wanted camera, none for an unwanted one, and a
  status that follows the uploads.
* **Billing.** Capture and approval are sequences of single statements, each of
  which can be the last that runs, and two of which can interleave. Correct
  means: a payment is credited once, and what is paid for is given.
* **Parent link.** Guards run before the transaction, writes in it, and an admin
  revokes meanwhile. Correct means: one code, one parent, one Super App user.
* **Alerts, retention, tokens.** Check-then-insert without a unique index;
  send-then-mark; delete-object-then-row; read-then-revoke.
* **Session.** Several refreshes may run at once, each rotating the token it read
  before its `await`; sign-in, sign-out, another tab, a reload and an administrator
  who withdraws the tokens come in between. Correct means: what is kept is no spent
  token, a call retries once, the guards come to rest.
* **Permissions.** Kept three times: by role, by route, and in the backend's
  router. Correct means: no link to a denied page, no operation that is refused.
* **Cache, lists, drawer, forms.** What is shown is a copy, what is under way was
  started for something that is no longer on screen. Correct means: who changed
  something sees it, a page belongs to its filter, a status to its alert, and typed
  values to the entity they were typed for.

All hazards, with their lines and the properties that catch them, are listed in
`PROJECT.json`.

## Modules

| Module | Models | Kind |
|---|---|---|
| `StreamWorker` | coordinator, supervisors, watchers, stop goroutines, camera rows | specification |
| `MCStreamWorker` | configurations for TLC | instance |
| `StreamWorkerProofs` | three theorems | proofs |
| `FFmpegRunner` | how one FFmpeg is stopped by two callers at once | specification |
| `PaymentLedger` | what billing promises | abstract specification |
| `Billing` | captures, approvals, invoices, edits of subscriptions | specification, implements `PaymentLedger` |
| `MCBilling` | months of the requests | instance |
| `BillingProofs` | eight theorems, the refinement among them | proofs |
| `LinkRegistry` | what invitation codes promise | abstract specification |
| `ParentLink` | `LinkSuperApp`, generation and revocation of codes | specification, implements `LinkRegistry` |
| `MCParentLink` | parents and schools of the codes | instance |
| `ParentLinkProofs` | five theorems, the refinement among them | proofs |
| `Alerts` | rows of `alerts`, health monitor, administrator | specification, a component |
| `AlertDelivery` | rows of `alert_deliveries` and the alert worker, composed with `Alerts` | specification |
| `AlertDeliveryProofs` | six theorems | proofs |
| `DashboardSession` | `AuthProvider`, `apiFetch`, guards, `localStorage` | specification |
| `DashboardApi` | calls of `lib/admin/*-api.ts`, roles of the backend's router | tables |
| `DashboardAccess` | permissions, menu, pages with their queries, offers and links | specification, uses `DashboardApi` |
| `DashboardData` | queries and mutations, an entry of the cache | specification, uses `DashboardApi` |
| `DashboardLists` | every list with filters and pages | specification |
| `DashboardAlerts` | the alerts page | specification |
| `DashboardForms` | every form and dialog, without its values | specification |
| `DashboardValues` | conversions between records and forms | specification |
| `MCDashboard` | the seven specifications, one moving at a time | instance |
| `DashboardSessionProofs`, `DashboardDataProofs` | three theorems each | proofs |
| `DashboardValuesProofs` | one theorem | proofs |
| `DashboardProofs` | twelve theorems: pages, drawer, forms, lists, and the parts together | proofs |

### StreamWorker

`jobs` is `Coordinator.jobs`; `job` holds the `CameraStream` objects, whose
names are reused once nothing of them acts any more, so a small set of names
stands for an unbounded number of streams. `coord` is the coordinator goroutine
with its locals: the snapshot of the poll (`listed`), the cameras still to start
(`todo`), the copied jobs of the offline check (`check`, `target`). `camera` is
the row joined with the desired state; `DISABLED` stands for `ERROR` too and
`running` for the conjunction of desired state, active school and classroom.
`Served` are the configurations `STREAM_WORKER_MODE` lets through
(`filterCamerasForMode`); the runs serve all (`mixed`), the proofs any.
`scratch` says which directories exist.

One action per step between two points where another goroutine can come in:

* poll: `ListCameras` or `ListCamerasFails`, `SweepJobs` (one critical section),
  `StartCameraStream` or `SkipCamera` for each camera, `SnapshotJobs`,
  `ReadLastUpload`, `MarkOffline`, `MarkOfflineWrite`, `EndPoll`;
* supervisor (`run`): `LoopCancelled`, `MaxRestartsReached`, `RunFFmpeg`,
  `FFmpegExits`, `FFmpegKilled`, `BackoffEnds`, `RemoveJob`;
* watcher: `OnSegmentSuccess`, `OnlineWrite`, `WatchStops`;
* stop goroutine: `StopCancel`, `StopRemovesDir`;
* environment: `PatchCamera`, `ScheduleCamera`, `UploadGrowsStale`,
  `UploadsLeftOver`, `Crash`.

A watcher uploads what the FFmpeg of its directory produces (`Produced`), its own or
that of another job with the same directory; at first it may also find segments that
an earlier run left there (`UploadsLeftOver`). The second happens when it happens,
and no fairness asks for it.

The age of the last upload is one of never, fresh, stale; the 15 seconds of
`stop()` may always have passed. A write of the status may be lost, as its error
is dropped. `FFmpegKilled` and `StopCancel` may leave the supervisor or the stop
goroutine blocked for ever; `FFmpegRunner` shows why.

### FFmpegRunner

One command, and the four places that call `Cmd.Wait` on it: Run's goroutine,
Run's own `Stop`, the `Stop` with which `run` ends, and the `Stop` of
`CameraStream.stop`. `os/exec` is external and modelled from its behaviour in
Go 1.25 (`go.mod`): concurrent calls of `Wait` race on `ProcessState`, one of
them reaps the process, and all of them receive from a channel on which one
value is sent.

### Billing and PaymentLedger

One parent at one school. `subs` is the sequence of subscription rows in the
order of `created_at`; `request`, `completed`, `recorded`, `payment` and
`invoice` are the other tables; `task` is a request being served, with what it
has read. Each database call is an action; `HandlerStops` ends a handler between
any two (cancelled context, failed call, crash), `ErrorDropped` is a failure the
code ignores. Time is counted in months. `credits` and `overlap` are history
variables: how often an extension was written for an item, and whether one was
read while another was pending. The unique index on live rows is `OneLiveRow`.

`PaymentLedger` states the promise without handlers: an item stands as new, open,
refused, settled or granted and moves by one step at a time; a row changes only by
the grant of a settled item, once, or by an administrator; and while nobody edits
and no extension overtakes another (`undisturbed`), a grant adds the months bought
to what is left of the row as it is, neither less nor more. The mapping takes an
item with an extension written for it as granted (`Standing`); what the abstract
specification does in one step, the code does in a read and a later write.

### ParentLink and LinkRegistry

`code`, `link` and `sub` are committed rows. A redemption's `pc` says how far its
READ COMMITTED transaction has come, and with it which rows it has written and
holds locked: an INSERT waits for a transaction with an equal key, an UPDATE for
the one that changed the row (`WaitsFor`). `Commit` makes the writes visible; a
rollback is `Finish`. The INSERT enters two unique indexes, the parent's and then
the one of user and school (migration 000015, lines 22-28), and the model merges the
two: in PostgreSQL one that waits at the second index already has its entry in the
first. Who waits for that entry is at its own first index and has written nothing, so
waits lead from the first index to the second to the code's row and never back. `LinkRegistry` states the promise: a code goes from new to
open to closed, and redeeming it is one step that closes the code, records who
did it and binds the parent for good. The refinement maps `used` and `revoked`
to `closed`.

### Alerts and AlertDelivery

`Alerts` is one half of a composition: its actions leave the delivery side to
`AlertDelivery`, which extends it, adds the worker and has the specification.
A *condition* is what an alert is about: an alert type of a camera, of a school,
or global. `alerts` is the sequence of rows by `opened_at`; `health` is what a
check would conclude, the environment's to change, with `unclear` for the cases
in which the code neither opens nor resolves (not listed, below the threshold,
outside recording hours, a read that failed). The monitor's tick lists the
cameras first, so a condition in `FromList` is judged by the snapshot `mon.seen`
and the others by `health` when their turn comes. Looking for an open alert
(`MonitorFindsNone`, `MonitorFindsOpen`) and writing (`MonitorCreates`,
`MonitorResolves`) are two statements, between which `AdminAcknowledges` and
`AdminResolves` can come; `MonitorLosesWrite` and `MonitorCrash` drop the second.

`AlertDelivery` has the tick of the worker: `StartTick`, `StartOpen` and
`StartResolved` read the three lists, each with its ORDER BY and LIMIT;
`TakeRow`, `SkipMuted` and `EnsureDelivery` take the next item; `Claim` counts an
attempt, `SendSucceeds` or `SendFails` is Telegram's answer, `MarkSent` and
`MarkFailed` record it. `StatementFails`, `ListFails`, `EnsureFails` and
`WorkerCrash` are what can go wrong at each point. `told` counts the messages
shown, without those that nothing recorded: a crash between send and mark does
send a message twice, and no code could prevent it.

Assumed: Telegram is enabled (otherwise the tick does nothing), and there is one
health worker and one alert worker, as in `docker-compose.example.yml`. Two
alert workers would both send; two monitors would both insert.

### DashboardSession

`tab` is the state of `AuthProvider` with the module's access token, `stored`
the two entries of `localStorage`, `refreshing` what each caller of
`refreshSession` waits for (mount, timer, and either kind of call), `call` the
calls of `apiFetch`. A token pair is a number. Between two awaits the code is
one action: `SendRefresh` up to `refreshRequest`, `RefreshAccepted` up to
`getMe`, `ProfileAnswers` to `applySession`; `RefreshFails` and `RefreshThrows`
are the handlers of the errors, which differ by caller. `CallStarts`,
`CallRefused`, `CallResumes` and `CallEnds` are `apiFetch` with its one retry;
`Login...`, `Logout...` and `PasswordChanged` what their pages do; `RequireAuth`
and `GuestOnly` the redirecting effects. `Reload` loses everything but `stored`.

One other tab shares `stored`: it refreshes as this one does, with a refresh in
flight (`OtherTabRefreshes`, then the same `RefreshMoves`), may be closed meanwhile
(`OtherTabCloses`), and signs in and out (`OtherTabSigns`). It has one refresh under
way at a time.

The backend (`server`) is external. It accepts a token once, or several times when
requests with it overlap: `internal/auth/service.go` reads the token and the user
first and revokes later, so `Accepts` looks at what was true when the request was
sent. `unspent` are the tokens no refresh has replaced and no sign-out has revoked.
An administrator may disable the user, reset the password or require a new one
(`AccountChanges`), and reinstate him (`UserReinstated`); to disable and to reset
also revokes every refresh token there is (`users.go:405-407`, `517`), in a second
statement whose error is dropped. `withdrawn` is the last token so revoked, or too
old; a refresh in flight meanwhile may still bring a new pair. A call may be refused
at any time, as access tokens expire. Reloads, the other tab's refreshes and sign-ins
and changes of the account are events from outside, bounded by `MaxOutside`.

### DashboardApi and DashboardAccess

`DashboardApi` has a table for each API file (`Together` joins them): what each call reads or writes,
whether a 403 becomes an empty list, and which roles the backend's router accepts.
`DashboardAccess` translates the permission tables, the routes' permissions and
the menu, and for each page the queries it makes, the operations it offers and
the links it shows, all depending on the role through `hasPermission` and the
components `Can` and `RequirePermission`. A call reads every table its answer is made
of, the joined ones and those of a second request included (the schools in the lists
of billing, the schools and children of a parent's page), and writes every table its
handler does (a created user may be a school's administrator). Left out is the row in
the audit log that each change adds, as the query of it is polled; the limits of what
a caller sees by his own schools are not data. The state machine is a user: he follows
links (`FollowLink`), types addresses (`TypeAddress`), opens tabs (`OpenTab`), and
a refresh may bring another role (`RoleChanges`).

### DashboardData

The tables are the queries (key, calls, polled or not) and mutations (calls, and
the keys invalidated, one `await` after another) of the hooks. The state is one
entry of the cache next to one mutation, for every pair of the two that concerns
the same data, and the number of writes made so far stands for the data. TanStack
Query is external, as far as the hooks rely on it: a first fetch under way is
joined by an invalidation and not repeated, later ones are cancelled and
started anew. `drops` names what a hook reads and does not show. Requests can be lost on the way there and on the way back.

### DashboardLists, DashboardAlerts, DashboardForms, DashboardValues

`DashboardLists` has one list and one of its filters; a render and the effects
after it are steps of their own (`effectDue`), because what is drawn in between
is on screen. The audit log has three ways to page: the backend cuts; or, for a
search, the page filters up to 500 rows and cuts for itself; or, for a user id that is
no UUID and for a search beside one that is, the backend cuts and the page filters what
it was given (`FilterCut`; `kept` are the rows that pass). `DashboardAlerts` has the table, the drawer with its copy of an
alert, and acknowledge and resolve from either, several under way.
`DashboardForms` describes each form and dialog by a record (what it keeps when
it closes, what clears it, whether it asks first, what a success does, whether it
can be shown for another row while open) and has one state machine for all;
values are told apart only by the entity they were typed for. `DashboardValues`
has the conversions which are not one to one: a record is edited again and again
and saved. A status may be BLOCKED, as the tables allow, and every form shows two
states (`formStatus`). A revenue share is a function of the days from today to
`Horizon`, since a share may be planned: a save ends every share still open or planned
at `active_from` and begins the new one (`setSchoolRevenueShare`; the handler's two
statements are taken as one; they have no transaction and the first one's error is
dropped, `billing.go:795`, so one of them alone leaves a school with no share or two), and `DayPasses` brings tomorrow. What is typed is a constant; the run takes names of one and two words,
with one space between them and with two, an address of one line, and percentages
at and over the bounds.

## Runs

| Run | Module, cfg | Bounds | Result |
|---|---|---|---|
| `stream_safety` | MCStreamWorker, StreamSafety | 1 camera, 2 configurations of one quality, 2 jobs, restart limit 1, one edit, exit and fault | passes, 2.0 million states |
| `stream_live` | MCStreamWorker, StreamLive | the same with one configuration and no fault, fairness, no symmetry | passes, 386 thousand states |
| `stream_orphan` | MCStreamWorker, StreamOrphan | two edits, no exit | `StoppedMeansStopped` is violated |
| `stream_recovery` | MCStreamWorker, StreamRecovery | no edit, one exit | `RecoveredIsActive` is violated |
| `ffmpeg_stop` | FFmpegRunner, FFmpegStop | finite without bounds | `RunEndsWhenCancelled` is violated |
| `billing_safety` | MCBilling, BillingSafety | 1 request of 2 months, 1 payment, 1 invoice, 3 handlers, 2 rows, one fault, edit and month | passes, 398 thousand states |
| `billing_capture` | MCBilling, BillingCapture | 2 requests, 2 handlers, no fault and no edit | `CapturedIsCovered` is violated |
| `parent_link` | MCParentLink, ParentLink | 3 codes of 2 parents, 1 school, 2 users, 2 redemptions, 2 admins, one change and one fault | passes, 742 thousand states |
| `link_trial` | MCParentLink, LinkTrial | 1 code, 1 redemption, no change and no fault | `TrialIsCreated` is violated |
| `alerts` | AlertDelivery, AlertDelivery | 1 condition, 3 alerts, 2 changes of health, 1 request of the administrator, 1 fault, 2 attempts, LIMIT 1 | passes, 168 thousand states |
| `alert_starved` | AlertDelivery, AlertStarved | 2 alerts, 1 attempt, LIMIT 1, no fault, no administrator | `ResolveIsTold` is violated |
| `dashboard` | MCDashboard, Dashboard | 3 token pairs, 1 event from outside, 1 call at a time, 2 submissions, 3 rows in pages of 1 or 2, 2 alerts with 2 operations under way, shares over 3 days | passes, 242 thousand states |

Why the bounds are enough to be interesting: two jobs are a stream and its
replacement, two or three handlers a race, two codes of one parent and a third of another
cover each of the two unique keys, and one fault placed anywhere interrupts any
sequence. The billing bounds let a capture race its own retry and an approval
with an edit in between, and every step of it is compared with the ledger's; two
requests that are captured at once meet in `billing_capture` and, in any number,
in the proofs. `CompletedIsCredited` is proved and no run lists it:
`ImplementsLedger` implies it, as the ledger shows only what was granted. Cameras interact only through the coordinator's loop, so one camera
suffices for the races of its streams. Symmetry is used in the safety runs only.
One condition suffices for the alerts, as conditions only meet
in the lists of the alert worker, and there two alerts of one condition meet as
well (one resolved, one open, or two open when an administrator re-opens one).
LIMIT 1 stands for 50: what matters is whether a list can be full.
The billing and link runs do not check deadlock: a system without requests left
stops there.

The dashboard's parts share no variable but through the backend, so `dashboard`
lets one of them move and the others rest (`part`), which checks each for itself
without the product of their states. Three token pairs are the one there was at
first, and two rotated by concurrent refreshes; three callers of `refreshSession`
(mount, timer, a call) can be waiting at once, with that of another tab. One event from
outside is a reload, another tab's refresh, sign-in or sign-out, or a change of the
account, wherever it falls; `QuietTokensUnspent` is proved for any number. Three days
are today, the day a planned share begins and one after it. Pages, roles, lists, forms, and pairs of query and mutation are all there
are in the code, not a selection. Three rows in pages of one or two have a first,
a middle, a last and a half-filled page. Two alerts and two operations are the
least in which one can be mistaken for the other. Deadlock is not checked: a tab
without token pairs left may stop.

What its properties say, and what they leave out by name:

* `QuietTokenUnspent`: with no refresh under way, the stored refresh token is
  unspent, so the backend refuses it only if an administrator withdrew it, its
  lifetime is over or the user is not active; unless a reload or a closed tab dropped
  a refresh (`outside.lost`), which then costs the user a new sign-in. `RetriedAtMostOnce`, `CallsEnd`: a call
  refreshes once and does not wait for ever. `GuardsSettle`: the redirects rest.
* `NoLinkDenied`, `NoRefusedOffer`: what the dashboard shows and offers to a role
  is what its own routes and the backend's router grant. `NoRefusedRead`: a
  query that is refused becomes an empty list, but for two that a technician's
  pages make and that fail (storage figures under `/system`, classrooms of a
  camera); the exception is in the property, so a third one would be found.
* `OwnWriteSeen`: once a mutation has settled, no query of the data shows what was
  before, without being fetched or marked. `LeftToAge` lists the pairs for which
  the code forgets the invalidation: the schools of the camera pages and of the
  billing lists after a school is edited, the list of school administrators after a
  user is created or changed, a parent's page after a child or school is renamed, ...
  `PolledCatchesUp`.
* `PageTurnedHere`, `RangeTruthful`: a page number does not outlive its filter, and
  the range above a list is what is in it, also in the render before the effect. Two
  things are left out by name. The audit log, which does not clamp, may show an empty
  page without a pager. And where it filters what the backend has cut (`FilterCut`),
  its range counts on from the offset by the rows shown, beside the backend's total,
  whichever rows those are; an emptied page hides the pager though later pages match.
* `DrawerTruthful`: the drawer shows a status its alert has had.
* `SavedForWhomTyped`: values are saved for whom they were typed. The two ways
  around it are named in it (`left`): a card, or the parents' dialog, which is
  shown for the next row with the values of the last, and a question left open
  behind a closed drawer.
* `UneditedSaveKeeps`: a form saved as it was opened changes nothing, but for the
  records named in `changedByItsForm` (a BLOCKED child, classroom or school and an
  OFFLINE or ERROR camera become ACTIVE, a name with two spaces after its first word loses one, a school
  whose block has no time zone gets one, one with a block but no street repeats it, a
  school without a share gets one, a planned change of a share is taken back), and
  even there only the first two saves do.

### What the violated properties show

1. `StoppedMeansStopped` (README.md:1154). A configuration change replaces a
   job; the old supervisor ends late, and `removeJob(camera id)` removes the
   *new* job from the map. It streams on, a further job is started beside it,
   and nothing stops it when the camera is stopped.
2. `RecoveredIsActive` (README.md:787). After the restart limit the row is
   OFFLINE; the next poll starts a fresh job, which was never marked and so never
   writes ACTIVE, however much it uploads. The same holds for a restarted worker.
3. `RunEndsWhenCancelled` (ffmpeg.go:48). `Run` waits for its own call of
   `Cmd.Wait` and for that of its `Stop`. Only one of the concurrent calls can
   receive the context's result: the other blocks, and `Run` with it.
4. `CapturedIsCovered` (handler.go:117). Two captures compute an absolute end
   from the same row, and one extension is lost: of two UPDATEs the second overwrites
   the first, and of two INSERTs, as in the run's trace, the unique index refuses the
   second, whose error ends the request after it was marked paid. A handler stopped
   after `MarkPaymentRequestPaid` has the same effect with one capture.
5. `TrialIsCreated` (link.go:166). A lapsed row that is still ACTIVE or TRIAL is
   inactive for the check and live for the unique index: the INSERT is refused
   and the redemption fails.

6. `ResolveIsTold` (README.md:1080). `ListResolvedAlertsNeedingDelivery` returns
   an alert until a RESOLVED row is SENT, also when that row is out of attempts.
   Such alerts are the oldest, so they come first, and a list full of them (50 in
   the code) hides every later one. `DueIsTried` says what holds: a due message
   is sent or given up while fewer alerts than the limit block the list. An
   OPENED list recovers when its alerts are resolved; the RESOLVED list never does.

`CoveredUnlessDisturbed` and `NeverShortened` say what remains true beside the
fourth: without faults and edits, extensions that do not overlap are never lost.

### Fairness

`FairSpec` of StreamWorker: weak fairness of the coordinator and of each
supervisor, watcher and stop goroutine, because the Go scheduler runs what can
run, timers fire, and an FFmpeg that is not stopped goes on producing segments.
Strong fairness of `ListCameras` and of `StartCameraStream` for each camera: the
coordinator asks at every poll, and the assumption is that the database does not
fail, and the source does not stay unresolved, at all of them. FFmpeg exits,
edits, crashes and late uploads are never obliged. `FFmpegRunner` has weak
fairness of its goroutines and of the watcher in `os/exec`. AlertDelivery has
weak fairness of the monitor's steps and of the worker's: both loops have tickers
and no exit but shutdown, after which the restart policy starts them again.
Telegram need not ever accept a message, health need not ever settle, and the
faults are bounded: without that nothing could be promised. Billing and
ParentLink have no liveness properties: a client owes nobody a request.
The session has weak fairness of what runs by itself: `LoadSession` and the
guards are effects of a mounted component, and each request of a refresh, a call, a
sign-in or sign-out is answered or fails, as `fetch` does. Nobody has to click,
and the timer need not fire. For the cache (`DataFairness`), intervals elapse, and
of the requests sent again and again some reach the backend and some answers come
back (strong fairness): the backend may fail often, but not always.

## Proofs

TLAPS proves, for every value of the constants that satisfies the named
assumption of the module:

| Theorem | Statement |
|---|---|
| `TypeCorrect`, `TrackedJobsLive`, `SteadySingle` | `Spec => []TypeOK`, `[]TrackedIsLive`, `[]SteadySingleStream` (StreamWorker) |
| `BillingTypeCorrect`, `CreditedAtMostOnce`, `CompletedAreCredited`, `SettledStaysSettled`, `NothingShortened`, `NothingOvercredited`, `PaidIsCovered`, `BillingImplementsLedger` | `Spec => []TypeOK`, `[]CreditedOnce`, `[]CompletedIsCredited`, `SettledIsFinal`, `NeverShortened`, `[]NeverOvercredited`, `[]CoveredUnlessDisturbed`, `ImplementsLedger` (Billing) |
| `TypeCorrect`, `OneOpen`, `OpenedFirst`, `ToldOnce`, `AttemptsStayBounded`, `SentStaysSent` | `Spec => []TypeOK`, `[]OneOpenAlert`, `[]ResolvedAfterOpened`, `[]OncePerTarget`, `[]AttemptsBounded`, `SentIsFinal` (AlertDelivery) |
| `LinkTypeCorrect`, `RedemptionsCannotDeadlock`, `LinkStemsFromOneCode`, `LinkedAreAdmitted`, `LinkImplementsRegistry` | `Spec => []TypeOK`, `[]WaitersHoldNothing`, `[]LinkedByOneCode`, `[]LinkedHasAccess`, `ImplementsRegistry` (ParentLink) |
| `SessionTypeCorrect`, `QuietTokensUnspent`, `RetriedOnce` | `SessionSpec => []SessionTypeOK`, `[]QuietTokenUnspent`, `[]RetriedAtMostOnce` (DashboardSession) |
| `ListTypeCorrect`, `PagesTurnedHere`, `RangesTruthful` | `ListSpec => []ListTypeOK`, `[]PageTurnedHere`, `[]RangeTruthful` (DashboardLists) |
| `DrawerIsTruthful` | `AlertsSpec => []DrawerTruthful` (DashboardAlerts) |
| `SavedWhereTyped` | `FormsSpec => []SavedForWhomTyped` (DashboardForms) |
| `EveryReaderInvalidated`, `DataTypeCorrect`, `OwnWriteIsSeen` | every mutation touches every query that reads what it writes; `DataSpec => []DataTypeOK`, `[]OwnWriteSeen` (DashboardData) |
| `AccessTypeCorrect`, `LinksLeadOn`, `OffersAccepted`, `ReadsAnswered` | `AccessSpec => []AccessTypeOK`, `[]NoLinkDenied`, `[]NoRefusedOffer`, `[]NoRefusedRead` (DashboardAccess) |
| `PartsImplemented`, `DashboardTypeCorrect`, `DashboardSafe` | `Spec` of MCDashboard implies `AccessSpec`, `DataSpec`, `ListSpec`, `AlertsSpec`, `FormsSpec`, `ValuesSpec`, and `[]` of its `TypeOK` and of every invariant of its run |
| `UneditedSavesKeep` | `ValuesSpec => []UneditedSaveKeeps` (DashboardValues) |

* **TrackedIsLive** is inductive beside `TypeOK`: a job is told to stop only
  after the sweep has taken it out of the map, is cancelled only by its stop
  goroutine, and removes its own entry when it finishes. So a job in the map that is
  on its way out (`exiting`) came there by the restart limit and not by a
  cancellation; that one may be skipped by one poll, until its deferred `removeJob`,
  and `SteadyStreams` says that the camera streams again.
* **SteadySingleStream** needs `SteadyInv`: while no camera was edited, every row
  keeps its configuration and stays listed, the poll's snapshot agrees with the
  rows, so the sweep stops nobody, and every supervised job is the one in the
  map. That is why the restart limit cannot lead to a second FFmpeg.
* **CreditedOnce** needs `CreditInv`, a token argument: settling an item (the
  conditional UPDATE) mints a token that only the handler that won it carries,
  and writing the extension spends it. Tokens and credits of an item never
  exceed one, and are zero before it is settled. `CompletedIsCredited` follows
  since `record` and `complete` come after the token is spent.
* **LinkedByOneCode** and the refinement need `TxInv`: a transaction that holds a
  link row found its keys free and no other transaction holds an equal key
  (`LinkRowsFresh`, `KeysApart`); one that holds a code row holds an active code
  that nobody else can change (`CodeRowsActive`); and the committed tables agree
  (`UnspentUnused`, `StoredOnce`). So the commit is a `Redeem` step of the
  registry, generation and revocation are `Issue` and `Close` steps, and
  everything else stutters.
* **WaitersHoldNothing**: a waiting INSERT holds no link row yet. A waiting UPDATE
  would hold its link row, but two redemptions of one code have the same parent,
  so the second is still at its INSERT.
* **AlertDelivery.** `IInv` joins what the two sides need. Of the alerts:
  `MonitorKnows`, that from finding no open alert to the insert none appears
  except by an administrator's re-opening, which makes `OneOpenAlert` inductive
  without an index. Of the deliveries: `MessagesCounted` ties `told`, the status
  of a row and the step of the worker together (told once exactly when it is SENT
  or about to be marked), `OneRowPerTarget` stands for the unique index,
  `ListedAfterOpened` says that what is queued in the phase of the resolved has a
  sent OPENED row, and stays true as SENT is final; `ResolvedHasOpened` follows.

* **SettledIsFinal** needs only types, one lemma per kind of step: every statement
  that changes a status names the status it replaces. **NeverShortened** needs
  `PendingInv`: while no admin edited and no read met a pending write, at most one
  handler is about to write, and the end it carries is not before that of the row
  it was computed from.
* **LinkedHasAccess** needs `AccessInv` beside `TxInv`: a transaction that has
  passed the check of the subscription found one running at its school, or will
  create it before it can commit, and nothing but billing takes it away.
* **QuietTokenUnspent** needs `TokenInv`. No token is known that was not issued
  (`TokensIssued`). A pair issued to a refresh that still asks for the profile is
  that refresh's alone (`NewPairsUnshared`), so no other revokes it. A token the
  user signed out with is not stored again (`StoredNotSignedOut`). And if the
  stored token is spent, some refresh, of this tab or the other, holds the answer that
  will replace or clear it (`StoredIsReplaced`): once none is under way it is unspent.
  What an administrator withdraws is not spent by it, so no such event disturbs this.
  `RetriedAtMostOnce` needs `CallsCounted`: a refresh of a call is under way only
  while that call waits, and it was sent once before.
* **The lists.** `PageInv` says that a page other than the first was turned under
  the filter the effects last saw. `RangeTruthful` rests on lemmas about division:
  how many pages there are, that the clamped page has a row, and that the range of
  a page is the one of its rows, for any page size.
* **The drawer and the forms.** A status in the table, and one written but not yet
  reported, is one the alert has had; the drawer only takes from these. Of a form
  it is shown, by cases on the table of forms, that one which can switch rows asks
  nothing, and one that keeps values at success is of a single entity; then values
  and question are of the entity shown or of one the user left.

* **NeverOvercredited** compares a fold over all items with what one handler adds.
  The prover has no induction over a fold, but it needs none: the fold is a
  recursive function on subsets, and two lemmas, that the sum of a subset is a
  number and that changing one item changes the sum by that item, are shown by a
  least counterexample, which the order of the cardinalities provides. That is why
  the assumption asks for finitely many requests and payments; a database has no
  more. The invariant is `WithinCredits`: what a
  handler is about to write exceeds what was granted at its read by its own months
  at most, and those enter the sum with the write itself.
* **CoveredUnlessDisturbed** needs `CoverInv`: whoever read a subscription names a
  row that exists, and while nothing disturbed the billing (`Calm`: no fault, no
  edit, no read that met a pending write) a parent has one row, its end covers the
  months paid, and so does the end a handler is about to write together with those
  still owed.
* **ImplementsLedger** needs `CreditInv` and `ExactInv`. By the first, the item of a
  pending write is settled and not granted, so the write is a `Grant`, and what is
  recorded or completed was granted. By the second, the end about to be written is
  that of the row, as it is now, with the months added: true at the read, kept by
  every step that leaves the rows, and by `PendingInv` nobody else is about to write
  them. A read that meets a pending write is the ledger's `Overlap`.
* **OwnWriteSeen** has two halves. One is about the tables: each mutation, with the
  keys it invalidates, reaches every query that reads what it writes
  (`EveryReaderInvalidated`, mutation by mutation; `Together` joins the tables of
  the API files, and keeps each as no name occurs twice). The other is `DataInv`:
  once the mutation has passed a step that invalidates the query, the entry has the
  last write, or is marked, or its first fetch is under way and will be followed by
  another; and so for the answer the backend is about to give (`CatchingUp`).
* **The pages.** `Fits(r, p, shown)` says of what a page shows to a role that its
  links lead to pages the role may open, its operations and its queries are
  accepted by the router. It holds of a part that is shown (`FitsShows`), of parts
  side by side (`FitsAll`) and of a part under a condition (`FitsIf`); so it is
  proved component by component, each under the permission that guards it, and
  then for every page open to a role, the sidebar, and the page of denied access.
  `NoLinkDenied` is then inductive: only `FollowLink` needs `Fits`.
* **UneditedSaveKeeps** is about conversions of sequences, and the conversions are
  written without recursion: a position is the least or the greatest of a set of
  positions, which exists by well-founded induction (`LeastPosition`, `MinIs`,
  `MaxIs`). From there: what `trim` returns (`TrimIs`, `TrimTrims`); a name of one
  or two words comes back as it was, and any other does after one save
  (`OneWordKept`, `TwoWordsKept`, `NameSettles`); a block written by
  `encodeSchoolAddress` is read back field by field, whatever follows it, another
  block included (`DecodeBlock`). `ValuesInv` is the shape a record keeps under any
  edits: a trimmed name, an address that is a street with at most two blocks before
  it, shares within the whole on every day. A record of that shape is changed only by what the form
  cannot show, and is at rest after two saves (`Settled`).
* **All parts.** A step of MCDashboard is a step of one part and a stutter of the
  others, and its initial states are initial states of each. The session starts at
  rest, in any resting state that satisfies `SessionInv`; so its invariant carries
  over too.

Model-checked only: the liveness properties (`SweptJobStops`, `SteadyStreams`,
`RecoveredIsResolved`, `DueIsTried`, `CallsEnd`, `GuardsSettle`,
`PolledCatchesUp`), outside the prover's reach; and the properties of runs that expect a
violation.

## Not modelled

Of the dashboard: the normalizers and summaries of camera monitoring, alerts,
system, billing and audit logs, health scores, storage costs and formats, which
turn an answer into what is drawn and keep no state; validation messages; UI
primitives and styles. A check of them would restate field by field what the code
says.

Of the backend: segments, `recording_segments` and the retention worker; playback
and live access; the computation of the school schedule; the server's side of
refresh tokens and the rate limits; graceful shutdown and the temp cleaner of the
stream worker; generated queries, configuration, storage and Telegram clients
(pure I/O), audit logging, push (it only logs), CRUD handlers of one statement.
`src/gateway-agent` is a placeholder without code.

Left for whoever continues: the cache and the session together (data of one user
shown to the next in the same tab), and the uploader with the retention worker
(a row exists only for a stored object until its expiry).

## Running it

    tlc -workers 2 -config StreamSafety.cfg MCStreamWorker
    tlc -workers 2 -config Dashboard.cfg MCDashboard
    tlapm StreamWorkerProofs.tla

with the community modules and the TLAPS library on the search path.
