---------------------------- MODULE StreamWorker ----------------------------
(***************************************************************************)
(* The stream worker (src/backend/apps/stream-worker/worker): one          *)
(* coordinator goroutine polls the database and keeps a map from camera to *)
(* the CameraStream that serves it; every CameraStream runs an FFmpeg      *)
(* supervisor goroutine (run), an upload watcher (Uploader.Watch) and,     *)
(* once it is told to stop, a stop goroutine.  They share the job map, the *)
(* scratch directory of a camera and quality, and the camera's row.        *)
(***************************************************************************)
EXTENDS Naturals, FiniteSets

CONSTANTS Cameras,      \* camera ids
          Qualities,    \* HLS profiles; one scratch directory for each
          Configs,      \* values of ConfigKey(): a quality and a revision
          Served,       \* those STREAM_WORKER_MODE lets through (RTSP or not)
          Jobs,         \* CameraStream objects (reused once they are dead)
          NoJob, Unlisted,
          MaxRestarts,  \* STREAM_WORKER_MAX_RESTARTS
          MaxChanges,   \* bound: edits by admins and the scheduler
          MaxExits,     \* bound: unprovoked FFmpeg exits
          MaxFaults     \* bound: process crashes and failed status writes

ASSUME StreamAssumption ==
    /\ Cameras # {} /\ Jobs # {}
    /\ Served # {} /\ Served \subseteq Configs
    /\ Configs \subseteq [quality : Qualities, rev : Nat]
    /\ NoJob \notin Jobs /\ Unlisted \notin Configs
    /\ MaxRestarts \in Nat /\ MaxChanges \in Nat
    /\ MaxExits \in Nat /\ MaxFaults \in Nat

VARIABLES camera,   \* rows of cameras joined with camera_stream_states
          job,      \* the CameraStream objects
          jobs,     \* Coordinator.jobs
          coord,    \* where the coordinator goroutine is, and its locals
          scratch,  \* qualities whose scratch directory exists, by camera
          budget    \* how much of the bounds has been used

vars == <<camera, job, jobs, coord, scratch, budget>>

\* DISABLED stands for ERROR too: neither is listed.
Statuses == {"ACTIVE", "OFFLINE", "DISABLED"}

\* running: desired_state is RUNNING, the school and the classroom are ACTIVE.
CameraRow == [status : Statuses, running : BOOLEAN, config : Configs]

JobRecord ==
    {r \in [camera : Cameras, config : Configs,
            pc        : {"free", "loop", "ffmpeg", "backoff", "exiting", "done"},
            cancelled : BOOLEAN,                     \* its context is cancelled
            watching  : BOOLEAN,                     \* Uploader.Watch still runs
            online    : BOOLEAN,                     \* about to write ACTIVE
            restarts  : 0..MaxRestarts,
            marked    : BOOLEAN,                     \* markedOffline
            last      : {"never", "fresh", "stale"}, \* age of lastUploadAt
            stop      : {"no", "asked", "waiting", "stopped"}] :
       r.pc = "ffmpeg" => r.restarts < MaxRestarts}

CoordRecord ==
    [pc     : {"idle", "sweep", "start", "check", "mark", "write"},
     listed : [Cameras -> Configs \cup {Unlisted}],
     todo   : SUBSET Cameras,
     check  : SUBSET Jobs,
     target : Jobs \cup {NoJob}]

BudgetRecord ==
    [changes : 0..MaxChanges, exits : 0..MaxExits, faults : 0..MaxFaults]

TypeOK ==
    /\ camera \in [Cameras -> CameraRow]
    /\ job \in [Jobs -> JobRecord]
    /\ jobs \in [Cameras -> Jobs \cup {NoJob}]
    /\ coord \in CoordRecord
    /\ coord.pc = "start" => \A c \in coord.todo : coord.listed[c] # Unlisted
    /\ coord.pc \in {"mark", "write"} => coord.target # NoJob
    /\ scratch \in [Cameras -> SUBSET Qualities]
    /\ budget \in BudgetRecord

NewStream(c, k) ==
    [camera |-> c, config |-> k, pc |-> "loop", cancelled |-> FALSE,
     watching |-> TRUE, online |-> FALSE, restarts |-> 0, marked |-> FALSE,
     last |-> "never", stop |-> "no"]

Vacant == [NewStream(CHOOSE c \in Cameras : TRUE, CHOOSE k \in Configs : TRUE)
             EXCEPT !.pc = "free", !.watching = FALSE]

Idle == [pc |-> "idle", listed |-> [c \in Cameras |-> Unlisted],
         todo |-> {}, check |-> {}, target |-> NoJob]

Init ==
    /\ \E k \in Served :
         camera = [c \in Cameras |->
                     [status |-> "ACTIVE", running |-> TRUE, config |-> k]]
    /\ job = [j \in Jobs |-> Vacant]
    /\ jobs = [c \in Cameras |-> NoJob]
    /\ coord = Idle
    /\ scratch = [c \in Cameras |-> {}]
    /\ budget = [changes |-> 0, exits |-> 0, faults |-> 0]

-----------------------------------------------------------------------------
(* Abbreviations. *)

Quality(j) == job[j].config.quality

\* ListActiveCamerasForStreaming (RUNNING, and ACTIVE or OFFLINE), filtered by
\* the worker's mode, which tells cameras with an RTSP URL from those without.
Listed(c) ==
    /\ camera[c].running /\ camera[c].status # "DISABLED"
    /\ camera[c].config \in Served

\* No goroutine of j acts any more (it has returned, or is blocked for ever in
\* cmd.Wait) and nobody refers to it: its name can be reused.
Dead(j) ==
    /\ job[j].pc \in {"free", "done"} /\ ~job[j].watching /\ ~job[j].online
    /\ job[j].stop \in {"no", "stopped"}
    /\ j \notin coord.check /\ j # coord.target

\* setCameraStatus ignores the error of its UPDATE: the write may be lost.
SetCameraStatus(c, s) ==
    \/ camera' = [camera EXCEPT ![c].status = s] /\ UNCHANGED budget
    \/ /\ budget.faults < MaxFaults
       /\ budget' = [budget EXCEPT !.faults = @ + 1]
       /\ UNCHANGED camera

-----------------------------------------------------------------------------
(* The coordinator goroutine: refreshCameras, then checkCameraOffline. *)

\* The poll reads the desired cameras; what follows works on this snapshot.
ListCameras ==
    /\ coord.pc = "idle"
    /\ coord' = [coord EXCEPT !.pc = "sweep",
                   !.listed = [c \in Cameras |->
                     IF Listed(c) THEN camera[c].config ELSE Unlisted]]
    /\ UNCHANGED <<camera, job, jobs, scratch, budget>>

\* The query fails: no sweep and no start in this round.
ListCamerasFails ==
    /\ coord.pc = "idle"
    /\ coord' = [coord EXCEPT !.pc = "check",
                   !.check = {jobs[c] : c \in Cameras} \ {NoJob}]
    /\ UNCHANGED <<camera, job, jobs, scratch, budget>>

Outdated(c) ==
    jobs[c] # NoJob /\ job[jobs[c]].config # coord.listed[c]

\* Mutant: the sweep asks a job to stop and leaves it in the map.
SweepKeepsJobs ==
    /\ coord.pc = "sweep"
    /\ job' = [j \in Jobs |->
                 IF \E c \in Cameras : jobs[c] = j /\ Outdated(c)
                 THEN [job[j] EXCEPT !.stop = "asked"] ELSE job[j]]
    /\ coord' = [coord EXCEPT !.pc = "start",
                   !.todo = {c \in Cameras : coord.listed[c] # Unlisted}]
    /\ UNCHANGED <<camera, jobs, scratch, budget>>

\* Under jobsMu: undesired and outdated jobs leave the map, and a stop
\* goroutine is launched for each.
SweepJobs ==
    /\ coord.pc = "sweep"
    /\ jobs' = [c \in Cameras |-> IF Outdated(c) THEN NoJob ELSE jobs[c]]
    /\ job' = [j \in Jobs |->
                 IF \E c \in Cameras : jobs[c] = j /\ Outdated(c)
                 THEN [job[j] EXCEPT !.stop = "asked"] ELSE job[j]]
    /\ coord' = [coord EXCEPT !.pc = "start",
                   !.todo = {c \in Cameras : coord.listed[c] # Unlisted}]
    /\ UNCHANGED <<camera, scratch, budget>>

\* Mutant: the map is not consulted before a stream is started.
StartAnotherStream(c, j) ==
    /\ coord.pc = "start" /\ c \in coord.todo
    /\ Dead(j) /\ \A d \in Cameras : jobs[d] # j
    /\ job' = [job EXCEPT ![j] = NewStream(c, coord.listed[c])]
    /\ jobs' = [jobs EXCEPT ![c] = j]
    /\ scratch' = [scratch EXCEPT ![c] = @ \cup {coord.listed[c].quality}]
    /\ coord' = [coord EXCEPT !.todo = @ \ {c}]
    /\ UNCHANGED <<camera, budget>>

\* startCameraStream for a listed camera that has no job in the map.
StartCameraStream(c, j) ==
    /\ coord.pc = "start" /\ c \in coord.todo /\ jobs[c] = NoJob
    /\ Dead(j) /\ \A d \in Cameras : jobs[d] # j
    /\ job' = [job EXCEPT ![j] = NewStream(c, coord.listed[c])]
    /\ jobs' = [jobs EXCEPT ![c] = j]
    /\ scratch' = [scratch EXCEPT ![c] = @ \cup {coord.listed[c].quality}]
    /\ coord' = [coord EXCEPT !.todo = @ \ {c}]
    /\ UNCHANGED <<camera, budget>>

\* The camera already has a job, or its source cannot be resolved.
SkipCamera(c) ==
    /\ coord.pc = "start" /\ c \in coord.todo
    /\ coord' = [coord EXCEPT !.todo = @ \ {c}]
    /\ UNCHANGED <<camera, job, jobs, scratch, budget>>

\* refreshCameras returns (its list is gone), and checkCameraOffline copies the
\* jobs under the lock.
SnapshotJobs ==
    /\ coord.pc = "start" /\ coord.todo = {}
    /\ coord' = [Idle EXCEPT !.pc = "check",
                   !.check = {jobs[c] : c \in Cameras} \ {NoJob}]
    /\ UNCHANGED <<camera, job, jobs, scratch, budget>>

\* job.lastUpload(): a job that never uploaded, or did recently, is skipped.
ReadLastUpload(j) ==
    /\ coord.pc = "check" /\ j \in coord.check
    /\ coord' = IF job[j].last = "stale"
                THEN [coord EXCEPT !.pc = "mark", !.target = j,
                                   !.check = @ \ {j}]
                ELSE [coord EXCEPT !.check = @ \ {j}]
    /\ UNCHANGED <<camera, job, jobs, scratch, budget>>

\* markOffline: the flag is set before the row is written.
MarkOffline ==
    /\ coord.pc = "mark"
    /\ IF job[coord.target].marked
       THEN /\ coord' = [coord EXCEPT !.pc = "check", !.target = NoJob]
            /\ UNCHANGED job
       ELSE /\ coord' = [coord EXCEPT !.pc = "write"]
            /\ job' = [job EXCEPT ![coord.target].marked = TRUE]
    /\ UNCHANGED <<camera, jobs, scratch, budget>>

MarkOfflineWrite ==
    /\ coord.pc = "write"
    /\ SetCameraStatus(job[coord.target].camera, "OFFLINE")
    /\ coord' = [coord EXCEPT !.pc = "check", !.target = NoJob]
    /\ UNCHANGED <<job, jobs, scratch>>

EndPoll ==
    /\ coord.pc = "check" /\ coord.check = {}
    /\ coord' = Idle
    /\ UNCHANGED <<camera, job, jobs, scratch, budget>>

-----------------------------------------------------------------------------
(* The supervisor goroutine of a stream: run(). *)

LoopCancelled(j) ==
    /\ job[j].pc = "loop" /\ job[j].cancelled
    /\ job' = [job EXCEPT ![j].pc = "exiting"]
    /\ UNCHANGED <<camera, jobs, coord, scratch, budget>>

\* The restart limit: the row is set OFFLINE and the supervisor returns.  Its
\* context is not cancelled, so the watcher it launched goes on.
MaxRestartsReached(j) ==
    /\ job[j].pc = "loop" /\ ~job[j].cancelled
    /\ job[j].restarts >= MaxRestarts
    /\ SetCameraStatus(job[j].camera, "OFFLINE")
    /\ job' = [job EXCEPT ![j].pc = "exiting"]
    /\ UNCHANGED <<jobs, coord, scratch>>

\* Mutant: FFmpeg is started without a look at the restart limit.
RunFFmpegUnbounded(j) ==
    /\ job[j].pc = "loop" /\ ~job[j].cancelled
    /\ job' = [job EXCEPT ![j].pc = "ffmpeg"]
    /\ scratch' = [scratch EXCEPT ![job[j].camera] = @ \cup {Quality(j)}]
    /\ UNCHANGED <<camera, jobs, coord, budget>>

\* FFmpegRunner.Run: recreate the scratch directory and start the process.
RunFFmpeg(j) ==
    /\ job[j].pc = "loop" /\ ~job[j].cancelled
    /\ job[j].restarts < MaxRestarts
    /\ job' = [job EXCEPT ![j].pc = "ffmpeg"]
    /\ scratch' = [scratch EXCEPT ![job[j].camera] = @ \cup {Quality(j)}]
    /\ UNCHANGED <<camera, jobs, coord, budget>>

\* The process exits by itself (camera unreachable, bad input).
FFmpegExits(j) ==
    /\ job[j].pc = "ffmpeg" /\ ~job[j].cancelled
    /\ budget.exits < MaxExits
    /\ budget' = [budget EXCEPT !.exits = @ + 1]
    /\ job' = [job EXCEPT ![j] =
                 [job[j] EXCEPT !.pc = "backoff",
                                !.restarts = job[j].restarts + 1]]
    /\ UNCHANGED <<camera, jobs, coord, scratch>>

\* The process is killed because the context of the stream was cancelled.  Run
\* returns, or blocks for ever in one of the concurrent cmd.Wait (FFmpegRunner):
\* "done" without removeJob.
FFmpegKilled(j) ==
    /\ job[j].pc = "ffmpeg" /\ job[j].cancelled
    /\ \E pc \in {"exiting", "done"} : job' = [job EXCEPT ![j].pc = pc]
    /\ UNCHANGED <<camera, jobs, coord, scratch, budget>>

\* The backoff timer fires, or the cancelled context is seen first.
BackoffEnds(j) ==
    /\ job[j].pc = "backoff"
    /\ \E pc \in {"loop"} \cup (IF job[j].cancelled THEN {"exiting"} ELSE {}) :
         job' = [job EXCEPT ![j].pc = pc]
    /\ UNCHANGED <<camera, jobs, coord, scratch, budget>>

\* Mutant: the supervisor returns without the deferred removeJob.
FinishUnremoved(j) ==
    /\ job[j].pc = "exiting"
    /\ job' = [job EXCEPT ![j].pc = "done"]
    /\ UNCHANGED <<camera, jobs, coord, scratch, budget>>

\* The deferred removeJob deletes whatever the map holds for the camera id.
RemoveJob(j) ==
    /\ job[j].pc = "exiting"
    /\ job' = [job EXCEPT ![j].pc = "done"]
    /\ jobs' = [jobs EXCEPT ![job[j].camera] = NoJob]
    /\ UNCHANGED <<camera, coord, scratch, budget>>

-----------------------------------------------------------------------------
(* The upload watcher: segments of its directory, whoever produced them. *)

\* Some FFmpeg writes to the directory of j.
Produced(j) ==
    \E k \in Jobs : /\ job[k].pc = "ffmpeg"
                    /\ job[k].camera = job[j].camera
                    /\ Quality(k) = Quality(j)

\* A segment is stored and recorded; onSegmentSuccess refreshes lastUploadAt
\* and, when the job is marked, clears the mark and goes on to write ACTIVE.
OnSegmentSuccess(j) ==
    /\ job[j].watching /\ ~job[j].cancelled /\ ~job[j].online
    /\ Quality(j) \in scratch[job[j].camera]
    /\ job' = [job EXCEPT ![j] =
                 [job[j] EXCEPT !.last = "fresh", !.marked = FALSE,
                                !.online = job[j].marked]]
    /\ UNCHANGED <<camera, jobs, coord, scratch, budget>>

\* The watcher of a new job or process uploads what it finds in the directory,
\* also when nobody writes there (any more): nothing obliges it to find some.
\* The segment an FFmpeg leaves when it exits counts among those before.
UploadsLeftOver(j) ==
    ~Produced(j) /\ job[j].last = "never" /\ OnSegmentSuccess(j)

OnlineWrite(j) ==
    /\ job[j].online
    /\ SetCameraStatus(job[j].camera, "ACTIVE")
    /\ job' = [job EXCEPT ![j].online = FALSE]
    /\ UNCHANGED <<jobs, coord, scratch>>

WatchStops(j) ==
    /\ job[j].watching /\ job[j].cancelled /\ ~job[j].online
    /\ job' = [job EXCEPT ![j].watching = FALSE]
    /\ UNCHANGED <<camera, jobs, coord, scratch, budget>>

\* CAMERA_OFFLINE_AFTER_SECONDS pass without another upload.
UploadGrowsStale(j) ==
    /\ job[j].last = "fresh" /\ ~Dead(j)
    /\ job' = [job EXCEPT ![j].last = "stale"]
    /\ UNCHANGED <<camera, jobs, coord, scratch, budget>>

-----------------------------------------------------------------------------
(* The stop goroutine of a stream: stop(). *)

\* Mutant: stop() waits for the supervisor without cancelling its context.
StopUncancelled(j) ==
    /\ job[j].stop = "asked"
    /\ job' = [job EXCEPT ![j].stop = "waiting"]
    /\ UNCHANGED <<camera, jobs, coord, scratch, budget>>

\* The cmd.Wait of its own FFmpegRunner.Stop may never return either: "stopped"
\* without RemoveCameraDir.
StopCancel(j) ==
    /\ job[j].stop = "asked"
    /\ \E stop \in {"waiting"} \cup (IF job[j].pc = "ffmpeg" THEN {"stopped"} ELSE {}) :
         job' = [job EXCEPT ![j] =
                   [job[j] EXCEPT !.stop = stop, !.cancelled = TRUE]]
    /\ UNCHANGED <<camera, jobs, coord, scratch, budget>>

\* The supervisor is done, or 15 seconds have passed: remove the directory.
StopRemovesDir(j) ==
    /\ job[j].stop = "waiting"
    /\ job' = [job EXCEPT ![j].stop = "stopped"]
    /\ scratch' = [scratch EXCEPT ![job[j].camera] = @ \ {Quality(j)}]
    /\ UNCHANGED <<camera, jobs, coord, budget>>

-----------------------------------------------------------------------------
(* The environment: the admin API, the scheduler, and process crashes. *)

ChangeRow(c, row) ==
    /\ budget.changes < MaxChanges
    /\ row # camera[c]
    /\ budget' = [budget EXCEPT !.changes = @ + 1]
    /\ camera' = [camera EXCEPT ![c] = row]
    /\ UNCHANGED <<job, jobs, coord, scratch>>

\* PATCH /admin/cameras/:id: the status and the fields of the configuration key.
PatchCamera(c) ==
    \E s \in Statuses, k \in Configs :
        ChangeRow(c, [camera[c] EXCEPT !.status = s, !.config = k])

\* The scheduler's upsert of camera_stream_states; it skips DISABLED cameras.
ScheduleCamera(c) ==
    /\ camera[c].status # "DISABLED"
    /\ ChangeRow(c, [camera[c] EXCEPT !.running = ~@])

\* The worker process dies and starts again; the directories stay behind.
Crash ==
    /\ budget.faults < MaxFaults
    /\ budget' = [budget EXCEPT !.faults = @ + 1]
    /\ job' = [j \in Jobs |-> Vacant]
    /\ jobs' = [c \in Cameras |-> NoJob]
    /\ coord' = Idle
    /\ UNCHANGED <<camera, scratch>>

-----------------------------------------------------------------------------
Coordinator ==
    \/ ListCameras \/ ListCamerasFails \/ SweepJobs \/ SnapshotJobs
    \/ \E c \in Cameras, j \in Jobs : StartCameraStream(c, j)
    \/ \E c \in Cameras : SkipCamera(c)
    \/ \E j \in Jobs : ReadLastUpload(j)
    \/ MarkOffline \/ MarkOfflineWrite \/ EndPoll

Supervisor(j) ==
    \/ LoopCancelled(j) \/ MaxRestartsReached(j) \/ RunFFmpeg(j)
    \/ FFmpegKilled(j) \/ BackoffEnds(j) \/ RemoveJob(j)

Watcher(j) ==
    \/ Produced(j) /\ OnSegmentSuccess(j)
    \/ OnlineWrite(j) \/ WatchStops(j)

Stopper(j) == StopCancel(j) \/ StopRemovesDir(j)

Environment ==
    \/ \E j \in Jobs : FFmpegExits(j) \/ UploadGrowsStale(j) \/ UploadsLeftOver(j)
    \/ \E c \in Cameras : PatchCamera(c) \/ ScheduleCamera(c)
    \/ Crash

Next ==
    \/ Coordinator
    \/ \E j \in Jobs : Supervisor(j) \/ Watcher(j) \/ Stopper(j)
    \/ Environment

\* Goroutines make progress, and an FFmpeg that keeps running yields a segment.
\* The database answers, and a source resolves, infinitely often if the
\* coordinator keeps asking (strong fairness); exits, edits, crashes and
\* late segments are never obliged.
Fairness ==
    /\ WF_vars(Coordinator) /\ SF_vars(ListCameras)
    /\ \A c \in Cameras : SF_vars(\E j \in Jobs : StartCameraStream(c, j))
    /\ \A j \in Jobs : WF_vars(Supervisor(j)) /\ WF_vars(Watcher(j))
                       /\ WF_vars(Stopper(j))

Spec == Init /\ [][Next]_vars
FairSpec == Spec /\ Fairness

-----------------------------------------------------------------------------
(* Properties. *)

Live(j) == job[j].pc \in {"loop", "ffmpeg", "backoff"} /\ ~job[j].cancelled

\* refreshCameras takes a job out of the map before anyone stops it: a job in
\* the map serves its camera, nobody has asked it to stop, and it has not
\* finished.  Only one that gave up by itself, at the restart limit, can be on
\* its way out and still be taken for a running one (coordinator.go:142): that
\* poll skips its camera, and SteadyStreams says that a later one does not.
TrackedIsLive ==
    \A c \in Cameras : jobs[c] # NoJob =>
        /\ job[jobs[c]].camera = c
        /\ job[jobs[c]].pc \notin {"free", "done"}
        /\ ~job[jobs[c]].cancelled /\ job[jobs[c]].stop = "no"
        /\ job[jobs[c]].pc = "exiting" => job[jobs[c]].restarts = MaxRestarts

\* While nobody edits a camera, whatever FFmpeg exits, restart limits, lost
\* writes and crashes occur, it has at most one live stream, and the map
\* holds it: the restart limit never makes a poll start a second FFmpeg.
SteadySingleStream ==
    budget.changes = 0 =>
        \A j \in Jobs : Live(j) => jobs[job[j].camera] = j

\* A job that was swept or cancelled is gone in the end: FFmpeg and the watcher
\* end, and the supervisor and the stop goroutine return or hang for ever.
SweptJobStops ==
    \A j \in Jobs : []<>((job[j].stop = "no" /\ ~job[j].cancelled) \/ Dead(j))

\* A camera that is wanted for good is streamed again and again, also after its
\* supervisor gave up at the restart limit: the next poll replaces the job.
SteadyStreams ==
    \A c \in Cameras :
        []<>(~Listed(c) \/
             \E j \in Jobs : job[j].camera = c /\ job[j].pc = "ffmpeg")

\* README.md:1154: STOPPED means the stream worker stops the camera.  A camera
\* that is no longer listed, for good, ends up with no FFmpeg process.
StoppedMeansStopped ==
    \A c \in Cameras :
        <>[](~Listed(c)) =>
            <>[](\A j \in Jobs : job[j].pc = "ffmpeg" => job[j].camera # c)

\* README.md:787: ACTIVE on recovery.  A camera whose tracked stream uploads
\* for good does not stay OFFLINE.
RecoveredIsActive ==
    \A c \in Cameras :
        <>[](/\ camera[c].status # "DISABLED" /\ jobs[c] # NoJob
             /\ job[jobs[c]].pc = "ffmpeg" /\ job[jobs[c]].last = "fresh")
          => []<>(camera[c].status = "ACTIVE")
=============================================================================
