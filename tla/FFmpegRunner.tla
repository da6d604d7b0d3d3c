---------------------------- MODULE FFmpegRunner ----------------------------
(***************************************************************************)
(* How one camera's FFmpeg process is stopped: FFmpegRunner.Run and Stop,  *)
(* the supervisor that calls them, and CameraStream.stop, which calls Stop *)
(* at the same time.  Each of them waits with Cmd.Wait on the same command *)
(* of os/exec (Go 1.25, external): one Wait reaps the process, the others  *)
(* get an error, and then each of them receives from the channel on which  *)
(* the goroutine that watches the context sends exactly one result.        *)
(***************************************************************************)

VARIABLES process, \* of the running or last command
          state,   \* Cmd.ProcessState is set
          result,  \* the one result of the context's watcher
          wait,    \* the calls of Cmd.Wait
          ctx,     \* the context of the stream is cancelled
          run,     \* the supervisor: run() and the FFmpegRunner.Run it is in
          stop     \* the goroutine of CameraStream.stop()

cmd == <<process, state, result>>
vars == <<cmd, wait, ctx, run, stop>>

\* Run's own goroutine, Run's Stop, the Stop of run(), the Stop of stop().
Callers == {"run", "runStop", "endStop", "stop"}

NoWait == [c \in Callers |-> "no"]

Init ==
    /\ process = "running" /\ state = FALSE /\ result = "armed"
    /\ wait = [NoWait EXCEPT !["run"] = "asked"]
    /\ ctx = FALSE /\ run = "select" /\ stop = "no"

-----------------------------------------------------------------------------
(* os/exec: the process, the watcher of the context, Cmd.Wait. *)

FFmpegExits ==
    /\ process = "running"
    /\ process' = "dead"
    /\ UNCHANGED <<state, result, wait, ctx, run, stop>>

\* The watcher kills the process when the context is cancelled, then sends.
WatchCtx ==
    /\ ctx /\ result = "armed"
    /\ result' = "offered"
    /\ process' = IF process = "running" THEN "dead" ELSE process
    /\ UNCHANGED <<state, wait, ctx, run, stop>>

\* Wait returns an error at once when ProcessState is set.
WaitBegins(c) ==
    /\ wait[c] = "asked"
    /\ wait' = [wait EXCEPT ![c] = IF state THEN "returned" ELSE "process"]
    /\ UNCHANGED <<cmd, ctx, run, stop>>

\* Process.Wait: ProcessState is assigned, nil when another Wait was first.
Reap(c) ==
    /\ wait[c] = "process" /\ process # "running"
    /\ process' = "reaped" /\ state' = (process = "dead")
    /\ wait' = [wait EXCEPT ![c] = "result"]
    /\ UNCHANGED <<result, ctx, run, stop>>

TakeResult(c) ==
    /\ wait[c] = "result" /\ result # "taken"
    /\ result' = "taken"
    /\ wait' = [wait EXCEPT ![c] = "returned"]
    /\ UNCHANGED <<process, state, ctx, run, stop>>

-----------------------------------------------------------------------------
(* FFmpegRunner. *)

\* Stop: SIGTERM and a goroutine that waits; it ends when its Wait returns.
StopBegins(c) == wait' = [wait EXCEPT ![c] = "asked"]

\* Five seconds later: SIGKILL.
StopKills ==
    /\ process = "running" /\ \E c \in Callers \ {"run"} : wait[c] = "process"
    /\ process' = "dead"
    /\ UNCHANGED <<state, result, wait, ctx, run, stop>>

\* Run: the cancelled context or the end of the process, whichever is seen.
RunSelects ==
    /\ run = "select"
    /\ \/ ctx /\ run' = "stopping" /\ StopBegins("runStop")
       \/ wait["run"] = "returned" /\ run' = "ended" /\ UNCHANGED wait
    /\ UNCHANGED <<cmd, ctx, stop>>

\* After f.Stop() comes <-done, the goroutine that waits for the process.
RunStopped ==
    /\ \/ run = "stopping" /\ wait["runStop"] = "returned" /\ run' = "await"
       \/ run = "await" /\ wait["run"] = "returned" /\ run' = "ended"
    /\ UNCHANGED <<cmd, wait, ctx, stop>>

-----------------------------------------------------------------------------
(* CameraStream.run and CameraStream.stop. *)

\* A cancelled supervisor calls Stop once more and returns.
AfterRun ==
    /\ run = "ended"
    /\ IF ctx THEN run' = "final" /\ StopBegins("endStop")
              ELSE run' = "backoff" /\ UNCHANGED wait
    /\ UNCHANGED <<cmd, ctx, stop>>

\* The backoff ends: another command, or the context is seen here or above.
BackoffEnds ==
    /\ run = "backoff"
    /\ \/ /\ ~ctx
          /\ process' = "running" /\ state' = FALSE /\ result' = "armed"
          /\ wait' = [NoWait EXCEPT !["run"] = "asked"]
          /\ run' = "select"
       \/ ctx /\ run' = "returned" /\ UNCHANGED <<cmd, wait>>
       \/ ctx /\ run' = "final" /\ StopBegins("endStop") /\ UNCHANGED cmd
    /\ UNCHANGED <<ctx, stop>>

RunReturns ==
    /\ run = "final" /\ wait["endStop"] = "returned"
    /\ run' = "returned"
    /\ UNCHANGED <<cmd, wait, ctx, stop>>

Cancel ==
    /\ stop = "no"
    /\ ctx' = TRUE /\ stop' = "cancelled"
    /\ UNCHANGED <<cmd, wait, run>>

StopFFmpeg ==
    /\ stop = "cancelled"
    /\ StopBegins("stop") /\ stop' = "ffmpeg"
    /\ UNCHANGED <<cmd, ctx, run>>

\* done is closed, or 15 seconds pass: RemoveCameraDir.
RemoveDir ==
    /\ stop = "ffmpeg" /\ wait["stop"] = "returned"
    /\ stop' = "stopped"
    /\ UNCHANGED <<cmd, wait, ctx, run>>

-----------------------------------------------------------------------------
Exec == WatchCtx \/ \E c \in Callers : WaitBegins(c) \/ Reap(c) \/ TakeResult(c)

Supervise == RunSelects \/ RunStopped \/ AfterRun \/ BackoffEnds \/ RunReturns

Stop == StopFFmpeg \/ StopKills \/ RemoveDir

Next == FFmpegExits \/ Exec \/ Supervise \/ Cancel \/ Stop

\* Every goroutine makes progress when it can; FFmpeg may run for ever, and
\* nobody has to stop the stream.
Spec ==
    /\ Init /\ [][Next]_vars
    /\ WF_vars(WatchCtx) /\ WF_vars(Supervise) /\ WF_vars(Stop)
    /\ \A c \in Callers : WF_vars(WaitBegins(c) \/ Reap(c) \/ TakeResult(c))

-----------------------------------------------------------------------------
(* Properties. *)

\* ffmpeg.go:48: Run blocks until FFmpeg exits or ctx is cancelled, so a
\* cancelled stream has left Run in the end.
RunEndsWhenCancelled == ctx ~> run \notin {"select", "stopping", "await"}
=============================================================================
