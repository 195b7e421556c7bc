-------------------------------- MODULE Shell --------------------------------
(***************************************************************************)
(* One process, from its start to its exit: `msgbrowse serve`              *)
(* (internal/cli/serve.go) and the desktop app (cmd/msgbrowse-desktop).    *)
(* The store, the job runner, the auto-refresh loop, the web server, the   *)
(* device-sync daemon and its watcher are started in one order and stopped *)
(* in another; the desktop app has a window that may close first.          *)
(***************************************************************************)
EXTENDS Naturals, FiniteSets, TLC

CONSTANTS
  App,      \* the processes an instance has: "serve", "desktop"
  Visitor,  \* connections to the web server
  MaxJobs   \* bound: jobs that are started

ASSUME ShellAssumption == App \subseteq {"serve", "desktop"} /\ MaxJobs \in Nat

VARIABLES
  app,      \* which process this is
  main,     \* where its main goroutine is
  ended,    \* its context has ended
  database, \* none, open or closed
  http,     \* the web server
  visit,    \* each connection's request
  cut,      \* the server went down with requests unanswered
  runner,   \* the job runner: built, stopped, and its running job
  refresh,  \* the auto-refresh loop
  daemon, watcher,  \* device sync
  window,   \* the Wails runtime
  latch,    \* shellstate.Lifecycle, and how often it let a quit through
  guard,    \* the goroutine that quits for a signal or a dead server
  asked,    \* somebody has asked the process to stop, or its server has died
  spent     \* what the bound counts

desktopVars == <<window, latch, guard>>
syncVars    == <<daemon, watcher>>
webVars     == <<http, visit, cut>>
workVars    == <<runner, refresh, syncVars>>
shellVars   == <<app, main, ended, database, webVars, workVars, desktopVars, asked, spent>>

ShellInit ==
  /\ app \in App
  /\ main = "start"
  /\ ended = FALSE /\ cut = FALSE /\ asked = FALSE
  /\ database = "none" /\ http = "none"
  /\ visit = [v \in Visitor |-> "none"]
  /\ runner = [built |-> FALSE, stopped |-> FALSE, job |-> FALSE]
  /\ refresh = "none" /\ daemon = "none" /\ watcher = "none"
  /\ window = "none" /\ guard = "none"
  /\ latch = [ctx |-> FALSE, requested |-> FALSE, fired |-> FALSE, quits |-> 0]
  /\ spent = 0

MainGoes(from, to) == main = from /\ main' = to

-----------------------------------------------------------------------------
(* The start. *)

\* openStore; the desktop's context is made before it, serve's after it.
OpenStore ==
  /\ \/ MainGoes("start", "opened") /\ database' = "open"
     \/ MainGoes("start", "exited") /\ database' = "none"
  /\ UNCHANGED <<app, ended, webVars, workVars, desktopVars, asked, spent>>

\* serve: ingestOnStart, which may be off, fail, or end with the context; then
\* web.NewServer, onboardsvc.Build and the auto-refresh loop.  Without a server
\* or a runner the deferred calls close what there is.
Wire ==
  /\ \/ /\ MainGoes("opened", IF app = "serve" THEN "sync" ELSE "listen")
        /\ runner' = [runner EXCEPT !.built = TRUE]
        /\ refresh' \in {"none", "waiting"}
     \/ MainGoes("opened", "closing") /\ UNCHANGED <<runner, refresh>>
  /\ UNCHANGED <<app, ended, database, webVars, syncVars, desktopVars, asked, spent>>

\* wireDeviceSync: device sync is off, or its daemon starts, or not.  serve gives
\* up then and the desktop app goes on.
StartSync ==
  /\ main = "sync"
  /\ \/ /\ ~ended \/ daemon' = "none"
        /\ daemon' \in {"none", "up"}
        /\ watcher' = IF daemon' = "up" THEN "watching" ELSE "none"
        /\ main' = IF app = "serve" THEN "listen" ELSE "launch"
     \/ /\ app = "serve"
        /\ main' = "shutdown"
        /\ UNCHANGED syncVars
  /\ UNCHANGED <<app, ended, database, webVars, runner, refresh, desktopVars, asked, spent>>

\* Server.Listen.  serve serves on its main goroutine.  The desktop app, which has
\* no device sync yet, closes the database when the port is taken, and nothing else.
Listen ==
  /\ main = "listen"
  /\ IF app = "serve"
     THEN \/ main' = "serving" /\ http' = "serving"
          \/ main' = "stopping" /\ http' = "down"
     ELSE \/ main' = "sync" /\ http' = "bound"
          \/ main' = "closing" /\ http' = "none"
  /\ UNCHANGED <<app, ended, database, visit, cut, workVars, desktopVars, asked, spent>>

\* The desktop: the serve loop, the goroutine that waits for the context or the
\* loop to end, and the window.
OpenWindow ==
  /\ MainGoes("launch", "shell")
  /\ http' = "serving" /\ guard' = "waiting" /\ window' = "starting"
  /\ UNCHANGED <<app, ended, database, visit, cut, workVars, latch, asked, spent>>

-----------------------------------------------------------------------------
(* While it runs. *)

\* A SIGINT or SIGTERM that NotifyContext catches: until stop() in serve.
Signal ==
  /\ app = "serve" => main \in {"opened", "sync", "listen", "serving"}
  /\ app = "desktop" => main \notin {"start", "exited"}
  /\ ended' = TRUE /\ asked' = TRUE
  /\ UNCHANGED <<app, main, database, webVars, workVars, desktopVars, spent>>

\* Server.ServeHandler: the loop fails, or the context has ended and Shutdown
\* waits for the requests, ten seconds long.
ServeFails ==
  /\ http = "serving" /\ ~ended
  /\ http' = "down" /\ asked' = TRUE
  /\ cut' = (\E v \in Visitor : visit[v] # "none")
  /\ UNCHANGED <<app, main, ended, database, visit, workVars, desktopVars, spent>>

Drain ==
  /\ http = "serving" /\ ended
  /\ http' = "draining"
  /\ UNCHANGED <<app, main, ended, database, visit, cut, workVars, desktopVars, asked, spent>>

Drained ==
  /\ http = "draining"
  /\ http' = "down"
  /\ cut' = (\E v \in Visitor : visit[v] # "none")
  /\ UNCHANGED <<app, main, ended, database, visit, workVars, desktopVars, asked, spent>>

\* A page's request, or a stream of the MCP endpoint, which the desktop app
\* serves on the same listener and which ends when its client goes.
Visit(v) ==
  /\ http = "serving" /\ visit[v] = "none"
  /\ \E what \in IF app = "desktop" THEN {"page", "stream"} ELSE {"page"} :
       visit' = [visit EXCEPT ![v] = what]
  /\ UNCHANGED <<app, main, ended, database, http, cut, workVars, desktopVars, asked, spent>>

Depart(v) ==
  /\ visit[v] # "none"
  /\ visit' = [visit EXCEPT ![v] = "none"]
  /\ UNCHANGED <<app, main, ended, database, http, cut, workVars, desktopVars, asked, spent>>

\* Runner.start: from a page, the auto-refresh loop's tick, or the watcher.  The
\* interval of the loop is longer than what the desktop app does before it binds.
StartJob ==
  /\ \/ \E v \in Visitor : visit[v] = "page"
     \/ refresh = "waiting" /\ (app = "desktop" => main \notin {"listen", "closing"})
     \/ watcher = "watching"
  /\ spent < MaxJobs
  /\ ~runner.stopped /\ ~runner.job
  /\ runner' = [runner EXCEPT !.job = TRUE]
  /\ spent' = spent + 1
  /\ UNCHANGED <<app, main, ended, database, webVars, refresh, syncVars, desktopVars, asked>>

WorkerEnds ==
  /\ runner.job
  /\ runner' = [runner EXCEPT !.job = FALSE]
  /\ UNCHANGED <<app, main, ended, database, webVars, refresh, syncVars, desktopVars, asked, spent>>

\* What the context's end stops: the auto-refresh loop, the daemon, which may
\* fail before that, and the watcher.
RefreshEnds ==
  /\ refresh = "waiting" /\ ended
  /\ refresh' = "gone"
  /\ UNCHANGED <<app, main, ended, database, webVars, runner, syncVars, desktopVars, asked, spent>>

DaemonEnds ==
  /\ daemon = "up" /\ daemon' = "gone"
  /\ UNCHANGED <<app, main, ended, database, webVars, runner, refresh, watcher, desktopVars, asked, spent>>

WatcherEnds ==
  /\ watcher = "watching" /\ ended
  /\ watcher' = "gone"
  /\ UNCHANGED <<app, main, ended, database, webVars, runner, refresh, daemon, desktopVars, asked, spent>>

-----------------------------------------------------------------------------
(* The desktop app's quit. *)

\* Lifecycle.RequestQuit: it lets the quit through once there is a runtime to
\* tell, and once only.
RequestQuit ==
  latch' = IF latch.ctx /\ ~latch.fired
           THEN [latch EXCEPT !.requested = TRUE, !.fired = TRUE, !.quits = @ + 1]
           ELSE [latch EXCEPT !.requested = TRUE]

\* The goroutine that waits for a signal or a dead server.
GuardQuits ==
  /\ guard = "waiting" /\ (ended \/ http = "down")
  /\ guard' = "done"
  /\ ended' = TRUE
  /\ RequestQuit
  /\ UNCHANGED <<app, main, database, webVars, workVars, window, asked, spent>>

\* Quit in the tray's menu, which may be there before the window.
MenuQuits ==
  /\ window \in {"starting", "running"}
  /\ asked' = TRUE
  /\ RequestQuit
  /\ UNCHANGED <<app, main, ended, database, webVars, workVars, window, guard, spent>>

\* Mutant: a quit that was asked for before the window is forgotten.
StartupForgets ==
  /\ window = "starting" /\ window' = "running"
  /\ latch' = [latch EXCEPT !.ctx = TRUE]
  /\ UNCHANGED <<app, main, ended, database, webVars, workVars, guard, asked, spent>>

\* Lifecycle.SetContext, at OnStartup: a quit that was asked for before is let
\* through now.
Startup ==
  /\ window = "starting" /\ window' = "running"
  /\ latch' = IF latch.requested /\ ~latch.fired
              THEN [latch EXCEPT !.ctx = TRUE, !.fired = TRUE, !.quits = @ + 1]
              ELSE [latch EXCEPT !.ctx = TRUE]
  /\ UNCHANGED <<app, main, ended, database, webVars, workVars, guard, asked, spent>>

\* The runtime returns: after a quit of ours, after one of its own (Cmd+Q), both
\* by OnShutdown, or because it crashed.
WindowGone ==
  /\ \/ window = "running" /\ latch' = [latch EXCEPT !.requested = TRUE, !.fired = TRUE]
     \/ window \in {"starting", "running"} /\ UNCHANGED latch
  /\ window' = "gone" /\ asked' = TRUE
  /\ UNCHANGED <<app, main, ended, database, webVars, workVars, guard, spent>>

Obeys == window = "running" /\ latch.quits > 0 /\ WindowGone

-----------------------------------------------------------------------------
(* The stop. *)

\* serve: Run has returned and stop() ends the context.  The desktop: runShell has
\* returned, and stop().
StopServing ==
  /\ \/ MainGoes("serving", "stopping") /\ http = "down" /\ UNCHANGED ended
     \/ MainGoes("stopping", "syncwait") /\ ended' = TRUE
     \/ MainGoes("shell", "close") /\ window = "gone" /\ ended' = TRUE
  /\ UNCHANGED <<app, database, webVars, workVars, desktopVars, asked, spent>>

\* Server.Close: the serve loop first.
Served ==
  /\ MainGoes("close", "shutdown") /\ http = "down"
  /\ UNCHANGED <<app, ended, database, webVars, workVars, desktopVars, asked, spent>>

\* The daemon and the watcher: before the jobs in serve, after them in the
\* desktop app.
SyncWait ==
  /\ \/ MainGoes("syncwait", "shutdown")
     \/ MainGoes("drain", "closing")
  /\ daemon \in {"none", "gone"} /\ watcher \in {"none", "gone"}
  /\ UNCHANGED <<app, ended, database, webVars, workVars, desktopVars, asked, spent>>

\* Runner.Shutdown: the jobs are cancelled, no other is taken, and those that run
\* are waited for.
Shutdown ==
  /\ MainGoes("shutdown", "join")
  /\ runner' = [runner EXCEPT !.stopped = TRUE]
  /\ UNCHANGED <<app, ended, database, webVars, refresh, syncVars, desktopVars, asked, spent>>

\* Mutant: Shutdown does not wait.
JoinJobsNot ==
  /\ MainGoes("join", IF app = "serve" THEN "closing" ELSE "drain")
  /\ UNCHANGED <<app, ended, database, webVars, workVars, desktopVars, asked, spent>>

JoinJobs ==
  /\ MainGoes("join", IF app = "serve" THEN "closing" ELSE "drain")
  /\ ~runner.job
  /\ UNCHANGED <<app, ended, database, webVars, workVars, desktopVars, asked, spent>>

CloseStore ==
  /\ MainGoes("closing", "exited")
  /\ database' = "closed"
  /\ UNCHANGED <<app, ended, webVars, workVars, desktopVars, asked, spent>>

MainStep ==
  OpenStore \/ Wire \/ StartSync \/ Listen \/ OpenWindow \/ StopServing \/ Served \/ SyncWait
  \/ Shutdown \/ JoinJobs \/ CloseStore

\* Nothing goes on in a process that has exited.
ShellNext ==
  /\ main # "exited"
  /\ \/ MainStep \/ Signal \/ ServeFails \/ Drain \/ Drained
     \/ (\E v \in Visitor : Visit(v) \/ Depart(v))
     \/ StartJob \/ WorkerEnds
     \/ RefreshEnds \/ DaemonEnds \/ WatcherEnds
     \/ GuardQuits \/ MenuQuits \/ Startup \/ WindowGone

\* The start goes on and so does the stop; the drain has a limit; what is told to
\* stop does; a window comes up, and goes when it is told to.  No request has to
\* end, nor a job that is not cancelled.
ShellFairness ==
  /\ WF_shellVars(MainStep)
  /\ WF_shellVars(main # "exited" /\ (Drain \/ Drained))
  /\ WF_shellVars(main # "exited" /\ runner.stopped /\ WorkerEnds)
  /\ WF_shellVars(main # "exited" /\ ended /\ DaemonEnds)
  /\ WF_shellVars(main # "exited" /\ WatcherEnds)
  /\ WF_shellVars(main # "exited" /\ GuardQuits)
  /\ WF_shellVars(main # "exited" /\ Startup)
  /\ WF_shellVars(main # "exited" /\ Obeys)

ShellSpec == ShellInit /\ [][ShellNext]_shellVars /\ ShellFairness

ShellTypeOK ==
  /\ database \in {"none", "open", "closed"}
  /\ http \in {"none", "bound", "serving", "draining", "down"}
  /\ window \in {"none", "starting", "running", "gone"}
  /\ latch.quits \in Nat /\ spent \in 0 .. MaxJobs

-----------------------------------------------------------------------------
\* The database is closed after everything that imports into it: no job, no
\* watcher and no daemon is left, and no process ends with it open.
StoreClosedLast ==
  /\ database = "closed" => /\ ~runner.job
                         /\ watcher \in {"none", "gone"} /\ daemon \in {"none", "gone"}
  /\ main = "exited" => database # "open"

\* A request that is answered from a closed database, or not at all, is one that
\* ran when the server's loop died or that the drain waited for as long as it may.
CutShortOnlyUndrained ==
  database = "closed" /\ (\E v \in Visitor : visit[v] # "none") => cut

\* The runtime is told to quit at most once.
QuitOnce == latch.quits <= 1

\* A process stops in order.  (internal/cli/serve.go RunE; embedded.go
\* Server.Close; shellstate.go Lifecycle.)
StopsInOrder == StoreClosedLast /\ CutShortOnlyUndrained /\ QuitOnce

\* A process that was told to stop, by a signal, its menu or its window, or whose
\* server died, exits.
Exits == asked ~> main = "exited"
=============================================================================
