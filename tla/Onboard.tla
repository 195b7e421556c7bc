------------------------------- MODULE Onboard -------------------------------
(***************************************************************************)
(* The supervised Enable / Refresh / SyncImport jobs of internal/onboard:  *)
(* the runner's registry, mutex, contexts and WaitGroup (runner.go), the   *)
(* export -> adopt -> import pipeline each worker goroutine executes, and  *)
(* the three sibling directories an adopt renames (stage.go).              *)
(*                                                                         *)
(* One step of a worker is the code between two accesses to shared state:  *)
(* the registry under r.mu, a context, or one call on the file system.     *)
(* Registry updates are separate steps, because another goroutine can      *)
(* cancel or shut down between a check and the update that follows it.     *)
(*                                                                         *)
(* Bounds: Job bounds the number of jobs ever started, MaxFaults the       *)
(* number of crashes and file-system errors.                               *)
(***************************************************************************)
EXTENDS Naturals

CONSTANTS
  Source,     \* source ids (signal, imessage, whatsapp)
  Job,        \* one element per job struct / worker goroutine
  MaxFaults,  \* bound: crashes and failing file-system calls in a behaviour
  NoJob,      \* a source id the registry has no entry for
  Idle,       \* nobody is inside start(): r.mu is free
  Absent,     \* a directory that does not exist
  Prior       \* the run that produced the archive found at the first launch

Mode == {"export", "sync"}
Tree == [by : Job \union {Prior}, whole : BOOLEAN]

ASSUME OnboardAssumption ==
  /\ Source # {}
  /\ MaxFaults \in Nat
  /\ NoJob \notin Job
  /\ Prior \notin Job
  /\ Absent \notin Tree
  /\ Idle \notin [src : Source, mode : Mode]

VARIABLES
  jobs,      \* Runner.jobs: the registered job of each source
  phase,     \* job.progress.Phase
  src, mode, \* the arguments each worker was started with
  pc,        \* where each worker is in execute / executeSyncImport / adopt
  aside,     \* adopt's movedAside
  ctxDone,   \* the job's context is done (Cancel, Shutdown or a finished job)
  starter,   \* the start() call that holds r.mu past its checks, or Idle
  stopped,   \* baseCtx is done
  wg,        \* the workers Runner.wg counts
  shutdown,  \* Shutdown: not called, inside wg.Wait, returned
  staging, managed, trash,  \* the trees at <root>.staging, <root>, <root>.old
  store,     \* what the last import pass put in the store for the source
  faults,    \* crashes and file-system errors so far
  archived   \* history: a complete archive of the source has been in place

registryVars == <<jobs, phase, src, mode, starter>>
lifeVars     == <<ctxDone, stopped, wg, shutdown>>
diskVars     == <<staging, managed, trash, archived, aside>>
vars == <<registryVars, pc, lifeVars, diskVars, store, faults>>

Terminal == {"done", "failed", "cancelled"}
Active   == {"queued", "exporting", "adopting", "importing"}
Phase    == {"none"} \union Active \union Terminal

Label == {"unborn", "resolve", "toExport", "stage", "prepare", "running",
          "exported", "exportFailed", "toAdopt", "clearTrash", "aside",
          "promote", "restore", "dropTrash", "adoptFailed", "adopted",
          "statRoot", "toImport", "importing", "importFailed", "toDone",
          "failing", "cancelling", "exiting", "gone"}

\* Labels at which execute has still to publish the job's terminal phase.
Working == Label \ {"unborn", "exiting", "gone"}

MaybeTree == Tree \union {Absent}

TypeOK ==
  /\ jobs \in [Source -> Job \union {NoJob}]
  /\ phase \in [Job -> Phase]
  /\ src \in [Job -> Source] /\ mode \in [Job -> Mode]
  /\ pc \in [Job -> Label]
  /\ aside \in [Job -> BOOLEAN] /\ ctxDone \in [Job -> BOOLEAN]
  /\ starter \in [src : Source, mode : Mode] \union {Idle}
  /\ stopped \in BOOLEAN
  /\ wg \in SUBSET Job
  /\ shutdown \in {"no", "waiting", "returned"}
  /\ staging \in [Source -> MaybeTree]
  /\ managed \in [Source -> MaybeTree]
  /\ trash \in [Source -> MaybeTree]
  /\ store \in [Source -> MaybeTree]
  /\ faults \in 0..MaxFaults
  /\ archived \in [Source -> BOOLEAN]

Whole(t) == t # Absent /\ t.whole
Torn(t)  == IF t = Absent THEN Absent ELSE [t EXCEPT !.whole = FALSE]

\* The run that exported a tree.
RunOf(t) == IF t = Absent THEN Absent ELSE t.by

Registered(s) == jobs[s] # NoJob
IsActive(s)   == Registered(s) /\ phase[jobs[s]] \in Active

-----------------------------------------------------------------------------
Init ==
  /\ jobs = [s \in Source |-> NoJob]
  /\ phase = [j \in Job |-> "none"]
  /\ src = [j \in Job |-> CHOOSE s \in Source : TRUE]
  /\ mode = [j \in Job |-> "export"]
  /\ pc = [j \in Job |-> "unborn"]
  /\ aside = [j \in Job |-> FALSE]
  /\ ctxDone = [j \in Job |-> FALSE]
  /\ starter = Idle /\ stopped = FALSE /\ wg = {} /\ shutdown = "no"
  /\ staging = [s \in Source |-> Absent]
  /\ managed \in [Source -> {Absent, [by |-> Prior, whole |-> TRUE]}]
  /\ trash = [s \in Source |-> Absent]
  /\ store = managed
  /\ faults = 0
  /\ archived = [s \in Source |-> managed[s] # Absent]

-----------------------------------------------------------------------------
(* Callers: Enable, Refresh and SyncImport all go through start().         *)

\* Mutant: start() does not look at the job that is registered already.
StartCheckBlind(s, m) ==
  /\ starter = Idle
  /\ ~stopped
  /\ \E j \in Job : pc[j] = "unborn"
  /\ starter' = [src |-> s, mode |-> m]
  /\ UNCHANGED <<jobs, phase, src, mode, pc, lifeVars, diskVars, store, faults>>

\* start(), its checks: r.mu is taken, a job that is still Active or a base
\* context that is done refuses the call (and nothing changes). Enable and
\* Refresh run the same pipeline and differ in labels only.
StartCheck(s, m) ==
  /\ starter = Idle
  /\ ~IsActive(s)
  /\ ~stopped
  /\ \E j \in Job : pc[j] = "unborn"
  /\ starter' = [src |-> s, mode |-> m]
  /\ UNCHANGED <<jobs, phase, src, mode, pc, lifeVars, diskVars, store, faults>>

\* start(), its effects: the registry entry with its first phase, a context,
\* wg.Add(1), unlock, and the goroutine at the first line of its pipeline.
RegisterAs(j, p, done) ==
  /\ starter # Idle
  /\ pc[j] = "unborn"
  /\ jobs' = [jobs EXCEPT ![starter.src] = j]
  /\ phase' = [phase EXCEPT ![j] = p]
  /\ src' = [src EXCEPT ![j] = starter.src]
  /\ mode' = [mode EXCEPT ![j] = starter.mode]
  /\ ctxDone' = [ctxDone EXCEPT ![j] = done]
  /\ wg' = wg \union {j}
  /\ pc' = [pc EXCEPT ![j] = IF starter.mode = "sync" THEN "statRoot"
                                                     ELSE "resolve"]
  /\ starter' = Idle
  /\ UNCHANGED <<stopped, shutdown, diskVars, store, faults>>

\* Mutants: the job's context derives from context.Background(), and the entry
\* is registered with the zero Progress, whose phase is the empty string.
StartRegisterDetached(j) == RegisterAs(j, "queued", FALSE)
StartRegisterZero(j)     == RegisterAs(j, "", stopped)

\* The context derives from baseCtx: done already if a Shutdown slipped in.
StartRegister(j) == RegisterAs(j, "queued", stopped)

\* Mutant: Cancel publishes the terminal phase itself.
CancelPublishes(s) ==
  /\ starter = Idle
  /\ IsActive(s)
  /\ ctxDone' = [ctxDone EXCEPT ![jobs[s]] = TRUE]
  /\ phase' = [phase EXCEPT ![jobs[s]] = "cancelled"]
  /\ UNCHANGED <<jobs, src, mode, starter, pc, stopped, wg, shutdown, diskVars, store, faults>>

Cancel(s) ==
  /\ starter = Idle
  /\ IsActive(s)
  /\ ctxDone' = [ctxDone EXCEPT ![jobs[s]] = TRUE]
  /\ UNCHANGED <<registryVars, pc, stopped, wg, shutdown, diskVars, store, faults>>

\* Shutdown does not take r.mu: stop() ends every context derived so far.
ShutdownStop ==
  /\ shutdown = "no"
  /\ shutdown' = "waiting"
  /\ stopped' = TRUE
  /\ ctxDone' = [j \in Job |-> ctxDone[j] \/ pc[j] # "unborn"]
  /\ UNCHANGED <<registryVars, pc, wg, diskVars, store, faults>>

ShutdownReturn ==
  /\ shutdown = "waiting"
  /\ wg = {}
  /\ shutdown' = "returned"
  /\ UNCHANGED <<registryVars, pc, ctxDone, stopped, wg, diskVars, store, faults>>

-----------------------------------------------------------------------------
(* Workers                                                                 *)

Goto(j, l) == pc' = [pc EXCEPT ![j] = l]

\* A worker at label l moves on without touching anything but the trees.
At(j, l) ==
  /\ pc[j] = l
  /\ UNCHANGED <<registryVars, lifeVars>>

NoDisk      == UNCHANGED <<diskVars, store>>
OnlyStaging == UNCHANGED <<managed, trash, archived, aside, store>>
NoFault == faults' = faults
Fault   == faults < MaxFaults /\ faults' = faults + 1

\* update(): under r.mu, the phase of whichever job the source has registered.
Publish(j, l, p, next) ==
  /\ pc[j] = l
  /\ starter = Idle
  /\ phase' = IF Registered(src[j]) THEN [phase EXCEPT ![jobs[src[j]]] = p]
                                    ELSE phase
  /\ Goto(j, next)
  /\ UNCHANGED <<jobs, src, mode, starter, lifeVars, diskVars, store, faults>>

\* Tool, environment, then `if r.cancelled(jobCtx)`, then the OS consent probe.
Resolve(j) ==
  /\ At(j, "resolve") /\ NoDisk /\ NoFault
  /\ \/ Goto(j, "failing")
     \/ ctxDone[j] /\ Goto(j, "cancelling")
     \/ ~ctxDone[j] /\ Goto(j, "toExport")

\* newStaging: clear what an earlier run left, create an empty directory.
NewStaging(j) ==
  /\ At(j, "stage") /\ OnlyStaging
  /\ \/ /\ NoFault
        /\ staging' = [staging EXCEPT ![src[j]] = [by |-> j, whole |-> FALSE]]
        /\ Goto(j, "prepare")
     \/ /\ Fault
        /\ staging' = [staging EXCEPT ![src[j]] = Torn(@)]
        /\ Goto(j, "failing")

\* resolveSource and ExportArgs; a failure of either discards staging.
Prepare(j) ==
  /\ At(j, "prepare") /\ OnlyStaging /\ NoFault
  /\ \/ Goto(j, "running") /\ UNCHANGED staging
     \/ Goto(j, "failing") /\ staging' = [staging EXCEPT ![src[j]] = Absent]

\* Mutant: the exporter's exit status is not looked at.
ExporterExitUnchecked(j) ==
  /\ At(j, "running") /\ OnlyStaging /\ NoFault
  /\ \E w \in BOOLEAN : staging' = [staging EXCEPT ![src[j]] = [by |-> j, whole |-> w]]
  /\ Goto(j, "exported")

\* runExec: a clean exit leaves a complete export, any other a partial one.
ExporterExit(j) ==
  /\ At(j, "running") /\ OnlyStaging /\ NoFault
  /\ \/ /\ staging' = [staging EXCEPT ![src[j]] = [by |-> j, whole |-> TRUE]]
        /\ Goto(j, "exported")
     \/ /\ UNCHANGED staging
        /\ Goto(j, "exportFailed")

Discard(j) == staging' = [staging EXCEPT ![src[j]] = Absent]

\* Mutant: no cancellation check between a clean export and adopt.
AfterExportUnchecked(j) ==
  /\ At(j, "exported") /\ NoDisk /\ NoFault
  /\ Goto(j, "toAdopt")

AfterExport(j) ==
  /\ At(j, "exported") /\ OnlyStaging /\ NoFault
  /\ \/ ctxDone[j] /\ Discard(j) /\ Goto(j, "cancelling")
     \/ ~ctxDone[j] /\ UNCHANGED staging /\ Goto(j, "toAdopt")

AfterFailedExport(j) ==
  /\ At(j, "exportFailed") /\ OnlyStaging /\ NoFault
  /\ Discard(j)
  /\ Goto(j, IF ctxDone[j] THEN "cancelling" ELSE "failing")

\* adopt, one file-system call at a time.
ClearTrash(j) ==
  /\ At(j, "clearTrash") /\ UNCHANGED <<staging, managed, archived, store>>
  /\ aside' = [aside EXCEPT ![j] = FALSE]
  /\ \/ /\ NoFault
        /\ trash' = [trash EXCEPT ![src[j]] = Absent]
        /\ Goto(j, "aside")
     \/ /\ Fault
        /\ trash' = [trash EXCEPT ![src[j]] = Torn(@)]
        /\ Goto(j, "adoptFailed")

\* Mutant: the previous archive is removed instead of moved aside.
RemoveOld(j) ==
  /\ At(j, "aside") /\ NoFault /\ UNCHANGED <<staging, trash, aside, archived, store>>
  /\ managed' = [managed EXCEPT ![src[j]] = Absent]
  /\ Goto(j, "promote")

MoveAside(j) ==
  LET s == src[j] IN
  /\ At(j, "aside") /\ UNCHANGED <<staging, archived, store>>
  /\ \/ /\ NoFault
        /\ managed[s] # Absent
        /\ trash' = [trash EXCEPT ![s] = managed[s]]
        /\ managed' = [managed EXCEPT ![s] = Absent]
        /\ aside' = [aside EXCEPT ![j] = TRUE]
        /\ Goto(j, "promote")
     \/ /\ NoFault
        /\ managed[s] = Absent
        /\ UNCHANGED <<managed, trash, aside>>
        /\ Goto(j, "promote")
     \/ /\ Fault
        /\ UNCHANGED <<managed, trash, aside>>
        /\ Goto(j, "adoptFailed")

Promote(j) ==
  LET s == src[j] IN
  /\ At(j, "promote") /\ UNCHANGED <<trash, aside, store>>
  /\ \/ /\ NoFault
        /\ managed' = [managed EXCEPT ![s] = staging[s]]
        /\ staging' = [staging EXCEPT ![s] = Absent]
        /\ archived' = [archived EXCEPT ![s] = TRUE]
        /\ Goto(j, IF aside[j] THEN "dropTrash" ELSE "adopted")
     \/ /\ Fault
        /\ UNCHANGED <<managed, staging, archived>>
        /\ Goto(j, IF aside[j] THEN "restore" ELSE "adoptFailed")

Restore(j) ==
  LET s == src[j] IN
  /\ At(j, "restore") /\ UNCHANGED <<staging, archived, aside, store>>
  /\ \/ /\ NoFault
        /\ managed' = [managed EXCEPT ![s] = trash[s]]
        /\ trash' = [trash EXCEPT ![s] = Absent]
     \/ Fault /\ UNCHANGED <<managed, trash>>
  /\ Goto(j, "adoptFailed")

DropTrash(j) ==
  /\ At(j, "dropTrash") /\ UNCHANGED <<staging, managed, archived, aside, store>>
  /\ \/ /\ NoFault
        /\ trash' = [trash EXCEPT ![src[j]] = Absent]
        /\ Goto(j, "adopted")
     \/ /\ Fault
        /\ trash' = [trash EXCEPT ![src[j]] = Torn(@)]
        /\ Goto(j, "adoptFailed")

AdoptFailed(j) ==
  /\ At(j, "adoptFailed") /\ OnlyStaging /\ NoFault
  /\ Discard(j)
  /\ Goto(j, "failing")

AfterAdopt(j) ==
  /\ At(j, "adopted") /\ NoDisk /\ NoFault
  /\ Goto(j, IF ctxDone[j] THEN "cancelling" ELSE "toImport")

\* executeSyncImport: no exporter; the managed root must already exist.
StatRoot(j) ==
  /\ At(j, "statRoot") /\ NoDisk /\ NoFault
  /\ Goto(j, IF managed[src[j]] = Absent THEN "failing"
             ELSE IF ctxDone[j] THEN "cancelling" ELSE "toImport")

\* Importer.Import: a pass over the archive, which succeeds although it may have
\* logged, counted and left out conversations that failed; or an error, with
\* nothing or a part of the archive stored.
Import(j) ==
  LET s == src[j]
      part == [store EXCEPT ![s] = Torn(managed[s])]
  IN
  /\ At(j, "importing") /\ UNCHANGED diskVars /\ NoFault
  /\ \/ /\ store' \in {[store EXCEPT ![s] = managed[s]], part}
        /\ Goto(j, "toDone")
     \/ /\ store' \in {store, part}
        /\ Goto(j, "importFailed")

ImportFailed(j) ==
  /\ At(j, "importFailed") /\ NoDisk /\ NoFault
  /\ Goto(j, IF ctxDone[j] THEN "cancelling" ELSE "failing")

\* The goroutine's deferred cancel() and wg.Done().
Exit(j) ==
  /\ pc[j] = "exiting"
  /\ ctxDone' = [ctxDone EXCEPT ![j] = TRUE]
  /\ wg' = wg \ {j}
  /\ Goto(j, "gone")
  /\ UNCHANGED <<registryVars, stopped, shutdown, diskVars, store, faults>>

\* Mutant: a cancelled pipeline returns without publishing a terminal phase.
UpdateUnlessCancelled(j) ==
  \/ Publish(j, "toExport", "exporting", "stage")
  \/ Publish(j, "toAdopt", "adopting", "clearTrash")
  \/ Publish(j, "toImport", "importing", "importing")
  \/ Publish(j, "toDone", "done", "exiting")
  \/ Publish(j, "failing", "failed", "exiting")
  \/ At(j, "cancelling") /\ NoDisk /\ NoFault /\ Goto(j, "exiting")

Update(j) ==
  \/ Publish(j, "toExport", "exporting", "stage")
  \/ Publish(j, "toAdopt", "adopting", "clearTrash")
  \/ Publish(j, "toImport", "importing", "importing")
  \/ Publish(j, "toDone", "done", "exiting")
  \/ Publish(j, "failing", "failed", "exiting")
  \/ Publish(j, "cancelling", "cancelled", "exiting")

Adopt(j) ==
  \/ ClearTrash(j) \/ MoveAside(j) \/ Promote(j) \/ Restore(j)
  \/ DropTrash(j) \/ AdoptFailed(j) \/ AfterAdopt(j)

\* Everything a worker does on its own once the exporter has exited.
Compute(j) ==
  \/ Resolve(j) \/ NewStaging(j) \/ Prepare(j)
  \/ AfterExport(j) \/ AfterFailedExport(j)
  \/ StatRoot(j) \/ Import(j) \/ ImportFailed(j)
  \/ Adopt(j) \/ Update(j) \/ Exit(j)

-----------------------------------------------------------------------------
(* The process                                                             *)

\* A new process: an empty registry, a fresh base context, the same disk.
NewProcess ==
  /\ jobs' = [s \in Source |-> NoJob]
  /\ phase' = [j \in Job |-> "none"]
  /\ pc' = [j \in Job |-> IF pc[j] = "unborn" THEN "unborn" ELSE "gone"]
  /\ ctxDone' = [j \in Job |-> FALSE]
  /\ starter' = Idle /\ stopped' = FALSE /\ wg' = {} /\ shutdown' = "no"
  /\ UNCHANGED <<src, mode, managed, archived, aside>>

\* The sources whose worker may be in the middle of the call at these labels.
Interrupted(labels) == SUBSET {src[j] : j \in {k \in Job : pc[k] \in labels}}

\* The process dies between any two steps and is started again. A RemoveAll it
\* was in the middle of leaves a tree incomplete, an import part of the archive.
Crash ==
  /\ NewProcess
  /\ Fault
  /\ \E S \in Interrupted({"clearTrash", "dropTrash"}) :
       trash' = [s \in Source |-> IF s \in S THEN Torn(trash[s]) ELSE trash[s]]
  /\ \E S \in Interrupted({"stage", "prepare", "exported", "exportFailed", "adoptFailed"}) :
       staging' = [s \in Source |-> IF s \in S THEN Torn(staging[s]) ELSE staging[s]]
  /\ \E S \in Interrupted({"importing"}) :
       store' = [s \in Source |-> IF s \in S THEN Torn(managed[s]) ELSE store[s]]

\* A quit: main returns after Shutdown, and the app is launched again.
Relaunch ==
  /\ shutdown = "returned"
  /\ NewProcess
  /\ UNCHANGED <<staging, trash, store, faults>>

Caller ==
  \/ \E s \in Source, m \in Mode : StartCheck(s, m)
  \/ \E s \in Source : Cancel(s)
  \/ ShutdownStop

Next ==
  \/ Caller
  \/ \E j \in Job : StartRegister(j) \/ ExporterExit(j) \/ Compute(j)
  \/ ShutdownReturn
  \/ Crash
  \/ Relaunch

Spec == Init /\ [][Next]_vars

\* Goroutines are scheduled, so a start() inside its critical section, a
\* Shutdown and every worker step go on. An exporter may hang for ever, unless
\* its context is done: exec.CommandContext then kills it.
Fairness ==
  /\ WF_vars(\E j \in Job : StartRegister(j))
  /\ WF_vars(ShutdownReturn)
  /\ \A j \in Job : WF_vars(Compute(j)) /\ WF_vars(ctxDone[j] /\ ExporterExit(j))

FairSpec == Spec /\ Fairness
-----------------------------------------------------------------------------
(* Properties                                                              *)

\* A worker that has still to publish its end is the one the registry holds
\* for its source, and its job is Active. So no two workers run the pipeline
\* of one source, and update() and setLog(), which look the job up by source,
\* never write into another run's progress (runner.go, start and update).
WorkerOwnsSlot ==
  \A j \in Job : pc[j] \in Working =>
    /\ jobs[src[j]] = j
    /\ phase[j] \in Active

\* Whatever exporters, cancels, crashes and failing renames do, the managed
\* root holds a complete export or does not exist: a partial export is never
\* promoted and a half-removed tree is never restored (stage.go, adopt).
ManagedWhole ==
  \A s \in Source : managed[s] # Absent => managed[s].whole

\* After at most one crash or file-system error, a source that has had a
\* complete archive still has one on disk: in place, moved aside, or staged by
\* the adopt that is about to promote it (stage.go, adopt).
SingleFaultKeepsArchive ==
  \A s \in Source : archived[s] /\ faults <= 1 =>
    \/ Whole(managed[s])
    \/ Whole(trash[s])
    \/ Whole(staging[s]) /\ \E j \in Job : src[j] = s /\ pc[j] \in {"aside", "promote"}

\* Once Shutdown has returned no exporter runs, nothing is renamed and nothing
\* is imported, although a worker may still be there: a start() that passed
\* its checks before stop() adds to the WaitGroup after Wait saw it at zero,
\* and only its context, done from birth, keeps that worker from exporting
\* (runner.go, Shutdown and start).
QuietAfterShutdown ==
  shutdown = "returned" =>
    \A j \in Job : pc[j] \in {"unborn", "gone", "resolve", "statRoot",
                              "failing", "cancelling", "exiting"}

\* When the job a source's card shows is done, the last pass that wrote to the
\* store for the source ran over the archive that is in place: no other job has
\* replaced the archive under the import or after it (runner.go, execute).
DoneMeansImported ==
  \A s \in Source :
    Registered(s) /\ phase[jobs[s]] = "done" => RunOf(store[s]) = RunOf(managed[s])

\* A job that is cancelled while it is exporting (its exporter has not exited)
\* never has its export in the managed root, at that time or later: "Cancel
\* mid-export leaves no partial archive" (runner.go, Cancel and execute).
CancelledExportNeverPromoted ==
  \A j \in Job :
    [](ctxDone[j] /\ pc[j] \in {"resolve", "toExport", "stage", "prepare", "running"}
         => [](\A s \in Source : managed[s] = Absent \/ managed[s].by # j))

\* The archive readers see: the managed root; between adopt's two renames, or
\* after a crash between them, the tree that was moved aside; and, when that
\* crash has been followed by another adopt, the export being promoted.
VisibleArchive ==
  [s \in Source |->
     IF managed[s] # Absent THEN managed[s]
     ELSE IF ~archived[s] THEN Absent
     ELSE IF Whole(trash[s]) THEN trash[s]
     ELSE staging[s]]

VisibleStatus ==
  [s \in Source |-> IF Registered(s) THEN phase[jobs[s]] ELSE "none"]

Archive == INSTANCE AtomicArchive
  WITH status <- VisibleStatus, archive <- VisibleArchive,
       Export <- {t \in Tree : t.whole}

\* With at most one crash or file-system error the job pipeline implements
\* AtomicArchive: statuses move in order, and adopt's four file-system calls
\* are one replacement of the archive by a complete export.
ImplementsAtomicArchive == Archive!Spec

\* A job that Cancel or Shutdown has told to stop ends, whatever the exporter
\* does: the next Enable of the source is not refused for ever (runner.go,
\* Cancel).
CancelEndsJob ==
  \A s \in Source :
    (IsActive(s) /\ ctxDone[jobs[s]]) ~> ~IsActive(s)

\* Shutdown returns: every worker leaves the WaitGroup, a hung exporter's too
\* (runner.go, Shutdown).
ShutdownReturns == (shutdown = "waiting") ~> (shutdown # "waiting")

\* Whoever is told to stop stops, and whoever waits for that is served: no job
\* and no Shutdown waits for ever for an exporter that hangs.
JobsEnd == CancelEndsJob /\ ShutdownReturns
=============================================================================
