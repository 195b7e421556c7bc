---------------------------- MODULE OnboardProofs ----------------------------
(***************************************************************************)
(* Proofs about Onboard, for every set of sources and jobs and every bound *)
(* on faults.                                                              *)
(***************************************************************************)
EXTENDS Onboard, TLAPS

\* A worker step that stays inside the pipeline and writes no shared variable
\* of the runner: every action of ExporterExit and Compute but Update and Exit.
WorkerMove(j) ==
  /\ pc[j] \in Working
  /\ \E l \in Working : pc' = [pc EXCEPT ![j] = l]
  /\ UNCHANGED <<registryVars, lifeVars>>

\* The worker steps that touch no tree.
QuietMove(j) ==
  Resolve(j) \/ AfterAdopt(j) \/ StatRoot(j) \/ ImportFailed(j)

\* The worker steps that touch only the staging tree.
StagingMove(j) ==
  \/ NewStaging(j) \/ Prepare(j) \/ ExporterExit(j)
  \/ AfterExport(j) \/ AfterFailedExport(j) \/ AdoptFailed(j)

\* The worker steps that touch the managed root or the trash.
RootMove(j) ==
  ClearTrash(j) \/ MoveAside(j) \/ Promote(j) \/ Restore(j) \/ DropTrash(j)

PipelineStep(j) == QuietMove(j) \/ StagingMove(j) \/ RootMove(j) \/ Import(j)

-----------------------------------------------------------------------------
(* The inductive invariant                                                 *)

\* The registry: besides WorkerOwnsSlot, a start() past its checks still finds
\* its source free, and an entry is the job that was started for its source.
Slot ==
  /\ WorkerOwnsSlot
  /\ starter # Idle => ~IsActive(starter.src)
  /\ \A s \in Source : Registered(s) => src[jobs[s]] = s /\ pc[jobs[s]] # "unborn"

\* Shutdown: Wait returns only when no worker is left, and a worker born later
\* is born with its context done.
Shut ==
  /\ shutdown # "no" => stopped
  /\ \A j \in Job : pc[j] \notin {"unborn", "gone"} => j \in wg
  /\ QuietAfterShutdown
  /\ shutdown = "returned" =>
       \A j \in Job : pc[j] \in {"resolve", "statRoot"} => ctxDone[j]

\* What a worker in the middle of adopt knows of the three trees.
AdoptKnows(j) ==
  LET s == src[j] IN
  /\ pc[j] \in {"exported", "toAdopt", "clearTrash", "aside", "promote"} => Whole(staging[s])
  /\ pc[j] = "aside" => trash[s] = Absent /\ ~aside[j]
  /\ pc[j] \in {"promote", "restore"} => managed[s] = Absent
  /\ pc[j] = "promote" /\ ~aside[j] => trash[s] = Absent
  /\ pc[j] = "promote" /\ aside[j] => Whole(trash[s])
  /\ pc[j] = "restore" => Whole(trash[s])
  /\ pc[j] = "dropTrash" => Whole(managed[s])

Disk == ManagedWhole /\ \A j \in Job : AdoptKnows(j)

\* Between adopt's two renames with the old archive aside.
MidAdopt(s) == \E j \in Job : src[j] = s /\ pc[j] = "promote" /\ aside[j]

\* The survival of an archive, before and after the first fault.
Kept ==
  /\ \A s \in Source : managed[s] # Absent \/ trash[s] # Absent => archived[s]
  /\ \A s \in Source : archived[s] /\ faults = 0 => managed[s] # Absent \/ MidAdopt(s)
  /\ SingleFaultKeepsArchive

\* The store and the archive agree from the end of an import to the next adopt.
Stored ==
  /\ DoneMeansImported
  /\ \A j \in Job : pc[j] = "toDone" => RunOf(store[src[j]]) = RunOf(managed[src[j]])

-----------------------------------------------------------------------------
(* Lemmas about the operators of Onboard                                   *)

\* A tree that has lost some of its files is still a tree, or absent.
LEMMA TornType ==
  ASSUME NEW t \in MaybeTree
  PROVE  Torn(t) \in MaybeTree
BY DEF Torn, MaybeTree, Tree

\* Losing files does not change which run exported a tree.
LEMMA TornRun ==
  ASSUME NEW t \in MaybeTree
  PROVE  RunOf(Torn(t)) = RunOf(t)
<1>1. CASE t = Absent
  BY <1>1 DEF Torn
<1>2. CASE t # Absent
  <2>1. t \in Tree /\ Torn(t) = [t EXCEPT !.whole = FALSE]
    BY <1>2 DEF MaybeTree, Torn
  <2>2. Torn(t) \in Tree /\ Torn(t).by = t.by
    BY <2>1 DEF Tree
  <2> QED BY <1>2, <2>2, OnboardAssumption DEF RunOf
<1> QED BY <1>1, <1>2

\* Every pipeline step keeps its worker inside the pipeline and leaves the
\* registry, the contexts and the WaitGroup alone.
LEMMA PipelineStepsMove ==
  ASSUME TypeOK, NEW j \in Job, PipelineStep(j)
  PROVE  WorkerMove(j)
<1>1. CASE QuietMove(j)
  BY <1>1 DEF QuietMove, Resolve, AfterAdopt, StatRoot, ImportFailed, At, Goto,
              WorkerMove, Working, Label
<1>2. CASE StagingMove(j)
  BY <1>2 DEF StagingMove, NewStaging, Prepare, ExporterExit, AfterExport,
              AfterFailedExport, AdoptFailed, At, Goto, WorkerMove, Working, Label
<1>3. CASE RootMove(j)
  BY <1>3 DEF RootMove, ClearTrash, MoveAside, Promote, Restore, DropTrash,
              At, Goto, WorkerMove, Working, Label
<1>4. CASE Import(j)
  BY <1>4 DEF Import, At, Goto, WorkerMove, Working, Label
<1> QED BY <1>1, <1>2, <1>3, <1>4 DEF PipelineStep

\* Next, by what its steps touch.
LEMMA NextCases ==
  ASSUME [Next]_vars
  PROVE  \/ \E s \in Source, m \in Mode : StartCheck(s, m)
         \/ \E s \in Source : Cancel(s)
         \/ ShutdownStop
         \/ ShutdownReturn
         \/ Crash
         \/ Relaunch
         \/ UNCHANGED vars
         \/ \E j \in Job : \/ StartRegister(j)
                           \/ PipelineStep(j)
                           \/ Update(j)
                           \/ Exit(j)
BY DEF Next, Caller, Compute, Adopt, PipelineStep, QuietMove, StagingMove, RootMove

-----------------------------------------------------------------------------
(* Type correctness                                                        *)

LEMMA InitType == Init => TypeOK
<1> SUFFICES ASSUME Init PROVE TypeOK OBVIOUS
<1>1. (CHOOSE s \in Source : TRUE) \in Source
  BY OnboardAssumption
<1>2. [by |-> Prior, whole |-> TRUE] \in Tree
  BY DEF Tree
<1>3. managed \in [Source -> MaybeTree]
  BY <1>2 DEF Init, MaybeTree
<1>4. /\ jobs \in [Source -> Job \union {NoJob}] /\ phase \in [Job -> Phase]
      /\ src \in [Job -> Source] /\ mode \in [Job -> Mode] /\ pc \in [Job -> Label]
  BY <1>1 DEF Init, Phase, Label, Mode
<1>5. /\ starter \in [src : Source, mode : Mode] \union {Idle}
      /\ stopped \in BOOLEAN /\ wg \in SUBSET Job
      /\ shutdown \in {"no", "waiting", "returned"}
  BY DEF Init
<1>8. faults \in 0..MaxFaults
  BY OnboardAssumption DEF Init
<1>6. /\ staging \in [Source -> MaybeTree] /\ trash \in [Source -> MaybeTree]
      /\ store \in [Source -> MaybeTree] /\ archived \in [Source -> BOOLEAN]
  BY <1>3 DEF Init, MaybeTree
<1>7. aside \in [Job -> BOOLEAN] /\ ctxDone \in [Job -> BOOLEAN]
  BY DEF Init
<1> QED
  BY <1>3, <1>4, <1>5, <1>6, <1>7, <1>8 DEF TypeOK

\* The disk variables have their type after every pipeline step.
LEMMA PipelineType ==
  ASSUME TypeOK, NEW j \in Job, PipelineStep(j)
  PROVE  TypeOK'
<1>0. WorkerMove(j)
  BY PipelineStepsMove
<1>1. /\ jobs' \in [Source -> Job \union {NoJob}]
      /\ phase' \in [Job -> Phase]
      /\ src' \in [Job -> Source] /\ mode' \in [Job -> Mode]
      /\ pc' \in [Job -> Label]
      /\ ctxDone' \in [Job -> BOOLEAN]
      /\ starter' \in [src : Source, mode : Mode] \union {Idle}
      /\ stopped' \in BOOLEAN
      /\ wg' \in SUBSET Job
      /\ shutdown' \in {"no", "waiting", "returned"}
  BY <1>0 DEF WorkerMove, TypeOK, registryVars, lifeVars, Working
<1>2. src[j] \in Source
  BY DEF TypeOK
<1>3. \A b \in BOOLEAN : [by |-> j, whole |-> b] \in MaybeTree
  BY DEF MaybeTree, Tree
<1>4. \A t \in MaybeTree : Torn(t) \in MaybeTree
  BY TornType
<1>5. Absent \in MaybeTree
  BY DEF MaybeTree
<1>6. faults' \in 0..MaxFaults
  <2>1. NoFault \/ Fault
    BY DEF PipelineStep, QuietMove, StagingMove, RootMove, Resolve, AfterAdopt, StatRoot,
           ImportFailed, NewStaging, Prepare, ExporterExit, AfterExport, AfterFailedExport,
           AdoptFailed, ClearTrash, MoveAside, Promote, Restore, DropTrash, Import
  <2> QED BY <2>1, OnboardAssumption DEF NoFault, Fault, TypeOK
<1>7. staging' \in [Source -> MaybeTree]
  <2>1. staging' = staging \/ \E t \in MaybeTree : staging' = [staging EXCEPT ![src[j]] = t]
    <3>1. CASE NewStaging(j)
      BY <3>1, <1>2, <1>3, <1>4 DEF NewStaging, TypeOK
    <3>2. CASE ExporterExit(j)
      BY <3>2, <1>3 DEF ExporterExit
    <3>3. CASE Prepare(j) \/ AfterExport(j) \/ AfterFailedExport(j) \/ AdoptFailed(j) \/ Promote(j)
      BY <3>3, <1>5 DEF Prepare, AfterExport, AfterFailedExport, AdoptFailed, Promote, Discard
    <3>4. CASE \/ QuietMove(j) \/ Import(j) \/ ClearTrash(j) \/ MoveAside(j)
               \/ Restore(j) \/ DropTrash(j)
      BY <3>4 DEF QuietMove, Resolve, AfterAdopt, StatRoot, ImportFailed, NoDisk, diskVars,
                  Import, ClearTrash, MoveAside, Restore, DropTrash
    <3> QED BY <3>1, <3>2, <3>3, <3>4 DEF PipelineStep, StagingMove, RootMove
  <2> QED BY <2>1, <1>2 DEF TypeOK
<1>9. /\ managed' \in [Source -> MaybeTree] /\ trash' \in [Source -> MaybeTree]
      /\ store' \in [Source -> MaybeTree]
  <2>1. CASE QuietMove(j)
    BY <2>1 DEF QuietMove, Resolve, AfterAdopt, StatRoot, ImportFailed, NoDisk, diskVars, TypeOK
  <2>2. CASE StagingMove(j)
    BY <2>2 DEF StagingMove, NewStaging, Prepare, ExporterExit, AfterExport,
                AfterFailedExport, AdoptFailed, OnlyStaging, TypeOK
  <2>3. CASE RootMove(j)
    <3>1. CASE ClearTrash(j)
      BY <3>1, <1>2, <1>4, <1>5 DEF ClearTrash, At, TypeOK
    <3>2. CASE MoveAside(j)
      BY <3>2, <1>2, <1>5 DEF MoveAside, At, TypeOK
    <3>3. CASE Promote(j)
      BY <3>3, <1>2, <1>5 DEF Promote, At, TypeOK
    <3>4. CASE Restore(j)
      BY <3>4, <1>2, <1>5 DEF Restore, At, TypeOK
    <3>5. CASE DropTrash(j)
      BY <3>5, <1>2, <1>4, <1>5 DEF DropTrash, At, TypeOK
    <3> QED BY <2>3, <3>1, <3>2, <3>3, <3>4, <3>5 DEF RootMove
  <2>4. CASE Import(j)
    BY <2>4, <1>2, <1>4 DEF Import, diskVars, TypeOK
  <2> QED BY <2>1, <2>2, <2>3, <2>4 DEF PipelineStep
<1>8. aside' \in [Job -> BOOLEAN] /\ archived' \in [Source -> BOOLEAN]
  BY <1>2 DEF PipelineStep, QuietMove, Resolve, AfterAdopt, StatRoot, ImportFailed, NoDisk,
              diskVars, Import, StagingMove, NewStaging, Prepare, ExporterExit, AfterExport,
              AfterFailedExport, AdoptFailed, OnlyStaging, RootMove, ClearTrash, MoveAside,
              Promote, Restore, DropTrash, TypeOK
<1> QED BY <1>1, <1>6, <1>7, <1>8, <1>9 DEF TypeOK

LEMMA NewProcessType ==
  ASSUME TypeOK, NewProcess, faults' \in 0..MaxFaults,
         staging' \in [Source -> MaybeTree], trash' \in [Source -> MaybeTree],
         store' \in [Source -> MaybeTree]
  PROVE  TypeOK'
<1>1. /\ jobs' \in [Source -> Job \union {NoJob}] /\ phase' \in [Job -> Phase]
      /\ src' \in [Job -> Source] /\ mode' \in [Job -> Mode] /\ pc' \in [Job -> Label]
  BY DEF TypeOK, NewProcess, Phase, Label
<1>2. /\ starter' \in [src : Source, mode : Mode] \union {Idle}
      /\ stopped' \in BOOLEAN /\ wg' \in SUBSET Job
      /\ shutdown' \in {"no", "waiting", "returned"}
      /\ aside' \in [Job -> BOOLEAN] /\ ctxDone' \in [Job -> BOOLEAN]
  BY DEF TypeOK, NewProcess
<1>3. managed' \in [Source -> MaybeTree] /\ archived' \in [Source -> BOOLEAN]
  BY DEF TypeOK, NewProcess
<1> QED BY <1>1, <1>2, <1>3 DEF TypeOK

LEMMA NextType == TypeOK /\ [Next]_vars => TypeOK'
<1> SUFFICES ASSUME TypeOK, [Next]_vars PROVE TypeOK'
  OBVIOUS
<1>1. ASSUME NEW s \in Source, NEW m \in Mode, StartCheck(s, m) PROVE TypeOK'
  BY <1>1 DEF StartCheck, TypeOK, lifeVars, diskVars
<1>2. ASSUME NEW s \in Source, Cancel(s) PROVE TypeOK'
  BY <1>2 DEF Cancel, TypeOK, registryVars, diskVars
<1>3. CASE ShutdownStop
  BY <1>3 DEF ShutdownStop, TypeOK, registryVars, diskVars
<1>4. CASE ShutdownReturn
  BY <1>4 DEF ShutdownReturn, TypeOK, registryVars, diskVars
<1>5. CASE Crash
  <2>1. faults' \in 0..MaxFaults
    BY <1>5, OnboardAssumption DEF Crash, Fault, TypeOK
  <2>2. /\ staging' \in [Source -> MaybeTree]
        /\ trash' \in [Source -> MaybeTree]
        /\ store' \in [Source -> MaybeTree]
    BY <1>5, TornType DEF Crash, TypeOK
  <2> QED BY <1>5, <2>1, <2>2, NewProcessType DEF Crash
<1>6. CASE Relaunch
  BY <1>6, NewProcessType DEF Relaunch, TypeOK
<1>7. ASSUME NEW j \in Job, StartRegister(j) PROVE TypeOK'
  <2>1. starter.src \in Source /\ starter.mode \in Mode
    BY <1>7 DEF StartRegister, RegisterAs, TypeOK
  <2> QED
    BY <1>7, <2>1
       DEF StartRegister, RegisterAs, TypeOK, Phase, Active, Label, diskVars
<1>8. ASSUME NEW j \in Job, PipelineStep(j) PROVE TypeOK'
  BY <1>8, PipelineType
<1>9. ASSUME NEW j \in Job, Update(j) PROVE TypeOK'
  <2>1. phase' \in [Job -> Phase]
    BY <1>9 DEF Update, Publish, TypeOK, Phase, Active, Terminal
  <2>2. pc' \in [Job -> Label]
    BY <1>9 DEF Update, Publish, Goto, TypeOK, Label
  <2> QED
    BY <1>9, <2>1, <2>2 DEF Update, Publish, TypeOK, lifeVars, diskVars
<1>10. ASSUME NEW j \in Job, Exit(j) PROVE TypeOK'
  BY <1>10 DEF Exit, Goto, TypeOK, Label, registryVars, diskVars
<1>11. CASE UNCHANGED vars
  BY <1>11 DEF vars, registryVars, lifeVars, diskVars, TypeOK
<1> QED
  BY <1>1, <1>2, <1>3, <1>4, <1>5, <1>6, <1>7, <1>8, <1>9, <1>10, <1>11, NextCases

\* The variables of Onboard always have their types.
THEOREM TypeCorrect == Spec => []TypeOK
  BY InitType, NextType, PTL DEF Spec

-----------------------------------------------------------------------------
(* The registry                                                            *)

LEMMA InitSlot == Init => Slot
<1> SUFFICES ASSUME Init PROVE Slot OBVIOUS
<1>1. \A j \in Job : pc[j] \notin Working
  BY DEF Init, Working
<1>2. \A s \in Source : ~Registered(s)
  BY DEF Init, Registered
<1>3. starter = Idle
  BY DEF Init
<1> QED BY <1>1, <1>2, <1>3 DEF Slot, WorkerOwnsSlot

\* A worker inside the pipeline is the only one of its source.
LEMMA Alone ==
  ASSUME Slot, NEW j \in Job, NEW k \in Job, j # k, src[j] = src[k], pc[j] \in Working
  PROVE  pc[k] \notin Working
BY DEF Slot, WorkerOwnsSlot

LEMMA NextSlot == TypeOK /\ Slot /\ [Next]_vars => Slot'
<1> SUFFICES ASSUME TypeOK, Slot, [Next]_vars PROVE Slot'
  OBVIOUS
<1>a. \A s \in Source : IsActive(s) => phase[jobs[s]] \in Active /\ Registered(s)
  BY DEF IsActive
<1>1. ASSUME NEW s \in Source, NEW m \in Mode, StartCheck(s, m) PROVE Slot'
  BY <1>1 DEF StartCheck, Slot, WorkerOwnsSlot, IsActive, Registered
<1>2. CASE /\ UNCHANGED <<registryVars, pc>>
  BY <1>2 DEF Slot, WorkerOwnsSlot, IsActive, Registered, registryVars
<1>3. CASE NewProcess
  <2>1. \A j \in Job : pc'[j] \notin Working
    BY <1>3 DEF NewProcess, Working
  <2> QED BY <1>3, <2>1 DEF NewProcess, Slot, WorkerOwnsSlot, Registered
<1>4. ASSUME NEW j \in Job, StartRegister(j) PROVE Slot'
  <2>1. starter.src \in Source /\ starter.mode \in Mode
    BY <1>4 DEF StartRegister, RegisterAs, TypeOK
  <2>2. \A k \in Job : pc[k] \in Working => src[k] # starter.src /\ k # j
    <3>1. \A k \in Job : pc[k] \in Working /\ src[k] = starter.src => IsActive(starter.src)
      BY OnboardAssumption DEF Slot, WorkerOwnsSlot, IsActive, Registered
    <3>2. starter # Idle /\ pc[j] \notin Working
      BY <1>4 DEF StartRegister, RegisterAs, Working
    <3> QED BY <3>1, <3>2 DEF Slot
  <2>3. \A k \in Job : k # j => /\ pc'[k] = pc[k] /\ phase'[k] = phase[k]
                                /\ src'[k] = src[k]
    BY <1>4 DEF StartRegister, RegisterAs, TypeOK
  <2>4. /\ pc'[j] \in {"resolve", "statRoot"} /\ phase'[j] = "queued"
        /\ src'[j] = starter.src /\ jobs'[starter.src] = j
    BY <1>4, <2>1 DEF StartRegister, RegisterAs, TypeOK
  <2>5. \A s \in Source : s # starter.src => jobs'[s] = jobs[s]
    BY <1>4 DEF StartRegister, RegisterAs, TypeOK
  <2>6. \A s \in Source : Registered(s) => jobs[s] \in Job /\ jobs[s] # j
    BY <1>4 DEF StartRegister, RegisterAs, Slot, Registered, TypeOK
  <2>7. WorkerOwnsSlot'
    <3> SUFFICES ASSUME NEW k \in Job, pc'[k] \in Working
                 PROVE  jobs'[src'[k]] = k /\ phase'[k] \in Active
      BY DEF WorkerOwnsSlot
    <3>1. CASE k = j
      BY <3>1, <2>4 DEF Active
    <3>2. CASE k # j
      BY <3>2, <2>2, <2>3, <2>5 DEF Slot, WorkerOwnsSlot, TypeOK
    <3> QED BY <3>1, <3>2
  <2>8. \A s \in Source : jobs'[s] # NoJob => src'[jobs'[s]] = s /\ pc'[jobs'[s]] # "unborn"
    BY <2>3, <2>4, <2>5, <2>6 DEF Slot, Registered
  <2> QED BY <1>4, <2>7, <2>8 DEF Slot, StartRegister, RegisterAs, Registered
<1>5. ASSUME NEW j \in Job, PipelineStep(j) PROVE Slot'
  <2>1. WorkerMove(j)
    BY <1>5, PipelineStepsMove
  <2>2. pc'[j] # "unborn" /\ pc'[j] \in Working /\ \A k \in Job : k # j => pc'[k] = pc[k]
    BY <2>1 DEF WorkerMove, TypeOK, Working
  <2> QED BY <2>1, <2>2 DEF WorkerMove, Slot, WorkerOwnsSlot, IsActive, Registered,
                             registryVars, TypeOK
<1>6. ASSUME NEW j \in Job, Update(j) PROVE Slot'
  <2>1. PICK p \in Phase, l \in Label :
          /\ phase' = [phase EXCEPT ![j] = p]
          /\ pc' = [pc EXCEPT ![j] = l]
          /\ l \in Working => p \in Active
          /\ l # "unborn"
    <3>1. pc[j] \in Working
      BY <1>6 DEF Update, Publish, Working, Label
    <3>2. jobs[src[j]] = j /\ Registered(src[j])
      BY <3>1, OnboardAssumption DEF Slot, WorkerOwnsSlot, Registered
    <3> QED BY <1>6, <3>2 DEF Update, Publish, Goto, Phase, Active, Terminal, Label, Working
  <2>2. UNCHANGED <<jobs, src, mode, starter>> /\ starter = Idle /\ pc[j] \in Working
    BY <1>6 DEF Update, Publish, Working, Label
  <2>3. \A k \in Job : k # j => pc'[k] = pc[k] /\ phase'[k] = phase[k]
    BY <2>1 DEF TypeOK
  <2>4. pc'[j] # "unborn" /\ (pc'[j] \in Working => phase'[j] \in Active)
    BY <2>1 DEF TypeOK
  <2> QED BY <2>2, <2>3, <2>4 DEF Slot, WorkerOwnsSlot, Registered, TypeOK
<1>7. ASSUME NEW j \in Job, Exit(j) PROVE Slot'
  <2>1. /\ pc'[j] = "gone" /\ pc'[j] \notin Working
        /\ \A k \in Job : k # j => pc'[k] = pc[k]
    BY <1>7 DEF Exit, Goto, TypeOK, Working
  <2> QED BY <1>7, <2>1 DEF Exit, Slot, WorkerOwnsSlot, IsActive, Registered,
                             registryVars, TypeOK
<1> QED
  BY <1>1, <1>2, <1>3, <1>4, <1>5, <1>6, <1>7, NextCases
     DEF Cancel, ShutdownStop, ShutdownReturn, Crash, Relaunch, vars

LEMMA SlotInvariant == Spec => [](TypeOK /\ Slot)
<1>1. Init => TypeOK /\ Slot
  BY InitType, InitSlot
<1>2. TypeOK /\ Slot /\ [Next]_vars => (TypeOK /\ Slot)'
  BY NextType, NextSlot
<1> QED BY <1>1, <1>2, PTL DEF Spec

\* Job exclusivity: a worker that has still to publish its end is the one the
\* registry holds for its source, whatever callers, cancels and crashes do.
THEOREM SlotOwned == Spec => []WorkerOwnsSlot
  BY SlotInvariant, PTL DEF Slot

-----------------------------------------------------------------------------
(* Shutdown                                                                *)

LEMMA InitShut == Init => Shut
BY DEF Init, Shut, QuietAfterShutdown

LEMMA NextShut == TypeOK /\ Shut /\ [Next]_vars => Shut'
<1> SUFFICES ASSUME TypeOK, Shut, [Next]_vars PROVE Shut'
  OBVIOUS
<1>1. CASE UNCHANGED <<pc, lifeVars>>
  BY <1>1 DEF Shut, QuietAfterShutdown, lifeVars
<1>2. CASE ShutdownStop
  BY <1>2 DEF ShutdownStop, Shut, QuietAfterShutdown
<1>3. CASE ShutdownReturn
  BY <1>3 DEF ShutdownReturn, Shut, QuietAfterShutdown
<1>4. CASE NewProcess
  <2>1. \A j \in Job : pc'[j] \in {"unborn", "gone"}
    BY <1>4 DEF NewProcess
  <2> QED BY <1>4, <2>1 DEF NewProcess, Shut, QuietAfterShutdown
<1>5. ASSUME NEW j \in Job, StartRegister(j) PROVE Shut'
  <2>1. /\ \A k \in Job : k # j => pc'[k] = pc[k] /\ ctxDone'[k] = ctxDone[k]
        /\ pc'[j] \in {"resolve", "statRoot"}
        /\ ctxDone'[j] = stopped
    BY <1>5 DEF StartRegister, RegisterAs, TypeOK
  <2>2. wg' = wg \union {j} /\ UNCHANGED <<stopped, shutdown>>
    BY <1>5 DEF StartRegister, RegisterAs
  <2> QED BY <2>1, <2>2 DEF Shut, QuietAfterShutdown, TypeOK
<1>6. ASSUME NEW j \in Job, PipelineStep(j) PROVE Shut'
  <2>1. WorkerMove(j)
    BY <1>6, PipelineStepsMove
  <2>2. /\ \A k \in Job : k # j => pc'[k] = pc[k]
        /\ pc[j] \notin {"unborn", "gone"}
        /\ UNCHANGED lifeVars
    BY <2>1 DEF WorkerMove, TypeOK, Working
  <2>3. ASSUME shutdown = "returned" PROVE pc'[j] \in {"failing", "cancelling"}
    <3>1. pc[j] \in {"resolve", "statRoot", "failing", "cancelling", "exiting"}
      BY <2>2, <2>3 DEF Shut, QuietAfterShutdown
    <3>2. pc[j] \in {"resolve", "statRoot"} => ctxDone[j]
      BY <2>3 DEF Shut
    <3>3. Resolve(j) \/ StatRoot(j)
      BY <1>6, <3>1 DEF PipelineStep, QuietMove, AfterAdopt, ImportFailed, StagingMove,
             NewStaging, Prepare, ExporterExit, AfterExport, AfterFailedExport, AdoptFailed,
             RootMove, ClearTrash, MoveAside, Promote, Restore, DropTrash, Import, At
    <3>4. pc[j] \in {"resolve", "statRoot"}
      BY <3>3 DEF Resolve, StatRoot, At
    <3> QED BY <3>2, <3>3, <3>4 DEF Resolve, StatRoot, At, Goto, TypeOK
  <2> QED BY <2>2, <2>3 DEF Shut, QuietAfterShutdown, lifeVars
<1>7. ASSUME NEW j \in Job, Update(j) PROVE Shut'
  <2>1. /\ \A k \in Job : k # j => pc'[k] = pc[k]
        /\ pc[j] \notin {"unborn", "gone"}
        /\ pc[j] \in {"failing", "cancelling"} => pc'[j] = "exiting"
        /\ pc'[j] \notin {"resolve", "statRoot"}
        /\ pc[j] \notin {"resolve", "statRoot", "exiting"}
        /\ UNCHANGED lifeVars
    BY <1>7 DEF Update, Publish, Goto, TypeOK
  <2> QED BY <2>1 DEF Shut, QuietAfterShutdown, lifeVars
<1>8. ASSUME NEW j \in Job, Exit(j) PROVE Shut'
  <2>1. /\ \A k \in Job : k # j => pc'[k] = pc[k] /\ ctxDone'[k] = ctxDone[k]
        /\ pc'[j] = "gone"
    BY <1>8 DEF Exit, Goto, TypeOK
  <2>2. wg' = wg \ {j} /\ UNCHANGED <<stopped, shutdown>>
    BY <1>8 DEF Exit
  <2> QED BY <2>1, <2>2 DEF Shut, QuietAfterShutdown
<1>9. ASSUME NEW s \in Source, Cancel(s) PROVE Shut'
  <2>1. /\ UNCHANGED <<pc, stopped, wg, shutdown>>
        /\ \A k \in Job : ctxDone[k] => ctxDone'[k]
    BY <1>9 DEF Cancel, IsActive, Registered, TypeOK
  <2> QED BY <2>1 DEF Shut, QuietAfterShutdown
<1> QED
  BY <1>1, <1>2, <1>3, <1>4, <1>5, <1>6, <1>7, <1>8, <1>9, NextCases
     DEF StartCheck, Crash, Relaunch, vars

\* Once Shutdown has returned no exporter runs, no directory is renamed and
\* nothing is imported, for every interleaving of start() with Shutdown.
THEOREM QuietShutdown == Spec => []QuietAfterShutdown
<1>1. Init => TypeOK /\ Shut
  BY InitType, InitShut
<1>2. TypeOK /\ Shut /\ [Next]_vars => (TypeOK /\ Shut)'
  BY NextType, NextShut
<1>3. TypeOK /\ Shut => QuietAfterShutdown
  BY DEF Shut
<1> QED BY <1>1, <1>2, <1>3, PTL DEF Spec

-----------------------------------------------------------------------------
(* The three trees                                                         *)

\* A pipeline step of j leaves every other source's trees alone, and every
\* other worker's memory.
LEMMA OtherSources ==
  ASSUME TypeOK, NEW j \in Job, PipelineStep(j)
  PROVE  /\ \A s \in Source : s # src[j] =>
              /\ staging'[s] = staging[s] /\ managed'[s] = managed[s]
              /\ trash'[s] = trash[s] /\ store'[s] = store[s]
              /\ archived'[s] = archived[s]
         /\ \A k \in Job : k # j => aside'[k] = aside[k]
<1>1. CASE QuietMove(j)
  BY <1>1 DEF QuietMove, Resolve, AfterAdopt, StatRoot, ImportFailed, NoDisk, diskVars
<1>2. CASE StagingMove(j)
  <2>1. UNCHANGED <<managed, trash, archived, aside, store>>
    BY <1>2 DEF StagingMove, NewStaging, Prepare, ExporterExit, AfterExport,
                AfterFailedExport, AdoptFailed, OnlyStaging
  <2>2. \A s \in Source : s # src[j] => staging'[s] = staging[s]
    BY <1>2 DEF StagingMove, NewStaging, Prepare, ExporterExit, AfterExport,
                AfterFailedExport, AdoptFailed, Discard, TypeOK
  <2> QED BY <2>1, <2>2
<1>3. CASE RootMove(j)
  <2>1. CASE ClearTrash(j) \/ DropTrash(j)
    BY <2>1 DEF ClearTrash, DropTrash, At, TypeOK
  <2>2. CASE MoveAside(j)
    BY <2>2 DEF MoveAside, At, TypeOK
  <2>3. CASE Promote(j)
    BY <2>3 DEF Promote, At, TypeOK
  <2>4. CASE Restore(j)
    BY <2>4 DEF Restore, At, TypeOK
  <2> QED BY <1>3, <2>1, <2>2, <2>3, <2>4 DEF RootMove
<1>4. CASE Import(j)
  BY <1>4 DEF Import, diskVars, TypeOK
<1> QED BY <1>1, <1>2, <1>3, <1>4 DEF PipelineStep

\* After its own step a worker still knows what AdoptKnows says, and the root of
\* its source is still absent or complete.
LEMMA OwnStepKnows ==
  ASSUME TypeOK, Disk, NEW j \in Job, PipelineStep(j)
  PROVE  AdoptKnows(j)' /\ (managed'[src[j]] # Absent => managed'[src[j]].whole)
<1> DEFINE s == src[j]
<1>0. s \in Source /\ src' = src /\ pc[j] \in Working
  BY PipelineStepsMove DEF WorkerMove, registryVars, TypeOK
<1>1. /\ managed[s] # Absent => managed[s].whole
      /\ AdoptKnows(j)
  BY <1>0 DEF Disk, ManagedWhole
<1>2. CASE QuietMove(j) \/ Import(j)
  <2>1. pc'[j] \notin {"exported", "toAdopt", "clearTrash", "aside", "promote", "restore", "dropTrash"}
    BY <1>2 DEF QuietMove, Resolve, AfterAdopt, StatRoot, ImportFailed, Import, At, Goto, TypeOK
  <2>2. managed' = managed
    BY <1>2 DEF QuietMove, Resolve, AfterAdopt, StatRoot, ImportFailed, Import, NoDisk, diskVars
  <2> QED BY <1>0, <1>1, <2>1, <2>2 DEF AdoptKnows
<1>3. CASE StagingMove(j)
  <2>1. UNCHANGED <<managed, trash, aside>>
    BY <1>3 DEF StagingMove, NewStaging, Prepare, ExporterExit, AfterExport,
                AfterFailedExport, AdoptFailed, OnlyStaging
  <2>2. /\ pc'[j] \notin {"clearTrash", "aside", "promote", "restore", "dropTrash"}
        /\ pc'[j] \in {"exported", "toAdopt"} => Whole(staging'[s])
    <3>1. CASE ExporterExit(j)
      <4>1. Absent \notin Tree /\ [by |-> j, whole |-> TRUE] \in Tree
        BY OnboardAssumption DEF Tree
      <4>2. Whole([by |-> j, whole |-> TRUE])
        BY <4>1 DEF Whole
      <4> QED BY <3>1, <4>2, <1>0 DEF ExporterExit, At, Goto, TypeOK
    <3>2. CASE AfterExport(j)
      BY <3>2, <1>0, <1>1 DEF AfterExport, At, Goto, TypeOK, AdoptKnows
    <3>3. CASE NewStaging(j) \/ Prepare(j) \/ AfterFailedExport(j) \/ AdoptFailed(j)
      BY <3>3 DEF NewStaging, Prepare, AfterFailedExport, AdoptFailed, At, Goto, TypeOK
    <3> QED BY <1>3, <3>1, <3>2, <3>3 DEF StagingMove
  <2> QED BY <1>0, <1>1, <2>1, <2>2 DEF AdoptKnows
<1>4. CASE ClearTrash(j)
  <2>1. /\ UNCHANGED <<staging, managed>> /\ ~aside'[j]
        /\ \/ pc'[j] = "aside" /\ trash'[s] = Absent
           \/ pc'[j] = "adoptFailed"
    BY <1>4, <1>0 DEF ClearTrash, At, Goto, TypeOK
  <2>2. Whole(staging[s])
    BY <1>4, <1>1 DEF ClearTrash, At, AdoptKnows
  <2> QED BY <2>1, <2>2, <1>0, <1>1 DEF AdoptKnows
<1>5. CASE MoveAside(j)
  <2>1. /\ staging' = staging
        /\ \/ /\ pc'[j] = "promote" /\ managed'[s] = Absent
              /\ trash'[s] = managed[s] /\ managed[s] # Absent
              /\ aside'[j]
           \/ /\ pc'[j] = "promote" /\ managed[s] = Absent
              /\ UNCHANGED <<managed, trash, aside>>
           \/ pc'[j] = "adoptFailed" /\ managed' = managed
    BY <1>5, <1>0 DEF MoveAside, At, Goto, TypeOK
  <2>2. Whole(staging[s]) /\ trash[s] = Absent /\ ~aside[j]
    BY <1>5, <1>1 DEF MoveAside, At, AdoptKnows
  <2> QED BY <2>1, <2>2, <1>0, <1>1 DEF AdoptKnows, Whole
<1>6. CASE Promote(j)
  <2>1. /\ trash' = trash
        /\ \/ /\ pc'[j] \in {"dropTrash", "adopted"}
              /\ managed'[s] = staging[s]
           \/ /\ pc'[j] = "restore" /\ aside[j]
              /\ UNCHANGED <<managed, staging>>
           \/ pc'[j] = "adoptFailed" /\ managed' = managed
    BY <1>6, <1>0 DEF Promote, At, Goto, TypeOK
  <2>2. /\ Whole(staging[s]) /\ managed[s] = Absent
        /\ aside[j] => Whole(trash[s])
    BY <1>6, <1>1 DEF Promote, At, AdoptKnows
  <2> QED BY <2>1, <2>2, <1>0, <1>1 DEF AdoptKnows, Whole
<1>7. CASE Restore(j)
  <2>1. /\ pc'[j] = "adoptFailed"
        /\ managed'[s] = trash[s] \/ managed' = managed
    BY <1>7, <1>0 DEF Restore, At, Goto, TypeOK
  <2>2. Whole(trash[s])
    BY <1>7, <1>1 DEF Restore, At, AdoptKnows
  <2> QED BY <2>1, <2>2, <1>0, <1>1 DEF AdoptKnows, Whole
<1>8. CASE DropTrash(j)
  <2>1. pc'[j] \in {"adopted", "adoptFailed"} /\ managed' = managed
    BY <1>8, <1>0 DEF DropTrash, At, Goto, TypeOK
  <2> QED BY <2>1, <1>0, <1>1 DEF AdoptKnows
<1> QED BY <1>2, <1>3, <1>4, <1>5, <1>6, <1>7, <1>8 DEF PipelineStep, RootMove

LEMMA InitDisk == Init => Disk
<1> SUFFICES ASSUME Init PROVE Disk OBVIOUS
<1>1. \A j \in Job : pc[j] = "unborn"
  BY DEF Init
<1>2. \A s \in Source : managed[s] # Absent => managed[s].whole
  BY DEF Init
<1> QED BY <1>1, <1>2 DEF Disk, ManagedWhole, AdoptKnows

LEMMA NextDisk == TypeOK /\ Slot /\ Disk /\ [Next]_vars => Disk'
<1> SUFFICES ASSUME TypeOK, Slot, Disk, [Next]_vars PROVE Disk'
  OBVIOUS
<1>1. CASE UNCHANGED <<pc, src, staging, managed, trash, aside>>
  BY <1>1 DEF Disk, ManagedWhole, AdoptKnows
<1>2. CASE NewProcess
  <2>1. managed' = managed /\ \A j \in Job : pc'[j] \in {"unborn", "gone"}
    BY <1>2 DEF NewProcess
  <2> QED BY <2>1 DEF Disk, ManagedWhole, AdoptKnows
<1>3. ASSUME NEW j \in Job, StartRegister(j) PROVE Disk'
  <2>1. /\ \A k \in Job : k # j => pc'[k] = pc[k] /\ src'[k] = src[k]
        /\ pc'[j] \in {"resolve", "statRoot"}
    BY <1>3 DEF StartRegister, RegisterAs, TypeOK
  <2>2. UNCHANGED <<staging, managed, trash, aside>>
    BY <1>3 DEF StartRegister, RegisterAs, diskVars
  <2> QED BY <2>1, <2>2 DEF Disk, ManagedWhole, AdoptKnows
<1>4. ASSUME NEW j \in Job, PipelineStep(j) PROVE Disk'
  <2>0. /\ pc[j] \in Working /\ src' = src /\ src[j] \in Source
        /\ \A k \in Job : k # j => pc'[k] = pc[k]
    BY <1>4, PipelineStepsMove DEF WorkerMove, registryVars, TypeOK
  <2>1. ManagedWhole'
    BY <1>4, <2>0, OwnStepKnows, OtherSources DEF Disk, ManagedWhole
  <2>2. ASSUME NEW k \in Job PROVE AdoptKnows(k)'
    <3>1. CASE k = j
      BY <3>1, <1>4, OwnStepKnows
    <3>2. CASE k # j /\ src[k] = src[j]
      <4>1. pc[k] \notin Working
        BY <3>2, <2>0, Alone
      <4>2. pc'[k] \notin {"exported", "toAdopt", "clearTrash", "aside", "promote",
                          "restore", "dropTrash"}
        BY <3>2, <4>1, <2>0 DEF Working, Label
      <4> QED BY <4>2 DEF AdoptKnows
    <3>3. CASE src[k] # src[j]
      <4>1. /\ staging'[src[k]] = staging[src[k]] /\ managed'[src[k]] = managed[src[k]]
            /\ trash'[src[k]] = trash[src[k]] /\ aside'[k] = aside[k] /\ pc'[k] = pc[k]
        BY <3>3, <1>4, <2>0, OtherSources DEF TypeOK
      <4> QED BY <4>1, <2>0 DEF AdoptKnows, Disk
    <3> QED BY <3>1, <3>2, <3>3
  <2> QED BY <2>1, <2>2 DEF Disk
<1>5. ASSUME NEW j \in Job, Update(j) \/ Exit(j) PROVE Disk'
  <2>1. UNCHANGED <<src, staging, managed, trash, aside>>
    BY <1>5 DEF Update, Publish, Exit, registryVars, diskVars
  <2>2. \A k \in Job : k # j => pc'[k] = pc[k]
    BY <1>5 DEF Update, Publish, Exit, Goto, TypeOK
  <2>3. /\ pc'[j] \notin {"exported", "toAdopt", "aside", "promote", "restore", "dropTrash"}
        /\ pc'[j] = "clearTrash" => pc[j] = "toAdopt"
    BY <1>5 DEF Update, Publish, Exit, Goto, TypeOK
  <2> QED BY <2>1, <2>2, <2>3 DEF Disk, ManagedWhole, AdoptKnows
<1> QED
  BY <1>1, <1>2, <1>3, <1>4, <1>5, NextCases
     DEF StartCheck, Cancel, ShutdownStop, ShutdownReturn, Crash, Relaunch, vars,
         registryVars, diskVars

LEMMA DiskInvariant == Spec => [](TypeOK /\ Slot /\ Disk)
<1>1. Init => TypeOK /\ Slot /\ Disk
  BY InitType, InitSlot, InitDisk
<1>2. TypeOK /\ Slot /\ Disk /\ [Next]_vars => (TypeOK /\ Slot /\ Disk)'
  BY NextType, NextSlot, NextDisk
<1> QED BY <1>1, <1>2, PTL DEF Spec

\* The managed root is always absent or a complete export, for any number of
\* jobs, crashes and failing renames.
THEOREM ManagedRootWhole == Spec => []ManagedWhole
  BY DiskInvariant, PTL DEF Disk

-----------------------------------------------------------------------------
(* The archive survives one fault                                          *)

\* Kept, for one source.
KeptOf(s) ==
  /\ managed[s] # Absent \/ trash[s] # Absent => archived[s]
  /\ archived[s] /\ faults = 0 => managed[s] # Absent \/ MidAdopt(s)
  /\ archived[s] /\ faults <= 1 =>
       \/ Whole(managed[s])
       \/ Whole(trash[s])
       \/ Whole(staging[s]) /\ \E j \in Job : src[j] = s /\ pc[j] \in {"aside", "promote"}

LEMMA KeptBySource == Kept <=> \A s \in Source : KeptOf(s)
BY DEF Kept, KeptOf, SingleFaultKeepsArchive

\* A worker's own step keeps the archive of its source.
LEMMA OwnStepKeeps ==
  ASSUME TypeOK, Slot, Disk, NEW j \in Job, PipelineStep(j), KeptOf(src[j])
  PROVE  KeptOf(src[j])'
<1> DEFINE s == src[j]
<1>0. s \in Source /\ src' = src /\ pc[j] \in Working
  BY PipelineStepsMove DEF WorkerMove, registryVars, TypeOK
<1>1. /\ managed[s] # Absent => Whole(managed[s])
      /\ AdoptKnows(j)
  BY <1>0 DEF Disk, ManagedWhole, Whole
<1>2. faults \in Nat /\ (faults' = faults \/ faults' = faults + 1)
  BY OnboardAssumption DEF TypeOK, PipelineStep, QuietMove, StagingMove, RootMove, Resolve,
           AfterAdopt, StatRoot, ImportFailed, NewStaging, Prepare, ExporterExit, AfterExport,
           AfterFailedExport, AdoptFailed, ClearTrash, MoveAside, Promote, Restore, DropTrash,
           Import, NoFault, Fault
<1>3. \A k \in Job : src[k] = s /\ pc[k] \in {"aside", "promote"} => k = j
  BY <1>0, Alone DEF Working, Label
<1>4. MidAdopt(s) => pc[j] = "promote" /\ aside[j]
  BY <1>3 DEF MidAdopt
<1>5. archived[s] /\ faults = 0 /\ pc[j] # "promote" => Whole(managed[s])
  BY <1>1, <1>4 DEF KeptOf
<1>6. CASE QuietMove(j) \/ StagingMove(j) \/ Import(j)
  <2>1. UNCHANGED <<managed, trash, archived>>
    BY <1>6 DEF QuietMove, Resolve, AfterAdopt, StatRoot, ImportFailed, Import, NoDisk, diskVars,
             StagingMove, NewStaging, Prepare, ExporterExit, AfterExport, AfterFailedExport,
             AdoptFailed, OnlyStaging
  <2>2. pc[j] \notin {"aside", "promote"}
    BY <1>6 DEF QuietMove, Resolve, AfterAdopt, StatRoot, ImportFailed, Import, StagingMove,
             NewStaging, Prepare, ExporterExit, AfterExport, AfterFailedExport, AdoptFailed, At
  <2>3. archived[s] /\ faults <= 1 => Whole(managed[s]) \/ Whole(trash[s])
    BY <2>2, <1>3 DEF KeptOf
  <2>4. archived[s] /\ faults = 0 => managed[s] # Absent
    BY <2>2, <1>4 DEF KeptOf
  <2> QED BY <2>1, <2>3, <2>4, <1>0, <1>2 DEF KeptOf
<1>7. CASE ClearTrash(j)
  <2>1. /\ UNCHANGED <<staging, managed, archived>>
        /\ trash[s] = Absent => trash'[s] = Absent
        /\ pc[j] = "clearTrash"
        /\ \/ pc'[j] = "aside" /\ faults' = faults
           \/ faults' = faults + 1
    BY <1>7, <1>0 DEF ClearTrash, At, Goto, TypeOK, Torn, NoFault, Fault
  <2>2. Whole(staging[s])
    BY <2>1, <1>1 DEF AdoptKnows
  <2>3. archived[s] /\ faults = 0 => Whole(managed[s])
    BY <2>1, <1>5
  <2> QED BY <2>1, <2>2, <2>3, <1>0, <1>2 DEF KeptOf, Whole
<1>8. CASE MoveAside(j)
  <2>1. /\ UNCHANGED <<staging, archived>> /\ pc[j] = "aside"
        /\ \/ /\ pc'[j] = "promote" /\ aside'[j] /\ faults' = faults
              /\ trash'[s] = managed[s] /\ managed[s] # Absent /\ managed'[s] = Absent
           \/ /\ pc'[j] = "promote" /\ managed[s] = Absent /\ faults' = faults
              /\ UNCHANGED <<managed, trash>>
           \/ faults' = faults + 1 /\ UNCHANGED <<managed, trash>>
    BY <1>8, <1>0 DEF MoveAside, At, Goto, TypeOK, NoFault, Fault
  <2>2. Whole(staging[s])
    BY <2>1, <1>1 DEF AdoptKnows
  <2>3. archived[s] /\ faults = 0 => Whole(managed[s])
    BY <2>1, <1>5
  <2> QED BY <2>1, <2>2, <2>3, <1>0, <1>1, <1>2 DEF KeptOf, MidAdopt, Whole
<1>9. CASE Promote(j)
  <2>1. /\ trash' = trash /\ pc[j] = "promote"
        /\ \/ /\ managed'[s] = staging[s] /\ archived'[s] /\ faults' = faults
           \/ /\ faults' = faults + 1 /\ UNCHANGED <<managed, staging, archived>>
    BY <1>9, <1>0 DEF Promote, At, Goto, TypeOK, NoFault, Fault
  <2>2. Whole(staging[s]) /\ managed[s] = Absent /\ (aside[j] => Whole(trash[s]))
    BY <2>1, <1>1 DEF AdoptKnows
  <2>3. archived[s] /\ faults = 0 => Whole(trash[s])
    BY <2>2, <1>4 DEF KeptOf
  <2> QED BY <2>1, <2>2, <2>3, <1>0, <1>2 DEF KeptOf, Whole
<1>10. CASE Restore(j)
  <2>1. /\ UNCHANGED <<staging, archived>> /\ pc[j] = "restore"
        /\ \/ /\ managed'[s] = trash[s] /\ faults' = faults
           \/ /\ faults' = faults + 1 /\ UNCHANGED <<managed, trash>>
    BY <1>10, <1>0 DEF Restore, At, Goto, TypeOK, NoFault, Fault
  <2>2. Whole(trash[s])
    BY <2>1, <1>1 DEF AdoptKnows
  <2> QED BY <2>1, <2>2, <1>0, <1>2 DEF KeptOf, Whole
<1>11. CASE DropTrash(j)
  <2>1. UNCHANGED <<staging, managed, archived>> /\ pc[j] = "dropTrash"
        /\ (trash[s] = Absent => trash'[s] = Absent)
    BY <1>11, <1>0 DEF DropTrash, At, Goto, TypeOK, Torn
  <2>2. Whole(managed[s])
    BY <2>1, <1>1 DEF AdoptKnows
  <2> QED BY <2>1, <2>2, <1>0, <1>2 DEF KeptOf, Whole
<1> QED BY <1>6, <1>7, <1>8, <1>9, <1>10, <1>11 DEF PipelineStep, RootMove

LEMMA InitKept == Init => Kept
<1> SUFFICES ASSUME Init, NEW s \in Source PROVE KeptOf(s)
  BY KeptBySource
<1>1. archived[s] = (managed[s] # Absent)
  BY DEF Init
<1>2. /\ managed[s] # Absent => Whole(managed[s])
      /\ trash[s] = Absent
  BY DEF Init, Whole
<1> QED BY <1>1, <1>2 DEF KeptOf

LEMMA NextKept == TypeOK /\ Slot /\ Shut /\ Disk /\ Kept /\ [Next]_vars => Kept'
<1> SUFFICES ASSUME TypeOK, Slot, Shut, Disk, Kept, [Next]_vars, NEW s \in Source
             PROVE  KeptOf(s)'
  BY DEF Kept, KeptOf, SingleFaultKeepsArchive
<1>0. KeptOf(s)
  BY KeptBySource
<1>1. CASE UNCHANGED <<pc, src, staging, managed, trash, aside, archived, faults>>
  BY <1>0, <1>1 DEF KeptOf, MidAdopt
<1>2. CASE Crash
  <2>1. /\ UNCHANGED <<managed, archived>> /\ faults' = faults + 1 /\ faults \in Nat
        /\ trash[s] = Absent => trash'[s] = Absent
    BY <1>2, OnboardAssumption DEF Crash, NewProcess, Fault, TypeOK, Torn
  <2>2. managed[s] # Absent => Whole(managed[s])
    BY DEF Disk, ManagedWhole, Whole
  <2>3. MidAdopt(s) => Whole(trash[s]) /\ trash'[s] = trash[s]
    <3> SUFFICES ASSUME NEW k \in Job, src[k] = s, pc[k] = "promote", aside[k]
                 PROVE  Whole(trash[s]) /\ trash'[s] = trash[s]
      BY DEF MidAdopt
    <3>1. Whole(trash[s])
      BY DEF Disk, AdoptKnows
    <3>2. \A j \in Job : pc[j] \in {"clearTrash", "dropTrash"} => src[j] # s
      BY Alone DEF Working, Label
    <3> QED BY <1>2, <3>1, <3>2 DEF Crash, Interrupted
  <2> QED BY <1>0, <2>1, <2>2, <2>3 DEF KeptOf
<1>3. CASE Relaunch
  <2>1. UNCHANGED <<staging, managed, trash, archived, faults>>
    BY <1>3 DEF Relaunch, NewProcess
  <2>2. \A k \in Job : pc[k] \notin {"aside", "promote"}
    BY <1>3 DEF Relaunch, Shut, QuietAfterShutdown
  <2> QED BY <1>0, <2>1, <2>2 DEF KeptOf, MidAdopt
<1>4. ASSUME NEW j \in Job, StartRegister(j) PROVE KeptOf(s)'
  <2>1. /\ pc[j] = "unborn" /\ pc'[j] \in {"resolve", "statRoot"}
        /\ \A k \in Job : k # j => pc'[k] = pc[k] /\ src'[k] = src[k]
    BY <1>4 DEF StartRegister, RegisterAs, TypeOK
  <2>2. UNCHANGED <<staging, managed, trash, aside, archived, faults>>
    BY <1>4 DEF StartRegister, RegisterAs, diskVars
  <2>3. MidAdopt(s) => MidAdopt(s)'
    BY <2>1, <2>2 DEF MidAdopt
  <2> QED BY <1>0, <2>1, <2>2, <2>3 DEF KeptOf
<1>5. ASSUME NEW j \in Job, PipelineStep(j), s = src[j] PROVE KeptOf(s)'
  <2>1. KeptOf(src[j])'
    BY <1>0, <1>5, OwnStepKeeps
  <2>2. src' = src
    BY <1>5, PipelineStepsMove DEF WorkerMove, registryVars
  <2> QED BY <1>5, <2>1, <2>2 DEF KeptOf, MidAdopt
<1>6. ASSUME NEW j \in Job, PipelineStep(j), s # src[j] PROVE KeptOf(s)'
  <2>1. /\ src' = src /\ \A k \in Job : k # j => pc'[k] = pc[k] /\ aside'[k] = aside[k]
        /\ staging'[s] = staging[s] /\ managed'[s] = managed[s] /\ trash'[s] = trash[s]
        /\ archived'[s] = archived[s]
    BY <1>6, PipelineStepsMove, OtherSources DEF WorkerMove, registryVars, TypeOK
  <2>2. faults \in Nat /\ (faults' = faults \/ faults' = faults + 1)
    BY <1>6, OnboardAssumption DEF TypeOK, PipelineStep, QuietMove, StagingMove, RootMove, Resolve,
           AfterAdopt, StatRoot, ImportFailed, NewStaging, Prepare, ExporterExit, AfterExport,
           AfterFailedExport, AdoptFailed, ClearTrash, MoveAside, Promote, Restore, DropTrash,
           Import, NoFault, Fault
  <2>3. MidAdopt(s) => MidAdopt(s)'
    BY <1>6, <2>1 DEF MidAdopt
  <2> QED BY <1>0, <1>6, <2>1, <2>2, <2>3 DEF KeptOf
<1>7. ASSUME NEW j \in Job, Update(j) \/ Exit(j) PROVE KeptOf(s)'
  <2>1. UNCHANGED <<src, staging, managed, trash, aside, archived, faults>>
    BY <1>7 DEF Update, Publish, Exit, registryVars, diskVars
  <2>2. \A k \in Job : pc[k] \in {"aside", "promote"} => pc'[k] = pc[k]
    BY <1>7 DEF Update, Publish, Exit, Goto, TypeOK
  <2> QED BY <1>0, <2>1, <2>2 DEF KeptOf, MidAdopt
<1> QED
  BY <1>1, <1>2, <1>3, <1>4, <1>5, <1>6, <1>7, NextCases
     DEF StartCheck, Cancel, ShutdownStop, ShutdownReturn, vars, registryVars, diskVars

\* After at most one crash or file-system error a source that ever had a complete
\* archive still has one on disk, whatever jobs run and are cancelled.
THEOREM ArchiveSurvivesOneFault == Spec => []SingleFaultKeepsArchive
<1> DEFINE Inv == TypeOK /\ Slot /\ Shut /\ Disk /\ Kept
<1>1. Init => Inv
  BY InitType, InitSlot, InitShut, InitDisk, InitKept
<1>2. Inv /\ [Next]_vars => Inv'
  BY NextType, NextSlot, NextShut, NextDisk, NextKept
<1>3. Inv => SingleFaultKeepsArchive
  BY DEF Kept
<1> QED BY <1>1, <1>2, <1>3, PTL DEF Spec

-----------------------------------------------------------------------------
(* A finished job's archive is the one in the store                        *)

LEMMA InitStored == Init => Stored
<1> SUFFICES ASSUME Init PROVE Stored OBVIOUS
<1>1. (\A s \in Source : ~Registered(s)) /\ (\A j \in Job : pc[j] # "toDone")
  BY DEF Init, Registered
<1> QED BY <1>1 DEF Stored, DoneMeansImported

LEMMA NextStored == TypeOK /\ Slot /\ Stored /\ [Next]_vars => Stored'
<1> SUFFICES ASSUME TypeOK, Slot, Stored, [Next]_vars PROVE Stored'
  OBVIOUS
<1>1. CASE UNCHANGED <<jobs, phase, src, pc, managed, store>>
  BY <1>1 DEF Stored, DoneMeansImported, Registered
<1>2. CASE NewProcess
  <2>1. (\A s \in Source : ~Registered(s)') /\ (\A j \in Job : pc'[j] # "toDone")
    BY <1>2 DEF NewProcess, Registered
  <2> QED BY <2>1 DEF Stored, DoneMeansImported
<1>3. ASSUME NEW j \in Job, StartRegister(j) PROVE Stored'
  <2>1. /\ pc'[j] # "toDone" /\ phase'[j] = "queued" /\ UNCHANGED <<managed, store>>
        /\ \A k \in Job : k # j => pc'[k] = pc[k] /\ src'[k] = src[k] /\ phase'[k] = phase[k]
        /\ \A s \in Source : jobs'[s] = jobs[s] \/ jobs'[s] = j
    BY <1>3 DEF StartRegister, RegisterAs, diskVars, TypeOK
  <2>2. DoneMeansImported'
    BY <2>1 DEF Stored, DoneMeansImported, Registered, TypeOK
  <2>3. \A k \in Job : pc'[k] = "toDone" => RunOf(store'[src'[k]]) = RunOf(managed'[src'[k]])
    BY <2>1 DEF Stored
  <2> QED BY <2>2, <2>3 DEF Stored
<1>4. ASSUME NEW j \in Job, PipelineStep(j) PROVE Stored'
  <2>1. /\ UNCHANGED <<jobs, phase, src>> /\ pc[j] \in Working
        /\ \A k \in Job : k # j => pc'[k] = pc[k]
    BY <1>4, PipelineStepsMove DEF WorkerMove, registryVars, TypeOK
  <2>2. \A s \in Source : s # src[j] => managed'[s] = managed[s] /\ store'[s] = store[s]
    BY <1>4, OtherSources
  <2>3. jobs[src[j]] = j /\ phase[j] # "done"
    BY <2>1 DEF Slot, WorkerOwnsSlot, Active
  <2>4. DoneMeansImported'
    BY <2>1, <2>2, <2>3 DEF Stored, DoneMeansImported, Registered
  <2>5. \A k \in Job : k # j /\ src[k] = src[j] => pc[k] # "toDone"
    BY <2>1, Alone DEF Working, Label
  <2>6. pc'[j] = "toDone" => RunOf(store'[src[j]]) = RunOf(managed'[src[j]])
    <3>1. pc'[j] = "toDone" => Import(j)
      BY <1>4 DEF PipelineStep, QuietMove, Resolve, AfterAdopt, StatRoot, ImportFailed, StagingMove,
             NewStaging, Prepare, ExporterExit, AfterExport, AfterFailedExport, AdoptFailed,
             RootMove, ClearTrash, MoveAside, Promote, Restore, DropTrash, At, Goto, TypeOK
    <3>2. ASSUME Import(j), pc'[j] = "toDone" PROVE RunOf(store'[src[j]]) = RunOf(managed'[src[j]])
      <4>1. store'[src[j]] \in {managed[src[j]], Torn(managed[src[j]])} /\ managed' = managed
        BY <3>2 DEF Import, Goto, diskVars, TypeOK
      <4> QED BY <4>1, TornRun DEF TypeOK
    <3> QED BY <3>1, <3>2
  <2>7. ASSUME NEW k \in Job, pc'[k] = "toDone" PROVE RunOf(store'[src[k]]) = RunOf(managed'[src[k]])
    <3>1. CASE k = j
      BY <3>1, <2>6, <2>7
    <3>2. CASE k # j
      BY <3>2, <2>1, <2>2, <2>5, <2>7 DEF Stored, TypeOK
    <3> QED BY <3>1, <3>2
  <2> QED BY <2>1, <2>4, <2>7 DEF Stored
<1>5. ASSUME NEW j \in Job, Update(j) PROVE Stored'
  <2>1. pc[j] \in Working /\ UNCHANGED <<jobs, src, managed, store>>
    BY <1>5 DEF Update, Publish, Working, Label, diskVars
  <2>2. jobs[src[j]] = j /\ Registered(src[j])
    BY <2>1, OnboardAssumption DEF Slot, WorkerOwnsSlot, Registered
  <2>3. /\ phase'[j] = "done" => pc[j] = "toDone"
        /\ \A k \in Job : k # j => phase'[k] = phase[k]
        /\ \A k \in Job : pc'[k] = "toDone" => pc[k] = "toDone"
    BY <1>5, <2>2 DEF Update, Publish, Goto, TypeOK
  <2>4. DoneMeansImported'
    BY <2>1, <2>2, <2>3 DEF Slot, Stored, DoneMeansImported, Registered, TypeOK
  <2> QED BY <2>1, <2>3, <2>4 DEF Stored
<1>6. ASSUME NEW j \in Job, Exit(j) PROVE Stored'
  <2>1. \A k \in Job : pc'[k] = "toDone" => pc[k] = "toDone"
    BY <1>6 DEF Exit, Goto, TypeOK
  <2> QED BY <1>6, <2>1 DEF Exit, Stored, DoneMeansImported, Registered, registryVars, diskVars
<1> QED
  BY <1>1, <1>2, <1>3, <1>4, <1>5, <1>6, NextCases
     DEF StartCheck, Cancel, ShutdownStop, ShutdownReturn, Crash, Relaunch, vars,
         registryVars, diskVars

\* While a source's card says done, the store holds the archive in place.
THEOREM DoneIsImported == Spec => []DoneMeansImported
<1>1. Init => TypeOK /\ Slot /\ Stored
  BY InitType, InitSlot, InitStored
<1>2. TypeOK /\ Slot /\ Stored /\ [Next]_vars => (TypeOK /\ Slot /\ Stored)'
  BY NextType, NextSlot, NextStored
<1>3. Stored => DoneMeansImported
  BY DEF Stored
<1> QED BY <1>1, <1>2, <1>3, PTL DEF Spec
-----------------------------------------------------------------------------
(* The pipeline implements AtomicArchive                                   *)

\* The phase that is published before each part of the pipeline.
Sequenced ==
  \A j \in Job :
    /\ pc[j] \in {"resolve", "toExport", "statRoot"} => phase[j] = "queued"
    /\ pc[j] \in {"stage", "prepare", "running", "exported", "exportFailed", "toAdopt"} =>
         phase[j] = "exporting"
    /\ pc[j] \in {"clearTrash", "aside", "promote", "restore", "dropTrash", "adoptFailed", "adopted"} =>
         phase[j] = "adopting"
    /\ pc[j] = "toImport" => phase[j] \in {"queued", "adopting"}
    /\ pc[j] \in {"importing", "importFailed", "toDone"} => phase[j] = "importing"

LEMMA InitSequenced == Init => Sequenced
  BY DEF Init, Sequenced

LEMMA NextSequenced == TypeOK /\ Slot /\ Sequenced /\ [Next]_vars => Sequenced'
<1> SUFFICES ASSUME TypeOK, Slot, Sequenced, [Next]_vars PROVE Sequenced'
  OBVIOUS
<1> USE DEF Sequenced
<1>1. CASE UNCHANGED <<pc, phase>>
  BY <1>1
<1>2. CASE NewProcess
  BY <1>2 DEF NewProcess
<1>3. ASSUME NEW j \in Job, StartRegister(j) PROVE Sequenced'
  BY <1>3 DEF StartRegister, RegisterAs, TypeOK
<1>4. ASSUME NEW j \in Job, PipelineStep(j) PROVE Sequenced'
  <2>1. phase' = phase /\ \A k \in Job : k # j => pc'[k] = pc[k]
    BY <1>4, PipelineStepsMove DEF WorkerMove, registryVars, TypeOK
  <2>2. CASE QuietMove(j)
    BY <2>1, <2>2 DEF QuietMove, Resolve, AfterAdopt, StatRoot, ImportFailed, At, Goto, TypeOK
  <2>3. CASE StagingMove(j)
    BY <2>1, <2>3 DEF StagingMove, NewStaging, Prepare, ExporterExit, AfterExport,
                      AfterFailedExport, AdoptFailed, At, Goto, TypeOK
  <2>4. CASE RootMove(j)
    BY <2>1, <2>4 DEF RootMove, ClearTrash, MoveAside, Promote, Restore, DropTrash, At, Goto, TypeOK
  <2>5. CASE Import(j)
    BY <2>1, <2>5 DEF Import, At, Goto, TypeOK
  <2> QED BY <1>4, <2>2, <2>3, <2>4, <2>5 DEF PipelineStep
<1>5. ASSUME NEW j \in Job, Update(j) PROVE Sequenced'
  <2>1. jobs[src[j]] = j /\ Registered(src[j])
    BY <1>5, OnboardAssumption DEF Update, Publish, Working, Label, Slot, WorkerOwnsSlot, Registered
  <2> QED BY <1>5, <2>1 DEF Update, Publish, Goto, TypeOK
<1>6. ASSUME NEW j \in Job, Exit(j) PROVE Sequenced'
  BY <1>6 DEF Exit, Goto, registryVars, TypeOK
<1> QED
  BY <1>1, <1>2, <1>3, <1>4, <1>5, <1>6, NextCases
     DEF StartCheck, Cancel, ShutdownStop, ShutdownReturn, Crash, Relaunch, vars, registryVars

\* The archive a reader sees of one source.
Seen(s) ==
  IF managed[s] # Absent THEN managed[s]
  ELSE IF ~archived[s] THEN Absent
  ELSE IF Whole(trash[s]) THEN trash[s]
  ELSE staging[s]

\* The staged export is what a reader sees only while it is being promoted.
LEMMA StagedSeen ==
  ASSUME TypeOK, Slot, Kept, faults <= 1, NEW j \in Job, pc[j] \in Working \ {"aside", "promote"},
         managed[src[j]] = Absent, archived[src[j]]
  PROVE  Whole(trash[src[j]])
<1>1. src[j] \in Source
  BY DEF TypeOK
<1>2. ~(\E k \in Job : src[k] = src[j] /\ pc[k] \in {"aside", "promote"})
  BY Alone DEF Working, Label
<1> QED BY <1>1, <1>2 DEF Kept, SingleFaultKeepsArchive, Whole

\* A worker's step changes what a reader sees of its source only while it adopts,
\* and to a complete export.
LEMMA OwnStepSeen ==
  ASSUME TypeOK, Slot, Disk, Kept, Sequenced, faults <= 1, NEW j \in Job, NEW s, s = src[j],
         PipelineStep(j)
  PROVE  \/ Seen(s)' = Seen(s)
         \/ phase[j] = "adopting" /\ Seen(s)' \in {t \in Tree : t.whole}
<1> USE DEF At, Seen
<1>0. /\ s \in Source /\ pc[j] \in Working /\ AdoptKnows(j)
      /\ managed[s] \in MaybeTree /\ trash[s] \in MaybeTree /\ staging[s] \in MaybeTree
      /\ managed[s] # Absent => managed[s].whole
      /\ managed[s] # Absent \/ trash[s] # Absent => archived[s]
  BY PipelineStepsMove DEF WorkerMove, Disk, ManagedWhole, Kept, TypeOK
<1>1. CASE QuietMove(j) \/ Import(j)
  BY <1>1 DEF QuietMove, Resolve, AfterAdopt, StatRoot, ImportFailed, Import, NoDisk, diskVars
<1>2. CASE StagingMove(j)
  <2>1. UNCHANGED <<managed, trash, archived>>
    BY <1>2 DEF StagingMove, NewStaging, Prepare, ExporterExit, AfterExport,
                AfterFailedExport, AdoptFailed, OnlyStaging
  <2>2. pc[j] \notin {"aside", "promote"}
    BY <1>2 DEF StagingMove, NewStaging, Prepare, ExporterExit, AfterExport,
                AfterFailedExport, AdoptFailed
  <2>3. managed[s] = Absent /\ archived[s] => Whole(trash[s])
    BY <1>0, <2>2, StagedSeen
  <2> QED BY <2>1, <2>3
<1>3. CASE ClearTrash(j)
  <2>1. UNCHANGED <<staging, managed, archived>> /\ pc[j] = "clearTrash"
    BY <1>3 DEF ClearTrash
  <2>2. phase[j] = "adopting" /\ Whole(staging[s])
    BY <1>0, <2>1 DEF Sequenced, AdoptKnows
  <2>3. trash'[s] \in {Absent, Torn(trash[s])}
    BY <1>3, <1>0 DEF ClearTrash, TypeOK
  <2>4. ~Whole(trash'[s])
    BY <1>0, <2>3 DEF Torn, Whole, MaybeTree, Tree
  <2>5. CASE managed[s] = Absent /\ archived[s]
    <3>1. Seen(s)' = staging[s]
      BY <2>1, <2>4, <2>5 DEF Whole
    <3> QED BY <1>0, <2>2, <3>1 DEF Whole, MaybeTree
  <2>6. CASE ~(managed[s] = Absent /\ archived[s])
    BY <2>1, <2>6
  <2> QED BY <2>5, <2>6
<1>4. CASE MoveAside(j)
  <2>1. CASE UNCHANGED <<managed, trash>>
    BY <1>4, <2>1 DEF MoveAside
  <2>2. CASE managed[s] # Absent /\ managed'[s] = Absent /\ trash'[s] = managed[s]
    BY <1>0, <1>4, <2>2 DEF MoveAside, Whole
  <2> QED BY <1>0, <1>4, <2>1, <2>2 DEF MoveAside, TypeOK
<1>5. CASE Promote(j)
  <2>1. CASE UNCHANGED <<managed, staging, archived>>
    BY <1>5, <2>1 DEF Promote
  <2>2. CASE managed'[s] = staging[s]
    <3>1. phase[j] = "adopting" /\ Whole(staging[s])
      BY <1>0, <1>5 DEF Promote, Sequenced, AdoptKnows
    <3> QED BY <1>0, <2>2, <3>1 DEF Whole, MaybeTree
  <2> QED BY <1>0, <1>5, <2>1, <2>2 DEF Promote, TypeOK
<1>6. CASE Restore(j)
  <2>1. Whole(trash[s]) /\ managed[s] = Absent
    BY <1>0, <1>6 DEF Restore, AdoptKnows
  <2>2. archived' = archived /\ archived[s]
    BY <1>0, <1>6, <2>1 DEF Restore, Whole
  <2>3. CASE UNCHANGED <<managed, trash>>
    BY <1>6, <2>3 DEF Restore
  <2>4. CASE managed'[s] = trash[s]
    BY <2>1, <2>2, <2>4 DEF Whole
  <2> QED BY <1>0, <1>6, <2>3, <2>4 DEF Restore, TypeOK
<1>7. CASE DropTrash(j)
  <2>1. UNCHANGED managed /\ managed[s] # Absent
    BY <1>0, <1>7 DEF DropTrash, AdoptKnows, Whole
  <2> QED BY <2>1
<1> QED BY <1>1, <1>2, <1>3, <1>4, <1>5, <1>6, <1>7 DEF PipelineStep, RootMove

LEMMA PipelineImplements ==
  ASSUME TypeOK, Slot, Disk, Kept, Sequenced, faults <= 1, NEW j \in Job, PipelineStep(j)
  PROVE  [Archive!Next]_(Archive!vars)
<1>1. /\ UNCHANGED <<jobs, phase, src>> /\ src[j] \in Source /\ pc[j] \in Working
  BY PipelineStepsMove DEF WorkerMove, registryVars, TypeOK
<1>2. UNCHANGED VisibleStatus
  BY <1>1 DEF VisibleStatus, Registered
<1>3. PICK s \in Source : s = src[j]
  BY <1>1
<1>4. \A r \in Source : r # s => Seen(r)' = Seen(r)
  BY <1>3, OtherSources DEF Seen
<1>5. VisibleArchive = [r \in Source |-> Seen(r)] /\ VisibleArchive' = [r \in Source |-> Seen(r)']
  BY DEF VisibleArchive, Seen
<1>6. CASE Seen(s)' = Seen(s)
  <2>1. VisibleArchive' = VisibleArchive
    BY <1>4, <1>5, <1>6
  <2> QED BY <1>2, <2>1 DEF Archive!vars
<1>7. CASE phase[j] = "adopting" /\ Seen(s)' \in {t \in Tree : t.whole}
  <2>1. VisibleArchive' = [VisibleArchive EXCEPT ![s] = Seen(s)']
    BY <1>4, <1>5
  <2>2. VisibleStatus[s] = "adopting"
    BY <1>1, <1>3, <1>7, OnboardAssumption DEF VisibleStatus, Registered, Slot, WorkerOwnsSlot
  <2>3. Archive!Replace(s)
    BY <1>2, <1>7, <2>1, <2>2 DEF Archive!Replace
  <2> QED BY <2>3 DEF Archive!Next
<1> QED BY <1>3, <1>6, <1>7, OwnStepSeen

\* What start() and update() do to the statuses.
LEMMA StatusImplements ==
  ASSUME TypeOK, Slot, Sequenced, NEW j \in Job, StartRegister(j) \/ Update(j)
  PROVE  Archive!Next
<1>1. UNCHANGED VisibleArchive
  BY DEF StartRegister, RegisterAs, Update, Publish, diskVars, VisibleArchive
<1>2. CASE StartRegister(j)
  <2>1. PICK s \in Source : s = starter.src
    BY <1>2 DEF StartRegister, RegisterAs, TypeOK
  <2>2. /\ jobs' = [jobs EXCEPT ![s] = j] /\ phase' = [phase EXCEPT ![j] = "queued"]
        /\ pc[j] = "unborn" /\ starter # Idle
    BY <1>2, <2>1 DEF StartRegister, RegisterAs
  <2>3. \A r \in Source : Registered(r) => jobs[r] # j /\ jobs[r] \in Job
    BY <2>2 DEF Slot, Registered, TypeOK
  <2>4. VisibleStatus[s] \in Archive!Terminal \union {"none"}
    <3>1. ~IsActive(s)
      BY <2>1, <2>2 DEF Slot
    <3> QED BY <2>3, <3>1 DEF VisibleStatus, IsActive, Archive!Terminal, TypeOK, Phase, Active, Terminal
  <2>5. VisibleStatus' = [VisibleStatus EXCEPT ![s] = "queued"]
    BY <2>2, <2>3, OnboardAssumption DEF VisibleStatus, Registered, TypeOK
  <2>6. Archive!Begin(s)
    BY <1>1, <2>4, <2>5 DEF Archive!Begin
  <2> QED BY <2>6 DEF Archive!Next
<1>3. CASE Update(j)
  <2>1. jobs[src[j]] = j /\ Registered(src[j]) /\ pc[j] \in Working /\ phase[j] \in Active
    BY <1>3, OnboardAssumption DEF Update, Publish, Working, Label, Slot, WorkerOwnsSlot, Registered
  <2>2. PICK s \in Source : s = src[j]
    BY DEF TypeOK
  <2>3. PICK p \in Phase : phase' = [phase EXCEPT ![j] = p] /\ p \in Archive!After(phase[j])
    <3>1. \/ pc[j] = "toExport" /\ phase' = [phase EXCEPT ![j] = "exporting"]
          \/ pc[j] = "toAdopt" /\ phase' = [phase EXCEPT ![j] = "adopting"]
          \/ pc[j] = "toImport" /\ phase' = [phase EXCEPT ![j] = "importing"]
          \/ pc[j] = "toDone" /\ phase' = [phase EXCEPT ![j] = "done"]
          \/ pc[j] = "failing" /\ phase' = [phase EXCEPT ![j] = "failed"]
          \/ pc[j] = "cancelling" /\ phase' = [phase EXCEPT ![j] = "cancelled"]
      BY <1>3, <2>1 DEF Update, Publish
    <3> QED BY <2>1, <3>1 DEF Sequenced, Active, Phase, Terminal, Archive!After, Archive!Terminal
  <2>4. UNCHANGED jobs
    BY <1>3 DEF Update, Publish
  <2>5. \A r \in Source : Registered(r) /\ r # s => jobs[r] # j /\ jobs[r] \in Job
    BY <2>2 DEF Slot, Registered, TypeOK
  <2>6. VisibleStatus' = [VisibleStatus EXCEPT ![s] = p] /\ VisibleStatus[s] = phase[j]
    BY <2>1, <2>2, <2>3, <2>4, <2>5 DEF VisibleStatus, Registered, TypeOK
  <2>7. Archive!Advance(s)
    BY <1>1, <2>3, <2>6 DEF Archive!Advance
  <2> QED BY <2>7 DEF Archive!Next
<1> QED BY <1>2, <1>3

\* A process that ends, also in the middle of a call, and starts again.
LEMMA EndImplements ==
  ASSUME TypeOK, Slot, Disk, Kept, MaxFaults <= 1, Crash \/ Relaunch
  PROVE  Archive!Next
<1>1. VisibleStatus' = [s \in Source |-> "none"]
  BY DEF Crash, Relaunch, NewProcess, VisibleStatus, Registered
<1>2. ASSUME NEW s \in Source PROVE Seen(s)' = Seen(s)
  <2>1. UNCHANGED <<managed, archived>>
    BY DEF Crash, Relaunch, NewProcess
  <2>2. CASE Relaunch
    BY <2>1, <2>2 DEF Relaunch, Seen
  <2>3. CASE Crash /\ managed[s] = Absent /\ archived[s]
    <3>1. faults = 0
      BY <2>3, OnboardAssumption DEF Crash, Fault, TypeOK
    <3>2. PICK j \in Job : src[j] = s /\ pc[j] = "promote" /\ aside[j]
      BY <2>3, <3>1 DEF Kept, MidAdopt
    <3>3. Whole(trash[s])
      BY <3>2 DEF Disk, AdoptKnows
    <3>4. \A k \in Job : src[k] = s => pc[k] \notin {"clearTrash", "dropTrash"}
      BY <3>2, Alone DEF Working, Label
    <3>5. trash'[s] = trash[s]
      BY <2>3, <3>4 DEF Crash, Interrupted
    <3> QED BY <2>1, <3>3, <3>5 DEF Seen, Whole
  <2>4. CASE ~(managed[s] = Absent /\ archived[s])
    BY <2>1, <2>4 DEF Seen
  <2> QED BY <2>2, <2>3, <2>4
<1>3. VisibleArchive = [r \in Source |-> Seen(r)] /\ VisibleArchive' = [r \in Source |-> Seen(r)']
  BY DEF VisibleArchive, Seen
<1>4. UNCHANGED VisibleArchive
  BY <1>2, <1>3
<1> QED BY <1>1, <1>4 DEF Archive!Next, Archive!Restart

\* With at most one crash or file-system error, and any sources and jobs, what a
\* reader sees of statuses and archives is a behaviour of AtomicArchive: adopt's
\* calls are one replacement, made while the card says adopting.
THEOREM AdoptIsAtomic ==
  ASSUME MaxFaults <= 1
  PROVE  Spec => ImplementsAtomicArchive
<1> DEFINE Inv == TypeOK /\ Slot /\ Shut /\ Disk /\ Kept /\ Sequenced
<1>1. Init => Inv
  BY InitType, InitSlot, InitShut, InitDisk, InitKept, InitSequenced
<1>2. Inv /\ [Next]_vars => Inv'
  BY NextType, NextSlot, NextShut, NextDisk, NextKept, NextSequenced
<1>3. Init => Archive!Init
  <2> SUFFICES ASSUME Init PROVE Archive!Init
    OBVIOUS
  <2>1. VisibleStatus = [s \in Source |-> "none"]
    BY DEF Init, VisibleStatus, Registered
  <2>2. \A s \in Source : Seen(s) \in {t \in Tree : t.whole} \union {Absent}
    <3>1. [by |-> Prior, whole |-> TRUE] \in {t \in Tree : t.whole}
      BY DEF Tree
    <3>2. \A s \in Source : Seen(s) \in {Absent, [by |-> Prior, whole |-> TRUE]}
      BY DEF Init, Seen
    <3> QED BY <3>1, <3>2
  <2>3. VisibleArchive \in [Source -> {t \in Tree : t.whole} \union {Absent}]
    BY <2>2 DEF VisibleArchive, Seen
  <2> QED BY <2>1, <2>3 DEF Archive!Init
<1>4. Inv /\ [Next]_vars => [Archive!Next]_(Archive!vars)
  <2> SUFFICES ASSUME Inv, [Next]_vars PROVE [Archive!Next]_(Archive!vars)
    OBVIOUS
  <2>1. faults <= 1
    BY OnboardAssumption DEF TypeOK
  <2>2. CASE UNCHANGED <<jobs, phase, managed, trash, staging, archived>>
    BY <2>2 DEF Archive!vars, VisibleStatus, VisibleArchive, Registered, Whole
  <2>3. ASSUME NEW j \in Job, PipelineStep(j) PROVE [Archive!Next]_(Archive!vars)
    BY <2>1, <2>3, PipelineImplements
  <2>4. ASSUME NEW j \in Job, StartRegister(j) \/ Update(j) PROVE [Archive!Next]_(Archive!vars)
    BY <2>4, StatusImplements
  <2>5. CASE Crash \/ Relaunch
    BY <2>5, EndImplements
  <2> QED
    BY <2>2, <2>3, <2>4, <2>5, NextCases
       DEF StartCheck, Cancel, ShutdownStop, ShutdownReturn, Exit, vars, registryVars, diskVars
<1> QED BY <1>1, <1>2, <1>3, <1>4, PTL DEF Spec, ImplementsAtomicArchive, Archive!Spec

-----------------------------------------------------------------------------
(* A cancelled export                                                      *)

\* The labels up to the exporter's exit, and those up to the promotion.
Exporting == {"resolve", "toExport", "stage", "prepare", "running"}
Exported  == {"exported", "toAdopt", "clearTrash", "aside", "promote"}

\* The tree t is not one that j has exported.
Foreign(t, j) == t = Absent \/ t.by # j

\* No tree of j is in place, and none is aside.
Outside(j) == \A s \in Source : Foreign(managed[s], j) /\ Foreign(trash[s], j)

\* Only the owner of a source's slot promotes, and what it promotes is its own.
Owned ==
  \A j \in Job :
    /\ pc[j] \in Exported => staging[src[j]] # Absent /\ staging[src[j]].by = j
    /\ pc[j] \in {"unborn"} \union Exporting \union Exported => Outside(j)

\* A job that will not come to adopt any more.
Withdrawn(j) ==
  /\ Outside(j)
  /\ pc[j] \in Exporting \union {"exported", "exportFailed", "failing", "cancelling", "exiting", "gone"}
  /\ pc[j] \in Exporting \union {"exported"} => ctxDone[j]

LEMMA TornForeign ==
  ASSUME NEW t \in MaybeTree, NEW j \in Job, Foreign(t, j)
  PROVE  Foreign(Torn(t), j)
BY DEF Torn, Foreign, MaybeTree, Tree

LEMMA InitOwned == Init => Owned
<1> SUFFICES ASSUME Init PROVE Owned
  OBVIOUS
<1>1. ASSUME NEW j \in Job PROVE Outside(j)
  <2> SUFFICES ASSUME NEW s \in Source
               PROVE  Foreign(managed[s], j) /\ Foreign(trash[s], j)
    BY DEF Outside
  <2>1. managed[s] \in {Absent, [by |-> Prior, whole |-> TRUE]} /\ trash[s] = Absent
    BY DEF Init
  <2>2. Prior # j /\ [by |-> Prior, whole |-> TRUE].by = Prior
    BY OnboardAssumption
  <2> QED
    BY <2>1, <2>2 DEF Foreign
<1>2. \A j \in Job : pc[j] = "unborn"
  BY DEF Init
<1> QED
  BY <1>1, <1>2 DEF Owned, Exported

\* The trees of j stay outside, unless j itself promotes one.
LEMMA OutsideStays ==
  ASSUME TypeOK, Owned, [Next]_vars, NEW j \in Job, Outside(j), ~Promote(j)
  PROVE  Outside(j)'
<1>1. CASE UNCHANGED <<managed, trash>>
  BY <1>1 DEF Outside, Foreign
<1>2. ASSUME NEW s \in Source PROVE managed[s] \in MaybeTree /\ trash[s] \in MaybeTree
  BY DEF TypeOK
<1>3. CASE Crash
  <2>1. /\ managed' = managed
        /\ \A s \in Source : trash'[s] \in {trash[s], Torn(trash[s])}
    BY <1>3 DEF Crash, NewProcess, Interrupted
  <2>2. \A s \in Source : Foreign(Torn(trash[s]), j)
    BY <1>2, TornForeign DEF Outside
  <2> QED
    BY <2>1, <2>2 DEF Outside, Foreign
<1>4. ASSUME NEW k \in Job, RootMove(k)
      PROVE  Outside(j)'
  <2> DEFINE s == src[k]
  <2>1. s \in Source
    BY DEF TypeOK
  <2>2. \A r \in Source : r # s => managed'[r] = managed[r] /\ trash'[r] = trash[r]
    BY <1>4, OtherSources DEF PipelineStep
  <2>3. Foreign(managed[s], j) /\ Foreign(trash[s], j) /\ Foreign(Torn(trash[s]), j) /\ Foreign(Absent, j)
    BY <1>2, <2>1, TornForeign DEF Outside, Foreign
  <2>4. Foreign(managed'[s], j) /\ Foreign(trash'[s], j)
    <3>1. CASE ClearTrash(k) \/ DropTrash(k)
      BY <2>1, <2>3, <3>1 DEF ClearTrash, DropTrash, TypeOK
    <3>2. CASE MoveAside(k)
      BY <2>1, <2>3, <3>2 DEF MoveAside, TypeOK
    <3>3. CASE Promote(k)
      <4>1. k # j /\ Foreign(staging[s], j)
        BY <3>3 DEF Promote, At, Owned, Exported, Foreign
      <4> QED
        BY <2>1, <2>3, <3>3, <4>1 DEF Promote, TypeOK
    <3>4. CASE Restore(k)
      BY <2>1, <2>3, <3>4 DEF Restore, TypeOK
    <3> QED
      BY <1>4, <3>1, <3>2, <3>3, <3>4 DEF RootMove
  <2> QED
    BY <2>1, <2>2, <2>3, <2>4 DEF Outside, Foreign
<1>5. ASSUME NEW k \in Job, QuietMove(k) \/ StagingMove(k) \/ Import(k) \/ Update(k) \/ Exit(k) \/ StartRegister(k)
      PROVE  UNCHANGED <<managed, trash>>
  BY <1>5 DEF QuietMove, Resolve, AfterAdopt, StatRoot, ImportFailed, NoDisk, StagingMove, NewStaging,
     Prepare, ExporterExit, AfterExport, AfterFailedExport, AdoptFailed, OnlyStaging, Import, Update,
     Publish, Exit, StartRegister, RegisterAs, diskVars
<1> QED
  BY <1>1, <1>3, <1>4, <1>5, NextCases
     DEF PipelineStep, StartCheck, Cancel, ShutdownStop, ShutdownReturn, Relaunch, NewProcess, vars, diskVars

\* Where a worker goes by a step of its own.
LEMMA OwnStepOwns ==
  ASSUME TypeOK, Owned, NEW j \in Job, PipelineStep(j) \/ Update(j)
  PROVE  /\ pc'[j] \in Exported => staging'[src[j]] # Absent /\ staging'[src[j]].by = j
         /\ pc'[j] \in Exporting \union Exported => ~Promote(j) /\ pc[j] \in Exporting \union Exported
         /\ pc'[j] # "unborn"
<1>1. src[j] \in Source /\ [by |-> j, whole |-> TRUE] \in Tree
  BY DEF TypeOK, Tree
<1>2. pc[j] \in Exported => staging[src[j]] # Absent /\ staging[src[j]].by = j
  BY DEF Owned
<1>3. CASE QuietMove(j) \/ Import(j)
  BY <1>3 DEF QuietMove, Resolve, AfterAdopt, StatRoot, ImportFailed, Import, At, Goto, Promote, TypeOK,
     Exporting, Exported
<1>4. CASE ExporterExit(j)
  <2>1. \/ pc'[j] = "exported" /\ staging'[src[j]] = [by |-> j, whole |-> TRUE]
        \/ pc'[j] = "exportFailed"
    BY <1>1, <1>4 DEF ExporterExit, At, Goto, TypeOK
  <2> QED
    BY <1>1, <1>4, <2>1, OnboardAssumption DEF ExporterExit, At, Promote, Exporting, Exported
<1>5. CASE AfterExport(j)
  BY <1>2, <1>5 DEF AfterExport, At, Goto, Promote, TypeOK, Exporting, Exported
<1>6. CASE NewStaging(j) \/ Prepare(j) \/ AfterFailedExport(j) \/ AdoptFailed(j)
  BY <1>6 DEF NewStaging, Prepare, AfterFailedExport, AdoptFailed, At, Goto, Promote, TypeOK,
     Exporting, Exported
<1>7. CASE ClearTrash(j) \/ MoveAside(j)
  BY <1>2, <1>7 DEF ClearTrash, MoveAside, At, Goto, Promote, TypeOK, Exporting, Exported
<1>8. CASE Promote(j) \/ Restore(j) \/ DropTrash(j)
  BY <1>8 DEF Promote, Restore, DropTrash, At, Goto, TypeOK, Exporting, Exported
<1>9. CASE Update(j)
  BY <1>2, <1>9 DEF Update, Publish, Goto, Promote, At, TypeOK, diskVars, Exporting, Exported
<1> QED
  BY <1>3, <1>4, <1>5, <1>6, <1>7, <1>8, <1>9 DEF PipelineStep, StagingMove, RootMove

LEMMA NextOwned == TypeOK /\ Slot /\ Owned /\ [Next]_vars => Owned'
<1> SUFFICES ASSUME TypeOK, Slot, Owned, [Next]_vars, NEW j \in Job
             PROVE  /\ pc'[j] \in Exported => staging'[src'[j]] # Absent /\ staging'[src'[j]].by = j
                    /\ pc'[j] \in {"unborn"} \union Exporting \union Exported => Outside(j)'
  BY DEF Owned
<1>1. /\ pc[j] \in Exported => staging[src[j]] # Absent /\ staging[src[j]].by = j
      /\ pc[j] \in {"unborn"} \union Exporting \union Exported => Outside(j)
  BY DEF Owned
<1>2. CASE UNCHANGED <<pc, src, staging, managed, trash>>
  BY <1>1, <1>2 DEF Outside
<1>3. CASE NewProcess
  <2>1. pc'[j] = IF pc[j] = "unborn" THEN "unborn" ELSE "gone"
    BY <1>3 DEF NewProcess
  <2>2. pc[j] = "unborn" => ~Promote(j)
    BY DEF Promote, At
  <2> QED
    BY <1>1, <2>1, <2>2, OutsideStays DEF Exporting, Exported
<1>4. ASSUME NEW k \in Job, StartRegister(k)
      PROVE  /\ pc'[j] \in Exported => staging'[src'[j]] # Absent /\ staging'[src'[j]].by = j
             /\ pc'[j] \in {"unborn"} \union Exporting \union Exported => Outside(j)'
  <2>1. /\ j # k => pc'[j] = pc[j] /\ src'[j] = src[j]
        /\ j = k => pc[j] = "unborn" /\ pc'[j] \in {"resolve", "statRoot"}
        /\ UNCHANGED <<staging, managed, trash>>
    BY <1>4 DEF StartRegister, RegisterAs, TypeOK, diskVars
  <2> QED
    BY <1>1, <2>1 DEF Outside, Exporting, Exported
<1>5. ASSUME NEW k \in Job, PipelineStep(k) \/ Update(k)
      PROVE  /\ pc'[j] \in Exported => staging'[src'[j]] # Absent /\ staging'[src'[j]].by = j
             /\ pc'[j] \in {"unborn"} \union Exporting \union Exported => Outside(j)'
  <2>1. /\ pc[k] \in Working /\ src' = src
        /\ j # k => pc'[j] = pc[j]
    <3>1. CASE PipelineStep(k)
      BY <3>1, PipelineStepsMove DEF WorkerMove, registryVars, TypeOK
    <3>2. CASE Update(k)
      BY <3>2 DEF Update, Publish, Goto, TypeOK, Working, Label
    <3> QED
      BY <1>5, <3>1, <3>2
  <2>2. CASE j = k
    BY <1>1, <1>5, <2>1, <2>2, OwnStepOwns, OutsideStays
  <2>3. CASE j # k
    <3>1. ~Promote(j)
      BY <2>1, <2>3 DEF Promote, At, Goto, TypeOK
    <3>2. pc[j] \in Exported => src[j] # src[k]
      BY <2>1, <2>3, Alone DEF Exported, Working, Label
    <3>3. pc[j] \in Exported => staging'[src[j]] = staging[src[j]]
      <4>1. CASE PipelineStep(k)
        BY <3>2, <4>1, OtherSources DEF TypeOK
      <4>2. CASE Update(k)
        BY <4>2 DEF Update, Publish, diskVars
      <4> QED
        BY <1>5, <4>1, <4>2
    <3> QED
      BY <1>1, <2>1, <2>3, <3>1, <3>3, OutsideStays
  <2> QED
    BY <2>2, <2>3
<1>6. ASSUME NEW k \in Job, Exit(k)
      PROVE  /\ pc'[j] \in Exported => staging'[src'[j]] # Absent /\ staging'[src'[j]].by = j
             /\ pc'[j] \in {"unborn"} \union Exporting \union Exported => Outside(j)'
  <2>1. UNCHANGED <<src, staging, managed, trash>> /\ (j # k => pc'[j] = pc[j])
    BY <1>6 DEF Exit, Goto, TypeOK, registryVars, diskVars
  <2>2. j = k => pc'[j] = "gone"
    BY <1>6 DEF Exit, Goto, TypeOK
  <2> QED
    BY <1>1, <2>1, <2>2 DEF Outside, Exporting, Exported
<1> QED
  BY <1>2, <1>3, <1>4, <1>5, <1>6, NextCases
     DEF StartCheck, Cancel, ShutdownStop, ShutdownReturn, Crash, Relaunch, vars, registryVars, diskVars

LEMMA OwnedInvariant == Spec => [](TypeOK /\ Slot /\ Owned)
<1>1. Init => TypeOK /\ Slot /\ Owned
  BY InitType, InitSlot, InitOwned
<1>2. TypeOK /\ Slot /\ Owned /\ [Next]_vars => (TypeOK /\ Slot /\ Owned)'
  BY NextType, NextSlot, NextOwned
<1> QED
  BY <1>1, <1>2, PTL DEF Spec

\* A job that has withdrawn stays so: its context stays done while it is of
\* consequence, and from no label it has left does a step lead back to adopt.
LEMMA StepWithdrawn ==
  ASSUME TypeOK, Slot, Owned, [Next]_vars, NEW j \in Job, Withdrawn(j)
  PROVE  Withdrawn(j)'
<1> DEFINE Labels == Exporting \union {"exported", "exportFailed", "failing", "cancelling", "exiting", "gone"}
<1>1. Outside(j) /\ pc[j] \in Labels /\ (pc[j] \in Exporting \union {"exported"} => ctxDone[j])
  BY DEF Withdrawn
<1>2. Outside(j)'
  BY <1>1, OutsideStays DEF Promote, At, Exporting
<1>3. CASE UNCHANGED <<pc, ctxDone>>
  BY <1>1, <1>2, <1>3 DEF Withdrawn
<1>4. CASE NewProcess
  <2>1. pc'[j] = "gone"
    BY <1>1, <1>4 DEF NewProcess, Exporting
  <2> QED
    BY <1>2, <2>1 DEF Withdrawn, Exporting
<1>5. ASSUME pc'[j] = pc[j], ctxDone[j] => ctxDone'[j]
      PROVE  Withdrawn(j)'
  BY <1>1, <1>2, <1>5 DEF Withdrawn
<1>6. CASE ShutdownStop \/ \E s \in Source : Cancel(s)
  <2>1. pc' = pc /\ (ctxDone[j] => ctxDone'[j])
    BY <1>6 DEF ShutdownStop, Cancel, TypeOK
  <2> QED
    BY <1>5, <2>1
<1>7. ASSUME NEW k \in Job, StartRegister(k)
      PROVE  Withdrawn(j)'
  <2>1. k # j
    BY <1>1, <1>7 DEF StartRegister, RegisterAs, Exporting
  <2> QED
    BY <1>5, <1>7, <2>1 DEF StartRegister, RegisterAs, TypeOK
<1>8. ASSUME NEW k \in Job, k # j, PipelineStep(k) \/ Update(k) \/ Exit(k)
      PROVE  Withdrawn(j)'
  <2>1. CASE PipelineStep(k)
    BY <1>5, <1>8, <2>1, PipelineStepsMove DEF WorkerMove, lifeVars, TypeOK
  <2>2. CASE Update(k) \/ Exit(k)
    BY <1>5, <1>8, <2>2 DEF Update, Publish, Exit, Goto, lifeVars, TypeOK
  <2> QED
    BY <1>8, <2>1, <2>2
<1>9. CASE PipelineStep(j) \/ Update(j) \/ Exit(j)
  <2>1. ctxDone[j] => ctxDone'[j]
    <3>1. CASE PipelineStep(j)
      BY <3>1, PipelineStepsMove DEF WorkerMove, lifeVars
    <3>2. CASE Update(j) \/ Exit(j)
      BY <3>2 DEF Update, Publish, Exit, lifeVars, TypeOK
    <3> QED
      BY <1>9, <3>1, <3>2
  <2>2. pc'[j] \in Labels /\ (pc'[j] \in Exporting \union {"exported"} => ctxDone[j])
    <3>1. CASE Resolve(j) \/ NewStaging(j) \/ Prepare(j) \/ ExporterExit(j)
      BY <1>1, <3>1 DEF Resolve, NewStaging, Prepare, ExporterExit, At, Goto, TypeOK, Exporting
    <3>2. CASE AfterExport(j) \/ AfterFailedExport(j)
      BY <1>1, <3>2 DEF AfterExport, AfterFailedExport, At, Goto, TypeOK, Exporting
    <3>3. CASE Update(j) \/ Exit(j)
      BY <1>1, <3>3 DEF Update, Publish, Exit, Goto, TypeOK, Exporting
    <3>4. ~(StatRoot(j) \/ AfterAdopt(j) \/ Import(j) \/ ImportFailed(j) \/ AdoptFailed(j) \/ RootMove(j))
      BY <1>1 DEF StatRoot, AfterAdopt, Import, ImportFailed, AdoptFailed, RootMove, ClearTrash, MoveAside,
         Promote, Restore, DropTrash, At, Exporting
    <3> QED
      BY <1>9, <3>1, <3>2, <3>3, <3>4 DEF PipelineStep, QuietMove, StagingMove
  <2> QED
    BY <1>2, <2>1, <2>2 DEF Withdrawn
<1> QED
  BY <1>3, <1>4, <1>6, <1>7, <1>8, <1>9, NextCases
     DEF StartCheck, ShutdownReturn, Crash, Relaunch, vars, lifeVars

\* A job that is cancelled before its exporter has exited never has its export
\* in place, then or later.
THEOREM CancelledStaysOut == Spec => CancelledExportNeverPromoted
<1> SUFFICES ASSUME NEW j \in Job
             PROVE  Spec => [](ctxDone[j] /\ pc[j] \in {"resolve", "toExport", "stage", "prepare", "running"}
                                 => [](\A s \in Source : managed[s] = Absent \/ managed[s].by # j))
  BY DEF CancelledExportNeverPromoted
<1> DEFINE Cancelled == ctxDone[j] /\ pc[j] \in {"resolve", "toExport", "stage", "prepare", "running"}
           NotInPlace == \A s \in Source : managed[s] = Absent \/ managed[s].by # j
           OInv == TypeOK /\ Slot /\ Owned
<1>1. OInv /\ Cancelled => Withdrawn(j)
  BY DEF Owned, Withdrawn, Exporting
<1>2. OInv /\ Withdrawn(j) /\ [Next]_vars => Withdrawn(j)'
  BY StepWithdrawn
<1>3. Withdrawn(j) => NotInPlace
  BY DEF Withdrawn, Outside, Foreign
<1>4. Spec => []OInv
  BY OwnedInvariant
<1>5. Spec => [][Next]_vars
  BY PTL DEF Spec
<1> HIDE DEF Cancelled, NotInPlace, OInv
<1>6. []OInv /\ [][Next]_vars => [](Cancelled => []NotInPlace)
  BY <1>1, <1>2, <1>3, PTL
<1> QED
  BY <1>4, <1>5, <1>6, PTL DEF Cancelled, NotInPlace
=============================================================================
