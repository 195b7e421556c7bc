------------------------------- MODULE Backup -------------------------------
(***************************************************************************)
(* Snapshots of the database (internal/backup/manager.go): create, prune   *)
(* and restore, as `serve` and the CLI run them over one snapshot          *)
(* directory and one live database.                                        *)
(*                                                                         *)
(* Each process has a Manager, whose single-flight guard admits one        *)
(* operation at a time; between processes there is no guard. One step is   *)
(* one call to the file system or to SQLite, so that another process may   *)
(* act, or the process die, between any two.                               *)
(*                                                                         *)
(* A database is the number of its last commit, 0 being a database created *)
(* empty. A file that a process is still writing, or was writing when it   *)
(* died, holds the name of that process.                                   *)
(*                                                                         *)
(* Bounds: MaxSec the clock, MaxSame the snapshots of one second,          *)
(* MaxCommits the commits, MaxOps the operations started, MaxFaults the    *)
(* failing calls and crashes.                                              *)
(***************************************************************************)
EXTENDS Absent, Integers, FiniteSets, Functions

CONSTANTS
  Proc,       \* the processes with a Manager
  Server,     \* the one that serves the database
  Keep,       \* config.RetentionConfig: how many snapshots a tier keeps,
              \* all of them if it is negative
  Horizon,    \* the age at which a tier ends, for each tier but the last
  MaxSec, MaxSame, MaxCommits, MaxOps, MaxFaults

Tier == {"daily", "monthly", "quarterly", "yearly"}
Node == 1..(2 * MaxOps + 2)      \* files, by inode
Db   == 0..MaxCommits         \* a whole database
File == Db \union Proc        \* and one that is being written

\* What the code leaves to luck: a directory made while another process is at
\* work in one of that name (which takes the same second), a prune that lists an
\* unfinished snapshot, two restores at a time, a restore that dies or cannot
\* roll back while the live file is away.
Mishaps == {"directory", "listing", "restores", "away"}

\* A snapshot directory is named by its kind, its second and a suffix.
Id == [pre : BOOLEAN, sec : 0..MaxSec, n : 1..MaxSame]
Dir == [db : File \union {None}, sum : File \union {None}]

ASSUME BackupAssumption ==
  /\ Server \in Proc
  /\ Keep \in [Tier -> Int]
  /\ Horizon \in [Tier \ {"yearly"} -> Nat]
  /\ {MaxSec, MaxSame, MaxCommits, MaxOps, MaxFaults} \subseteq Nat
  /\ None \notin Proc \union Node \union Db \union Id /\ Proc \intersect Db = {}

VARIABLES
  now,      \* the second the clock shows
  dirs,     \* backups.dir: each directory's database and manifest checksum
  node,     \* the contents of the database files
  path,     \* the file named msgbrowse.sqlite, or None
  aside,    \* the file named msgbrowse.sqlite.pre-restore-<id>, or None
  conn,     \* the file the server has open, or None while it is down
  commits,  \* the commits made so far
  pc,       \* where each process is in create, Prune or Restore
  name,     \* the directory its create has chosen
  target,   \* the snapshot its Restore restores; None in a Create
  took,     \* the database its VACUUM INTO reads; the checksum it computed
  out,      \* the file its copyFile0600 writes
  src,      \* and the database it reads
  doomed,   \* the snapshots its Prune has still to delete
  ops,      \* operations started
  faults,   \* failing calls and crashes
  kept,     \* history: the file that was live at the last swap
  spoilt    \* history: which of the Mishaps have happened

opVars   == <<pc, name, target, took, out, src, doomed>>
liveVars == <<node, path, aside, conn, commits, kept>>
backupVars == <<now, dirs, liveVars, opVars, ops, faults, spoilt>>

Label == {"idle", "name", "mkdir", "vacuum", "vacuuming", "sum", "manifest", "cleanup",
          "swap", "open", "copy", "rollback", "prune"}

BackupTypeOK ==
  /\ now \in 0..MaxSec
  /\ dirs \in [Id -> Dir \union {None}]
  /\ node \in [Node -> File]
  /\ path \in Node \union {None}
  /\ aside \in [Id -> Node \union {None}]
  /\ conn \in Node \union {None}
  /\ commits \in Db
  /\ pc \in [Proc -> Label]
  /\ name \in [Proc -> Id \union {None}]
  /\ target \in [Proc -> Id \union {None}]
  /\ took \in [Proc -> File \union {None}]
  /\ out \in [Proc -> Node \union {None}]
  /\ src \in [Proc -> File \union {None}]
  /\ doomed \in [Proc -> SUBSET Id]
  /\ ops \in 0..MaxOps
  /\ faults \in 0..MaxFaults
  /\ kept \in Node \union {None}
  /\ spoilt \in SUBSET Mishaps

-----------------------------------------------------------------------------
(* The listing and the retention policy                                    *)

Listed == {id \in Id : dirs[id] # None}

\* verifySnapshot: the manifest is there and its checksum is the file's.
Verifies(id) == /\ id \in Listed
                /\ dirs[id].db # None
                /\ dirs[id].sum = dirs[id].db

\* List's order: newest first, and within a second the order of the names.
Newer(a, b) ==
  \/ a.sec > b.sec
  \/ a.sec = b.sec /\ a.pre /\ ~b.pre
  \/ a.sec = b.sec /\ a.pre = b.pre /\ a.n < b.n

\* classifySnapshotTier
TierOf(id) ==
  LET age == now - id.sec IN
  IF age <= Horizon["daily"] THEN "daily"
  ELSE IF age <= Horizon["monthly"] THEN "monthly"
  ELSE IF age <= Horizon["quarterly"] THEN "quarterly"
  ELSE "yearly"

\* applyRetention and PrunePreview: beyond the newest Keep of its tier, and not
\* the newest of all.
Superfluous(S) ==
  {id \in S :
     /\ Keep[TierOf(id)] >= 0
     /\ Cardinality({x \in S : TierOf(x) = TierOf(id) /\ Newer(x, id)}) >= Keep[TierOf(id)]
     /\ \E x \in S : Newer(x, id)}

-----------------------------------------------------------------------------
BackupInit ==
  /\ now = 0
  /\ dirs = [id \in Id |-> None]
  /\ node = [f \in Node |-> 0]
  /\ path = 1
  /\ aside = [id \in Id |-> None]
  /\ conn = 1
  /\ commits = 0
  /\ pc = [p \in Proc |-> "idle"]
  /\ name = [p \in Proc |-> None]
  /\ target = [p \in Proc |-> None]
  /\ took = [p \in Proc |-> None]
  /\ out = [p \in Proc |-> None]
  /\ src = [p \in Proc |-> None]
  /\ doomed = [p \in Proc |-> {}]
  /\ ops = 0
  /\ faults = 0
  /\ kept = None
  /\ spoilt = {}

Goto(p, l) == pc' = [pc EXCEPT ![p] = l]

\* The files no name and no process holds; of the bounded number of files there
\* is always one left.
Spare   == Node \ ({path, conn, kept} \union Range(aside) \union Range(out))
Unused == CHOOSE f \in Spare : TRUE

-----------------------------------------------------------------------------
(* Create                                                                  *)

\* p's operation is over, well or badly.
Finish(p) ==
  /\ Goto(p, "idle")
  /\ name' = [name EXCEPT ![p] = None]
  /\ target' = [target EXCEPT ![p] = None]
  /\ took' = [took EXCEPT ![p] = None]
  /\ out' = [out EXCEPT ![p] = None]
  /\ src' = [src EXCEPT ![p] = None]
  /\ doomed' = [doomed EXCEPT ![p] = {}]

\* p goes on at l with the locals of create.
Proceed(p, l) ==
  /\ Goto(p, l)
  /\ UNCHANGED <<now, name, target, out, src, doomed, ops, liveVars>>

\* acquire
Acquire(p) ==
  /\ pc[p] = "idle"
  /\ ops < MaxOps
  /\ ops' = ops + 1

\* Manager.Create
StartCreate(p) ==
  /\ Acquire(p)
  /\ Goto(p, "name")
  /\ UNCHANGED <<now, dirs, liveVars, name, target, took, out, src, doomed, faults, spoilt>>

\* Mutant: the name of the second, taken or not.
ChooseNameFirst(p) ==
  /\ pc[p] = "name"
  /\ name' = [name EXCEPT ![p] = [pre |-> target[p] # None, sec |-> now, n |-> 1]]
  /\ Goto(p, "mkdir")
  /\ UNCHANGED <<now, dirs, liveVars, target, took, out, src, doomed, ops, faults, spoilt>>

\* The loop over os.Stat: the first name of this second that is not taken.
ChooseName(p) ==
  /\ pc[p] = "name"
  /\ \E n \in 1..MaxSame :
       LET id(k) == [pre |-> target[p] # None, sec |-> now, n |-> k] IN
       /\ dirs[id(n)] = None
       /\ \A k \in 1..(n - 1) : dirs[id(k)] # None
       /\ name' = [name EXCEPT ![p] = id(n)]
  /\ Goto(p, "mkdir")
  /\ UNCHANGED <<now, dirs, liveVars, target, took, out, src, doomed, ops, faults, spoilt>>

\* os.MkdirAll, which is content with a directory that has appeared meanwhile.
Mkdir(p) ==
  /\ pc[p] = "mkdir"
  /\ dirs' = [dirs EXCEPT ![name[p]] = IF @ = None THEN [db |-> None, sum |-> None] ELSE @]
  /\ spoilt' = IF \E q \in Proc \ {p} : name[p] \in {name[q], target[q]}
               THEN spoilt \union {"directory"} ELSE spoilt
  /\ Proceed(p, "vacuum")
  /\ UNCHANGED <<took, faults>>

\* The files in the directory p is making; None when there is none.
Made(p) == dirs[name[p]]

\* VACUUM INTO begins: it needs a whole database to read and a new file to write.
VacuumBegin(p) ==
  /\ pc[p] = "vacuum"
  /\ UNCHANGED <<faults, spoilt>>
  /\ IF Made(p) # None /\ Made(p).db = None /\ path # None /\ node[path] \in Db
     THEN /\ dirs' = [dirs EXCEPT ![name[p]].db = p]
          /\ took' = [took EXCEPT ![p] = node[path]]
          /\ Proceed(p, "vacuuming")
     ELSE /\ UNCHANGED <<dirs, took>>
          /\ Proceed(p, "cleanup")

\* It ends, and os.Stat finds a file of that name: its own, unless the directory
\* has been removed, and perhaps made again, under it.
VacuumEnd(p) ==
  /\ pc[p] = "vacuuming"
  /\ dirs' = IF Made(p) # None /\ Made(p).db = p
             THEN [dirs EXCEPT ![name[p]].db = took[p]] ELSE dirs
  /\ Proceed(p, IF Made(p) # None /\ Made(p).db # None THEN "sum" ELSE "cleanup")
  /\ UNCHANGED <<took, faults, spoilt>>

\* copyFile0600 of the configuration, and checksumDir.
Checksum(p) ==
  /\ pc[p] = "sum"
  /\ IF Made(p) # None
     THEN took' = [took EXCEPT ![p] = Made(p).db] /\ Proceed(p, "manifest")
     ELSE UNCHANGED took /\ Proceed(p, "cleanup")
  /\ UNCHANGED <<dirs, faults, spoilt>>

\* writeManifest, the end of a Create; a Restore goes on to the swap.
WriteManifest(p) ==
  /\ pc[p] = "manifest"
  /\ UNCHANGED <<now, liveVars, ops, faults, spoilt>>
  /\ IF Made(p) = None
     THEN Goto(p, "cleanup") /\ UNCHANGED <<dirs, name, target, took, out, src, doomed>>
     ELSE /\ dirs' = [dirs EXCEPT ![name[p]].sum = took[p]]
          /\ IF target[p] = None
             THEN Finish(p)
             ELSE Goto(p, "swap") /\ UNCHANGED <<name, target, took, out, src, doomed>>

\* cleanup: os.RemoveAll of the directory; create fails, and so does its caller.
Cleanup(p) ==
  /\ pc[p] = "cleanup"
  /\ dirs' = [dirs EXCEPT ![name[p]] = None]
  /\ Finish(p)
  /\ UNCHANGED <<now, liveVars, ops, faults, spoilt>>

CreateStep(p) ==
  \/ ChooseName(p) \/ Mkdir(p) \/ VacuumBegin(p) \/ VacuumEnd(p)
  \/ Checksum(p) \/ WriteManifest(p) \/ Cleanup(p)

\* One of create's calls fails (a full disk, an interrupted VACUUM).
CreateFails(p) ==
  /\ pc[p] \in {"vacuum", "vacuuming", "sum", "manifest"}
  /\ faults < MaxFaults
  /\ faults' = faults + 1
  /\ Proceed(p, "cleanup")
  /\ UNCHANGED <<dirs, took, spoilt>>

-----------------------------------------------------------------------------
(* Restore                                                                 *)

\* RestoreTarget, verifySnapshot and verifyDatabaseOpens, then create(pre).
StartRestore(p, id) ==
  /\ Verifies(id)
  /\ Acquire(p)
  /\ Goto(p, "name")
  /\ target' = [target EXCEPT ![p] = id]
  /\ spoilt' = IF \E q \in Proc : target[q] # None THEN spoilt \union {"restores"} ELSE spoilt
  /\ UNCHANGED <<now, dirs, liveVars, name, took, out, src, doomed, faults>>

\* p has moved the live file aside and not yet put another in its place.
Away(p) == pc[p] \in {"open", "copy", "rollback"}

\* Mutant: the snapshot is copied over the live file.
SwapOver(p) ==
  /\ pc[p] = "swap"
  /\ UNCHANGED <<now, dirs, node, conn, commits, ops, faults, spoilt, path, aside>>
  /\ IF path = None
     THEN Finish(p) /\ UNCHANGED kept
     ELSE /\ kept' = path
          /\ Goto(p, "open")
          /\ UNCHANGED <<name, target, took, out, src, doomed>>

\* os.Rename of the live database to its aside name.
Swap(p) ==
  /\ pc[p] = "swap"
  /\ UNCHANGED <<now, dirs, node, conn, commits, ops, faults, spoilt>>
  /\ IF path = None
     THEN Finish(p) /\ UNCHANGED <<path, aside, kept>>
     ELSE /\ aside' = [aside EXCEPT ![target[p]] = path]
          /\ path' = None
          /\ kept' = path
          /\ Goto(p, "open")
          /\ UNCHANGED <<name, target, took, out, src, doomed>>

\* copyFile0600 opens the snapshot, then opens or creates the live file and
\* truncates it.
OpenCopy(p) ==
  /\ pc[p] = "open"
  /\ UNCHANGED <<now, dirs, aside, conn, commits, kept, name, target, took, doomed, ops, faults, spoilt>>
  /\ IF target[p] \notin Listed \/ dirs[target[p]].db = None
     THEN Goto(p, "rollback") /\ UNCHANGED <<node, path, out, src>>
     ELSE LET f == IF path = None THEN Unused ELSE path IN
          /\ path = None => Spare # {}
          /\ path' = f
          /\ node' = [node EXCEPT ![f] = p]
          /\ out' = [out EXCEPT ![p] = f]
          /\ src' = [src EXCEPT ![p] = dirs[target[p]].db]
          /\ Goto(p, "copy")

\* io.Copy ends, and with it the Restore.
CopyDone(p) ==
  /\ pc[p] = "copy"
  /\ node' = [node EXCEPT ![out[p]] = src[p]]
  /\ Finish(p)
  /\ UNCHANGED <<now, dirs, path, aside, conn, commits, kept, ops, faults, spoilt>>

CopyFails(p) ==
  /\ pc[p] = "copy"
  /\ faults < MaxFaults
  /\ faults' = faults + 1
  /\ Goto(p, "rollback")
  /\ UNCHANGED <<now, dirs, liveVars, name, target, took, out, src, doomed, ops, spoilt>>

\* os.Rename of the aside file back, whose error is dropped.
Rollback(p) ==
  /\ pc[p] = "rollback"
  /\ UNCHANGED <<now, dirs, node, conn, commits, kept, ops, faults, spoilt>>
  /\ Finish(p)
  /\ IF aside[target[p]] = None
     THEN UNCHANGED <<path, aside>>
     ELSE /\ path' = aside[target[p]]
          /\ aside' = [aside EXCEPT ![target[p]] = None]

RestoreStep(p) == Swap(p) \/ OpenCopy(p) \/ CopyDone(p) \/ Rollback(p)

\* A rename fails.
RenameFails(p) ==
  /\ pc[p] \in {"swap", "rollback"}
  /\ faults < MaxFaults
  /\ faults' = faults + 1
  /\ spoilt' = IF Away(p) THEN spoilt \union {"away"} ELSE spoilt
  /\ Finish(p)
  /\ UNCHANGED <<now, dirs, liveVars, ops>>

-----------------------------------------------------------------------------
(* Prune                                                                   *)

\* Manager.Prune lists and decides.
StartPrune(p) ==
  /\ Acquire(p)
  /\ Goto(p, "prune")
  /\ doomed' = [doomed EXCEPT ![p] = Superfluous(Listed)]
  /\ spoilt' = IF \A id \in Listed : Verifies(id) THEN spoilt ELSE spoilt \union {"listing"}
  /\ UNCHANGED <<now, dirs, liveVars, name, target, took, out, src, faults>>

\* os.RemoveAll of the next one.
PruneNext(p) ==
  /\ pc[p] = "prune"
  /\ UNCHANGED <<now, liveVars, ops, faults, spoilt>>
  /\ IF doomed[p] = {}
     THEN Finish(p) /\ UNCHANGED dirs
     ELSE \E id \in doomed[p] :
            /\ dirs' = [dirs EXCEPT ![id] = None]
            /\ doomed' = [doomed EXCEPT ![p] = @ \ {id}]
            /\ UNCHANGED <<pc, name, target, took, out, src>>

-----------------------------------------------------------------------------
(* The clock, the server's own use of the database, and crashes            *)

Tick ==
  /\ now < MaxSec
  /\ now' = now + 1
  /\ UNCHANGED <<dirs, liveVars, opVars, ops, faults, spoilt>>

\* A request or an import of the server commits to the file it has open, which
\* after a Restore is the one that was moved aside.
Commit ==
  /\ conn # None
  /\ node[conn] \in Db
  /\ commits < MaxCommits
  /\ commits' = commits + 1
  /\ node' = [node EXCEPT ![conn] = commits + 1]
  /\ UNCHANGED <<now, dirs, path, aside, conn, kept, opVars, ops, faults, spoilt>>

\* The server starts, or is restarted as a Restore asks, or its pool opens another
\* connection: SQLite opens what is there and creates what is not. Half a
\* database it does not open.
Reopen ==
  /\ conn # path \/ conn = None
  /\ IF path = None
     THEN /\ Spare # {}
          /\ path' = Unused /\ conn' = Unused
          /\ node' = [node EXCEPT ![Unused] = 0]
     ELSE /\ node[path] \in Db
          /\ conn' = path
          /\ UNCHANGED <<path, node>>
  /\ UNCHANGED <<now, dirs, aside, commits, kept, opVars, ops, faults, spoilt>>

\* A process dies; the files stay as they are.
Crash(p) ==
  /\ faults < MaxFaults
  /\ pc[p] # "idle"
  /\ faults' = faults + 1
  /\ Finish(p)
  /\ spoilt' = IF Away(p) THEN spoilt \union {"away"} ELSE spoilt
  /\ conn' = IF p = Server THEN None ELSE conn
  /\ UNCHANGED <<now, dirs, node, path, aside, commits, kept, ops>>

BackupNext ==
  \/ Tick \/ Commit \/ Reopen
  \/ \E p \in Proc :
       \/ StartCreate(p) \/ CreateStep(p) \/ CreateFails(p)
       \/ \E id \in Id : StartRestore(p, id)
       \/ RestoreStep(p) \/ CopyFails(p) \/ RenameFails(p)
       \/ StartPrune(p) \/ PruneNext(p)
       \/ Crash(p)

BackupSpec == BackupInit /\ [][BackupNext]_backupVars

-----------------------------------------------------------------------------
(* Properties                                                              *)

\* Restore is all or nothing: when no Restore is at work the live database is a
\* whole one, whatever failed in an earlier one and whatever was pruned under it.
LiveWhole ==
  spoilt \intersect {"directory", "restores", "away"} = {} /\ (\A p \in Proc : ~Away(p)) =>
    path # None /\ node[path] \in Db

\* "A mid-failure is recoverable": what was live at the last swap, with all that
\* the server committed to it since, is under a name: the live one or an aside one.
LiveOrAside ==
  "restores" \notin spoilt /\ kept # None =>
    kept \in {path} \union Range(aside) /\ node[kept] \in Db

\* A restore puts one whole database in place of another, and loses neither.
BackupKeepsLive == LiveWhole /\ LiveOrAside

\* "Rolled back": a Restore that fails after the swap leaves the database that
\* was live, with every commit made meanwhile.
RollsBack ==
  [][\A p \in Proc : pc[p] = "rollback" /\ pc'[p] = "idle"
                     /\ spoilt' \intersect {"restores", "away"} = {} =>
       path' = kept /\ node'[kept] \in Db]_backupVars

\* "Prune never empties the set", nor does a create that fails: as long as there
\* is a snapshot to restore from there stays one, unless a prune took an
\* unfinished snapshot for the newest.
RestorePointStays ==
  [][spoilt' \intersect {"directory", "listing"} = {} /\ (\E id \in Id : Verifies(id)) =>
       (\E id \in Id : Verifies(id))']_backupVars

\* Failing costs nothing that was there: neither the live database, nor the last
\* snapshot it could be restored from.
BackupsHold == RollsBack /\ RestorePointStays

\* manager.go:451: "a crash leaves either the old or the new file, never a
\* half-written one".
CrashKeepsLive ==
  (\A p \in Proc : ~Away(p)) => path # None /\ node[path] \in Db
=============================================================================
