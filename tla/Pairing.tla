------------------------------- MODULE Pairing -------------------------------
(***************************************************************************)
(* Device pairing (internal/devsync): the registry of paired peers in the  *)
(* store, the set of managed folders, and the device and folder lists of   *)
(* the Syncthing daemon, which Pair, Unpair and the watcher's accepts each *)
(* read, edit and put back over REST.                                      *)
(*                                                                         *)
(* One step is one transaction of the registry, one call of the folder set *)
(* (under its mutex) or one REST call; nothing serialises the actors. A    *)
(* folder is known by its source, as its id is made of it. Names, times    *)
(* and folder ids outside the source enum are left out. Syncthing keeps    *)
(* what is PUT, so a daemon that the supervisor respawns has it unchanged: *)
(* only a start of the server makes its lists anew from the registry.      *)
(*                                                                         *)
(* Bounds: MaxOps operations and restarts, MaxFaults failing calls.        *)
(***************************************************************************)
EXTENDS Naturals, Absent

CONSTANTS
  Peer,    \* other devices
  Source,  \* the source enum; each has one managed folder
  Handler, \* requests of the Settings and Setup pages
  Watcher, \* the watcher's dispatcher
  Cli,     \* `msgbrowse devices unpair`, a process of its own
  MaxOps, MaxFaults

Actor  == Handler \union {Watcher, Cli}
Server == Handler \union {Watcher}

Role   == {"none", "importer", "replica"}
Row    == [folders : SUBSET Source, roles : [Source -> Role]]
Shares == [Source -> {None} \union SUBSET Peer]

ASSUME PairingAssumption ==
  /\ Watcher \notin Handler /\ Cli \notin Server
  /\ {MaxOps, MaxFaults} \subseteq Nat
  /\ None \notin Peer
  /\ \A r \in Row : r # None
  /\ \A P \in SUBSET Peer : P # None

VARIABLES
  registry,  \* paired_devices
  roots,     \* the managed roots on disk
  managed,   \* FolderSet: those the running server knows
  devs,      \* the daemon's device list
  shares,    \* the daemon's folder list: with whom each folder is shared
  pc, op,    \* where each actor is, in which operation
  peer,      \* the device it is about
  share,     \* the folders it is about
  row,       \* the registry row it has read or made
  got,       \* the folder list it has read
  known,     \* the device list it has read
  ops, faults,
  own,       \* history: the sources whose archive this node has made itself
  accepted,  \* history: the devices the operator has paired, and not unpaired
  overtaken, \* history: unpaired while another actor was at work on them
  disturbed  \* history: since the last start, a call failed or two actors were
             \* at work at a time

configVars == <<registry, roots, managed, devs, shares, own>>
localVars  == <<op, peer, share, row, got, known>>
history    == <<accepted, overtaken, disturbed>>
vars == <<configVars, pc, localVars, ops, faults, history>>

Label == {"idle", "resolve", "lookup", "provision", "upsert",
          "getDevs", "putDevs", "getFolders", "putFolders", "getShares", "putShares",
          "delete", "getUnshare", "putUnshare", "getRemove", "putRemove", "adopt"}
Op == {"none", "pair", "unpair", "device", "folder", "enable"}

NoRow == [folders |-> {}, roles |-> [s \in Source |-> "none"]]

TypeOK ==
  /\ registry \in [Peer -> {None} \union Row]
  /\ roots \in SUBSET Source /\ managed \in SUBSET Source /\ own \in SUBSET Source
  /\ devs \in SUBSET Peer
  /\ shares \in Shares
  /\ pc \in [Actor -> Label]
  /\ op \in [Actor -> Op]
  /\ peer \in [Actor -> Peer \union {None}]
  /\ share \in [Actor -> SUBSET Source]
  /\ row \in [Actor -> Row]
  /\ got \in [Actor -> Shares]
  /\ known \in [Actor -> SUBSET Peer]
  /\ ops \in 0..MaxOps /\ faults \in 0..MaxFaults
  /\ accepted \in SUBSET Peer /\ overtaken \in SUBSET Peer
  /\ disturbed \in BOOLEAN

Paired(p)      == registry[p] # None
Configured(s)  == shares[s] # None
Importer(p, s) == Paired(p) /\ registry[p].roles[s] = "importer"
Busy(a)        == pc[a] # "idle"
NoShares       == [s \in Source |-> None]

\* ApplyPeers and GenerateConfigXML: the lists a start makes from the registry.
ApplyPeers(R) ==
  [s \in Source |-> IF s \in R THEN {p \in Peer : Paired(p) /\ s \in registry[p].folders}
                               ELSE None]

-----------------------------------------------------------------------------
Init ==
  /\ registry = [p \in Peer |-> None]
  /\ roots \in SUBSET Source
  /\ managed = roots /\ own = roots
  /\ devs = {}
  /\ shares = [s \in Source |-> IF s \in roots THEN {} ELSE None]
  /\ pc = [a \in Actor |-> "idle"]
  /\ op = [a \in Actor |-> "none"]
  /\ peer = [a \in Actor |-> None]
  /\ share = [a \in Actor |-> {}]
  /\ row = [a \in Actor |-> NoRow]
  /\ got = [a \in Actor |-> NoShares]
  /\ known = [a \in Actor |-> {}]
  /\ ops = 0 /\ faults = 0
  /\ accepted = {} /\ overtaken = {} /\ disturbed = FALSE

-----------------------------------------------------------------------------
Goto(a, l) == pc' = [pc EXCEPT ![a] = l]

\* a's operation returns, with or without an error: its locals are gone.
Return(a) ==
  /\ Goto(a, "idle")
  /\ op' = [op EXCEPT ![a] = "none"]
  /\ peer' = [peer EXCEPT ![a] = None]
  /\ share' = [share EXCEPT ![a] = {}]
  /\ row' = [row EXCEPT ![a] = NoRow]
  /\ got' = [got EXCEPT ![a] = NoShares]
  /\ known' = [known EXCEPT ![a] = {}]

\* a begins operation o about device p and folders S.
Begin(a, o, p, S, l) ==
  /\ ~Busy(a)
  /\ ops < MaxOps
  /\ ops' = ops + 1
  /\ Goto(a, l)
  /\ op' = [op EXCEPT ![a] = o]
  /\ peer' = [peer EXCEPT ![a] = p]
  /\ share' = [share EXCEPT ![a] = S]
  /\ disturbed' = (disturbed \/ (o # "enable" /\ \E b \in Actor : op[b] \notin {"none", "enable"}))
  /\ UNCHANGED <<configVars, row, got, known, faults, overtaken>>

\* a is at l and does not fail.
At(a, l) == pc[a] = l /\ UNCHANGED <<ops, faults, disturbed>>

-----------------------------------------------------------------------------
(* Operations begin                                                        *)

\* Manager.Pair with a code that introduces the folders S (none: all of ours).
Pair(a, p, S) ==
  /\ Begin(a, "pair", p, S, "resolve")
  /\ accepted' = accepted \union {p}

\* Manager.Unpair, or devices unpair of the CLI.
Unpair(a, p) ==
  /\ Paired(p)
  /\ Begin(a, "unpair", p, {}, "delete")
  /\ UNCHANGED accepted

\* acceptPendingDevices and acceptPendingFolders, of an event that may be late.
PendingDevice(p) ==
  /\ Begin(Watcher, "device", p, {}, "lookup")
  /\ UNCHANGED accepted

PendingFolder(p, s) ==
  /\ Begin(Watcher, "folder", p, {s}, "lookup")
  /\ UNCHANGED accepted

\* Enable, which renderImporterConflict lets pass: a job that will adopt an
\* archive of this node's own.
Enable(a, s) ==
  /\ \A p \in Peer : ~Importer(p, s)
  /\ Begin(a, "enable", None, {s}, "adopt")
  /\ UNCHANGED accepted

Adopt(a) ==
  /\ At(a, "adopt")
  /\ roots' = roots \union share[a]
  /\ own' = own \union share[a]
  /\ Return(a)
  /\ UNCHANGED <<registry, managed, devs, shares, accepted, overtaken>>

-----------------------------------------------------------------------------
(* Pair, and what the watcher shares with it                               *)

\* The row r once folder s is shared too, by a device that plays role for it.
With(r, s, role) ==
  [folders |-> r.folders \union {s}, roles |-> [r.roles EXCEPT ![s] = role]]

\* Mutant: whoever introduces a folder is its importer.
ResolveImporter(a) ==
  /\ At(a, "resolve")
  /\ UNCHANGED <<registry, devs, shares, own, op, peer, got, known, accepted, overtaken>>
  /\ \E s \in share[a] \ row[a].folders :
       /\ roots' = roots \union {s} /\ managed' = managed \union {s}
       /\ row' = [row EXCEPT ![a] = With(@, s, "importer")]
       /\ Goto(a, IF share[a] = row'[a].folders THEN "lookup" ELSE "resolve")
       /\ UNCHANGED share
\* resolveShare: without an introduction the device is the replica of all that is
\* managed; otherwise FolderSet.Provision of the folders introduced, one by one,
\* and the device is the importer of those that were not managed.
Resolve(a) ==
  /\ At(a, "resolve")
  /\ UNCHANGED <<registry, devs, shares, own, op, peer, got, known, accepted, overtaken>>
  /\ \/ /\ share[a] = {}
        /\ share' = [share EXCEPT ![a] = managed]
        /\ row' = [row EXCEPT ![a] =
             [folders |-> managed,
              roles |-> [s \in Source |-> IF s \in managed THEN "replica" ELSE "none"]]]
        /\ Goto(a, "lookup")
        /\ UNCHANGED <<roots, managed>>
     \/ \E s \in share[a] \ row[a].folders :
          /\ roots' = roots \union {s} /\ managed' = managed \union {s}
          /\ row' = [row EXCEPT ![a] =
               With(@, s, IF s \in managed THEN "replica" ELSE "importer")]
          /\ Goto(a, IF share[a] = row'[a].folders THEN "lookup" ELSE "resolve")
          /\ UNCHANGED share

\* Mutant: whoever asks is let in.
LookupBlanket(a) ==
  /\ At(a, "lookup")
  /\ row' = [row EXCEPT ![a] = IF op[a] = "pair" \/ ~Paired(peer[a]) THEN @ ELSE registry[peer[a]]]
  /\ Goto(a, CASE op[a] = "pair" -> "upsert" [] op[a] = "device" -> "getDevs" [] OTHER -> "provision")
  /\ UNCHANGED <<configVars, op, peer, share, got, known, accepted, overtaken>>

\* GetSyncPeerByDeviceID. Pair lets the roles on record win over its own; the
\* watcher does nothing for a device that is not paired.
Lookup(a) ==
  LET p == peer[a]
      kept(s) == IF Paired(p) /\ registry[p].roles[s] # "none"
                 THEN registry[p].roles[s] ELSE row[a].roles[s]
  IN
  /\ At(a, "lookup")
  /\ UNCHANGED <<configVars, accepted, overtaken>>
  /\ \/ /\ op[a] = "pair"
        /\ row' = [row EXCEPT ![a].roles = [s \in Source |-> kept(s)]]
        /\ Goto(a, "upsert")
        /\ UNCHANGED <<op, peer, share, got, known>>
     \/ op[a] # "pair" /\ ~Paired(p) /\ Return(a)
     \/ /\ op[a] # "pair" /\ Paired(p)
        /\ row' = [row EXCEPT ![a] = registry[p]]
        /\ Goto(a, IF op[a] = "device" THEN "getDevs" ELSE "provision")
        /\ UNCHANGED <<op, peer, share, got, known>>

\* acceptPendingFolders provisions the folder that is offered and widens the row.
Provision(a) ==
  LET role(s) == IF s \in share[a] \ managed /\ row[a].roles[s] = "none"
                 THEN "importer" ELSE row[a].roles[s]
      wider == [folders |-> row[a].folders \union share[a],
                roles |-> [s \in Source |-> role(s)]]
  IN
  /\ At(a, "provision")
  /\ roots' = roots \union share[a] /\ managed' = managed \union share[a]
  /\ row' = [row EXCEPT ![a] = wider]
  /\ Goto(a, IF wider = row[a] THEN "getFolders" ELSE "upsert")
  /\ UNCHANGED <<registry, devs, shares, own, op, peer, share, got, known, accepted, overtaken>>

\* UpsertSyncPeer
Upsert(a) ==
  /\ At(a, "upsert")
  /\ registry' = [registry EXCEPT ![peer[a]] = row[a]]
  /\ Goto(a, IF op[a] = "pair" THEN "getDevs" ELSE "getFolders")
  /\ UNCHANGED <<roots, managed, devs, shares, own, localVars, accepted, overtaken>>

\* ensureDevice: a device that is in the list is put back with it only when its
\* name has changed.
GetDevices(a) ==
  LET next == IF op[a] = "pair" THEN "getFolders" ELSE "getShares" IN
  /\ At(a, "getDevs")
  /\ known' = [known EXCEPT ![a] = devs]
  /\ Goto(a, "putDevs") \/ (peer[a] \in devs /\ Goto(a, next))
  /\ UNCHANGED <<configVars, op, peer, share, row, got, accepted, overtaken>>

PutDevices(a) ==
  /\ At(a, "putDevs")
  /\ devs' = known[a] \union {peer[a]}
  /\ Goto(a, IF op[a] = "pair" THEN "getFolders" ELSE "getShares")
  /\ UNCHANGED <<registry, roots, managed, shares, own, localVars, accepted, overtaken>>

\* ensureFolders
GetFolders(a) ==
  /\ At(a, "getFolders")
  /\ got' = [got EXCEPT ![a] = shares]
  /\ Goto(a, IF \A s \in share[a] : Configured(s) THEN "getShares" ELSE "putFolders")
  /\ UNCHANGED <<configVars, op, peer, share, row, known, accepted, overtaken>>

PutFolders(a) ==
  /\ At(a, "putFolders")
  /\ shares' = [s \in Source |-> IF s \in share[a] /\ got[a][s] = None THEN {} ELSE got[a][s]]
  /\ Goto(a, "getShares")
  /\ UNCHANGED <<registry, roots, managed, devs, own, localVars, accepted, overtaken>>

\* ensureFolderShares; of a device that is pending, for the folders on record.
GetShares(a) ==
  LET S == IF op[a] = "device" THEN row[a].folders \intersect managed ELSE share[a]
      missing == \E s \in S : Configured(s) /\ peer[a] \notin shares[s]
  IN
  /\ At(a, "getShares")
  /\ UNCHANGED <<configVars, accepted, overtaken>>
  /\ \/ /\ missing
        /\ share' = [share EXCEPT ![a] = S]
        /\ got' = [got EXCEPT ![a] = shares]
        /\ Goto(a, "putShares")
        /\ UNCHANGED <<op, peer, row, known>>
     \/ ~missing /\ Return(a)

PutShares(a) ==
  LET with(s) == IF s \in share[a] /\ got[a][s] # None
                 THEN got[a][s] \union {peer[a]} ELSE got[a][s]
  IN
  /\ At(a, "putShares")
  /\ shares' = [s \in Source |-> with(s)]
  /\ Return(a)
  /\ UNCHANGED <<registry, roots, managed, devs, own, accepted, overtaken>>

-----------------------------------------------------------------------------
(* Unpair                                                                  *)

\* Another actor is at work for the device.
Overtakes(a) == \E b \in Actor \ {a} : peer[b] = peer[a] /\ op[b] \in {"pair", "device", "folder"}

\* DeleteSyncPeer, which fails when the row is gone already.
Delete(a) ==
  LET p == peer[a] IN
  /\ At(a, "delete")
  /\ registry' = [registry EXCEPT ![p] = None]
  /\ accepted' = accepted \ {p}
  /\ overtaken' = IF Overtakes(a) THEN overtaken \union {p} ELSE overtaken \ {p}
  /\ IF Paired(p) THEN Goto(a, "getUnshare") /\ UNCHANGED localVars ELSE Return(a)
  /\ UNCHANGED <<roots, managed, devs, shares, own>>

\* RemoveDeviceFromDaemon: unshare every folder, then remove the device.
GetUnshare(a) ==
  /\ At(a, "getUnshare")
  /\ got' = [got EXCEPT ![a] = shares]
  /\ Goto(a, IF \E s \in Source : Configured(s) /\ peer[a] \in shares[s]
             THEN "putUnshare" ELSE "getRemove")
  /\ UNCHANGED <<configVars, op, peer, share, row, known, accepted, overtaken>>

PutUnshare(a) ==
  LET without(s) == IF got[a][s] = None THEN None ELSE got[a][s] \ {peer[a]} IN
  /\ At(a, "putUnshare")
  /\ shares' = [s \in Source |-> without(s)]
  /\ Goto(a, "getRemove")
  /\ UNCHANGED <<registry, roots, managed, devs, own, localVars, accepted, overtaken>>

\* Mutant: the device stays in the daemon's list.
GetRemoveNot(a) ==
  /\ At(a, "getRemove")
  /\ Return(a)
  /\ UNCHANGED <<configVars, accepted, overtaken>>

GetRemove(a) ==
  /\ At(a, "getRemove")
  /\ UNCHANGED <<configVars, accepted, overtaken>>
  /\ \/ /\ peer[a] \in devs
        /\ known' = [known EXCEPT ![a] = devs]
        /\ Goto(a, "putRemove")
        /\ UNCHANGED <<op, peer, share, row, got>>
     \/ peer[a] \notin devs /\ Return(a)

PutRemove(a) ==
  /\ At(a, "putRemove")
  /\ devs' = known[a] \ {peer[a]}
  /\ Return(a)
  /\ UNCHANGED <<registry, roots, managed, shares, own, accepted, overtaken>>

Step(a) ==
  \/ Resolve(a) \/ Lookup(a) \/ Provision(a) \/ Upsert(a)
  \/ GetDevices(a) \/ PutDevices(a) \/ GetFolders(a) \/ PutFolders(a)
  \/ GetShares(a) \/ PutShares(a)
  \/ Delete(a) \/ GetUnshare(a) \/ PutUnshare(a) \/ GetRemove(a) \/ PutRemove(a)
  \/ Adopt(a)

-----------------------------------------------------------------------------
(* Failures and restarts                                                   *)

Fault == faults < MaxFaults /\ faults' = faults + 1 /\ disturbed' = TRUE /\ UNCHANGED ops

\* A call fails and the operation with it, but Pair goes on without its lookup.
Fails(a) ==
  LET goesOn == pc[a] = "lookup" /\ op[a] = "pair" IN
  /\ Busy(a) /\ Fault
  /\ UNCHANGED <<configVars, accepted, overtaken>>
  /\ \/ goesOn /\ Goto(a, "upsert") /\ UNCHANGED localVars
     \/ ~goesOn /\ Return(a)

\* The server and its daemon stop, whatever they were doing, and start again.
Restart ==
  /\ ops < MaxOps /\ ops' = ops + 1
  /\ managed' = roots
  /\ devs' = {p \in Peer : Paired(p)}
  /\ shares' = ApplyPeers(roots)
  /\ pc' = [a \in Actor |-> IF a \in Server THEN "idle" ELSE pc[a]]
  /\ op' = [a \in Actor |-> IF a \in Server THEN "none" ELSE op[a]]
  /\ peer' = [a \in Actor |-> IF a \in Server THEN None ELSE peer[a]]
  /\ share' = [a \in Actor |-> IF a \in Server THEN {} ELSE share[a]]
  /\ row' = [a \in Actor |-> IF a \in Server THEN NoRow ELSE row[a]]
  /\ got' = [a \in Actor |-> IF a \in Server THEN NoShares ELSE got[a]]
  /\ known' = [a \in Actor |-> IF a \in Server THEN {} ELSE known[a]]
  /\ disturbed' = Busy(Cli)
  /\ UNCHANGED <<registry, roots, own, faults, accepted, overtaken>>

Next ==
  \/ \E a \in Handler, p \in Peer, S \in SUBSET Source : Pair(a, p, S)
  \/ \E a \in Handler \union {Cli}, p \in Peer : Unpair(a, p)
  \/ \E a \in Handler, s \in Source : Enable(a, s)
  \/ \E p \in Peer : PendingDevice(p)
  \/ \E p \in Peer, s \in Source : PendingFolder(p, s)
  \/ \E a \in Actor : Step(a) \/ Fails(a)
  \/ Restart

Spec == Init /\ [][Next]_vars
-----------------------------------------------------------------------------
(* Properties                                                              *)

\* "A recorded share must always have its root on disk" (Manager.Pair), whatever
\* actors and failures do: a start would otherwise forget the share.
SharesHaveRoots ==
  \A p \in Peer : Paired(p) => registry[p].folders \subseteq roots

\* A source has at most one importer across the paired set, although two devices
\* may be paired, and a folder of theirs accepted, at the same time (Provision).
OneImporter ==
  \A p, q \in Peer, s \in Source : Importer(p, s) /\ Importer(q, s) => p = q

\* "Never a blanket accept": a device is in the registry because the operator has
\* paired it and not unpaired it since; or the unpairing overtook somebody who was
\* at work for the device (UpsertSyncPeer inserts again).
TrustIsExplicit ==
  \A p \in Peer : Paired(p) => p \in accepted \union overtaken

\* Between operations, if none has failed or met another since the last start, the
\* daemon knows exactly the devices of the registry, each gets the folders that
\* are recorded for it, and a device that has been unpaired gets nothing.
DaemonFollowsRegistry ==
  ~disturbed /\ (\A a \in Actor : ~Busy(a)) =>
    /\ devs = {p \in Peer : Paired(p)}
    /\ \A p \in devs : \A s \in registry[p].folders : Configured(s) /\ p \in shares[s]
    /\ \A s \in Source : Configured(s) => shares[s] \subseteq devs

\* resolveShare: "a folder this node already held marks the peer the replica".
HeldMeansReplica ==
  \A p \in Peer, s \in Source : Importer(p, s) => s \notin own
=============================================================================
