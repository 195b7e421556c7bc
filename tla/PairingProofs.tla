---------------------------- MODULE PairingProofs ----------------------------
(***************************************************************************)
(* Proofs about Pairing, for every set of devices, sources and requests    *)
(* and every bound on operations and faults.                               *)
(***************************************************************************)
EXTENDS Pairing, TLAPS

\* An idle actor has no row, and one at work on a device has a device.
Located ==
  \A a \in Actor :
    /\ pc[a] = "idle" => row[a] = NoRow
    /\ pc[a] \notin {"idle", "adopt"} => peer[a] \in Peer

\* The variables that are not an actor's own.
SharedTyped ==
  /\ registry \in [Peer -> {None} \union Row]
  /\ roots \in SUBSET Source /\ managed \in SUBSET Source /\ own \in SUBSET Source
  /\ devs \in SUBSET Peer
  /\ shares \in Shares
  /\ ops \in 0..MaxOps /\ faults \in 0..MaxFaults
  /\ accepted \in SUBSET Peer /\ overtaken \in SUBSET Peer
  /\ disturbed \in BOOLEAN

\* The variables that are each actor's own.
LocalsTyped ==
  /\ pc \in [Actor -> Label]
  /\ op \in [Actor -> Op]
  /\ peer \in [Actor -> Peer \union {None}]
  /\ share \in [Actor -> SUBSET Source]
  /\ row \in [Actor -> Row]
  /\ got \in [Actor -> Shares]
  /\ known \in [Actor -> SUBSET Peer]

Typed == SharedTyped /\ LocalsTyped /\ Located

\* The folders of a row, on record or about to be, are managed.
Rooted ==
  /\ managed \subseteq roots
  /\ \A p \in Peer : Paired(p) => registry[p].folders \subseteq managed
  /\ \A a \in Actor : row[a].folders \subseteq managed

\* p is the importer of s, on record or about to be.
Claim(p, s) ==
  \/ Importer(p, s)
  \/ \E a \in Actor : peer[a] = p /\ row[a].roles[s] = "importer"

Claims ==
  /\ \A p \in Peer, s \in Source : Claim(p, s) => s \in managed
  /\ \A p, q \in Peer, s \in Source : Claim(p, s) /\ Claim(q, s) => p = q

\* Who is on record, or about to be, is trusted; and the labels at which an
\* operation may still write a row, or begin to delete one, are its own.
Accepting == {"pair", "device", "folder"}
Trusted ==
  /\ TrustIsExplicit
  /\ \A a \in Actor :
       /\ pc[a] = "resolve" => op[a] = "pair"
       /\ pc[a] \in {"resolve", "lookup", "provision", "upsert"} => op[a] \in Accepting
       /\ (\/ pc[a] \in {"resolve", "provision", "upsert"}
           \/ pc[a] = "lookup" /\ op[a] = "pair") => peer[a] \in accepted \union overtaken
       /\ pc[a] = "delete" => op[a] = "unpair"

\* a is at work on a device.
Working(a) == op[a] \notin {"none", "enable"}

\* The labels of each operation.
Shaped ==
  \A a \in Actor :
    /\ pc[a] = "idle" <=> op[a] = "none"
    /\ pc[a] = "adopt" <=> op[a] = "enable"
    /\ pc[a] \in {"delete", "getUnshare", "putUnshare", "getRemove", "putRemove"} <=> op[a] = "unpair"
    /\ pc[a] = "resolve" => op[a] = "pair"
    /\ pc[a] = "provision" => op[a] = "folder"
    /\ pc[a] \in {"getDevs", "putDevs"} => op[a] # "folder"
    /\ pc[a] \in {"upsert", "getFolders", "putFolders"} => op[a] # "device"

\* The daemon shares with p the folders S, and only with devices it knows.
Served(p, S) == \A s \in S : Configured(s) /\ p \in shares[s]
Listed(p)    == \A s \in Source : Configured(s) /\ p \in shares[s] => p \in devs

\* The daemon's lists are right as far as p is concerned.
Good(p) ==
  /\ Paired(p) <=> p \in devs
  /\ Paired(p) => Served(p, registry[p].folders)
  /\ Listed(p)

\* How far the lists are right for the device that a is at work on.
Stage(a) ==
  LET p == peer[a] IN
  /\ pc[a] \in {"resolve", "lookup", "provision", "upsert", "delete"} => Good(p)
  /\ op[a] = "pair" /\ pc[a] \in {"resolve", "lookup", "upsert"} => row[a].folders \subseteq share[a]
  /\ op[a] = "folder" /\ pc[a] \in {"provision", "upsert"} =>
       Paired(p) /\ row[a].folders \subseteq registry[p].folders \union share[a]
  /\ op[a] = "device" => share[a] = {} \/ pc[a] = "putShares"
  /\ pc[a] \in {"getDevs", "putDevs", "getFolders", "putFolders", "getShares", "putShares"} =>
       Paired(p) /\ Listed(p) /\ Served(p, registry[p].folders \ share[a])
  /\ pc[a] \in {"getFolders", "putFolders", "getShares", "putShares"} => p \in devs
  /\ pc[a] \in {"getShares", "putShares"} => \A s \in registry[p].folders : Configured(s)
  /\ pc[a] \in {"putDevs", "putRemove"} => known[a] = devs
  /\ pc[a] \in {"putFolders", "putShares", "putUnshare"} => got[a] = shares
  /\ pc[a] \in {"getUnshare", "putUnshare", "getRemove", "putRemove"} => ~Paired(p)
  /\ pc[a] \in {"getRemove", "putRemove"} => \A s \in Source : Configured(s) => p \notin shares[s]

\* As long as operations neither fail nor meet, one actor at most is at work, and
\* the lists are right for every other device.
Follows ==
  ~disturbed =>
    /\ \A a, b \in Actor : Working(a) /\ Working(b) => a = b
    /\ \A p \in Peer : (\A a \in Actor : Working(a) => peer[a] # p) => Good(p)
    /\ \A a \in Actor : Working(a) => Stage(a)

-----------------------------------------------------------------------------
(* Types                                                                   *)

LEMMA NoRowType == NoRow \in Row
  BY DEF NoRow, Row, Role

LEMMA NoSharesType == NoShares \in Shares
  BY DEF NoShares, Shares

LEMMA ReturnTyped ==
  ASSUME Typed, NEW a \in Actor, Return(a)
  PROVE  LocalsTyped' /\ Located'
  BY NoRowType, NoSharesType DEF Typed, SharedTyped, LocalsTyped, Located, Return, Goto, Label, Op

LEMMA BeginTyped ==
  ASSUME Typed, NEW a \in Actor, NEW o \in Op, NEW p \in Peer \union {None}, NEW S \in SUBSET Source,
         NEW l \in Label \ {"idle"}, Begin(a, o, p, S, l), p \in Peer \/ l = "adopt"
  PROVE  LocalsTyped' /\ Located'
  BY DEF Typed, SharedTyped, LocalsTyped, Located, Begin, Busy, Goto, Label

LEMMA GotoTyped ==
  ASSUME Typed, NEW a \in Actor, NEW l \in Label \ {"idle", "adopt"}, Goto(a, l),
         pc[a] \notin {"idle", "adopt"}, UNCHANGED <<op, peer>>,
         share' \in [Actor -> SUBSET Source],
         row' \in [Actor -> Row], \A b \in Actor \ {a} : row'[b] = row[b],
         got' \in [Actor -> Shares],
         known' \in [Actor -> SUBSET Peer]
  PROVE  LocalsTyped' /\ Located'
  BY DEF Typed, SharedTyped, LocalsTyped, Located, Goto, Label

LEMMA InitTyped == Init => Typed
  <1> SUFFICES ASSUME Init PROVE Typed
    OBVIOUS
  <1>1. shares \in Shares
    BY DEF Init, Shares
  <1>2. LocalsTyped /\ Located
    BY NoRowType, NoSharesType DEF Init, LocalsTyped, Located, Label, Op
  <1>3. 0 \in 0..MaxOps /\ 0 \in 0..MaxFaults
    BY PairingAssumption
  <1>4. SharedTyped
    BY <1>1, <1>3 DEF Init, SharedTyped
  <1> QED
    BY <1>2, <1>4 DEF Typed

LEMMA WithType ==
  ASSUME NEW r \in Row, NEW s \in Source, NEW role \in Role
  PROVE  With(r, s, role) \in Row
  BY DEF With, Row

LEMMA BeginsTyped ==
  ASSUME Typed,
         \/ \E a \in Handler, p \in Peer, S \in SUBSET Source : Pair(a, p, S)
         \/ \E a \in Handler \union {Cli}, p \in Peer : Unpair(a, p)
         \/ \E a \in Handler, s \in Source : Enable(a, s)
         \/ \E p \in Peer : PendingDevice(p)
         \/ \E p \in Peer, s \in Source : PendingFolder(p, s)
  PROVE  Typed'
  <1>1. PICK a \in Actor, o \in Op, p \in Peer \union {None}, S \in SUBSET Source,
              l \in Label \ {"idle"} :
          Begin(a, o, p, S, l) /\ (p \in Peer \/ l = "adopt")
    BY DEF Actor, Op, Label, Pair, Unpair, Enable, PendingDevice, PendingFolder
  <1>2. LocalsTyped' /\ Located'
    BY <1>1, BeginTyped
  <1>3. accepted' \in SUBSET Peer
    BY DEF Typed, SharedTyped, LocalsTyped, Pair, Unpair, Enable, PendingDevice, PendingFolder
  <1>4. ops' \in 0..MaxOps /\ disturbed' \in BOOLEAN
    BY <1>1, PairingAssumption DEF Typed, SharedTyped, LocalsTyped, Begin
  <1>5. SharedTyped'
    BY <1>1, <1>3, <1>4 DEF Typed, SharedTyped, LocalsTyped, Begin, configVars
  <1> QED
    BY <1>2, <1>5 DEF Typed

\* A step keeps types whether it goes on to another label or returns.
LEMMA StepTyped ==
  ASSUME Typed, NEW a \in Actor, Step(a)
  PROVE  Typed'
  <1> USE DEF At, localVars, configVars
  <1>0. Shares = [Source -> {None} \union SUBSET Peer]
    BY DEF Shares
  <1>1. CASE Resolve(a)
    <2>1. row' \in [Actor -> Row] /\ share' \in [Actor -> SUBSET Source]
      <3>1. CASE share[a] = {} /\ row' = [row EXCEPT ![a] =
                 [folders |-> managed,
                  roles |-> [s \in Source |-> IF s \in managed THEN "replica" ELSE "none"]]]
                 /\ share' = [share EXCEPT ![a] = managed]
        BY <3>1 DEF Typed, SharedTyped, LocalsTyped, Row, Role
      <3>2. ASSUME NEW s \in Source, UNCHANGED share,
                   row' = [row EXCEPT ![a] = With(@, s, IF s \in managed THEN "replica" ELSE "importer")]
            PROVE  row' \in [Actor -> Row] /\ share' \in [Actor -> SUBSET Source]
        BY <3>2, WithType DEF Typed, SharedTyped, LocalsTyped, Role
      <3> QED
        BY <1>1, <3>1, <3>2 DEF Resolve, Typed, SharedTyped, LocalsTyped
    <2>2. PICK l \in Label \ {"idle", "adopt"} : Goto(a, l)
      BY <1>1 DEF Resolve, Label
    <2>3. LocalsTyped' /\ Located'
      BY <1>1, <2>1, <2>2, GotoTyped DEF Resolve, Typed, SharedTyped, LocalsTyped
    <2>4. SharedTyped'
      BY <1>1 DEF Resolve, Typed, SharedTyped, LocalsTyped
    <2> QED
      BY <2>3, <2>4 DEF Typed
  <1>2. CASE Lookup(a)
    <2>1. SharedTyped'
      BY <1>2 DEF Lookup, Typed, SharedTyped, LocalsTyped
    <2>2. CASE Return(a)
      BY <2>1, <2>2, ReturnTyped DEF Typed
    <2>3. CASE ~Return(a)
      <3>1. peer[a] \in Peer
        BY <1>2 DEF Lookup, Typed, Located
      <3>2. row' \in [Actor -> Row] /\ \A b \in Actor \ {a} : row'[b] = row[b]
        <4> DEFINE kept == [s \in Source |->
                             IF Paired(peer[a]) /\ registry[peer[a]].roles[s] # "none"
                             THEN registry[peer[a]].roles[s] ELSE row[a].roles[s]]
        <4>1. Paired(peer[a]) => registry[peer[a]] \in Row
          BY <3>1 DEF Typed, SharedTyped, Paired
        <4>2. kept \in [Source -> Role]
          BY <4>1 DEF Typed, LocalsTyped, Row
        <4>3. CASE row' = [row EXCEPT ![a].roles = kept]
          <5>1. [row[a] EXCEPT !.roles = kept] \in Row
            BY <4>2 DEF Typed, LocalsTyped, Row
          <5>2. row' = [row EXCEPT ![a] = [row[a] EXCEPT !.roles = kept]]
            BY <4>3 DEF Typed, LocalsTyped
          <5> QED
            BY <5>1, <5>2 DEF Typed, LocalsTyped
        <4>4. CASE Paired(peer[a]) /\ row' = [row EXCEPT ![a] = registry[peer[a]]]
          BY <4>1, <4>4 DEF Typed, LocalsTyped
        <4> QED
          BY <1>2, <2>3, <4>3, <4>4 DEF Lookup
      <3>3. PICK l \in Label \ {"idle", "adopt"} : Goto(a, l)
        BY <1>2, <2>3 DEF Lookup, Label
      <3>4. LocalsTyped' /\ Located'
        BY <1>2, <2>3, <3>2, <3>3, GotoTyped DEF Lookup, Typed, SharedTyped, LocalsTyped
      <3> QED
        BY <2>1, <3>4 DEF Typed
    <2> QED
      BY <2>2, <2>3
  <1>3. CASE Provision(a)
    <2>1. row' \in [Actor -> Row]
      BY <1>3 DEF Provision, Typed, SharedTyped, LocalsTyped, Row, Role
    <2>2. PICK l \in Label \ {"idle", "adopt"} : Goto(a, l)
      BY <1>3 DEF Provision, Label
    <2>3. LocalsTyped' /\ Located'
      BY <1>3, <2>1, <2>2, GotoTyped DEF Provision, Typed, SharedTyped, LocalsTyped
    <2>4. SharedTyped'
      BY <1>3 DEF Provision, Typed, SharedTyped, LocalsTyped
    <2> QED
      BY <2>3, <2>4 DEF Typed
  <1>4. CASE Upsert(a)
    <2>1. SharedTyped'
      BY <1>4 DEF Upsert, Typed, SharedTyped, LocalsTyped
    <2>2. PICK l \in Label \ {"idle", "adopt"} : Goto(a, l)
      BY <1>4 DEF Upsert, Label
    <2>3. LocalsTyped' /\ Located'
      BY <1>4, <2>2, GotoTyped DEF Upsert, Typed, SharedTyped, LocalsTyped
    <2> QED
      BY <2>1, <2>3 DEF Typed
  <1>5. CASE GetDevices(a)
    <2>1. SharedTyped'
      BY <1>5 DEF GetDevices, Typed, SharedTyped, LocalsTyped
    <2>2. PICK l \in Label \ {"idle", "adopt"} : Goto(a, l)
      BY <1>5 DEF GetDevices, Label
    <2>3. LocalsTyped' /\ Located'
      BY <1>5, <2>2, GotoTyped DEF GetDevices, Typed, SharedTyped, LocalsTyped
    <2> QED
      BY <2>1, <2>3 DEF Typed
  <1>6. CASE PutDevices(a)
    <2>1. SharedTyped'
      BY <1>6 DEF PutDevices, Typed, SharedTyped, LocalsTyped, Located
    <2>2. PICK l \in Label \ {"idle", "adopt"} : Goto(a, l)
      BY <1>6 DEF PutDevices, Label
    <2>3. LocalsTyped' /\ Located'
      BY <1>6, <2>2, GotoTyped DEF PutDevices, Typed, SharedTyped, LocalsTyped
    <2> QED
      BY <2>1, <2>3 DEF Typed
  <1>7. CASE GetFolders(a)
    <2>1. SharedTyped'
      BY <1>7 DEF GetFolders, Typed, SharedTyped, LocalsTyped
    <2>2. PICK l \in Label \ {"idle", "adopt"} : Goto(a, l)
      BY <1>7 DEF GetFolders, Label
    <2>3. LocalsTyped' /\ Located'
      BY <1>7, <2>2, GotoTyped DEF GetFolders, Typed, SharedTyped, LocalsTyped
    <2> QED
      BY <2>1, <2>3 DEF Typed
  <1>8. CASE PutFolders(a)
    <2>1. shares' \in Shares
      BY <1>0, <1>8 DEF PutFolders, Typed, SharedTyped, LocalsTyped
    <2>2. SharedTyped'
      BY <1>8, <2>1 DEF PutFolders, Typed, SharedTyped, LocalsTyped
    <2>3. PICK l \in Label \ {"idle", "adopt"} : Goto(a, l)
      BY <1>8 DEF PutFolders, Label
    <2>4. LocalsTyped' /\ Located'
      BY <1>8, <2>3, GotoTyped DEF PutFolders, Typed, SharedTyped, LocalsTyped
    <2> QED
      BY <2>2, <2>4 DEF Typed
  <1>9. CASE GetShares(a)
    <2>1. SharedTyped'
      BY <1>9 DEF GetShares, Typed, SharedTyped, LocalsTyped
    <2>2. CASE Return(a)
      BY <2>1, <2>2, ReturnTyped DEF Typed
    <2>3. CASE ~Return(a)
      <3>1. share' \in [Actor -> SUBSET Source] /\ got' \in [Actor -> Shares]
        <4>1. row[a].folders \intersect managed \in SUBSET Source /\ share[a] \in SUBSET Source
          BY DEF Typed, SharedTyped, LocalsTyped
        <4> QED
          BY <1>9, <2>3, <4>1 DEF GetShares, Typed, SharedTyped, LocalsTyped
      <3>2. PICK l \in Label \ {"idle", "adopt"} : Goto(a, l)
        BY <1>9, <2>3 DEF GetShares, Label
      <3>3. LocalsTyped' /\ Located'
        BY <1>9, <2>3, <3>1, <3>2, GotoTyped DEF GetShares, Typed, SharedTyped, LocalsTyped
      <3> QED
        BY <2>1, <3>3 DEF Typed
    <2> QED
      BY <2>2, <2>3
  <1>10. CASE PutShares(a)
    <2>1. shares' \in Shares
      BY <1>0, <1>10 DEF PutShares, Typed, SharedTyped, LocalsTyped, Located
    <2>2. SharedTyped'
      BY <1>10, <2>1 DEF PutShares, Typed, SharedTyped, LocalsTyped
    <2> QED
      BY <1>10, <2>2, ReturnTyped DEF Typed, PutShares
  <1>11. CASE Delete(a)
    <2>1. SharedTyped'
      BY <1>11 DEF Delete, Typed, SharedTyped, LocalsTyped, Located
    <2>2. CASE Return(a)
      BY <2>1, <2>2, ReturnTyped DEF Typed
    <2>3. CASE ~Return(a)
      <3>1. LocalsTyped' /\ Located'
        BY <1>11, <2>3, GotoTyped DEF Delete, Typed, SharedTyped, LocalsTyped, Label
      <3> QED
        BY <2>1, <3>1 DEF Typed
    <2> QED
      BY <2>2, <2>3
  <1>12. CASE GetUnshare(a)
    <2>1. SharedTyped'
      BY <1>12 DEF GetUnshare, Typed, SharedTyped, LocalsTyped
    <2>2. PICK l \in Label \ {"idle", "adopt"} : Goto(a, l)
      BY <1>12 DEF GetUnshare, Label
    <2>3. LocalsTyped' /\ Located'
      BY <1>12, <2>2, GotoTyped DEF GetUnshare, Typed, SharedTyped, LocalsTyped
    <2> QED
      BY <2>1, <2>3 DEF Typed
  <1>13. CASE PutUnshare(a)
    <2>1. shares' \in Shares
      BY <1>0, <1>13 DEF PutUnshare, Typed, SharedTyped, LocalsTyped
    <2>2. SharedTyped'
      BY <1>13, <2>1 DEF PutUnshare, Typed, SharedTyped, LocalsTyped
    <2>3. LocalsTyped' /\ Located'
      BY <1>13, GotoTyped DEF PutUnshare, Typed, SharedTyped, LocalsTyped, Label
    <2> QED
      BY <2>2, <2>3 DEF Typed
  <1>14. CASE GetRemove(a)
    <2>1. SharedTyped'
      BY <1>14 DEF GetRemove, Typed, SharedTyped, LocalsTyped
    <2>2. CASE Return(a)
      BY <2>1, <2>2, ReturnTyped DEF Typed
    <2>3. CASE ~Return(a)
      <3>1. LocalsTyped' /\ Located'
        BY <1>14, <2>3, GotoTyped DEF GetRemove, Typed, SharedTyped, LocalsTyped, Label
      <3> QED
        BY <2>1, <3>1 DEF Typed
    <2> QED
      BY <2>2, <2>3
  <1>15. CASE PutRemove(a)
    <2>1. SharedTyped'
      BY <1>15 DEF PutRemove, Typed, SharedTyped, LocalsTyped
    <2> QED
      BY <1>15, <2>1, ReturnTyped DEF Typed, PutRemove
  <1>16. CASE Adopt(a)
    <2>1. SharedTyped'
      BY <1>16 DEF Adopt, Typed, SharedTyped, LocalsTyped
    <2> QED
      BY <1>16, <2>1, ReturnTyped DEF Typed, Adopt
  <1> QED
    BY <1>1, <1>2, <1>3, <1>4, <1>5, <1>6, <1>7, <1>8, <1>9, <1>10, <1>11, <1>12, <1>13, 
       <1>14, <1>15, <1>16 DEF Step

LEMMA FailsTyped ==
  ASSUME Typed, NEW a \in Actor, Fails(a)
  PROVE  Typed'
  <1>1. SharedTyped'
    BY PairingAssumption DEF Fails, Fault, configVars, Typed, SharedTyped, LocalsTyped
  <1>2. CASE Return(a)
    BY <1>1, <1>2, ReturnTyped DEF Typed
  <1>3. CASE ~Return(a)
    <2>1. LocalsTyped' /\ Located'
      BY <1>3, GotoTyped DEF Fails, localVars, Typed, SharedTyped, LocalsTyped, Label
    <2> QED
      BY <1>1, <2>1 DEF Typed
  <1> QED
    BY <1>2, <1>3

LEMMA RestartTyped ==
  ASSUME Typed, Restart
  PROVE  Typed'
  <1>1. shares' \in Shares
    BY DEF Restart, ApplyPeers, Shares
  <1>2. SharedTyped'
    BY <1>1, PairingAssumption DEF Restart, Busy, Typed, SharedTyped, LocalsTyped
  <1>3. LocalsTyped'
    BY NoRowType, NoSharesType DEF Restart, Typed, SharedTyped, LocalsTyped, Label, Op
  <1>4. Located'
    BY DEF Restart, Typed, SharedTyped, LocalsTyped, Located
  <1> QED
    BY <1>2, <1>3, <1>4 DEF Typed

LEMMA StutterTyped ==
  ASSUME Typed, UNCHANGED vars
  PROVE  Typed'
  BY DEF Typed, SharedTyped, LocalsTyped, Located, vars, configVars, localVars, history

LEMMA NextTyped ==
  ASSUME Typed, [Next]_vars
  PROVE  Typed'
  BY BeginsTyped, StepTyped, FailsTyped, RestartTyped, StutterTyped DEF Next

\* Every variable keeps to its values: what an operation writes to the registry is a
\* row, and what it puts to the daemon a list of devices, or of folders with devices.
THEOREM TypeCorrect == Spec => []TypeOK
  <1>1. Init => Typed
    BY InitTyped
  <1>2. Typed /\ [Next]_vars => Typed'
    BY NextTyped
  <1>3. Typed => TypeOK
    BY DEF Typed, SharedTyped, LocalsTyped, TypeOK
  <1> QED
    BY <1>1, <1>2, <1>3, PTL DEF Spec
-----------------------------------------------------------------------------
(* Roots                                                                   *)

\* A step that writes no row and takes no root.
LEMMA RootedKept ==
  ASSUME Rooted, managed \subseteq managed', managed' \subseteq roots',
         \A p \in Peer : Paired(p)' => Paired(p) /\ registry'[p] = registry[p],
         \A b \in Actor : row'[b] = row[b] \/ row'[b] = NoRow
  PROVE  Rooted'
  BY DEF Rooted, NoRow

LEMMA ResolveRooted ==
  ASSUME Typed, Rooted, NEW a \in Actor, Resolve(a)
  PROVE  Rooted'
  <1>1. managed \subseteq managed' /\ managed' \subseteq roots'
    BY DEF Resolve, Rooted
  <1>2. \A b \in Actor \ {a} : row'[b] = row[b]
    BY DEF Resolve, Typed, LocalsTyped
  <1>3. row'[a].folders \subseteq managed'
    <2>1. ASSUME NEW s \in Source, managed' = managed \union {s}, NEW r \in Role,
                 row' = [row EXCEPT ![a] = With(@, s, r)]
          PROVE  row'[a].folders \subseteq managed'
      BY <2>1 DEF With, Rooted, Typed, LocalsTyped
    <2>2. CASE row' = [row EXCEPT ![a] =
                 [folders |-> managed,
                  roles |-> [s \in Source |-> IF s \in managed THEN "replica" ELSE "none"]]]
      BY <1>1, <2>2 DEF Typed, LocalsTyped
    <2> QED
      BY <2>1, <2>2 DEF Resolve, Typed, LocalsTyped, Role
  <1> QED
    BY <1>1, <1>2, <1>3 DEF Resolve, Rooted, Paired

LEMMA LookupRooted ==
  ASSUME Typed, Rooted, NEW a \in Actor, Lookup(a)
  PROVE  Rooted'
  <1>1. UNCHANGED <<managed, roots, registry>>
    BY DEF Lookup, configVars
  <1>2. \A b \in Actor \ {a} : row'[b] = row[b]
    BY DEF Lookup, Return, Typed, LocalsTyped
  <1>3. row'[a].folders \subseteq managed
    <2>1. CASE Return(a)
      BY <2>1 DEF Return, NoRow, Typed, LocalsTyped
    <2>2. CASE op[a] = "pair" /\ row'[a].folders = row[a].folders
      BY <2>2 DEF Rooted
    <2>3. CASE Paired(peer[a]) /\ row' = [row EXCEPT ![a] = registry[peer[a]]]
      <3>1. peer[a] \in Peer
        BY DEF Lookup, At, Typed, Located
      <3> QED
        BY <2>3, <3>1 DEF Rooted, Typed, LocalsTyped
    <2>4. op[a] = "pair" => row'[a].folders = row[a].folders
      BY DEF Lookup, Typed, LocalsTyped, Row
    <2> QED
      BY <2>1, <2>2, <2>3, <2>4 DEF Lookup
  <1> QED
    BY <1>1, <1>2, <1>3 DEF Rooted, Paired

LEMMA ProvisionRooted ==
  ASSUME Typed, Rooted, NEW a \in Actor, Provision(a)
  PROVE  Rooted'
  <1>1. managed \subseteq managed' /\ managed' \subseteq roots'
    BY DEF Provision, Rooted
  <1>2. \A b \in Actor \ {a} : row'[b] = row[b]
    BY DEF Provision, Typed, LocalsTyped
  <1>3. row'[a].folders \subseteq managed'
    BY DEF Provision, Rooted, Typed, LocalsTyped
  <1> QED
    BY <1>1, <1>2, <1>3 DEF Provision, Rooted, Paired

LEMMA UpsertRooted ==
  ASSUME Typed, Rooted, NEW a \in Actor, Upsert(a)
  PROVE  Rooted'
  <1>1. registry' = [registry EXCEPT ![peer[a]] = row[a]]
    BY DEF Upsert
  <1>2. UNCHANGED <<managed, roots, row>>
    BY DEF Upsert, localVars
  <1> QED
    BY <1>1, <1>2 DEF Rooted, Paired, Typed, SharedTyped

\* The other steps of an operation write no row but NoRow, and take no root.
LEMMA StepKeepsRows ==
  ASSUME Typed, Rooted, NEW a \in Actor,
         Step(a), ~Resolve(a), ~Lookup(a), ~Provision(a), ~Upsert(a)
  PROVE  /\ UNCHANGED managed /\ roots \subseteq roots'
         /\ \A p \in Peer : Paired(p)' => Paired(p) /\ registry'[p] = registry[p]
         /\ \A b \in Actor : \/ row'[b] = row[b] /\ peer'[b] = peer[b]
                             \/ row'[b] = NoRow
  <1> USE DEF configVars, localVars
  <1>1. CASE UNCHANGED <<registry, roots, managed, row, peer>>
    BY <1>1 DEF Paired
  <1>2. CASE UNCHANGED <<registry, managed>> /\ roots \subseteq roots' /\ Return(a)
    BY <1>2 DEF Return, Paired, Typed, LocalsTyped
  <1>3. CASE Delete(a)
    BY <1>3 DEF Delete, Return, Paired, Typed, SharedTyped, LocalsTyped
  <1>4. CASE GetDevices(a) \/ PutDevices(a) \/ GetFolders(a) \/ PutFolders(a) \/ GetUnshare(a) \/ PutUnshare(a)
    BY <1>1, <1>4 DEF GetDevices, PutDevices, GetFolders, PutFolders, GetUnshare, PutUnshare
  <1>5. CASE PutShares(a) \/ PutRemove(a) \/ Adopt(a)
    BY <1>2, <1>5 DEF PutShares, PutRemove, Adopt
  <1>6. CASE GetShares(a) \/ GetRemove(a)
    BY <1>1, <1>2, <1>6 DEF GetShares, GetRemove
  <1> QED
    BY <1>3, <1>4, <1>5, <1>6 DEF Step

\* So do failures and restarts, and the beginning of an operation.
LEMMA OthersKeepRows ==
  ASSUME Typed, Rooted, [Next]_vars, ~(\E a \in Actor : Step(a))
  PROVE  /\ managed \subseteq managed' /\ managed' \subseteq roots'
         /\ UNCHANGED registry
         /\ \A b \in Actor : \/ row'[b] = row[b] /\ peer'[b] = peer[b]
                             \/ row'[b] = NoRow
  <1> USE DEF configVars, localVars
  <1>1. ASSUME NEW a \in Actor, NEW o, NEW p, NEW S, NEW l, Begin(a, o, p, S, l)
        PROVE  /\ UNCHANGED <<registry, roots, managed>>
               /\ \A b \in Actor : \/ row'[b] = row[b] /\ peer'[b] = peer[b]
                                   \/ row'[b] = NoRow
    BY <1>1 DEF Begin, Busy, Typed, LocalsTyped, Located
  <1>2. ASSUME NEW a \in Actor, Fails(a)
        PROVE  /\ UNCHANGED <<registry, roots, managed>>
               /\ \A b \in Actor : \/ row'[b] = row[b] /\ peer'[b] = peer[b]
                                   \/ row'[b] = NoRow
    BY <1>2 DEF Fails, Return, Typed, LocalsTyped
  <1>3. CASE Restart
    BY <1>3 DEF Restart, Rooted
  <1>4. CASE UNCHANGED vars
    BY <1>4 DEF vars, Rooted
  <1>5. Handler \subseteq Actor /\ Cli \in Actor /\ Watcher \in Actor
    BY DEF Actor
  <1> QED
    BY <1>1, <1>2, <1>3, <1>4, <1>5 DEF Next, Pair, Unpair, Enable, PendingDevice, PendingFolder, Rooted

LEMMA NextRooted ==
  ASSUME Typed, Rooted, [Next]_vars
  PROVE  Rooted'
  <1>1. CASE ~(\E a \in Actor : Step(a))
    BY <1>1, OthersKeepRows, RootedKept DEF Paired
  <1>2. ASSUME NEW a \in Actor, Step(a)
        PROVE  Rooted'
    <2>1. CASE ~Resolve(a) /\ ~Lookup(a) /\ ~Provision(a) /\ ~Upsert(a)
      <3>1. managed \subseteq managed' /\ managed' \subseteq roots'
        BY <1>2, <2>1, StepKeepsRows DEF Rooted
      <3> QED
        BY <1>2, <2>1, <3>1, StepKeepsRows, RootedKept
    <2> QED
      BY <2>1, ResolveRooted, LookupRooted, ProvisionRooted, UpsertRooted
  <1> QED
    BY <1>1, <1>2

\* A start of the server finds the root of every folder that is on record, so it
\* forgets no share.
THEOREM RootsOfShares == Spec => []SharesHaveRoots
  <1>1. Init => Typed /\ Rooted
    <2>1. Init => Rooted
      BY DEF Init, Rooted, Paired, NoRow
    <2> QED
      BY <2>1, InitTyped
  <1>2. Typed /\ Rooted /\ [Next]_vars => Typed' /\ Rooted'
    BY NextTyped, NextRooted
  <1>3. Rooted => SharesHaveRoots
    BY DEF Rooted, SharesHaveRoots
  <1> QED
    BY <1>1, <1>2, <1>3, PTL DEF Spec
-----------------------------------------------------------------------------
(* Importers                                                               *)

\* The only claims that a step makes are one device's, to what was not managed.
LEMMA ClaimsKept ==
  ASSUME Claims, managed \subseteq managed', NEW d,
         \A p \in Peer, s \in Source :
           Claim(p, s)' => Claim(p, s) \/ (s \in managed' \ managed /\ p = d)
  PROVE  Claims'
  BY DEF Claims

\* A step that writes no row makes no claim.
LEMMA NoClaim ==
  ASSUME Claims, managed \subseteq managed',
         \A p \in Peer : Paired(p)' => Paired(p) /\ registry'[p] = registry[p],
         \A b \in Actor : \/ row'[b] = row[b] /\ peer'[b] = peer[b]
                          \/ row'[b] = NoRow
  PROVE  Claims'
  <1>1. ASSUME NEW p \in Peer, NEW s \in Source, Claim(p, s)'
        PROVE  Claim(p, s)
    <2>1. CASE Importer(p, s)'
      BY <2>1 DEF Importer, Claim
    <2>2. ASSUME NEW b \in Actor, peer'[b] = p, row'[b].roles[s] = "importer"
          PROVE  Claim(p, s)
      <3>1. row'[b] # NoRow
        BY <2>2 DEF NoRow
      <3> QED
        BY <2>2, <3>1 DEF Claim
    <2> QED
      BY <1>1, <2>1, <2>2 DEF Claim
  <1> QED
    BY <1>1, ClaimsKept

\* A step that writes a's row alone claims what the row claims.
LEMMA RowClaims ==
  ASSUME Claims, managed \subseteq managed', NEW a \in Actor, UNCHANGED <<registry, peer>>,
         \A b \in Actor \ {a} : row'[b] = row[b],
         \A s \in Source : row'[a].roles[s] = "importer" =>
            \/ row[a].roles[s] = "importer"
            \/ peer[a] \in Peer /\ Importer(peer[a], s)
            \/ s \in managed' \ managed
  PROVE  Claims'
  <1>1. ASSUME NEW p \in Peer, NEW s \in Source, Claim(p, s)'
        PROVE  Claim(p, s) \/ (s \in managed' \ managed /\ p = peer[a])
    <2>1. CASE Importer(p, s)'
      BY <2>1 DEF Importer, Paired, Claim
    <2>2. ASSUME NEW b \in Actor, peer'[b] = p, row'[b].roles[s] = "importer"
          PROVE  Claim(p, s) \/ (s \in managed' \ managed /\ p = peer[a])
      <3>1. CASE b = a
        BY <2>2, <3>1 DEF Claim
      <3>2. CASE b # a
        BY <2>2, <3>2 DEF Claim
      <3> QED
        BY <3>1, <3>2
    <2> QED
      BY <1>1, <2>1, <2>2 DEF Claim
  <1> QED
    BY <1>1, ClaimsKept

LEMMA ResolveClaims ==
  ASSUME Typed, Claims, NEW a \in Actor, Resolve(a)
  PROVE  Claims'
  <1>1. managed \subseteq managed' /\ UNCHANGED <<registry, peer>>
    BY DEF Resolve
  <1>2. \A b \in Actor \ {a} : row'[b] = row[b]
    BY DEF Resolve, Typed, LocalsTyped
  <1>3. ASSUME NEW s \in Source, row'[a].roles[s] = "importer"
        PROVE  row[a].roles[s] = "importer" \/ s \in managed' \ managed
    <2>1. ASSUME NEW n \in Source, managed' = managed \union {n},
                 row' = [row EXCEPT ![a] =
                   With(@, n, IF n \in managed THEN "replica" ELSE "importer")]
          PROVE  row[a].roles[s] = "importer" \/ s \in managed' \ managed
      <3>1. row[a].roles \in [Source -> Role]
        BY DEF Typed, LocalsTyped, Row
      <3>2. row'[a].roles = [row[a].roles EXCEPT ![n] = IF n \in managed THEN "replica" ELSE "importer"]
        BY <2>1 DEF With, Typed, LocalsTyped
      <3> QED
        BY <1>3, <2>1, <3>1, <3>2
    <2>2. CASE row' = [row EXCEPT ![a] =
                 [folders |-> managed,
                  roles |-> [n \in Source |-> IF n \in managed THEN "replica" ELSE "none"]]]
      BY <1>3, <2>2 DEF Typed, LocalsTyped
    <2> QED
      BY <2>1, <2>2 DEF Resolve, Typed, LocalsTyped
  <1> QED
    BY <1>1, <1>2, <1>3, RowClaims

LEMMA LookupClaims ==
  ASSUME Typed, Claims, NEW a \in Actor, Lookup(a)
  PROVE  Claims'
  <1>0. UNCHANGED <<registry, managed>> /\ peer[a] \in Peer
    BY DEF Lookup, configVars, At, Typed, Located
  <1>1. CASE Return(a)
    <2>1. \A b \in Actor : (row'[b] = row[b] /\ peer'[b] = peer[b]) \/ row'[b] = NoRow
      BY <1>1 DEF Return, Typed, LocalsTyped
    <2> QED
      BY <1>0, <2>1, NoClaim DEF Paired
  <1>2. CASE ~Return(a)
    <2>1. UNCHANGED peer /\ \A b \in Actor \ {a} : row'[b] = row[b]
      BY <1>2 DEF Lookup, Typed, LocalsTyped
    <2>2. ASSUME NEW s \in Source, row'[a].roles[s] = "importer"
          PROVE  row[a].roles[s] = "importer" \/ Importer(peer[a], s)
      <3>1. CASE Paired(peer[a]) /\ row' = [row EXCEPT ![a] = registry[peer[a]]]
        BY <2>2, <3>1 DEF Importer, Typed, LocalsTyped
      <3>2. CASE row'[a].roles[s] = IF Paired(peer[a]) /\ registry[peer[a]].roles[s] # "none"
                                   THEN registry[peer[a]].roles[s] ELSE row[a].roles[s]
        BY <2>2, <3>2 DEF Importer
      <3>3. op[a] = "pair" =>
              row'[a].roles[s] = IF Paired(peer[a]) /\ registry[peer[a]].roles[s] # "none"
                                 THEN registry[peer[a]].roles[s] ELSE row[a].roles[s]
        BY DEF Lookup, Typed, LocalsTyped, Row
      <3> QED
        BY <1>2, <3>1, <3>2, <3>3 DEF Lookup
    <2> QED
      BY <1>0, <2>1, <2>2, RowClaims
  <1> QED
    BY <1>1, <1>2

LEMMA ProvisionClaims ==
  ASSUME Typed, Claims, NEW a \in Actor, Provision(a)
  PROVE  Claims'
  <1>1. managed' = managed \union share[a] /\ UNCHANGED <<registry, peer>>
    BY DEF Provision
  <1>2. \A b \in Actor \ {a} : row'[b] = row[b]
    BY DEF Provision, Typed, LocalsTyped
  <1>3. \A s \in Source : row'[a].roles[s] = "importer" =>
          row[a].roles[s] = "importer" \/ s \in managed' \ managed
    BY <1>1 DEF Provision, Typed, LocalsTyped
  <1> QED
    BY <1>1, <1>2, <1>3, RowClaims

LEMMA UpsertClaims ==
  ASSUME Typed, Claims, NEW a \in Actor, Upsert(a)
  PROVE  Claims'
  <1>1. UNCHANGED <<managed, row, peer>>
    BY DEF Upsert, localVars
  <1>2. registry' = [registry EXCEPT ![peer[a]] = row[a]]
    BY DEF Upsert
  <1>3. ASSUME NEW p \in Peer, NEW s \in Source, Claim(p, s)'
        PROVE  Claim(p, s)
    <2>1. CASE Importer(p, s)'
      <3>1. CASE p = peer[a]
        BY <1>2, <2>1, <3>1 DEF Importer, Claim, Typed, SharedTyped
      <3>2. CASE p # peer[a]
        BY <1>2, <2>1, <3>2 DEF Importer, Paired, Claim, Typed, SharedTyped
      <3> QED
        BY <3>1, <3>2
    <2>2. CASE ~Importer(p, s)'
      BY <1>1, <1>3, <2>2 DEF Claim
    <2> QED
      BY <2>1, <2>2
  <1> QED
    BY <1>1, <1>3, ClaimsKept

LEMMA NextClaims ==
  ASSUME Typed, Rooted, Claims, [Next]_vars
  PROVE  Claims'
  <1>1. CASE ~(\E a \in Actor : Step(a))
    BY <1>1, OthersKeepRows, NoClaim DEF Paired
  <1>2. ASSUME NEW a \in Actor, Step(a)
        PROVE  Claims'
    <2>1. CASE ~Resolve(a) /\ ~Lookup(a) /\ ~Provision(a) /\ ~Upsert(a)
      BY <1>2, <2>1, StepKeepsRows, NoClaim
    <2> QED
      BY <2>1, ResolveClaims, LookupClaims, ProvisionClaims, UpsertClaims
  <1> QED
    BY <1>1, <1>2

\* Two devices never come to be importers of one source, however Pair, Unpair and the
\* watcher interleave, fail and are cut short by a restart: Provision tells only one
\* of them that it made the root.
THEOREM ImporterIsOne == Spec => []OneImporter
  <1>1. Init => Typed /\ Rooted /\ Claims
    <2>1. Init => Rooted
      BY DEF Init, Rooted, Paired, NoRow
    <2>2. Init => Claims
      <3>1. ASSUME Init, NEW p \in Peer, NEW s \in Source PROVE ~Claim(p, s)
        BY <3>1 DEF Init, Claim, Importer, Paired, NoRow
      <3> QED
        BY <3>1 DEF Claims
    <2> QED
      BY <2>1, <2>2, InitTyped
  <1>2. Typed /\ Rooted /\ Claims /\ [Next]_vars => Typed' /\ Rooted' /\ Claims'
    BY NextTyped, NextRooted, NextClaims
  <1>3. Claims => OneImporter
    BY DEF Claims, Claim, OneImporter
  <1> QED
    BY <1>1, <1>2, <1>3, PTL DEF Spec
-----------------------------------------------------------------------------
(* Trust                                                                   *)

\* A step that adds no row and nobody who is about to write one.
LEMMA TrustKept ==
  ASSUME Trusted, accepted \union overtaken \subseteq accepted' \union overtaken',
         \A p \in Peer : Paired(p)' => Paired(p),
         \A b \in Actor :
           \/ pc'[b] = pc[b] /\ op'[b] = op[b] /\ peer'[b] = peer[b]
           \/ pc'[b] \notin {"resolve", "lookup", "provision", "upsert", "delete"}
  PROVE  Trusted'
  <1>1. TrustIsExplicit'
    BY DEF Trusted, TrustIsExplicit
  <1> QED
    BY <1>1 DEF Trusted

LEMMA BeginsTrusted ==
  ASSUME Typed, Trusted,
         \/ \E a \in Handler, p \in Peer, S \in SUBSET Source : Pair(a, p, S)
         \/ \E a \in Handler \union {Cli}, p \in Peer : Unpair(a, p)
         \/ \E a \in Handler, s \in Source : Enable(a, s)
         \/ \E p \in Peer : PendingDevice(p)
         \/ \E p \in Peer, s \in Source : PendingFolder(p, s)
  PROVE  Trusted'
  <1>1. PICK a \in Actor, o \in Op, p \in Peer \union {None}, S \in SUBSET Source, l \in Label :
          /\ Begin(a, o, p, S, l)
          /\ \/ o = "pair" /\ l = "resolve" /\ accepted' = accepted \union {p}
             \/ o = "unpair" /\ l = "delete" /\ UNCHANGED accepted
             \/ o = "enable" /\ l = "adopt" /\ UNCHANGED accepted
             \/ o \in {"device", "folder"} /\ l = "lookup" /\ UNCHANGED accepted
    BY DEF Actor, Op, Label, Pair, Unpair, Enable, PendingDevice, PendingFolder
  <1>2. UNCHANGED <<registry, overtaken>> /\ accepted \subseteq accepted'
    BY <1>1 DEF Begin, configVars
  <1>3. TrustIsExplicit'
    BY <1>2 DEF Trusted, TrustIsExplicit, Paired
  <1>4. \A b \in Actor \ {a} : pc'[b] = pc[b] /\ op'[b] = op[b] /\ peer'[b] = peer[b]
    BY <1>1 DEF Begin, Goto, Typed, LocalsTyped
  <1>5. pc'[a] = l /\ op'[a] = o /\ peer'[a] = p
    BY <1>1 DEF Begin, Goto, Typed, LocalsTyped
  <1> QED
    BY <1>1, <1>2, <1>3, <1>4, <1>5 DEF Trusted, Accepting

\* A step of a that keeps everybody's trust and leaves a trusted.
LEMMA StepTrusted ==
  ASSUME Typed, Trusted, NEW a \in Actor, Step(a)
  PROVE  Trusted'
  <1> USE DEF At, localVars, configVars
  <1>1. CASE Resolve(a) \/ Lookup(a) \/ Provision(a)
    <2>1. UNCHANGED <<registry, accepted, overtaken>>
      BY <1>1 DEF Resolve, Lookup, Provision
    <2>2. \A b \in Actor \ {a} : pc'[b] = pc[b] /\ op'[b] = op[b] /\ peer'[b] = peer[b]
      BY <1>1 DEF Resolve, Lookup, Provision, Return, Goto, Typed, LocalsTyped
    <2>3. CASE Return(a)
      <3>1. pc'[a] = "idle"
        BY <2>3 DEF Return, Goto, Typed, LocalsTyped
      <3> QED
        BY <2>1, <2>2, <3>1, TrustKept DEF Paired
    <2>4. CASE ~Return(a)
      <3>1. op'[a] = op[a] /\ peer'[a] = peer[a]
        BY <1>1, <2>4 DEF Resolve, Lookup, Provision
      <3>2. \/ Resolve(a) /\ pc[a] = "resolve" /\ pc'[a] \in {"lookup", "resolve"}
            \/ op[a] = "pair" /\ pc[a] = "lookup" /\ pc'[a] = "upsert"
            \/ op[a] # "pair" /\ pc[a] = "lookup" /\ Paired(peer[a]) /\ pc'[a] \in {"getDevs", "provision"}
            \/ pc[a] = "provision" /\ pc'[a] \in {"getFolders", "upsert"}
        BY <1>1, <2>4 DEF Resolve, Lookup, Provision, Goto, Typed, LocalsTyped
      <3>3. pc[a] \in {"resolve", "lookup", "provision"} => peer[a] \in Peer
        BY DEF Typed, Located
      <3>4. peer[a] \in accepted \union overtaken
        BY <3>2, <3>3 DEF Trusted, TrustIsExplicit
      <3>5. TrustIsExplicit'
        BY <2>1 DEF Trusted, TrustIsExplicit, Paired
      <3>6. op[a] \in Accepting /\ (pc[a] = "resolve" => op[a] = "pair")
        BY <3>2 DEF Trusted
      <3> QED
        BY <2>1, <2>2, <3>1, <3>2, <3>4, <3>5, <3>6 DEF Trusted
    <2> QED
      BY <2>3, <2>4
  <1>2. CASE Upsert(a)
    <2>1. peer[a] \in accepted \union overtaken
      BY <1>2 DEF Upsert, Trusted
    <2>2. TrustIsExplicit'
      BY <1>2, <2>1 DEF Upsert, Trusted, TrustIsExplicit, Paired, Typed, SharedTyped
    <2>3. \A b \in Actor : pc'[b] = pc[b] \/ pc'[b] \in {"getDevs", "getFolders"}
      BY <1>2 DEF Upsert, Goto, Typed, LocalsTyped
    <2> QED
      BY <1>2, <2>2, <2>3 DEF Upsert, Trusted
  <1>3. CASE Delete(a)
    <2>1. op[a] = "unpair" /\ pc'[a] \in {"idle", "getUnshare"}
      BY <1>3 DEF Delete, Return, Goto, Trusted, Typed, LocalsTyped
    <2>2. \A b \in Actor \ {a} : pc'[b] = pc[b] /\ op'[b] = op[b] /\ peer'[b] = peer[b]
      BY <1>3 DEF Delete, Return, Goto, Typed, LocalsTyped
    <2>3. TrustIsExplicit'
      BY <1>3 DEF Delete, Trusted, TrustIsExplicit, Paired, Typed, SharedTyped
    <2>4. ASSUME NEW b \in Actor \ {a}, op[b] \in Accepting, peer[b] \in accepted \union overtaken
          PROVE  peer[b] \in accepted' \union overtaken'
      BY <1>3, <2>4 DEF Delete, Overtakes, Accepting
    <2> QED
      BY <2>1, <2>2, <2>3, <2>4 DEF Trusted
  <1>4. CASE ~Resolve(a) /\ ~Lookup(a) /\ ~Provision(a) /\ ~Upsert(a) /\ ~Delete(a)
    <2>1. UNCHANGED <<registry, accepted, overtaken>>
      BY <1>4 DEF Step, GetDevices, PutDevices, GetFolders, PutFolders, GetShares, PutShares,
                  GetUnshare, PutUnshare, GetRemove, PutRemove, Adopt
    <2>2. \A b \in Actor \ {a} : pc'[b] = pc[b] /\ op'[b] = op[b] /\ peer'[b] = peer[b]
      BY <1>4 DEF Step, GetDevices, PutDevices, GetFolders, PutFolders, GetShares, PutShares,
                  GetUnshare, PutUnshare, GetRemove, PutRemove, Adopt, Return, Goto, Typed, LocalsTyped
    <2>3. pc'[a] \notin {"resolve", "lookup", "provision", "upsert", "delete"}
      BY <1>4 DEF Step, GetDevices, PutDevices, GetFolders, PutFolders, GetShares, PutShares,
                  GetUnshare, PutUnshare, GetRemove, PutRemove, Adopt, Return, Goto, Typed, LocalsTyped
    <2> QED
      BY <2>1, <2>2, <2>3, TrustKept DEF Paired
  <1> QED
    BY <1>1, <1>2, <1>3, <1>4

LEMMA NextTrusted ==
  ASSUME Typed, Trusted, [Next]_vars
  PROVE  Trusted'
  <1>1. ASSUME NEW a \in Actor, Fails(a)
        PROVE  Trusted'
    <2>1. UNCHANGED <<registry, accepted, overtaken>>
      BY <1>1 DEF Fails, configVars
    <2>2. \A b \in Actor \ {a} : pc'[b] = pc[b] /\ op'[b] = op[b] /\ peer'[b] = peer[b]
      BY <1>1 DEF Fails, localVars, Return, Goto, Typed, LocalsTyped
    <2>3. CASE Return(a)
      <3>1. pc'[a] = "idle"
        BY <2>3 DEF Return, Goto, Typed, LocalsTyped
      <3> QED
        BY <2>1, <2>2, <3>1, TrustKept DEF Paired
    <2>4. CASE ~Return(a)
      <3>1. pc[a] = "lookup" /\ op[a] = "pair" /\ pc'[a] = "upsert" /\ op'[a] = op[a] /\ peer'[a] = peer[a]
        BY <1>1, <2>4 DEF Fails, localVars, Goto, Typed, LocalsTyped
      <3> QED
        BY <2>1, <2>2, <3>1 DEF Trusted, TrustIsExplicit, Paired
    <2> QED
      BY <2>3, <2>4
  <1>2. CASE Restart
    BY <1>2, TrustKept DEF Restart, Paired
  <1>3. CASE UNCHANGED vars
    BY <1>3, TrustKept DEF vars, configVars, localVars, history, Paired
  <1> QED
    BY <1>1, <1>2, <1>3, BeginsTrusted, StepTrusted DEF Next

\* A device comes into the registry by the operator's pairing alone, whatever the
\* watcher accepts and however late; it stays after an unpairing only if somebody was
\* at work for it then.  (acceptPendingDevices and acceptPendingFolders look it up.)
THEOREM TrustExplicit == Spec => []TrustIsExplicit
  <1>1. Init => Typed /\ Trusted
    <2>1. Init => Trusted
      BY DEF Init, Trusted, TrustIsExplicit, Paired
    <2> QED
      BY <2>1, InitTyped
  <1>2. Typed /\ Trusted /\ [Next]_vars => Typed' /\ Trusted'
    BY NextTyped, NextTrusted
  <1>3. Trusted => TrustIsExplicit
    BY DEF Trusted
  <1> QED
    BY <1>1, <1>2, <1>3, PTL DEF Spec
-----------------------------------------------------------------------------
(* The daemon's lists                                                      *)

LEMMA NextShaped ==
  ASSUME Typed, Shaped, [Next]_vars
  PROVE  Shaped'
  <1> USE DEF Shaped
  <1>1. ASSUME NEW a \in Actor, Step(a)
        PROVE  Shaped'
    <2>1. \A b \in Actor \ {a} : pc'[b] = pc[b] /\ op'[b] = op[b]
      BY <1>1 DEF Step, Resolve, Lookup, Provision, Upsert, GetDevices, PutDevices, GetFolders,
                  PutFolders, GetShares, PutShares, Delete, GetUnshare, PutUnshare, GetRemove,
                  PutRemove, Adopt, Return, Goto, configVars, localVars, Typed, LocalsTyped
    <2>2. CASE Return(a)
      BY <2>1, <2>2 DEF Return, Goto, Typed, LocalsTyped
    <2>3. CASE ~Return(a)
      <3>1. op'[a] = op[a]
        BY <1>1, <2>3 DEF Step, Resolve, Lookup, Provision, Upsert, GetDevices, PutDevices, GetFolders,
                  PutFolders, GetShares, PutShares, Delete, GetUnshare, PutUnshare, GetRemove,
                  PutRemove, Adopt, configVars, localVars
      <3>2. CASE Resolve(a) \/ Lookup(a) \/ Provision(a) \/ Upsert(a) \/ GetDevices(a)
        BY <2>1, <2>3, <3>1, <3>2 DEF Resolve, Lookup, Provision, Upsert, GetDevices, At, Goto,
                  Typed, LocalsTyped, Op
      <3>3. CASE PutDevices(a) \/ GetFolders(a) \/ PutFolders(a) \/ GetShares(a)
        BY <2>1, <2>3, <3>1, <3>3 DEF PutDevices, GetFolders, PutFolders, GetShares, At, Goto,
                  Typed, LocalsTyped, Op
      <3>4. CASE Delete(a) \/ GetUnshare(a) \/ PutUnshare(a) \/ GetRemove(a)
        BY <2>1, <2>3, <3>1, <3>4 DEF Delete, GetUnshare, PutUnshare, GetRemove, At, Goto,
                  Typed, LocalsTyped, Op
      <3> QED
        BY <1>1, <2>3, <3>2, <3>3, <3>4 DEF Step, PutShares, PutRemove, Adopt
    <2> QED
      BY <2>2, <2>3
  <1>2. ASSUME NEW a \in Actor, Fails(a)
        PROVE  Shaped'
    <2>1. CASE Return(a)
      BY <2>1 DEF Return, Goto, Typed, LocalsTyped
    <2>2. CASE ~Return(a)
      BY <1>2, <2>2 DEF Fails, localVars, Goto, Typed, LocalsTyped
    <2> QED
      BY <2>1, <2>2
  <1>3. CASE Restart
    BY <1>3 DEF Restart
  <1>4. CASE UNCHANGED vars
    BY <1>4 DEF vars, localVars
  <1>5. ASSUME NEW a \in Actor, NEW o, NEW p, NEW S, NEW l, Begin(a, o, p, S, l),
               \/ o = "pair" /\ l = "resolve"
               \/ o = "unpair" /\ l = "delete"
               \/ o = "enable" /\ l = "adopt"
               \/ o \in {"device", "folder"} /\ l = "lookup"
        PROVE  Shaped'
    <2>1. \A b \in Actor \ {a} : pc'[b] = pc[b] /\ op'[b] = op[b]
      BY <1>5 DEF Begin, Goto, Typed, LocalsTyped
    <2>2. pc'[a] = l /\ op'[a] = o
      BY <1>5 DEF Begin, Goto, Typed, LocalsTyped
    <2> QED
      BY <1>5, <2>1, <2>2
  <1> QED
    BY <1>1, <1>2, <1>3, <1>4, <1>5 DEF Next, Actor, Pair, Unpair, Enable, PendingDevice, PendingFolder

\* A step that changes nothing about device q in the lists.
LEMMA GoodKept ==
  ASSUME NEW q, Good(q), registry'[q] = registry[q], q \in devs' <=> q \in devs,
         \A s \in Source : Configured(s) => Configured(s)' /\ (q \in shares'[s] <=> q \in shares[s]),
         \A s \in Source : Configured(s)' /\ ~Configured(s) => q \notin shares'[s],
         Paired(q) => registry[q].folders \subseteq Source
  PROVE  Good(q)'
  BY DEF Good, Paired, Served, Listed

LEMMA FoldersTyped ==
  ASSUME Typed, NEW q \in Peer, Paired(q)
  PROVE  registry[q].folders \subseteq Source
  BY DEF Typed, SharedTyped, Paired, Row

\* A step of the one actor that is at work.
LEMMA WorkFollows ==
  ASSUME Typed, Follows, NEW a \in Actor, Working(a), UNCHANGED disturbed,
         NEW d, peer[a] = d,
         ~disturbed => \A q \in Peer \ {d} : Good(q) => Good(q)',
         \A b \in Actor \ {a} : op'[b] = op[b],
         \/ op'[a] = "none" /\ (~disturbed => Good(d)')
         \/ op'[a] = op[a] /\ peer'[a] = peer[a] /\ (~disturbed => Stage(a)')
  PROVE  Follows'
  <1> SUFFICES ASSUME ~disturbed
               PROVE  /\ \A b, c \in Actor : Working(b)' /\ Working(c)' => b = c
                      /\ \A p \in Peer : (\A b \in Actor : Working(b)' => peer'[b] # p) => Good(p)'
                      /\ \A b \in Actor : Working(b)' => Stage(b)'
    BY DEF Follows
  <1>1. \A b \in Actor \ {a} : ~Working(b) /\ ~Working(b)'
    BY DEF Follows, Working
  <1>2. \A q \in Peer \ {d} : Good(q)'
    BY <1>1 DEF Follows
  <1>3. CASE op'[a] = "none" /\ Good(d)'
    BY <1>1, <1>2, <1>3 DEF Working
  <1>4. CASE op'[a] = op[a] /\ peer'[a] = peer[a] /\ Stage(a)'
    BY <1>1, <1>2, <1>4 DEF Working
  <1> QED
    BY <1>3, <1>4

\* What a step of a on device d promises to WorkFollows, when nothing is disturbed.
Advances(a, d) ==
  /\ \A q \in Peer \ {d} : Good(q) => Good(q)'
  /\ \/ op'[a] = "none" /\ Good(d)'
     \/ op'[a] = op[a] /\ peer'[a] = peer[a] /\ Stage(a)'

\* A step that changes nothing but what is a's own.
LEMMA OwnStep ==
  ASSUME Typed, NEW a \in Actor, NEW d, UNCHANGED <<registry, devs, shares>>,
         \/ op'[a] = "none" /\ Good(d)
         \/ op'[a] = op[a] /\ peer'[a] = peer[a] /\ Stage(a)'
  PROVE  Advances(a, d)
  <1>1. \A q : Good(q) => Good(q)'
    BY DEF Good, Paired, Served, Listed, Configured
  <1> QED
    BY <1>1 DEF Advances

LEMMA ReturnOp ==
  ASSUME Typed, NEW a \in Actor, Return(a)
  PROVE  op'[a] = "none"
  BY DEF Return, Typed, LocalsTyped

\* Before the registry is written.
LEMMA EarlyAdvances ==
  ASSUME Typed, Rooted, Shaped, NEW a \in Actor, NEW d \in Peer, peer[a] = d, Stage(a),
         Resolve(a) \/ Lookup(a) \/ Provision(a)
  PROVE  Advances(a, d)
  <1> USE DEF At, configVars, Typed, LocalsTyped
  <1>1. CASE Resolve(a)
    <2>1. UNCHANGED <<registry, devs, shares, op, peer>> /\ op[a] = "pair"
      BY <1>1 DEF Resolve, Shaped
    <2>2. Good(d)'
      BY <1>1, <2>1 DEF Resolve, Stage, Good, Paired, Served, Listed, Configured
    <2>3. pc'[a] \in {"resolve", "lookup"}
      BY <1>1 DEF Resolve, Goto
    <2>4. row'[a].folders \subseteq share'[a]
      <3>1. CASE share[a] = {} /\ share' = [share EXCEPT ![a] = managed] /\ row' = [row EXCEPT ![a] =
                 [folders |-> managed,
                  roles |-> [s \in Source |-> IF s \in managed THEN "replica" ELSE "none"]]]
        BY <3>1
      <3>2. ASSUME NEW s \in share[a], UNCHANGED share, NEW r,
                   row' = [row EXCEPT ![a] = With(@, s, r)]
            PROVE  row'[a].folders \subseteq share'[a]
        BY <1>1, <2>1, <3>2 DEF Resolve, Stage, With
      <3> QED
        BY <1>1, <3>1, <3>2 DEF Resolve
    <2>5. Stage(a)'
      BY <2>1, <2>2, <2>3, <2>4 DEF Stage
    <2> QED
      BY <2>1, <2>5, OwnStep
  <1>2. CASE Lookup(a) /\ op[a] = "pair"
    <2>1. UNCHANGED <<registry, devs, shares, op, peer, share>> /\ pc'[a] = "upsert"
      BY <1>2 DEF Lookup, Goto
    <2>2. row'[a].folders = row[a].folders
      BY <1>2 DEF Lookup, Row
    <2>3. Good(d)'
      BY <1>2, <2>1 DEF Lookup, Stage, Good, Paired, Served, Listed, Configured
    <2>4. Stage(a)'
      BY <1>2, <2>1, <2>2, <2>3 DEF Lookup, Stage
    <2> QED
      BY <2>1, <2>4, OwnStep
  <1>3. CASE Lookup(a) /\ op[a] # "pair" /\ Return(a)
    BY <1>3, OwnStep, ReturnOp DEF Lookup, Stage
  <1>4. CASE Lookup(a) /\ op[a] # "pair" /\ ~Return(a)
    <2>1. /\ UNCHANGED <<registry, devs, shares, op, peer, share>>
          /\ Paired(d) /\ row'[a] = registry[d] /\ Good(d)
          /\ pc'[a] = IF op[a] = "device" THEN "getDevs" ELSE "provision"
      BY <1>4 DEF Lookup, Goto, Stage
    <2>2. Good(d)' /\ Paired(d)'
      BY <2>1 DEF Good, Paired, Served, Listed, Configured
    <2>3. op[a] = "device" => share[a] = {}
      BY <1>4 DEF Lookup, Stage
    <2>4. Served(d, registry[d].folders \ share[a])'
      BY <2>2, <2>1 DEF Good, Served
    <2>5. Listed(d)'
      BY <2>2 DEF Good
    <2>6. Stage(a)'
      BY <1>4, <2>1, <2>2, <2>3, <2>4, <2>5 DEF Stage
    <2> QED
      BY <2>1, <2>6, OwnStep
  <1>5. CASE Provision(a)
    <2>1. /\ UNCHANGED <<registry, devs, shares, op, peer, share>> /\ op[a] = "folder"
          /\ row'[a].folders = row[a].folders \union share[a]
          /\ pc'[a] = IF row'[a] = row[a] THEN "getFolders" ELSE "upsert"
      BY <1>5 DEF Provision, Goto, Shaped
    <2>2. Paired(d) /\ row[a].folders \subseteq registry[d].folders \union share[a] /\ Good(d)
      BY <1>5, <2>1 DEF Provision, Stage
    <2>3. Good(d)' /\ Paired(d)'
      BY <2>1, <2>2 DEF Good, Paired, Served, Listed, Configured
    <2>4. Served(d, registry[d].folders \ share[a])' /\ Listed(d)' /\ d \in devs'
      BY <2>1, <2>3 DEF Good, Served
    <2>5. Stage(a)'
      BY <2>1, <2>2, <2>3, <2>4 DEF Stage
    <2> QED
      BY <2>1, <2>5, OwnStep
  <1> QED
    BY <1>1, <1>2, <1>3, <1>4, <1>5

\* The registry has d's row, and the lists are extended after it.
LEMMA ExtendAdvances ==
  ASSUME Typed, Rooted, Shaped, NEW a \in Actor, NEW d \in Peer, peer[a] = d, Stage(a),
         \/ Upsert(a) \/ GetDevices(a) \/ PutDevices(a) \/ GetFolders(a)
         \/ PutFolders(a) \/ GetShares(a) \/ PutShares(a)
  PROVE  Advances(a, d)
  <1> USE DEF At, configVars, localVars, Typed, LocalsTyped
  <1>1. CASE Upsert(a)
    <2>1. /\ UNCHANGED <<devs, shares, op, peer, share, row>> /\ pc[a] = "upsert"
          /\ registry' = [registry EXCEPT ![d] = row[a]]
          /\ pc'[a] = IF op[a] = "pair" THEN "getDevs" ELSE "getFolders"
          /\ op[a] \in {"pair", "folder"}
      <3>1. op[a] \in {"pair", "folder"}
        BY <1>1 DEF Upsert, Shaped, Op
      <3> QED
        BY <1>1, <3>1 DEF Upsert, Goto
    <2>2. registry'[d] = row[a] /\ Paired(d)' /\ \A q \in Peer \ {d} : registry'[q] = registry[q]
      BY <2>1, PairingAssumption DEF SharedTyped, Paired
    <2>3. \A q \in Peer \ {d} : Good(q) => Good(q)'
      BY <2>1, <2>2 DEF Good, Paired, Served, Listed, Configured
    <2>4. Good(d)
      BY <2>1 DEF Stage
    <2>5. Listed(d)'
      BY <2>1, <2>4 DEF Good, Listed, Configured
    <2>6. Served(d, registry[d].folders \ share[a])'
      BY <2>1, <2>2, <2>4 DEF Stage, Good, Served, Configured
    <2>7. op[a] = "folder" => d \in devs'
      BY <2>1, <2>4 DEF Stage, Good
    <2>8. Stage(a)'
      BY <2>1, <2>2, <2>5, <2>6, <2>7 DEF Stage
    <2> QED
      BY <2>1, <2>3, <2>8 DEF Advances
  <1>2. CASE GetDevices(a)
    <2>1. /\ UNCHANGED <<registry, devs, shares, op, peer, share, row, got>> /\ pc[a] = "getDevs"
          /\ known'[a] = devs
          /\ \/ pc'[a] = "putDevs"
             \/ d \in devs /\ pc'[a] = IF op[a] = "pair" THEN "getFolders" ELSE "getShares"
          /\ op[a] \in {"pair", "device"}
      <3>1. op[a] \in {"pair", "device"}
        BY <1>2 DEF GetDevices, Shaped, Op
      <3> QED
        BY <1>2, <3>1 DEF GetDevices, Goto
    <2>2. Paired(d)' /\ Listed(d)' /\ Served(d, registry[d].folders \ share[a])'
      BY <2>1 DEF Stage, Paired, Listed, Served, Configured
    <2>3. pc'[a] = "getShares" => \A s \in registry'[d].folders : Configured(s)'
      BY <2>1, <2>2 DEF Stage, Served
    <2>4. Stage(a)'
      BY <2>1, <2>2, <2>3 DEF Stage
    <2> QED
      BY <2>1, <2>4, OwnStep
  <1>3. CASE PutDevices(a)
    <2>1. /\ UNCHANGED <<registry, shares, op, peer, share, row, got>> /\ pc[a] = "putDevs"
          /\ devs' = devs \union {d}
          /\ pc'[a] = IF op[a] = "pair" THEN "getFolders" ELSE "getShares"
          /\ op[a] \in {"pair", "device"}
      <3>1. op[a] \in {"pair", "device"}
        BY <1>3 DEF PutDevices, Shaped, Op
      <3> QED
        BY <1>3, <3>1 DEF PutDevices, Goto, Stage
    <2>2. \A q \in Peer \ {d} : Good(q) => Good(q)'
      BY <2>1 DEF Good, Paired, Served, Listed, Configured
    <2>3. Paired(d)' /\ Listed(d)' /\ Served(d, registry[d].folders \ share[a])'
      BY <2>1 DEF Stage, Paired, Listed, Served, Configured
    <2>4. pc'[a] = "getShares" => \A s \in registry'[d].folders : Configured(s)'
      BY <2>1, <2>3 DEF Stage, Served
    <2>5. Stage(a)'
      BY <2>1, <2>3, <2>4 DEF Stage
    <2> QED
      BY <2>1, <2>2, <2>5 DEF Advances
  <1>4. CASE GetFolders(a)
    <2>1. /\ UNCHANGED <<registry, devs, shares, op, peer, share, row, known>> /\ pc[a] = "getFolders"
          /\ got'[a] = shares /\ op[a] # "device"
          /\ pc'[a] = IF \A s \in share[a] : Configured(s) THEN "getShares" ELSE "putFolders"
      BY <1>4 DEF GetFolders, Goto, Shaped
    <2>2. Paired(d)' /\ Listed(d)' /\ Served(d, registry[d].folders \ share[a])' /\ d \in devs'
      BY <2>1 DEF Stage, Paired, Listed, Served, Configured
    <2>3. pc'[a] = "getShares" => \A s \in registry'[d].folders : Configured(s)'
      BY <2>1, <2>2 DEF Served, Configured
    <2>4. Stage(a)'
      BY <2>1, <2>2, <2>3 DEF Stage
    <2> QED
      BY <2>1, <2>4, OwnStep
  <1>5. CASE PutFolders(a)
    <2>1. /\ UNCHANGED <<registry, devs, op, peer, share, row, known>> /\ pc[a] = "putFolders"
          /\ shares' = [s \in Source |-> IF s \in share[a] /\ shares[s] = None THEN {} ELSE shares[s]]
          /\ pc'[a] = "getShares" /\ op[a] # "device"
      BY <1>5 DEF PutFolders, Goto, Shaped, Stage
    <2>2. \A s \in Source : /\ Configured(s) => shares'[s] = shares[s]
                          /\ ~Configured(s) => shares'[s] = IF s \in share[a] THEN {} ELSE None
      BY <2>1 DEF Configured
    <2>3. {} # None
      BY PairingAssumption
    <2>4. ASSUME NEW q \in Peer, Good(q), q # d PROVE Good(q)'
      BY <2>1, <2>2, <2>3, <2>4, FoldersTyped, GoodKept DEF Configured
    <2>5. registry[d].folders \subseteq Source /\ Paired(d)
      BY <2>1, FoldersTyped DEF Stage
    <2>6. Paired(d)' /\ Listed(d)' /\ Served(d, registry[d].folders \ share[a])' /\ d \in devs'
      BY <2>1, <2>2, <2>3, <2>5 DEF Stage, Paired, Listed, Served, Configured
    <2>7. \A s \in registry'[d].folders : Configured(s)'
      BY <2>1, <2>2, <2>3, <2>5, <2>6 DEF Served, Configured
    <2>8. Stage(a)'
      BY <2>1, <2>6, <2>7 DEF Stage
    <2> QED
      BY <2>1, <2>4, <2>8 DEF Advances
  <1>6. CASE GetShares(a)
    <2>1. UNCHANGED <<registry, devs, shares>> /\ pc[a] = "getShares"
      BY <1>6 DEF GetShares
    <2>2. /\ Paired(d) /\ Listed(d) /\ Served(d, registry[d].folders \ share[a]) /\ d \in devs
          /\ \A s \in registry[d].folders : Configured(s)
      BY <2>1 DEF Stage
    <2>3. CASE Return(a)
      <3>1. Served(d, registry[d].folders)
        <4>1. CASE op[a] = "device"
          BY <2>1, <2>2, <4>1 DEF Stage, Served
        <4>2. CASE op[a] # "device" /\ \A s \in share[a] : Configured(s) => d \in shares[s]
          BY <2>2, <4>2 DEF Served
        <4>3. op'[a] # op[a]
          BY <2>1, <2>3, ReturnOp DEF Shaped
        <4> QED
          BY <1>6, <4>1, <4>2, <4>3 DEF GetShares
      <3>2. Good(d)
        BY <2>2, <3>1 DEF Good
      <3> QED
        BY <2>1, <2>3, <3>2, OwnStep, ReturnOp
    <2>4. CASE ~Return(a)
      <3>1. /\ UNCHANGED <<op, peer, row, known>> /\ got'[a] = shares /\ pc'[a] = "putShares"
            /\ op[a] # "device" => share'[a] = share[a]
        BY <1>6, <2>4 DEF GetShares, Goto
      <3>2. Served(d, registry[d].folders \ share[a])' \/ op[a] = "device"
        BY <2>1, <2>2, <3>1 DEF Served, Configured
      <3>3. op[a] = "device" => Served(d, registry[d].folders)
        BY <2>1, <2>2 DEF Stage, Served
      <3>4. Served(d, registry[d].folders \ share[a])'
        BY <2>1, <3>1, <3>2, <3>3 DEF Served, Configured
      <3>5. Stage(a)'
        BY <2>1, <2>2, <3>1, <3>4 DEF Stage, Paired, Listed, Configured
      <3> QED
        BY <2>1, <3>1, <3>5, OwnStep
    <2> QED
      BY <2>3, <2>4
  <1>7. CASE PutShares(a)
    <2>1. /\ UNCHANGED <<registry, devs>> /\ pc[a] = "putShares" /\ op'[a] = "none"
          /\ shares' = [s \in Source |-> IF s \in share[a] /\ shares[s] # None
                                        THEN shares[s] \union {d} ELSE shares[s]]
      BY <1>7, ReturnOp DEF PutShares, Stage
    <2>2. ASSUME NEW s \in Source
          PROVE  /\ Configured(s) <=> Configured(s)'
                 /\ Configured(s) => \A q : q \in shares'[s] <=> q \in shares[s] \/ (s \in share[a] /\ q = d)
      <3>1. Configured(s) => shares[s] \union {d} # None
        BY PairingAssumption DEF Configured, SharedTyped, Shares
      <3>2. Configured(s) => shares'[s] = IF s \in share[a] THEN shares[s] \union {d} ELSE shares[s]
        BY <2>1 DEF Configured
      <3>3. ~Configured(s) => ~Configured(s)'
        BY <2>1 DEF Configured
      <3>4. Configured(s) => Configured(s)'
        BY <3>1, <3>2 DEF Configured
      <3> QED
        BY <3>2, <3>3, <3>4
    <2>3. ASSUME NEW q \in Peer, Good(q), q # d PROVE Good(q)'
      <3>1. \A s \in Source : Configured(s) => (q \in shares'[s] <=> q \in shares[s])
        BY <2>2, <2>3
      <3>2. registry'[q] = registry[q] /\ (q \in devs' <=> q \in devs)
        BY <2>1
      <3>3. Paired(q) => registry[q].folders \subseteq Source
        BY FoldersTyped
      <3> QED
        BY <2>2, <2>3, <3>1, <3>2, <3>3, GoodKept
    <2>4. registry[d].folders \subseteq Source /\ Paired(d)
      BY <2>1, FoldersTyped DEF Stage
    <2>5. Good(d)'
      <3>1. Paired(d)' /\ d \in devs'
        BY <2>1 DEF Stage, Paired
      <3>2. ASSUME NEW s \in registry[d].folders PROVE Configured(s)' /\ d \in shares'[s]
        <4>1. s \in Source /\ Configured(s) /\ (s \in share[a] \/ d \in shares[s])
          BY <2>1, <2>4 DEF Stage, Served
        <4> QED
          BY <2>2, <4>1
      <3>3. Served(d, registry[d].folders)'
        BY <2>1, <3>2 DEF Served
      <3> QED
        BY <3>1, <3>3 DEF Good, Listed
    <2> QED
      BY <2>1, <2>3, <2>5 DEF Advances
  <1> QED
    BY <1>1, <1>2, <1>3, <1>4, <1>5, <1>6, <1>7

\* The row is gone, and the lists are cut after it.
LEMMA RemoveAdvances ==
  ASSUME Typed, Shaped, NEW a \in Actor, NEW d \in Peer, peer[a] = d, Stage(a),
         Delete(a) \/ GetUnshare(a) \/ PutUnshare(a) \/ GetRemove(a) \/ PutRemove(a)
  PROVE  Advances(a, d)
  <1> USE DEF At, configVars, localVars, Typed, LocalsTyped
  <1>0. op[a] = "unpair"
    BY DEF Delete, GetUnshare, PutUnshare, GetRemove, PutRemove, Shaped
  <1>1. CASE Delete(a)
    <2>1. /\ UNCHANGED <<devs, shares>> /\ Good(d)
          /\ registry' = [registry EXCEPT ![d] = None]
      BY <1>1 DEF Delete, Stage
    <2>2. \A q \in Peer \ {d} : Good(q) => Good(q)'
      BY <2>1 DEF Good, Paired, Served, Listed, Configured, SharedTyped
    <2>3. ~Paired(d)'
      BY <2>1 DEF Paired, SharedTyped
    <2>4. CASE Paired(d)
      <3>1. op'[a] = op[a] /\ peer'[a] = peer[a] /\ pc'[a] = "getUnshare"
        BY <1>1, <2>4 DEF Delete, Goto
      <3>2. Stage(a)'
        BY <1>0, <2>3, <3>1 DEF Stage
      <3> QED
        BY <2>2, <3>1, <3>2 DEF Advances
    <2>5. CASE ~Paired(d)
      <3>1. Good(d)'
        BY <2>1, <2>3, <2>5 DEF Good, Listed, Configured
      <3> QED
        BY <1>1, <2>2, <2>5, <3>1, ReturnOp DEF Delete, Advances
    <2> QED
      BY <2>4, <2>5
  <1>2. CASE GetUnshare(a)
    <2>1. /\ UNCHANGED <<registry, devs, shares, op, peer>> /\ pc[a] = "getUnshare" /\ got'[a] = shares
          /\ pc'[a] = IF \E s \in Source : Configured(s) /\ d \in shares[s] THEN "putUnshare" ELSE "getRemove"
      BY <1>2 DEF GetUnshare, Goto
    <2>2. ~Paired(d)'
      BY <2>1 DEF Stage, Paired
    <2>3. Stage(a)'
      BY <1>0, <2>1, <2>2 DEF Stage, Configured
    <2> QED
      BY <2>1, <2>3, OwnStep
  <1>3. CASE PutUnshare(a)
    <2>1. /\ UNCHANGED <<registry, devs, op, peer>> /\ pc[a] = "putUnshare" /\ pc'[a] = "getRemove"
          /\ shares' = [s \in Source |-> IF shares[s] = None THEN None ELSE shares[s] \ {d}]
      BY <1>3 DEF PutUnshare, Goto, Stage
    <2>2. ASSUME NEW s \in Source
          PROVE  /\ Configured(s) <=> Configured(s)'
                 /\ Configured(s) => \A q : q \in shares'[s] <=> q \in shares[s] /\ q # d
      <3>1. Configured(s) => shares[s] \ {d} # None
        BY PairingAssumption DEF Configured, SharedTyped, Shares
      <3>2. Configured(s) => shares'[s] = shares[s] \ {d}
        BY <2>1 DEF Configured
      <3>3. ~Configured(s) => ~Configured(s)'
        BY <2>1 DEF Configured
      <3>4. Configured(s) => Configured(s)'
        BY <3>1, <3>2 DEF Configured
      <3> QED
        BY <3>2, <3>3, <3>4
    <2>3. ASSUME NEW q \in Peer, Good(q), q # d PROVE Good(q)'
      <3>1. \A s \in Source : Configured(s) => (q \in shares'[s] <=> q \in shares[s])
        BY <2>2, <2>3
      <3>2. registry'[q] = registry[q] /\ (q \in devs' <=> q \in devs)
        BY <2>1
      <3>3. Paired(q) => registry[q].folders \subseteq Source
        BY FoldersTyped
      <3> QED
        BY <2>2, <2>3, <3>1, <3>2, <3>3, GoodKept
    <2>4. ~Paired(d)' /\ \A s \in Source : Configured(s)' => d \notin shares'[s]
      BY <2>1, <2>2 DEF Stage, Paired
    <2>5. Stage(a)'
      BY <1>0, <2>1, <2>4 DEF Stage
    <2> QED
      BY <2>1, <2>3, <2>5 DEF Advances
  <1>4. CASE GetRemove(a)
    <2>1. /\ UNCHANGED <<registry, devs, shares>> /\ ~Paired(d)
          /\ \A s \in Source : Configured(s) => d \notin shares[s]
      BY <1>4 DEF GetRemove, Stage
    <2>2. CASE Return(a) /\ d \notin devs
      BY <2>1, <2>2, OwnStep, ReturnOp DEF Good, Listed
    <2>3. CASE ~(Return(a) /\ d \notin devs)
      <3>1. UNCHANGED <<op, peer>> /\ pc'[a] = "putRemove" /\ known'[a] = devs
        BY <1>4, <2>3 DEF GetRemove, Goto
      <3>2. Stage(a)'
        BY <1>0, <2>1, <3>1 DEF Stage, Paired, Configured
      <3> QED
        BY <2>1, <3>1, <3>2, OwnStep
    <2> QED
      BY <2>2, <2>3
  <1>5. CASE PutRemove(a)
    <2>1. /\ UNCHANGED <<registry, shares>> /\ devs' = devs \ {d} /\ ~Paired(d)
          /\ \A s \in Source : Configured(s) => d \notin shares[s]
      BY <1>5 DEF PutRemove, Stage
    <2>2. \A q \in Peer \ {d} : Good(q) => Good(q)'
      BY <2>1 DEF Good, Paired, Served, Listed, Configured
    <2>3. Good(d)'
      BY <2>1 DEF Good, Paired, Listed, Configured
    <2> QED
      BY <1>5, <2>2, <2>3, ReturnOp DEF PutRemove, Advances
  <1> QED
    BY <1>1, <1>2, <1>3, <1>4, <1>5

LEMMA StepFollows ==
  ASSUME Typed, Rooted, Shaped, Follows, NEW a \in Actor, Step(a)
  PROVE  Follows'
  <1>1. CASE Adopt(a)
    <2>1. UNCHANGED <<registry, devs, shares, disturbed>> /\ ~Working(a)
      BY <1>1 DEF Adopt, At, Shaped, Working
    <2>2. \A b \in Actor \ {a} : /\ pc'[b] = pc[b] /\ op'[b] = op[b] /\ peer'[b] = peer[b]
                               /\ share'[b] = share[b] /\ row'[b] = row[b]
                               /\ got'[b] = got[b] /\ known'[b] = known[b]
      BY <1>1 DEF Adopt, Return, Goto, Typed, LocalsTyped
    <2>3. ~Working(a)'
      BY <1>1, ReturnOp DEF Adopt, Working
    <2>4. \A p : Good(p) <=> Good(p)'
      BY <2>1 DEF Good, Paired, Served, Listed, Configured
    <2>5. ASSUME NEW b \in Actor \ {a}, Stage(b) PROVE Stage(b)'
      BY <2>1, <2>2, <2>5 DEF Stage, Good, Paired, Served, Listed, Configured
    <2>6. \A b \in Actor : Working(b)' => Working(b) /\ b # a /\ peer'[b] = peer[b]
      BY <2>2, <2>3 DEF Working
    <2>7. \A b \in Actor : Working(b) => Working(b)' /\ peer'[b] = peer[b]
      BY <2>1, <2>2 DEF Working
    <2> QED
      BY <2>1, <2>4, <2>5, <2>6, <2>7 DEF Follows
  <1>2. CASE ~Adopt(a)
    <2>1. UNCHANGED disturbed /\ peer[a] \in Peer /\ Working(a)
      BY <1>2 DEF Step, Resolve, Lookup, Provision, Upsert, GetDevices, PutDevices, GetFolders,
                  PutFolders, GetShares, PutShares, Delete, GetUnshare, PutUnshare, GetRemove,
                  PutRemove, At, Typed, Located, Shaped, Working
    <2>2. \A b \in Actor \ {a} : op'[b] = op[b]
      BY <1>2 DEF Step, Resolve, Lookup, Provision, Upsert, GetDevices, PutDevices, GetFolders,
                  PutFolders, GetShares, PutShares, Delete, GetUnshare, PutUnshare, GetRemove,
                  PutRemove, Return, configVars, localVars, Typed, LocalsTyped
    <2>3. PICK d \in Peer : peer[a] = d
      BY <2>1
    <2>4. ~disturbed => Advances(a, d)
      BY <1>2, <2>1, <2>3, EarlyAdvances, ExtendAdvances, RemoveAdvances DEF Step, Follows
    <2>5. CASE disturbed
      BY <2>1, <2>5 DEF Follows
    <2>6. CASE ~disturbed
      BY <2>1, <2>2, <2>3, <2>4, <2>6, WorkFollows DEF Advances
    <2> QED
      BY <2>5, <2>6
  <1> QED
    BY <1>1, <1>2

LEMMA BeginsFollow ==
  ASSUME Typed, Shaped, Follows,
         \/ \E a \in Handler, p \in Peer, S \in SUBSET Source : Pair(a, p, S)
         \/ \E a \in Handler \union {Cli}, p \in Peer : Unpair(a, p)
         \/ \E a \in Handler, s \in Source : Enable(a, s)
         \/ \E p \in Peer : PendingDevice(p)
         \/ \E p \in Peer, s \in Source : PendingFolder(p, s)
  PROVE  Follows'
  <1>1. PICK a \in Actor, o \in Op, p \in Peer \union {None}, S \in SUBSET Source, l \in Label :
          /\ Begin(a, o, p, S, l)
          /\ \/ o = "pair" /\ l = "resolve" /\ p \in Peer
             \/ o = "unpair" /\ l = "delete" /\ p \in Peer
             \/ o = "enable" /\ l = "adopt"
             \/ o = "device" /\ l = "lookup" /\ S = {} /\ p \in Peer
             \/ o = "folder" /\ l = "lookup" /\ p \in Peer
    BY DEF Actor, Op, Label, Pair, Unpair, Enable, PendingDevice, PendingFolder
  <1>2. UNCHANGED <<registry, devs, shares>>
    BY <1>1 DEF Begin, configVars
  <1>3. /\ pc'[a] = l /\ op'[a] = o /\ peer'[a] = p /\ share'[a] = S
        /\ row'[a].folders = {} /\ ~Working(a)
    BY <1>1 DEF Begin, Goto, Busy, Shaped, Working, Typed, LocalsTyped, Located, NoRow
  <1>4. \A b \in Actor \ {a} : /\ pc'[b] = pc[b] /\ op'[b] = op[b] /\ peer'[b] = peer[b]
                             /\ share'[b] = share[b] /\ row'[b] = row[b]
                             /\ got'[b] = got[b] /\ known'[b] = known[b]
    BY <1>1 DEF Begin, Goto, Typed, LocalsTyped
  <1>5. \A q : Good(q) <=> Good(q)'
    BY <1>2 DEF Good, Paired, Served, Listed, Configured
  <1>6. CASE o = "enable"
    <2>1. UNCHANGED disturbed
      BY <1>1, <1>6 DEF Begin, Typed, SharedTyped
    <2>2. ASSUME NEW b \in Actor \ {a}, Stage(b) PROVE Stage(b)'
      BY <1>2, <1>4, <2>2 DEF Stage, Good, Paired, Served, Listed, Configured
    <2>3. \A b \in Actor : Working(b)' => Working(b) /\ b # a /\ peer'[b] = peer[b]
      BY <1>3, <1>4, <1>6 DEF Working
    <2>4. \A b \in Actor : Working(b) => Working(b)' /\ peer'[b] = peer[b]
      BY <1>3, <1>4 DEF Working
    <2> QED
      BY <1>5, <2>1, <2>2, <2>3, <2>4 DEF Follows
  <1>7. CASE o # "enable"
    <2> SUFFICES ASSUME ~disturbed'
                 PROVE  Follows'
      BY DEF Follows
    <2>1. ~disturbed /\ \A b \in Actor : ~Working(b)
      BY <1>1, <1>7 DEF Begin, Working
    <2>2. \A q \in Peer : Good(q)'
      BY <1>5, <2>1 DEF Follows
    <2>3. \A b \in Actor : Working(b)' => b = a
      BY <1>4, <2>1 DEF Working
    <2>4. Good(p)'
      BY <1>1, <1>7, <2>2
    <2>5. Good(peer[a])'
      BY <1>3, <2>4 DEF Good, Paired, Served, Listed, Configured
    <2>6. Stage(a)'
      BY <1>1, <1>3, <1>7, <2>5 DEF Stage
    <2> QED
      BY <2>2, <2>3, <2>6 DEF Follows
  <1> QED
    BY <1>6, <1>7

\* A start makes the lists from the registry; nobody of the server is at work.
LEMMA RestartFollows ==
  ASSUME Typed, Rooted, Shaped, Restart
  PROVE  Follows'
  <1> SUFFICES ASSUME ~disturbed'
               PROVE  Follows'
    BY DEF Follows
  <1>1. ASSUME NEW b \in Actor PROVE ~Working(b)'
    <2>1. CASE b \in Server
      BY <2>1 DEF Restart, Working
    <2>2. CASE b = Cli
      <3>1. ~Busy(Cli)
        BY DEF Restart
      <3>2. op[b] = "none"
        BY <2>2, <3>1 DEF Busy, Shaped
      <3> QED
        BY <2>2, <3>2, PairingAssumption DEF Restart, Working
    <2> QED
      BY <2>1, <2>2 DEF Actor, Server
  <1>2. ASSUME NEW q \in Peer PROVE Good(q)'
    <2>1. /\ Paired(q)' <=> Paired(q)
          /\ registry' = registry
          /\ q \in devs' <=> Paired(q)
      BY DEF Restart, Paired
    <2>2. ASSUME NEW s \in Source
          PROVE  /\ Configured(s)' <=> s \in roots
                 /\ Configured(s)' => (q \in shares'[s] <=> Paired(q) /\ s \in registry[q].folders)
      <3>1. s \in roots => shares'[s] = {p \in Peer : Paired(p) /\ s \in registry[p].folders}
        BY DEF Restart, ApplyPeers
      <3>2. s \in roots => Configured(s)'
        BY <3>1, PairingAssumption DEF Configured
      <3>3. s \notin roots => ~Configured(s)'
        BY DEF Restart, ApplyPeers, Configured
      <3> QED
        BY <3>1, <3>2, <3>3
    <2>3. Paired(q) => registry[q].folders \subseteq Source /\ registry[q].folders \subseteq roots
      BY FoldersTyped DEF Rooted
    <2>4. Paired(q)' => Served(q, registry[q].folders)'
      BY <2>1, <2>2, <2>3 DEF Served
    <2>5. Listed(q)'
      BY <2>1, <2>2 DEF Listed
    <2> QED
      BY <2>1, <2>4, <2>5 DEF Good
  <1> QED
    BY <1>1, <1>2 DEF Follows

LEMMA NextFollows ==
  ASSUME Typed, Rooted, Shaped, Follows, [Next]_vars
  PROVE  Follows'
  <1>1. ASSUME NEW a \in Actor, Fails(a)
        PROVE  Follows'
    BY <1>1 DEF Fails, Fault, Follows
  <1>2. CASE UNCHANGED vars
    BY <1>2 DEF vars, configVars, localVars, history, Follows, Working, Stage, Good, Paired, Served,
                Listed, Configured
  <1> QED
    BY <1>1, <1>2, BeginsFollow, StepFollows, RestartFollows DEF Next

\* Pair, Unpair, the watcher's accepts and starts, one after the other, leave the
\* daemon with the devices of the registry and the folders recorded for each: what
\* each of them reads, edits and puts back keeps what it does not touch.
THEOREM DaemonFollows == Spec => []DaemonFollowsRegistry
  <1> DEFINE IInv == Typed /\ Rooted /\ Shaped /\ Follows
  <1>1. Init => IInv
    <2> SUFFICES ASSUME Init PROVE Rooted /\ Shaped /\ Follows
      BY InitTyped
    <2>1. Rooted
      BY DEF Init, Rooted, Paired, NoRow
    <2>2. Shaped
      BY DEF Init, Shaped
    <2>3. \A a \in Actor : ~Working(a)
      BY DEF Init, Working
    <2>4. \A p \in Peer : Good(p)
      BY DEF Init, Good, Paired, Listed, Configured
    <2> QED
      BY <2>1, <2>2, <2>3, <2>4 DEF Follows
  <1>2. IInv /\ [Next]_vars => IInv'
    BY NextTyped, NextRooted, NextShaped, NextFollows
  <1>3. IInv => DaemonFollowsRegistry
    <2> SUFFICES ASSUME IInv, ~disturbed, \A a \in Actor : ~Busy(a)
                 PROVE  /\ devs = {p \in Peer : Paired(p)}
                        /\ \A p \in devs : \A s \in registry[p].folders : Configured(s) /\ p \in shares[s]
                        /\ \A s \in Source : Configured(s) => shares[s] \subseteq devs
      BY DEF DaemonFollowsRegistry
    <2>1. \A a \in Actor : ~Working(a)
      BY DEF Busy, Shaped, Working
    <2>2. \A p \in Peer : Good(p)
      BY <2>1 DEF Follows
    <2>3. devs \subseteq Peer /\ \A s \in Source : Configured(s) => shares[s] \subseteq Peer
      BY DEF Typed, SharedTyped, Shares, Configured
    <2> QED
      BY <2>2, <2>3 DEF Good, Served, Listed
  <1> QED
    BY <1>1, <1>2, <1>3, PTL DEF Spec
=============================================================================
