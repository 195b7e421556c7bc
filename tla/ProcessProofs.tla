---------------------------- MODULE ProcessProofs ----------------------------
(***************************************************************************)
(* Proofs about four parts of the server's process: the log of its runs,   *)
(* for any number of requests, commands, kills and ticks; the daemon it    *)
(* supervises, for any number of exits and failed launches; the watcher of *)
(* that daemon's events, for any folders, versions and restarts; and the   *)
(* window of the desktop build, for any number of connections and jobs.    *)
(***************************************************************************)
EXTENDS RunLog, Watcher, Shell, TLAPS, WellFoundedInduction

\* THE LOG OF RUNS

Row == [beat : Nat, finished : BOOLEAN]

Typed ==
  /\ now \in Nat
  /\ log \in Seq(Row)
  /\ job \in [Started -> {"new", "asked", "refused", "begin", "running", "ended"}]
  /\ rowOf \in [Started -> 0 .. Len(log)]

\* A run has no row before it begins, and no two have the same.
Apart ==
  /\ \A j \in Started : job[j] \in {"new", "asked", "begin"} => rowOf[j] = 0
  /\ \A j, k \in Started : rowOf[j] = rowOf[k] /\ j # k => rowOf[j] = 0

\* The row of a run that lives is in flight: nobody else finishes it.
InFlight == \A j \in Started : Lives(j) => ~log[rowOf[j]].finished

IInv == Typed /\ Apart /\ InFlight

\* The newest of some rows is one of them.
LEMMA Newest ==
  ASSUME NEW n \in Nat, NEW S \in SUBSET (1 .. n), S # {}
  PROVE  Newest1(S) \in S /\ \A k \in S : k <= Newest1(S)
<1> DEFINE Away == {n - i : i \in S}
<1>1. Away \subseteq Nat
  OBVIOUS
<1>2. Away # {}
  <2>1. PICK i \in S : TRUE
    OBVIOUS
  <2>2. n - i \in Away
    BY <2>1
  <2> QED
    BY <2>2
<1>3. PICK a \in Away : \A b \in Away : ~(<<b, a>> \in OpToRel(<, Nat))
  BY <1>1, <1>2, NatLessThanWellFounded, WFMin
<1>4. PICK i \in S : a = n - i
  OBVIOUS
<1>5. \A k \in S : k <= i
  <2> SUFFICES ASSUME NEW k \in S PROVE k <= i
    OBVIOUS
  <2>1. n - k \in Away /\ a \in Nat /\ n - k \in Nat
    BY <1>1
  <2>2. ~(n - k < a)
    BY <2>1, <1>3 DEF OpToRel
  <2> QED
    BY <2>2, <1>4
<1> QED
  BY <1>5 DEF Newest1

LEMMA Kept ==
  ASSUME IInv, [RunLogNext]_runLogVars
  PROVE  IInv'
<1> USE DEF IInv, Typed, Apart, InFlight, Lives
<1>1. ASSUME NEW j \in Started, Ask(j) PROVE IInv'
  BY <1>1 DEF Ask
<1>2. ASSUME NEW j \in Started, Claim(j) PROVE IInv'
  BY <1>2 DEF Claim
<1>3. ASSUME NEW j \in Started, Invoke(j) PROVE IInv'
  BY <1>3 DEF Invoke
<1>4. ASSUME NEW j \in Started, BeginRun(j) PROVE IInv'
  <2>1. CASE UNCHANGED <<log, rowOf>>
    BY <1>4, <2>1 DEF BeginRun
  <2>2. CASE /\ log' = Append(log, [beat |-> now, finished |-> FALSE])
             /\ rowOf' = [rowOf EXCEPT ![j] = Len(log) + 1]
    <3>1. Typed'
      BY <1>4, <2>2 DEF BeginRun, Row
    <3>2. Apart'
      BY <1>4, <2>2 DEF BeginRun
    <3>3. InFlight'
      BY <1>4, <2>2 DEF BeginRun
    <3> QED
      BY <3>1, <3>2, <3>3
  <2> QED
    BY <1>4, <2>1, <2>2 DEF BeginRun
<1>5. ASSUME NEW j \in Started, Beat(j) PROVE IInv'
  <2>1. log[rowOf[j]] \in Row
    BY <1>5 DEF Beat
  <2> QED
    BY <1>5, <2>1 DEF Beat, Row
<1>6. ASSUME NEW j \in Started, FinishRun(j) PROVE IInv'
  <2>1. Typed'
    <3>1. [beat |-> now, finished |-> TRUE] \in Row
      BY DEF Row
    <3>2. log' \in Seq(Row) /\ Len(log') = Len(log)
      BY <1>6, <3>1 DEF FinishRun
    <3> QED
      BY <1>6, <3>2 DEF FinishRun
  <2>2. Apart' /\ InFlight'
    BY <1>6 DEF FinishRun
  <2> QED
    BY <2>1, <2>2
<1>7. CASE Kill
  BY <1>7 DEF Kill
<1>8. CASE Tick
  BY <1>8 DEF Tick
<1>9. CASE UNCHANGED runLogVars
  BY <1>9 DEF runLogVars
<1> QED
  BY <1>1, <1>2, <1>3, <1>4, <1>5, <1>6, <1>7, <1>8, <1>9 DEF RunLogNext

LEMMA Seen ==
  ASSUME IInv
  PROVE  LiveRunSeen
<1> USE RunLogAssumption
<1> SUFFICES ASSUME NEW j \in Started, Lives(j), Fresh(rowOf[j]),
                    \A i \in Rows(FALSE) : i > rowOf[j] =>
                       \E k \in Started : Lives(k) /\ rowOf[k] = i /\ Fresh(i)
             PROVE  Busy
  BY DEF LiveRunSeen
<1>1. rowOf[j] \in Rows(FALSE) /\ Rows(FALSE) \in SUBSET (1 .. Len(log)) /\ Len(log) \in Nat
  BY DEF IInv, Typed, InFlight, Lives, Rows, Row
<1>2. /\ Latest \in Rows(FALSE)
      /\ Latest \in Nat /\ rowOf[j] \in Nat /\ rowOf[j] <= Latest
  <2>1. Latest = Newest1(Rows(FALSE))
    BY <1>1 DEF Latest
  <2>2. Latest \in Rows(FALSE) /\ \A k \in Rows(FALSE) : k <= Latest
    BY <1>1, <2>1, Newest
  <2>3. Latest \in 1 .. Len(log) /\ rowOf[j] \in 1 .. Len(log)
    BY <1>1, <2>2, Zenon
  <2>4. Latest \in Nat /\ rowOf[j] \in Nat
    <3>1. Len(log) \in Nat
      BY <1>1
    <3> QED
      BY <2>3, <3>1
  <2> QED
    BY <1>1, <2>2, <2>4, Zenon
<1>3. Fresh(Latest)
  <2>1. CASE Latest = rowOf[j]
    BY <2>1
  <2>2. CASE Latest > rowOf[j]
    BY <2>2, <1>2
  <2> QED
    BY <2>1, <2>2, <1>2
<1> QED
  BY <1>1, <1>2, <1>3 DEF Busy, Rows, IInv, Typed, Row

\* The guard of a request sees a run that lives, in whichever process, whatever
\* finished after it: a row is finished by its own run alone, so the newest row in
\* flight is never older than the run's.  (LatestFactRun and its like in store.)
THEOREM LiveSeen == RunLogSpec => []LiveRunSeen
<1>1. RunLogInit => IInv
  BY DEF RunLogInit, IInv, Typed, Apart, InFlight, Lives
<1>2. IInv /\ [RunLogNext]_runLogVars => IInv'
  BY Kept
<1>3. IInv => LiveRunSeen
  BY Seen
<1> QED
  BY <1>1, <1>2, <1>3, PTL DEF RunLogSpec

----------------------------------------------------------------------------

\* THE DAEMON

\* Between two children, and before the first, none is left to run: the loop that
\* waits to relaunch one may be the last to see that the server quits.
NoneBetween ==
  /\ child \in {"none", "booting", "up", "hung", "exited"}
  /\ sup \in {"new", "waiting", "aborting", "watching", "backoff", "terminating", "drained", "failed"}
  /\ sup \in {"new", "backoff", "drained", "failed"} => child \notin {"booting", "up", "hung"}

LEMMA NoneBetweenKept ==
  ASSUME NoneBetween, [SupervisorNext]_supervisorVars
  PROVE  NoneBetween'
<1> USE DEF NoneBetween
<1>1. CASE Launch
  BY <1>1 DEF Launch, Spawn, Unlucky
<1>2. CASE Ready \/ NotReady
  BY <1>2 DEF Ready, NotReady
<1>3. CASE Cancelled
  BY <1>3 DEF Cancelled
<1>4. CASE Noticed
  BY <1>4 DEF Noticed
<1>5. CASE Relaunch
  BY <1>5 DEF Relaunch, Spawn, Unlucky
<1>6. CASE Terminate
  BY <1>6 DEF Terminate
<1>7. CASE Quit
  BY <1>7 DEF Quit
<1>8. CASE Answer \/ Exit \/ Hang
  BY <1>8 DEF Answer, Exit, Hang, Running
<1>9. CASE UNCHANGED supervisorVars
  BY <1>9 DEF supervisorVars
<1> QED
  BY <1>1, <1>2, <1>3, <1>4, <1>5, <1>6, <1>7, <1>8, <1>9 DEF SupervisorNext, SupervisorStep

\* No daemon outlives a Start that failed or a Wait that returned, whenever it
\* exits, hangs or answers and whenever the server quits.  (supervisor.go.)
THEOREM NoDaemonLeft == SupervisorSpec => []NoOrphan
<1>1. SupervisorInit => NoneBetween
  BY DEF SupervisorInit, NoneBetween
<1>2. NoneBetween /\ [SupervisorNext]_supervisorVars => NoneBetween'
  BY NoneBetweenKept
<1>3. NoneBetween => NoOrphan
  BY DEF NoneBetween, NoOrphan, Ended, Running
<1> QED
  BY <1>1, <1>2, <1>3, PTL DEF SupervisorSpec

-----------------------------------------------------------------------------

\* THE WATCHER

WatcherTyped ==
  /\ files \in [Source -> 0 .. MaxVersion]
  /\ stored \in [Source -> 0 .. Mixed]
  /\ slot \in [Source -> 0 .. MaxVersion \union {Free, Queued}]
  /\ due \in [Source -> {"none", "armed", "elapsed"}]
  /\ stream \in Seq(Source) /\ batch \in Seq(Source) /\ channel \in Seq(Source)
  /\ since \in Nat
  /\ pump \in {"call", "polling", "failed", "sending", "stopped"}

\* A poll is held open by a daemon that is there, a batch is there to be sent, and
\* the daemon is terminated only when the server quits or before anybody polls.
PumpKnows ==
  /\ pump = "polling" => Watching /\ (child = "up" \/ quit)
  /\ pump \in {"call", "polling", "failed"} => batch = <<>>
  /\ sup = "terminating" => quit
  /\ pump = "stopped" => quit
  /\ NoneBetween

\* The cursor and the batch are of the daemon that is up, unless it overtook the
\* pump, which is recorded.
Aligned ==
  \/ quit \/ child # "up" \/ pump = "failed" \/ Source \subseteq forgotten
  \/ /\ since + Len(batch) <= Len(stream)
     /\ \A i \in 1 .. Len(batch) : batch[i] = stream[since + i]

\* An import has read what was there when it began, and the store has nothing newer.
JobsRead ==
  \A s \in Source :
    /\ slot[s] \notin {Free, Queued} => slot[s] <= files[s]
    /\ \/ stored[s] = Mixed
       \/ stored[s] <= files[s] /\ (slot[s] \notin {Free, Queued} => stored[s] <= slot[s])

DeltaInv == WatcherTyped /\ PumpKnows /\ Aligned /\ JobsRead /\ NoDeltaForgotten

\* The last event the pump has taken notice of, or will have when it polls again.
Cursor == IF pump = "failed" THEN 0 ELSE since

\* What a queue has after its first c entries.
LEMMA HasAfter ==
  ASSUME NEW q \in Seq(Source), NEW c \in Nat, NEW s \in Source
  PROVE  Has(SubSeq(q, c + 1, Len(q)), s) <=> \E i \in 1 .. Len(q) : i > c /\ q[i] = s
<1> DEFINE n == Len(q)
           r == SubSeq(q, c + 1, n)
<1>1. CASE c < n
  <2>1. Len(r) = n - c /\ \A i \in 1 .. n - c : r[i] = q[c + i]
    BY <1>1
  <2>2. ASSUME NEW i \in 1 .. n, i > c, q[i] = s
        PROVE  \E k \in 1 .. Len(r) : r[k] = s
    <3>1. i - c \in 1 .. Len(r) /\ r[i - c] = q[i]
      BY <2>1, <2>2
    <3> QED
      BY <2>2, <3>1
  <2>3. ASSUME NEW k \in 1 .. Len(r), r[k] = s
        PROVE  \E i \in 1 .. n : i > c /\ q[i] = s
    <3>1. c + k \in 1 .. n /\ c + k > c /\ q[c + k] = s
      BY <2>1, <2>3
    <3> QED
      BY <3>1
  <2> QED
    BY <2>2, <2>3 DEF Has
<1>2. CASE c >= n
  BY <1>2 DEF Has
<1> QED
  BY <1>1, <1>2

\* A queue that is read from its head keeps all but the head.
LEMMA HasTail ==
  ASSUME NEW q \in Seq(Source), q # <<>>, NEW s \in Source, Has(q, s)
  PROVE  s = Head(q) \/ Has(Tail(q), s)
<1>1. PICK i \in 1 .. Len(q) : q[i] = s
  BY DEF Has
<1>2. CASE i = 1
  BY <1>1, <1>2
<1>3. CASE i # 1
  <2>1. i - 1 \in 1 .. Len(Tail(q)) /\ Tail(q)[i - 1] = q[i]
    BY <1>1, <1>3
  <2> QED
    BY <1>1, <2>1 DEF Has
<1> QED
  BY <1>2, <1>3

\* A queue that grows loses nothing.
LEMMA HasAppend ==
  ASSUME NEW q \in Seq(Source), NEW s \in Source, NEW t \in Source, Has(q, s) \/ s = t
  PROVE  Has(Append(q, t), s)
<1>1. /\ Len(Append(q, t)) = Len(q) + 1 /\ Append(q, t)[Len(q) + 1] = t
      /\ \A i \in 1 .. Len(q) : Append(q, t)[i] = q[i]
  OBVIOUS
<1>2. CASE s = t
  BY <1>1, <1>2 DEF Has
<1>3. CASE Has(q, s)
  <2>1. PICK i \in 1 .. Len(q) : q[i] = s
    BY <1>3 DEF Has
  <2> QED
    BY <1>1, <2>1 DEF Has
<1> QED
  BY <1>2, <1>3

-----------------------------------------------------------------------------
\* What is unread is what comes after the cursor.
LEMMA UnreadAfter ==
  ASSUME WatcherTyped, NEW s \in Source
  PROVE  Has(Unread, s) <=> \E i \in 1 .. Len(stream) : i > Cursor /\ stream[i] = s
<1>1. stream \in Seq(Source) /\ Cursor \in Nat /\ Unread = SubSeq(stream, Cursor + 1, Len(stream))
  BY DEF Cursor, Unread, WatcherTyped
<1> QED
  BY <1>1, HasAfter

LEMMA UnreadAfterNext ==
  ASSUME WatcherTyped', NEW s \in Source
  PROVE  Has(Unread, s)' <=> \E i \in 1 .. Len(stream') : i > Cursor' /\ stream'[i] = s
<1>1. stream' \in Seq(Source) /\ Cursor' \in Nat /\ Unread' = SubSeq(stream', Cursor' + 1, Len(stream'))
  BY DEF Cursor, Unread, WatcherTyped
<1>2. Has(Unread, s)' <=> Has(Unread', s)
  BY DEF Has
<1> QED
  BY <1>1, <1>2, HasAfter

-----------------------------------------------------------------------------
\* The watcher's invariant, and its parts in every step.
LEMMA InitDelta == WatcherInit => DeltaInv
<1> SUFFICES ASSUME WatcherInit PROVE DeltaInv
  OBVIOUS
<1>1. WatcherTyped
  BY WatcherAssumption DEF WatcherInit, WatcherStart, SupervisorInit, WatcherTyped, Mixed
<1>2. PumpKnows /\ Aligned /\ JobsRead /\ NoDeltaForgotten
  BY DEF WatcherInit, WatcherStart, SupervisorInit, PumpKnows, NoneBetween, Aligned, JobsRead, NoDeltaForgotten
<1> QED
  BY <1>1, <1>2 DEF DeltaInv

\* The steps, by what they touch.
ChildStep == Supervise \/ (Quit /\ Calm) \/ (Hang /\ Calm)
PumpStep  == Pump \/ PollFails
OfSource(s) == Transfer(s) \/ Emit(s) \/ Elapse(s) \/ Dispatcher(s) \/ OtherJob(s) \/ Runs(s) \/ JobFails(s)

LEMMA NextTyped == WatcherTyped /\ [WatcherNext]_watcherVars => WatcherTyped'
<1> SUFFICES ASSUME WatcherTyped, [WatcherNext]_watcherVars PROVE WatcherTyped'
  OBVIOUS
<1> USE DEF WatcherTyped
<1>1. CASE UNCHANGED watcherVars
  BY <1>1 DEF watcherVars, supervisorVars, daemonVars, pumpVars, importVars
<1>2. CASE ChildStep
  BY <1>2 DEF ChildStep, Supervise, SupervisorStep, Launch, Spawn, Unlucky, Ready, NotReady, Cancelled, Noticed,
     Relaunch, Terminate, Quit, Hang, Calm, daemonVars, pumpVars, importVars
<1>3. CASE DaemonUp \/ DaemonExits
  <2>1. <<>> \in Seq(Source)
    OBVIOUS
  <2>2. CASE DaemonUp
    BY <2>1, <2>2 DEF DaemonUp, pumpVars, importVars
  <2>3. CASE DaemonExits
    BY <2>3 DEF DaemonExits, daemonVars, importVars
  <2> QED
    BY <1>3, <2>2, <2>3
<1>4. CASE PumpStep
  <2>1. /\ UNCHANGED <<supervisorVars, daemonVars, due, importVars>>
        /\ pump' \in {"call", "polling", "failed", "sending", "stopped"}
    BY <1>4 DEF PumpStep, Pump, Call, Events, Backoff, Send, PumpStops, PollFails
  <2>2. batch' \in Seq(Source) /\ channel' \in Seq(Source) /\ since' \in Nat
    <3>1. CASE Events
      BY <3>1 DEF Events
    <3>2. CASE Send
      <4>1. CASE batch = <<>>
        BY <3>2, <4>1 DEF Send
      <4>2. CASE batch # <<>>
        <5>1. Head(batch) \in Source /\ Tail(batch) \in Seq(Source)
          BY <4>2
        <5>2. channel' = Append(channel, Head(batch)) /\ batch' = Tail(batch) /\ since' = since + 1
          BY <3>2, <4>2 DEF Send
        <5> QED
          BY <5>1, <5>2
      <4> QED
        BY <4>1, <4>2
    <3>3. CASE Call \/ Backoff \/ PumpStops \/ PollFails
      BY <3>3 DEF Call, Backoff, PumpStops, PollFails
    <3> QED
      BY <1>4, <3>1, <3>2, <3>3 DEF PumpStep, Pump
  <2> QED
    BY <2>1, <2>2 DEF supervisorVars, daemonVars, importVars
<1>5. CASE Receive \/ Fire
  <2>1. CASE Receive
    <3>1. Head(channel) \in Source /\ Tail(channel) \in Seq(Source)
      BY <2>1 DEF Receive
    <3> QED
      BY <2>1, <3>1 DEF Receive, daemonVars, pumpVars, importVars
  <2>2. CASE Fire
    BY <2>2 DEF Fire, daemonVars, pumpVars, importVars
  <2> QED
    BY <1>5, <2>1, <2>2
<1>6. ASSUME NEW s \in Source, OfSource(s)
      PROVE  WatcherTyped'
  <2>1. CASE Transfer(s)
    BY <2>1, WatcherAssumption DEF Transfer, supervisorVars, pumpVars, importVars
  <2>2. CASE Emit(s)
    BY <2>2 DEF Emit, supervisorVars, pumpVars, importVars
  <2>3. CASE Elapse(s) \/ Dispatcher(s)
    BY <2>3 DEF Elapse, Dispatcher, TryImport, StartImport, Turns, supervisorVars, daemonVars, pumpVars, importVars
  <2>4. CASE OtherJob(s) \/ JobBegins(s) \/ JobEnds(s) \/ JobFails(s)
    <3>1. UNCHANGED <<files, due, stream, batch, channel, since, pump>>
      BY <2>4 DEF OtherJob, JobBegins, JobEnds, JobFails, daemonVars, pumpVars
    <3>2. files[s] \in 0 .. MaxVersion /\ files[s] \in 0 .. Mixed /\ Mixed \in 0 .. Mixed
      BY WatcherAssumption DEF Mixed
    <3>3. slot' \in [Source -> 0 .. MaxVersion \union {Free, Queued}]
      BY <2>4, <3>2 DEF OtherJob, JobBegins, JobEnds, JobFails
    <3>4. stored' \in [Source -> 0 .. Mixed]
      BY <2>4, <3>2 DEF OtherJob, JobBegins, JobEnds, JobFails
    <3> QED
      BY <3>1, <3>3, <3>4
  <2> QED
    BY <1>6, <2>1, <2>2, <2>3, <2>4 DEF OfSource, Runs
<1> QED
  BY <1>1, <1>2, <1>3, <1>4, <1>5, <1>6 DEF WatcherNext, ChildStep, PumpStep, OfSource

LEMMA NextPumpKnows == WatcherTyped /\ PumpKnows /\ [WatcherNext]_watcherVars => PumpKnows'
<1> SUFFICES ASSUME WatcherTyped, PumpKnows, [WatcherNext]_watcherVars PROVE PumpKnows'
  OBVIOUS
<1>a. NoneBetween'
  <2>1. [SupervisorNext]_supervisorVars
    BY DEF WatcherNext, watcherVars, Supervise, DaemonUp, DaemonExits, Pump, Call, Events, Backoff, Send, PumpStops,
       PollFails, Receive, Fire, Transfer, Emit, Elapse, Dispatcher, TryImport, StartImport, OtherJob, Runs, JobBegins,
       JobEnds, JobFails, SupervisorNext
  <2> QED
    BY <2>1, NoneBetweenKept DEF PumpKnows
<1> DEFINE Knows == /\ pump = "polling" => Watching /\ (child = "up" \/ quit)
                    /\ pump \in {"call", "polling", "failed"} => batch = <<>>
                    /\ sup = "terminating" => quit
                    /\ pump = "stopped" => quit
<1> SUFFICES Knows'
  BY <1>a DEF PumpKnows
<1> USE DEF PumpKnows, Watching
<1>1. CASE UNCHANGED <<supervisorVars, pump, batch>>
  BY <1>1 DEF supervisorVars
<1>2. CASE ChildStep
  <2>1. UNCHANGED pumpVars
    BY <1>2 DEF ChildStep, Supervise, Calm
  <2>2. CASE Launch \/ Ready \/ NotReady \/ Cancelled
    BY <2>1, <2>2 DEF Launch, Spawn, Ready, NotReady, Cancelled, pumpVars
  <2>3. CASE Noticed \/ Relaunch
    BY <2>1, <2>3 DEF Noticed, Relaunch, Spawn, pumpVars, NoneBetween
  <2>4. CASE Terminate \/ Quit \/ Hang
    BY <2>1, <2>4 DEF Terminate, Quit, Hang, pumpVars
  <2> QED
    BY <1>2, <2>2, <2>3, <2>4 DEF ChildStep, Supervise, SupervisorStep
<1>3. CASE DaemonUp \/ DaemonExits
  BY <1>3 DEF DaemonUp, DaemonExits, Answer, Exit, pumpVars
<1>4. CASE PumpStep
  BY <1>4 DEF PumpStep, Pump, Call, Events, Backoff, Send, PumpStops, PollFails, supervisorVars
<1>5. CASE Receive \/ Fire \/ \E s \in Source : OfSource(s)
  BY <1>1, <1>5 DEF Receive, Fire, OfSource, Transfer, Emit, Elapse, Dispatcher, TryImport, StartImport, OtherJob,
     Runs, JobBegins, JobEnds, JobFails, pumpVars
<1> QED
  BY <1>1, <1>2, <1>3, <1>4, <1>5 DEF WatcherNext, ChildStep, PumpStep, OfSource, watcherVars, pumpVars

LEMMA NextAligned == WatcherTyped /\ PumpKnows /\ Aligned /\ [WatcherNext]_watcherVars => Aligned'
<1> SUFFICES ASSUME WatcherTyped, PumpKnows, Aligned, [WatcherNext]_watcherVars PROVE Aligned'
  OBVIOUS
<1>1. CASE UNCHANGED <<supervisorVars, pumpVars, stream>> /\ forgotten \subseteq forgotten'
  BY <1>1 DEF Aligned, supervisorVars, pumpVars
<1>2. CASE ChildStep
  BY <1>2 DEF Aligned, ChildStep, Supervise, SupervisorStep, Launch, Spawn, Ready, NotReady, Cancelled, Noticed,
     Relaunch, Terminate, Quit, Hang, Calm, daemonVars, pumpVars
<1>3. CASE DaemonUp
  <2>1. child = "booting" /\ stream' = <<>> /\ UNCHANGED <<pumpVars, quit>>
    BY <1>3 DEF DaemonUp, Answer
  <2>2. pump = "polling" \/ pump = "stopped" => quit
    BY <2>1 DEF PumpKnows
  <2>3. CASE pump \in {"call", "sending"} /\ since + Len(batch) > 0
    BY <1>3, <2>3 DEF DaemonUp, Aligned
  <2>4. CASE since + Len(batch) = 0
    BY <2>1, <2>4 DEF WatcherTyped, Aligned, pumpVars
  <2> QED
    BY <2>1, <2>2, <2>3, <2>4 DEF Aligned, pumpVars, WatcherTyped
<1>4. CASE DaemonExits
  BY <1>4 DEF DaemonExits, Exit, Aligned
<1>5. CASE Events
  <2>1. /\ batch' = SubSeq(stream, since + 1, Len(stream)) /\ Len(stream) > since
        /\ UNCHANGED <<supervisorVars, stream, since, forgotten>>
    BY <1>5 DEF Events, daemonVars
  <2>2. since' + Len(batch') <= Len(stream') /\ \A i \in 1 .. Len(batch') : batch'[i] = stream'[since' + i]
    BY <2>1 DEF WatcherTyped
  <2> QED
    BY <2>2 DEF Aligned
<1>6. CASE Backoff
  BY <1>6 DEF Backoff, PumpKnows, WatcherTyped, Aligned, daemonVars
<1>7. CASE Send
  <2>1. CASE batch = <<>>
    BY <1>7, <2>1 DEF Send, Aligned, supervisorVars, daemonVars
  <2>2. CASE batch # <<>>
    <3>1. /\ batch' = Tail(batch) /\ since' = since + 1
          /\ UNCHANGED <<pump, supervisorVars, stream, forgotten>>
      BY <1>7, <2>2 DEF Send, daemonVars
    <3>a. /\ Len(batch') = Len(batch) - 1 /\ \A i \in 1 .. Len(batch') : batch'[i] = batch[i + 1]
          /\ Len(batch) \in Nat /\ since \in Nat /\ Len(stream) \in Nat
      BY <2>2, <3>1 DEF WatcherTyped
    <3>2. ASSUME since + Len(batch) <= Len(stream), \A i \in 1 .. Len(batch) : batch[i] = stream[since + i]
          PROVE  /\ since' + Len(batch') <= Len(stream')
                 /\ \A i \in 1 .. Len(batch') : batch'[i] = stream'[since' + i]
      <4>a. since' = since + 1 /\ stream' = stream
        BY <3>1
      <4>b. Len(batch') = Len(batch) - 1
        BY <3>a
      <4>1. since' + Len(batch') <= Len(stream')
        BY <4>a, <4>b, <3>a, <3>2
      <4>2. ASSUME NEW i \in 1 .. Len(batch')
            PROVE  batch'[i] = stream'[since' + i]
        <5>1. i + 1 \in 1 .. Len(batch) /\ since + (i + 1) = since' + i
          BY <3>1, <3>a
        <5>2. batch'[i] = batch[i + 1] /\ batch[i + 1] = stream[since + (i + 1)]
          BY <3>a, <3>2, <5>1
        <5> QED
          BY <3>1, <5>1, <5>2
      <4> QED
        BY <4>1, <4>2
    <3> QED
      BY <3>1, <3>2 DEF Aligned, supervisorVars
  <2> QED
    BY <2>1, <2>2
<1>8. CASE Call \/ PollFails \/ PumpStops
  BY <1>8 DEF Call, PollFails, PumpStops, Aligned, supervisorVars, daemonVars
<1>9. ASSUME NEW s \in Source, Emit(s)
      PROVE  Aligned'
  <2>1. /\ Len(stream') = Len(stream) + 1 /\ \A i \in 1 .. Len(stream) : stream'[i] = stream[i]
        /\ UNCHANGED <<supervisorVars, pumpVars, forgotten>>
    BY <1>9 DEF Emit, WatcherTyped
  <2>2. ASSUME since + Len(batch) <= Len(stream), \A i \in 1 .. Len(batch) : batch[i] = stream[since + i]
        PROVE  /\ since' + Len(batch') <= Len(stream')
               /\ \A i \in 1 .. Len(batch') : batch'[i] = stream'[since' + i]
    <3>1. since \in Nat /\ Len(batch) \in Nat /\ Len(stream) \in Nat /\ UNCHANGED <<since, batch>>
      BY <2>1 DEF WatcherTyped, pumpVars
    <3>2. \A i \in 1 .. Len(batch) : since + i \in 1 .. Len(stream)
      BY <2>2, <3>1
    <3> QED
      BY <2>1, <2>2, <3>1, <3>2
  <2> QED
    BY <2>1, <2>2 DEF Aligned, supervisorVars, pumpVars
<1>10. CASE \/ Receive \/ Fire
            \/ \E s \in Source : Transfer(s) \/ Elapse(s) \/ Dispatcher(s) \/ OtherJob(s) \/ Runs(s) \/ JobFails(s)
  <2>1. UNCHANGED <<supervisorVars, pumpVars, stream>> /\ forgotten \subseteq forgotten'
    BY <1>10 DEF Receive, Fire, Transfer, Elapse, Dispatcher, TryImport, StartImport, OtherJob, Runs, JobBegins,
       JobEnds, JobFails, daemonVars
  <2> QED
    BY <1>1, <2>1
<1> QED
  BY <1>1, <1>2, <1>3, <1>4, <1>5, <1>6, <1>7, <1>8, <1>9, <1>10
     DEF WatcherNext, ChildStep, Pump, watcherVars, daemonVars

LEMMA NextJobsRead == WatcherTyped /\ JobsRead /\ [WatcherNext]_watcherVars => JobsRead'
<1> SUFFICES ASSUME WatcherTyped, JobsRead, [WatcherNext]_watcherVars PROVE JobsRead'
  OBVIOUS
<1>1. CASE UNCHANGED <<files, importVars>>
  BY <1>1 DEF JobsRead, importVars
<1>2. ASSUME NEW s \in Source, Transfer(s) PROVE JobsRead'
  BY <1>2, WatcherAssumption DEF Transfer, JobsRead, WatcherTyped, Free, Queued, Mixed, importVars
<1>3. ASSUME NEW s \in Source, Dispatcher(s) \/ OtherJob(s) \/ JobFails(s) PROVE JobsRead'
  BY <1>3 DEF Dispatcher, TryImport, StartImport, OtherJob, JobFails, JobsRead, WatcherTyped, daemonVars, importVars
<1>4. ASSUME NEW s \in Source, JobBegins(s) PROVE JobsRead'
  BY <1>4 DEF JobBegins, JobsRead, WatcherTyped, daemonVars
<1>5. ASSUME NEW s \in Source, JobEnds(s) PROVE JobsRead'
  BY <1>5 DEF JobEnds, JobsRead, WatcherTyped, daemonVars
<1>6. CASE \/ ChildStep \/ DaemonUp \/ DaemonExits \/ PumpStep \/ Receive \/ Fire
           \/ \E s \in Source : Emit(s) \/ Elapse(s)
  BY <1>1, <1>6 DEF ChildStep, Supervise, Calm, DaemonUp, DaemonExits, PumpStep, Pump, Call, Events, Backoff, Send,
     PumpStops, PollFails, Receive, Fire, Emit, Elapse, daemonVars
<1> QED
  BY <1>1, <1>2, <1>3, <1>4, <1>5, <1>6 DEF WatcherNext, ChildStep, PumpStep, Runs, watcherVars, daemonVars

\* What is pending, but for events on their way.
Otherwise(s) ==
  \/ s \in unsaid \/ due[s] # "none" \/ \E step \in {"ask", "start"} : <<s, step>> \in dispatch
  \/ slot[s] = Queued \/ slot[s] = files[s]

OnTheWay(s) == Has(Unread, s) \/ Has(batch, s) \/ Has(channel, s)

\* An event on its way arrives, or stays on its way.
LEMMA EventsStay ==
  ASSUME DeltaInv, WatcherTyped', [WatcherNext]_watcherVars, NEW s \in Source, OnTheWay(s),
         child = "up", ~quit', s \notin forgotten'
  PROVE  OnTheWay(s)' \/ due'[s] # "none"
<1>a. WatcherTyped /\ PumpKnows /\ Aligned
  BY DEF DeltaInv
<1>b. Has(Unread, s) => \E i \in 1 .. Len(stream) : i > Cursor /\ stream[i] = s
  BY <1>a, UnreadAfter
<1>c. (\E i \in 1 .. Len(stream') : i > Cursor' /\ stream'[i] = s) => Has(Unread, s)'
  BY UnreadAfterNext
<1>1. CASE UNCHANGED <<stream, pump, since, batch, channel>>
  BY <1>1, <1>b, <1>c DEF OnTheWay, Has, Cursor
<1>2. CASE DaemonExits
  <2>1. UNCHANGED <<stream, since, batch, channel>> /\ Cursor' <= Cursor
    BY <1>2, <1>a DEF DaemonExits, Cursor, daemonVars, WatcherTyped
  <2>2. Cursor \in Nat /\ Cursor' \in Nat
    BY <1>a DEF Cursor, WatcherTyped
  <2> QED
    BY <2>1, <2>2, <1>b, <1>c DEF OnTheWay, Has
<1>3. CASE Events
  <2>1. (batch = <<>> /\ Has(Unread, s)') \/ Has(channel, s)
    <3>1. Cursor' = Cursor /\ UNCHANGED <<stream, channel>> /\ batch = <<>>
      BY <1>3, <1>a DEF Events, Cursor, daemonVars, PumpKnows
    <3>2. ~Has(batch, s)
      BY <3>1 DEF Has
    <3> QED
      BY <3>1, <3>2, <1>b, <1>c DEF OnTheWay
  <2>2. UNCHANGED channel
    BY <1>3 DEF Events
  <2> QED
    BY <2>1, <2>2 DEF OnTheWay, Has
<1>4. CASE Call \/ Backoff \/ PollFails \/ PumpStops
  <2>1. UNCHANGED <<stream, batch, channel>>
    BY <1>4 DEF Call, Backoff, PollFails, PumpStops, daemonVars
  <2>2. Cursor \in Nat /\ Cursor' \in Nat
    BY <1>a DEF Cursor, WatcherTyped
  <2>3. Cursor' <= Cursor
    BY <2>2, <1>4, <1>a DEF Call, Backoff, PollFails, PumpStops, Cursor, WatcherTyped, supervisorVars
  <2> QED
    BY <2>1, <2>2, <2>3, <1>b, <1>c DEF OnTheWay, Has
<1>5. CASE Send
  <2>1. CASE batch = <<>>
    BY <1>5, <2>1, <1>b, <1>c DEF Send, OnTheWay, Has, Cursor, daemonVars
  <2>2. CASE batch # <<>>
    <3>1. /\ channel' = Append(channel, Head(batch)) /\ batch' = Tail(batch) /\ since' = since + 1
          /\ pump = "sending" /\ UNCHANGED <<pump, stream, supervisorVars, forgotten>>
      BY <1>5, <2>2 DEF Send, daemonVars
    <3>2. Head(batch) \in Source /\ channel \in Seq(Source) /\ batch \in Seq(Source)
      BY <1>a, <2>2 DEF WatcherTyped
    <3>3. CASE Has(channel, s)
      BY <3>1, <3>2, <3>3, HasAppend DEF OnTheWay, Has
    <3>4. CASE Has(batch, s)
      <4>1. s = Head(batch) \/ Has(Tail(batch), s)
        BY <2>2, <3>2, <3>4, HasTail
      <4>2. CASE s = Head(batch)
        <5>1. Has(channel', s)
          BY <3>1, <3>2, <4>2, HasAppend
        <5> QED
          BY <5>1 DEF OnTheWay, Has
      <4>3. CASE Has(Tail(batch), s)
        BY <3>1, <4>3 DEF OnTheWay, Has
      <4> QED
        BY <4>1, <4>2, <4>3
    <3>5. CASE Has(Unread, s)
      <4>1. PICK i \in 1 .. Len(stream) : i > since /\ stream[i] = s
        BY <3>1, <3>5, <1>b DEF Cursor
      <4>2. /\ since + Len(batch) <= Len(stream)
            /\ \A k \in 1 .. Len(batch) : batch[k] = stream[since + k]
        BY <1>a, <3>1 DEF Aligned, supervisorVars
      <4>3. CASE i = since + 1
        <5>1. Head(batch) = s
          <6>1. Head(batch) = batch[1] /\ 1 \in 1 .. Len(batch)
            BY <2>2, <3>2
          <6> QED
            BY <4>1, <4>2, <4>3, <6>1
        <5>2. Has(channel', s)
          BY <3>1, <3>2, <5>1, HasAppend
        <5> QED
          BY <5>2 DEF OnTheWay, Has
      <4>4. CASE i # since + 1
        <5>1. i > since + 1 /\ Cursor' = since + 1 /\ since \in Nat /\ Len(stream) \in Nat
          BY <3>1, <4>1, <4>4, <1>a DEF Cursor, WatcherTyped
        <5> QED
          BY <3>1, <4>1, <5>1, <1>c DEF OnTheWay
      <4> QED
        BY <4>3, <4>4
    <3> QED
      BY <3>3, <3>4, <3>5 DEF OnTheWay
  <2> QED
    BY <2>1, <2>2
<1>6. ASSUME NEW t \in Source, Emit(t)
      PROVE  OnTheWay(s)'
  <2>1. stream' = Append(stream, t) /\ UNCHANGED <<pump, since, batch, channel>>
    BY <1>6 DEF Emit, pumpVars
  <2>2. Cursor' = Cursor /\ Cursor \in Nat
    BY <2>1, <1>a DEF Cursor, WatcherTyped
  <2>3. \A i \in 1 .. Len(stream) : i \in 1 .. Len(stream') /\ stream'[i] = stream[i]
    BY <2>1, <1>a DEF WatcherTyped
  <2>4. Has(Unread, s) => Has(Unread, s)'
    BY <2>2, <2>3, <1>b, <1>c
  <2> QED
    BY <2>1, <2>4 DEF OnTheWay, Has
<1>7. CASE Receive
  <2>1. /\ channel # <<>> /\ channel' = Tail(channel) /\ due' = [due EXCEPT ![Head(channel)] = "armed"]
        /\ UNCHANGED <<stream, pump, since, batch>>
    BY <1>7 DEF Receive, daemonVars, pumpVars
  <2>2. Has(Unread, s) => Has(Unread, s)'
    BY <2>1, <1>b, <1>c DEF Cursor
  <2>3. Has(channel, s) => s = Head(channel) \/ Has(channel', s)
    BY <2>1, <1>a, HasTail DEF WatcherTyped
  <2>4. s = Head(channel) => due'[s] = "armed"
    BY <2>1, <1>a DEF WatcherTyped
  <2> QED
    BY <2>1, <2>2, <2>3, <2>4 DEF OnTheWay, Has
<1>8. CASE \/ ChildStep \/ DaemonUp \/ Fire
           \/ \E t \in Source : Transfer(t) \/ Elapse(t) \/ Dispatcher(t) \/ OtherJob(t) \/ Runs(t) \/ JobFails(t)
  <2>1. ~DaemonUp
    BY DEF DaemonUp, Answer
  <2>2. UNCHANGED <<stream, pump, since, batch, channel>>
    BY <1>8, <2>1 DEF ChildStep, Supervise, Calm, Fire, Transfer, Elapse, Dispatcher, TryImport, StartImport, OtherJob,
       Runs, JobBegins, JobEnds, JobFails, daemonVars, pumpVars
  <2> QED
    BY <1>1, <2>2
<1> QED
  BY <1>1, <1>2, <1>3, <1>4, <1>5, <1>6, <1>7, <1>8
     DEF WatcherNext, ChildStep, Pump, watcherVars, daemonVars, pumpVars

\* A deadline, a check or a job that is under way leads to the next one.
LEMMA OtherwiseStays ==
  ASSUME DeltaInv, WatcherTyped', [WatcherNext]_watcherVars, NEW s \in Source, Otherwise(s), s \notin forgotten'
  PROVE  Otherwise(s)' \/ OnTheWay(s)' \/ stored'[s] = files'[s]
<1>a. WatcherTyped /\ s \in Source
  BY DEF DeltaInv
<1> USE DEF Otherwise
<1>1. CASE UNCHANGED <<files, unsaid, due, dispatch, slot>>
  BY <1>1
<1>2. CASE DaemonUp
  BY <1>2 DEF DaemonUp
<1>3. CASE ChildStep \/ DaemonExits \/ PumpStep
  BY <1>1, <1>3 DEF ChildStep, Supervise, Calm, DaemonExits, PumpStep, Pump, Call, Events, Backoff, Send, PumpStops,
     PollFails, daemonVars, importVars
<1>4. ASSUME NEW t \in Source, Transfer(t)
      PROVE  Otherwise(s)'
  BY <1>4, <1>a DEF Transfer, importVars, WatcherTyped
<1>5. ASSUME NEW t \in Source, Emit(t)
      PROVE  Otherwise(s)' \/ OnTheWay(s)'
  <2>1. /\ child = "up" /\ ~quit /\ stream' = Append(stream, t) /\ unsaid' = unsaid \ {t}
        /\ UNCHANGED <<pump, since, files, due, dispatch, slot, forgotten>>
    BY <1>5 DEF Emit, pumpVars, importVars
  <2>2. CASE t # s
    BY <2>1, <2>2
  <2>3. CASE t = s
    <3>1. Len(stream) \in Nat /\ Len(stream') = Len(stream) + 1 /\ stream'[Len(stream) + 1] = s
      BY <1>a, <2>1, <2>3 DEF WatcherTyped
    <3>2. Cursor' = 0 \/ (Cursor' = since /\ since + Len(batch) <= Len(stream))
      BY <1>a, <2>1 DEF DeltaInv, Aligned, Cursor
    <3>a. since \in Nat /\ Len(batch) \in Nat
      BY <1>a DEF WatcherTyped
    <3>3. Len(stream) + 1 > Cursor'
      BY <3>a, <3>1, <3>2
    <3>4. Has(Unread, s)'
      BY <3>1, <3>3, UnreadAfterNext
    <3> QED
      BY <3>4 DEF OnTheWay
  <2> QED
    BY <2>2, <2>3
<1>6. CASE Receive
  BY <1>6, <1>a DEF Receive, WatcherTyped, daemonVars, importVars
<1>7. CASE Fire
  BY <1>7 DEF Fire, Selecting, daemonVars, importVars
<1>8. ASSUME NEW t \in Source, Elapse(t)
      PROVE  Otherwise(s)'
  BY <1>8, <1>a DEF Elapse, WatcherTyped, daemonVars, importVars
<1>9. ASSUME NEW t \in Source, TryImport(t)
      PROVE  Otherwise(s)'
  <2>1. UNCHANGED <<files, unsaid, slot>> /\ (t # s => due'[s] = due[s])
    BY <1>9, <1>a DEF TryImport, Turns, WatcherTyped, daemonVars, importVars
  <2>2. t = s => due'[s] = "armed" \/ <<s, "start">> \in dispatch'
    BY <1>9, <1>a DEF TryImport, Turns, WatcherTyped
  <2>3. t # s => \A step \in {"ask", "start"} : <<s, step>> \in dispatch => <<s, step>> \in dispatch'
    BY <1>9 DEF TryImport
  <2> QED
    BY <2>1, <2>2, <2>3
<1>10. ASSUME NEW t \in Source, StartImport(t)
       PROVE  Otherwise(s)'
  <2>1. UNCHANGED <<files, unsaid>> /\ (t # s => due'[s] = due[s] /\ slot'[s] = slot[s])
    BY <1>10, <1>a DEF StartImport, Turns, WatcherTyped, daemonVars
  <2>2. t = s => due'[s] = "armed" \/ slot'[s] = Queued
    BY <1>10, <1>a DEF StartImport, Turns, WatcherTyped
  <2>3. t # s => \A step \in {"ask", "start"} : <<s, step>> \in dispatch => <<s, step>> \in dispatch'
    BY <1>10 DEF StartImport
  <2> QED
    BY <2>1, <2>2, <2>3
<1>11. ASSUME NEW t \in Source, OtherJob(t) \/ JobBegins(t) \/ JobEnds(t) \/ JobFails(t)
       PROVE  Otherwise(s)' \/ stored'[s] = files'[s]
  <2>1. UNCHANGED <<files, unsaid, due, dispatch>> /\ (t # s => slot'[s] = slot[s])
    BY <1>11, <1>a DEF OtherJob, JobBegins, JobEnds, JobFails, WatcherTyped, daemonVars
  <2>2. t = s => \/ slot'[s] = Queued \/ slot'[s] = files[s]
                 \/ JobEnds(s) /\ slot[s] \notin {Free, Queued}
    BY <1>11, <1>a DEF OtherJob, JobBegins, JobEnds, JobFails, WatcherTyped
  <2>3. JobEnds(s) /\ slot[s] = files[s] => stored'[s] = files'[s]
    BY <1>a, <2>1 DEF JobEnds, WatcherTyped
  <2> QED
    BY <2>1, <2>2, <2>3
<1> QED
  BY <1>1, <1>2, <1>3, <1>4, <1>5, <1>6, <1>7, <1>8, <1>9, <1>10, <1>11
     DEF WatcherNext, ChildStep, PumpStep, Dispatcher, Runs, watcherVars, daemonVars, importVars

\* What was imported, or was not to be, is forgotten by no step.
LEMMA NextPending == DeltaInv /\ WatcherTyped' /\ [WatcherNext]_watcherVars => NoDeltaForgotten'
<1> SUFFICES ASSUME DeltaInv, WatcherTyped', [WatcherNext]_watcherVars, NEW s \in Source,
                    Complete(s)', stored'[s] # files'[s], s \notin forgotten', ~quit', child' = "up"
             PROVE  Otherwise(s)' \/ OnTheWay(s)'
  BY DEF NoDeltaForgotten, Pending, Otherwise, OnTheWay
<1>a. WatcherTyped /\ JobsRead /\ NoDeltaForgotten
  BY DEF DeltaInv
<1>1. CASE child # "up"
  <2>1. DaemonUp
    BY <1>1 DEF WatcherNext, Supervise, SupervisorStep, Launch, Spawn, Ready, NotReady, Cancelled, Noticed, Relaunch,
       Terminate, Quit, Hang, DaemonExits, Exit, Pump, Call, Events, Backoff, Send, PumpStops, PollFails, Receive, Fire,
       Transfer, Emit, Elapse, Dispatcher, TryImport, StartImport, OtherJob, Runs, JobBegins, JobEnds, JobFails,
       watcherVars, supervisorVars
  <2> QED
    BY <2>1 DEF DaemonUp, Otherwise
<1>2. CASE child = "up"
  <2>1. ~quit /\ s \notin forgotten
    <3>1. ~DaemonUp
      BY <1>2 DEF DaemonUp, Answer
    <3>2. CASE ChildStep \/ DaemonExits
      BY <3>2 DEF ChildStep, Supervise, SupervisorStep, Launch, Ready, NotReady, Cancelled, Noticed, Relaunch, Terminate,
         Quit, Hang, Calm, DaemonExits, Exit
    <3>3. CASE PumpStep \/ Receive \/ Fire \/ UNCHANGED watcherVars
      BY <3>3 DEF PumpStep, Pump, Call, Events, Backoff, Send, PumpStops, PollFails, Receive, Fire, watcherVars,
         supervisorVars
    <3>4. CASE \E t \in Source : OfSource(t)
      BY <3>4 DEF OfSource, Transfer, Emit, Elapse, Dispatcher, TryImport, StartImport, OtherJob, Runs, JobBegins,
         JobEnds, JobFails, supervisorVars
    <3> QED
      BY <3>1, <3>2, <3>3, <3>4 DEF WatcherNext, ChildStep, PumpStep, OfSource
  <2>2. CASE Complete(s) /\ stored[s] # files[s]
    <3>1. Otherwise(s) \/ OnTheWay(s)
      BY <1>2, <1>a, <2>1, <2>2 DEF NoDeltaForgotten, Pending, Otherwise, OnTheWay
    <3>2. CASE OnTheWay(s)
      BY <1>2, <3>2, EventsStay DEF Otherwise
    <3> QED
      BY <3>1, <3>2, OtherwiseStays
  <2>3. CASE ~(Complete(s) /\ stored[s] # files[s])
    <3>1. CASE Transfer(s)
      BY <3>1 DEF Transfer, Otherwise
    <3>2. CASE JobEnds(s)
      <4>1. /\ files' = files /\ slot[s] \notin {Free, Queued}
            /\ stored'[s] = IF slot[s] = files[s] THEN files[s] ELSE Mixed
        BY <3>2, <1>a DEF JobEnds, WatcherTyped, daemonVars
      <4>2. slot[s] < files[s] /\ stored[s] = files[s]
        BY <2>3, <4>1, <1>a DEF WatcherTyped, JobsRead, Complete, Free, Queued
      <4> QED
        BY <4>1, <4>2, <1>a, WatcherAssumption DEF JobsRead, WatcherTyped, Mixed, Free, Queued
    <3>3. CASE ~Transfer(s) /\ ~JobEnds(s)
      <4>1. files'[s] = files[s] /\ stored'[s] = stored[s]
        <5>1. CASE \E t \in Source : t # s /\ (Transfer(t) \/ JobEnds(t))
          BY <5>1, <1>a DEF Transfer, JobEnds, WatcherTyped, daemonVars, importVars
        <5>2. CASE ~\E t \in Source : Transfer(t) \/ JobEnds(t)
          BY <5>2 DEF WatcherNext, Supervise, Calm, DaemonUp, DaemonExits, Pump, Call, Events, Backoff, Send, PumpStops,
             PollFails, Receive, Fire, Emit, Elapse, Dispatcher, TryImport, StartImport, OtherJob, Runs, JobBegins,
             JobFails, watcherVars, daemonVars, importVars
        <5> QED
          BY <3>3, <5>1, <5>2
      <4> QED
        BY <2>3, <4>1 DEF Complete
    <3> QED
      BY <3>1, <3>2, <3>3
  <2> QED
    BY <2>2, <2>3
<1> QED
  BY <1>1, <1>2

\* No delta is forgotten: while the store differs from a folder that is complete,
\* an event, a deadline, a check or a job is on its way, for any number of folders,
\* versions, restarts of the daemon and failures.
THEOREM DeltasRemembered == WatcherSpec => []NoDeltaForgotten
<1>1. WatcherInit => DeltaInv
  BY InitDelta
<1>2. DeltaInv /\ [WatcherNext]_watcherVars => DeltaInv'
  BY NextTyped, NextPumpKnows, NextAligned, NextJobsRead, NextPending DEF DeltaInv
<1>3. DeltaInv => NoDeltaForgotten
  BY DEF DeltaInv
<1> QED
  BY <1>1, <1>2, <1>3, PTL DEF WatcherSpec

-----------------------------------------------------------------------------

\* THE WINDOW

\* No connection has a request.
Silent == \A v \in Visitor : visit[v] = "none"

\* The labels of the stop, from the first at which the jobs have been waited for.
Joined == {"drain", "closing", "exited"}

Runners == [built : BOOLEAN, stopped : BOOLEAN, job : BOOLEAN]
Latches == [ctx : BOOLEAN, requested : BOOLEAN, fired : BOOLEAN, quits : Nat]

Kinds ==
  /\ app \in {"serve", "desktop"}
  /\ main \in {"start", "opened", "sync", "listen", "launch", "serving", "stopping", "syncwait",
               "shell", "close", "shutdown", "join", "drain", "closing", "exited"}
  /\ app = "serve" => main \notin {"launch", "shell", "close", "drain"}
  /\ http \in {"none", "bound", "serving", "draining", "down"}
  /\ visit \in [Visitor -> {"none", "page", "stream"}]
  /\ runner \in Runners
  /\ refresh \in {"none", "waiting", "gone"}
  /\ daemon \in {"none", "up", "gone"}
  /\ watcher \in {"none", "watching", "gone"}
  /\ latch \in Latches
  /\ cut \in BOOLEAN

\* What the main goroutine's place says of the database,
Stored ==
  /\ main \notin {"start", "exited"} => database = "open"
  /\ main = "exited" => database # "open"
  /\ database = "closed" => main = "exited"

\* of the web server and its requests,
Answered ==
  /\ http \in {"none", "bound"} => Silent
  /\ http = "down" /\ ~Silent => cut
  /\ main \in {"start", "opened"} => http = "none"
  /\ main = "sync" => http = IF app = "serve" THEN "none" ELSE "bound"
  /\ main = "listen" => http = "none"
  /\ main = "launch" => http = "bound"
  /\ main \in {"stopping", "syncwait", "drain"} => http = "down"
  /\ main \in {"shutdown", "join"} => http = "down" \/ (app = "serve" /\ http = "none")
  /\ main \in {"closing", "exited"} => http \in {"none", "down"}

\* of the jobs, and that none can begin once they have been waited for,
Worked ==
  /\ main \in {"start", "opened"} => ~runner.job /\ refresh = "none"
  /\ main = "join" => runner.stopped
  /\ main = "listen" /\ app = "desktop" => ~runner.job
  /\ main \in Joined =>
       /\ ~runner.job
       /\ \/ runner.stopped
          \/ /\ main # "drain" /\ Silent /\ http # "serving"
             /\ refresh = "none" \/ app = "desktop"

\* and of device sync.
Synced ==
  /\ main \in {"start", "opened", "sync"} => daemon = "none" /\ watcher = "none"
  /\ main = "listen" /\ app = "desktop" => daemon = "none" /\ watcher = "none"
  /\ main \in {"shutdown", "join"} /\ app = "serve" =>
       daemon \in {"none", "gone"} /\ watcher \in {"none", "gone"}
  /\ main \in {"closing", "exited"} =>
       daemon \in {"none", "gone"} /\ watcher \in {"none", "gone"}

\* The latch lets a quit through when it has not fired, and fires then.
Latched == latch.quits <= 1 /\ (~latch.fired => latch.quits = 0)

Ordered == Kinds /\ Stored /\ Answered /\ Worked /\ Synced /\ Latched

-----------------------------------------------------------------------------
(* The strengthened invariant is inductive: a step for each action.        *)

LEMMA Initially == ASSUME ShellInit PROVE Ordered
<1> USE ShellAssumption DEF ShellInit
<1>1. Kinds
  BY DEF Kinds, Runners, Latches
<1>2. Stored /\ Answered
  BY DEF Stored, Answered, Silent
<1>3. Worked /\ Synced /\ Latched
  BY DEF Worked, Synced, Latched, Joined
<1> QED
  BY <1>1, <1>2, <1>3 DEF Ordered

LEMMA LatchTyped ==
  ASSUME latch \in Latches, RequestQuit \/ Startup \/ WindowGone
  PROVE  latch' \in Latches
<1>1. latch.quits + 1 \in Nat
  BY DEF Latches
<1> QED
  BY <1>1 DEF Latches, RequestQuit, Startup, WindowGone

LEMMA RunnerTyped ==
  ASSUME runner \in Runners, Wire \/ StartJob \/ WorkerEnds \/ Shutdown
  PROVE  runner' \in Runners
  BY DEF Runners, Wire, StartJob, WorkerEnds, Shutdown

LEMMA Preserved ==
  ASSUME Ordered, [ShellNext]_shellVars
  PROVE  Ordered'
<1> USE DEF Ordered, Kinds, Stored, Answered, Worked, Synced, Latched, Silent, Joined, MainGoes,
            shellVars, desktopVars, syncVars, webVars, workVars
<1>1. ASSUME main # "exited", OpenStore PROVE Ordered'
  BY <1>1 DEF OpenStore
<1>2. ASSUME main # "exited", Wire PROVE Ordered'
  BY <1>2, RunnerTyped DEF Wire, Runners
<1>3. ASSUME main # "exited", StartSync PROVE Ordered'
  BY <1>3 DEF StartSync
<1>4. ASSUME main # "exited", Listen PROVE Ordered'
  BY <1>4 DEF Listen
<1>5. ASSUME main # "exited", OpenWindow PROVE Ordered'
  BY <1>5 DEF OpenWindow
<1>6. ASSUME main # "exited", StopServing PROVE Ordered'
  BY <1>6 DEF StopServing
<1>7. ASSUME main # "exited", Served PROVE Ordered'
  BY <1>7 DEF Served
<1>8. ASSUME main # "exited", SyncWait PROVE Ordered'
  BY <1>8 DEF SyncWait
<1>9. ASSUME main # "exited", Shutdown PROVE Ordered'
  <2>1. Kinds'
    BY <1>9, RunnerTyped DEF Shutdown
  <2>2. Stored'
    BY <1>9 DEF Shutdown, Runners
  <2>3. Answered'
    BY <1>9 DEF Shutdown, Runners
  <2>4. Worked'
    BY <1>9 DEF Shutdown, Runners
  <2>5. Synced'
    BY <1>9 DEF Shutdown, Runners
  <2>6. Latched'
    BY <1>9 DEF Shutdown, Runners
  <2> QED
    BY <2>1, <2>2, <2>3, <2>4, <2>5, <2>6
<1>10. ASSUME main # "exited", JoinJobs PROVE Ordered'
  BY <1>10 DEF JoinJobs
<1>11. ASSUME main # "exited", CloseStore PROVE Ordered'
  BY <1>11 DEF CloseStore
<1>12. ASSUME main # "exited", Signal PROVE Ordered'
  BY <1>12 DEF Signal
<1>13. ASSUME main # "exited", ServeFails PROVE Ordered'
  BY <1>13 DEF ServeFails
<1>14. ASSUME main # "exited", Drain PROVE Ordered'
  BY <1>14 DEF Drain
<1>15. ASSUME main # "exited", Drained PROVE Ordered'
  BY <1>15 DEF Drained
<1>16. ASSUME NEW v \in Visitor, main # "exited", Visit(v) PROVE Ordered'
  BY <1>16 DEF Visit
<1>17. ASSUME NEW v \in Visitor, main # "exited", Depart(v) PROVE Ordered'
  BY <1>17 DEF Depart
<1>18. ASSUME main # "exited", StartJob PROVE Ordered'
  <2>1. Kinds'
    BY <1>18, RunnerTyped DEF StartJob
  <2>2. Stored'
    BY <1>18 DEF StartJob, Runners
  <2>3. Answered'
    BY <1>18 DEF StartJob, Runners
  <2>4. Worked'
    BY <1>18 DEF StartJob, Runners
  <2>5. Synced'
    BY <1>18 DEF StartJob, Runners
  <2>6. Latched'
    BY <1>18 DEF StartJob, Runners
  <2> QED
    BY <2>1, <2>2, <2>3, <2>4, <2>5, <2>6
<1>19. ASSUME main # "exited", WorkerEnds PROVE Ordered'
  <2>1. Kinds'
    BY <1>19, RunnerTyped DEF WorkerEnds
  <2>2. Stored'
    BY <1>19 DEF WorkerEnds, Runners
  <2>3. Answered'
    BY <1>19 DEF WorkerEnds, Runners
  <2>4. Worked'
    BY <1>19 DEF WorkerEnds, Runners
  <2>5. Synced'
    BY <1>19 DEF WorkerEnds, Runners
  <2>6. Latched'
    BY <1>19 DEF WorkerEnds, Runners
  <2> QED
    BY <2>1, <2>2, <2>3, <2>4, <2>5, <2>6
<1>20. ASSUME main # "exited", RefreshEnds PROVE Ordered'
  BY <1>20 DEF RefreshEnds
<1>21. ASSUME main # "exited", DaemonEnds PROVE Ordered'
  BY <1>21 DEF DaemonEnds
<1>22. ASSUME main # "exited", WatcherEnds PROVE Ordered'
  BY <1>22 DEF WatcherEnds
<1>23. ASSUME main # "exited", GuardQuits PROVE Ordered'
  <2>1. Kinds'
    BY <1>23, LatchTyped DEF GuardQuits, RequestQuit
  <2>2. Stored'
    BY <1>23 DEF GuardQuits, RequestQuit, Latches
  <2>3. Answered'
    BY <1>23 DEF GuardQuits, RequestQuit, Latches
  <2>4. Worked'
    BY <1>23 DEF GuardQuits, RequestQuit, Latches
  <2>5. Synced'
    BY <1>23 DEF GuardQuits, RequestQuit, Latches
  <2>6. Latched'
    BY <1>23 DEF GuardQuits, RequestQuit, Latches
  <2> QED
    BY <2>1, <2>2, <2>3, <2>4, <2>5, <2>6
<1>24. ASSUME main # "exited", MenuQuits PROVE Ordered'
  <2>1. Kinds'
    BY <1>24, LatchTyped DEF MenuQuits, RequestQuit
  <2>2. Stored'
    BY <1>24 DEF MenuQuits, RequestQuit, Latches
  <2>3. Answered'
    BY <1>24 DEF MenuQuits, RequestQuit, Latches
  <2>4. Worked'
    BY <1>24 DEF MenuQuits, RequestQuit, Latches
  <2>5. Synced'
    BY <1>24 DEF MenuQuits, RequestQuit, Latches
  <2>6. Latched'
    BY <1>24 DEF MenuQuits, RequestQuit, Latches
  <2> QED
    BY <2>1, <2>2, <2>3, <2>4, <2>5, <2>6
<1>25. ASSUME main # "exited", Startup PROVE Ordered'
  <2>1. Kinds'
    BY <1>25, LatchTyped DEF Startup
  <2>2. Stored'
    BY <1>25 DEF Startup, Latches
  <2>3. Answered'
    BY <1>25 DEF Startup, Latches
  <2>4. Worked'
    BY <1>25 DEF Startup, Latches
  <2>5. Synced'
    BY <1>25 DEF Startup, Latches
  <2>6. Latched'
    BY <1>25 DEF Startup, Latches
  <2> QED
    BY <2>1, <2>2, <2>3, <2>4, <2>5, <2>6
<1>26. ASSUME main # "exited", WindowGone PROVE Ordered'
  <2>1. Kinds'
    BY <1>26, LatchTyped DEF WindowGone
  <2>2. Stored'
    BY <1>26 DEF WindowGone, Latches
  <2>3. Answered'
    BY <1>26 DEF WindowGone, Latches
  <2>4. Worked'
    BY <1>26 DEF WindowGone, Latches
  <2>5. Synced'
    BY <1>26 DEF WindowGone, Latches
  <2>6. Latched'
    BY <1>26 DEF WindowGone, Latches
  <2> QED
    BY <2>1, <2>2, <2>3, <2>4, <2>5, <2>6
<1>27. CASE UNCHANGED shellVars
  BY <1>27
<1> QED
  BY <1>1, <1>2, <1>3, <1>4, <1>5, <1>6, <1>7, <1>8, <1>9, <1>10, <1>11, <1>12, <1>13, <1>14, <1>15, <1>16, <1>17, <1>18, <1>19, <1>20, <1>21, <1>22, <1>23, <1>24, <1>25, <1>26, <1>27 DEF ShellNext, MainStep

\* A process stops in order, whatever it is, however many use it, and whenever it
\* is told to stop or its server dies.  (internal/cli/serve.go RunE; embedded.go
\* Server.Close; shellstate.go Lifecycle.)
THEOREM OrderlyStop == ShellSpec => []StopsInOrder
<1>1. ShellInit => Ordered
  BY Initially
<1>2. Ordered /\ [ShellNext]_shellVars => Ordered'
  BY Preserved
<1>3. Ordered => StopsInOrder
  BY DEF Ordered, Kinds, Stored, Answered, Worked, Synced, Latched, Silent, Joined, Runners, Latches, StopsInOrder, StoreClosedLast, CutShortOnlyUndrained, QuitOnce
<1> QED
  BY <1>1, <1>2, <1>3, PTL DEF ShellSpec

=============================================================================
