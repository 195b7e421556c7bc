------------------------------- MODULE RunLog --------------------------------
(***************************************************************************)
(* The run log of a pipeline (fact_runs, journal_runs, sentiment_runs) and *)
(* the guard that web requests build on it (internal/web: startFacts,      *)
(* startJournal, startSentiment).  The server and the CLI share the log    *)
(* and nothing else; only the server asks before it starts a run.          *)
(***************************************************************************)
EXTENDS Naturals, Sequences

CONSTANTS
  Request,     \* web requests that start a run
  Command,     \* CLI invocations that do
  StaleAfter,  \* how long a heartbeat is believed
  MaxTime,     \* bound: ticks of the clock
  MaxKills     \* bound: processes killed

ASSUME RunLogAssumption ==
  /\ StaleAfter \in Nat /\ MaxTime \in Nat /\ MaxKills \in Nat
  /\ Request \intersect Command = {}

VARIABLES
  now,      \* the clock
  log,      \* the table, in order of id
  flag,     \* the server's single-flight flag: the request that holds it, or {}
  job,      \* where each request or command is
  rowOf,    \* the row of a run; 0 when its insertion failed
  killed    \* how many processes have been killed

runLogVars == <<now, log, flag, job, rowOf, killed>>

Started == Request \union Command

RunLogInit ==
  /\ now = 0 /\ log = <<>> /\ flag = {} /\ killed = 0
  /\ job = [j \in Started |-> "new"]
  /\ rowOf = [j \in Started |-> 0]

----------------------------------------------------------------------------
Fresh(i) == now - log[i].beat <= StaleAfter
Rows(finished) == {i \in 1 .. Len(log) : log[i].finished = finished}
Newest1(S) == CHOOSE i \in S : \A k \in S : k <= i

\* Mutant: the newest row, as embed_runs has it.
LatestById == IF log # <<>> THEN Newest1(1 .. Len(log)) ELSE 0

\* LatestFactRun and its like: an unfinished row before a newer finished one.
Latest == IF Rows(FALSE) # {} THEN Newest1(Rows(FALSE))
          ELSE IF log # <<>> THEN Newest1(1 .. Len(log)) ELSE 0

\* What the guard of a request takes for a run under way.
Busy == IF Latest = 0 THEN FALSE ELSE ~log[Latest].finished /\ Fresh(Latest)

\* The request reads the log.  If it cannot, it goes on.
Ask(j) ==
  /\ job[j] = "new" /\ j \in Request
  /\ job' = [job EXCEPT ![j] = IF Busy THEN "refused" ELSE "asked"]
  /\ UNCHANGED <<now, log, flag, rowOf, killed>>

Claim(j) ==
  /\ job[j] = "asked"
  /\ IF flag = {} THEN /\ job' = [job EXCEPT ![j] = "begin"]
                       /\ flag' = {j}
     ELSE job' = [job EXCEPT ![j] = "refused"] /\ UNCHANGED flag
  /\ UNCHANGED <<now, log, rowOf, killed>>

Invoke(j) ==
  /\ job[j] = "new" /\ j \in Command
  /\ job' = [job EXCEPT ![j] = "begin"]
  /\ UNCHANGED <<now, log, flag, rowOf, killed>>

\* Begin*Run: the run goes on without a row if it cannot be inserted.
BeginRun(j) ==
  /\ job[j] = "begin"
  /\ job' = [job EXCEPT ![j] = "running"]
  /\ \/ /\ log' = Append(log, [beat |-> now, finished |-> FALSE])
        /\ rowOf' = [rowOf EXCEPT ![j] = Len(log) + 1]
     \/ UNCHANGED <<log, rowOf>>
  /\ UNCHANGED <<now, flag, killed>>

\* Update*RunProgress, when a conversation or a day is done.
Beat(j) ==
  /\ job[j] = "running" /\ rowOf[j] # 0
  /\ log[rowOf[j]].beat # now
  /\ log' = [log EXCEPT ![rowOf[j]].beat = now]
  /\ UNCHANGED <<now, flag, job, rowOf, killed>>

\* The deferred Finish*Run, and the flag.
FinishRun(j) ==
  /\ job[j] = "running"
  /\ job' = [job EXCEPT ![j] = "ended"]
  /\ log' = IF rowOf[j] = 0 THEN log
            ELSE [log EXCEPT ![rowOf[j]] = [beat |-> now, finished |-> TRUE]]
  /\ flag' = flag \ {j}
  /\ UNCHANGED <<now, rowOf, killed>>

\* The server is killed with its requests, and started again; or a command is.
Kill ==
  /\ killed < MaxKills
  /\ killed' = killed + 1
  /\ \E S \in {Request} \union {{j} : j \in Command} :
       /\ \E j \in S : job[j] \in {"asked", "begin", "running"}
       /\ job' = [j \in Started |->
                    IF j \in S /\ job[j] \in {"asked", "begin", "running"} THEN "ended"
                    ELSE job[j]]
       /\ flag' = flag \ S
  /\ UNCHANGED <<now, log, rowOf>>

Tick ==
  /\ now < MaxTime
  /\ now' = now + 1
  /\ UNCHANGED <<log, flag, job, rowOf, killed>>

RunLogNext ==
  \/ \E j \in Started : \/ Ask(j) \/ Claim(j) \/ Invoke(j)
                        \/ BeginRun(j) \/ Beat(j) \/ FinishRun(j)
  \/ Kill \/ Tick

RunLogSpec == RunLogInit /\ [][RunLogNext]_runLogVars

----------------------------------------------------------------------------
(* Properties *)

RunLogTypeOK ==
  /\ log \in Seq([beat : 0 .. MaxTime, finished : BOOLEAN])
  /\ rowOf \in [Started -> 0 .. Len(log)]
  /\ flag \subseteq Request

Lives(j) == job[j] = "running" /\ rowOf[j] # 0

\* A run whose heartbeat is fresh is seen by the guard, in whichever process it
\* is and whatever ran after it, unless a later run was killed: its row is then
\* the newest unfinished one.  (The in-flight-first order exists for this:
\* "hiding a live run means letting a second (billable) one start alongside it".)
LiveRunSeen ==
  \A j \in Started :
    (Lives(j) /\ Fresh(rowOf[j]) /\
       \A i \in Rows(FALSE) : i > rowOf[j] => \E k \in Started : Lives(k) /\ rowOf[k] = i /\ Fresh(i))
    => Busy
=============================================================================
