-------------------------------- MODULE Setup --------------------------------
(***************************************************************************)
(* The Providers page: a card per source, whose controls start, cancel and *)
(* poll jobs, probe permissions again and disable a source (setup.go,      *)
(* setup_security.go, enable.go, refresh.go, autorefresh.go, recheck.go and *)
(* disable.go of internal/web, with internal/setup's detection), and the    *)
(* tokens that its controls are armed with.                                *)
(*                                                                         *)
(* A browser has the page open.  A request and its answer are one step, but *)
(* for a disable, which checks and deletes in two, and the scheduled pass,  *)
(* which reads once what it goes through.  The jobs are those of Onboard,   *)
(* of which this page only knows the phase; an Enabler is wired.            *)
(***************************************************************************)
EXTENDS Absent, Integers, FiniteSets, FiniteSetsExt

CONSTANTS
  Provider,   \* source.All
  Machine,    \* what may be on the disk, by provider: [there, key, opens]
  Rooted, \* the providers whose archive root the configuration names
  TokenCap,   \* setupTokenCap
  TokenTTL,   \* setupTokenTTL
  MaxMints,   \* bound: tokens
  MaxTime,    \* bound: the clock
  MaxEvents   \* bound: what happens outside of the page

ASSUME SetupAssumption ==
  /\ TokenCap \in Nat \ {0} /\ TokenTTL \in Nat
  /\ Rooted \subseteq Provider

VARIABLES
  clock,
  tokens,   \* setupTokens.tokens: a token, which is the number of its mint, and its expiry
  minted,
  disk,     \* what is on the disk now
  present,  \* the providers that have conversations in the store
  replicas, \* the providers whose archive a paired device sends
  jobs,     \* the phase of each provider's last job
  pass,     \* the providers that a scheduled pass has still to refresh
  deleting, \* the provider whose rows a disable is about to delete, or None
  tab,      \* the page in the browser: per provider its card and its progress region
  unheard,  \* the providers of which the page has not heard the last
  happened

setupVars == <<clock, tokens, minted, disk, present, replicas, jobs, pass, deleting, tab, unheard, happened>>

-----------------------------------------------------------------------------
(* Tokens.                                                                 *)

pruneExpired(ts) == [t \in {u \in DOMAIN ts : clock <= ts[u]} |-> ts[t]]

\* The one that expires first, which of those of one moment is the first.
evictOldest(ts) == Min({t \in DOMAIN ts : \A u \in DOMAIN ts : ts[t] <= ts[u]})

Minted(ts) ==
  LET live == pruneExpired(ts)
      kept == IF Cardinality(DOMAIN live) >= TokenCap
              THEN DOMAIN live \ {evictOldest(live)} ELSE DOMAIN live
      new == Max(DOMAIN ts \union {minted}) + 1
  IN [t \in kept \union {new} |-> IF t = new THEN clock + TokenTTL ELSE live[t]]

\* n tokens for an answer; the i-th of them is named Fresh(i).
Mint(n) ==
  /\ minted + n <= MaxMints
  /\ minted' = minted + n
  /\ tokens' = IF n = 2 THEN Minted(Minted(tokens)) ELSE Minted(tokens)
Fresh(i) == [id |-> minted + i, at |-> clock]

valid(token) == token.id \in DOMAIN tokens /\ clock <= tokens[token.id]

-----------------------------------------------------------------------------
(* Cards.                                                                  *)

detectSource(p) == disk[p].there

\* A key that is sealed, or a configuration that cannot be read and may hide one,
\* needs the keychain; what has no key needs to be readable.
probeSource(p) ==
  CASE disk[p].key = "absent" -> "n/a"
    [] disk[p].key = "plain"  -> "ok"
    [] OTHER -> IF disk[p].opens THEN "ok" ELSE "needed"

setupCardFor(p) ==
  CASE p \in replicas -> "synced"
    [] p \notin replicas /\ p \in present \union Rooted -> "enabled"
    [] p \notin replicas \union present \union Rooted /\ ~detectSource(p) -> "not-detected"
    [] OTHER -> IF probeSource(p) = "needed" THEN "needs-permission" ELSE "ready"

NoPanel == [phase |-> "none", token |-> None]
Card(state, token) == [state |-> state, confirm |-> FALSE, token |-> token, panel |-> NoPanel]

Active(p) == jobs[p] \in {"active", "cancelling"}
Polling(p) == tab[p].panel.phase \in {"active", "cancelling"}

\* A job that takes the place of one whose end the page has not heard hides it.
Overtaken(p) == IF Polling(p) /\ ~Active(p) THEN unheard \union {p} ELSE unheard

\* The page's controls, by the token that arms them.
EnableShown(p)  == tab[p].state \in {"ready", "needs-permission"} /\ ~tab[p].confirm
RefreshShown(p) == tab[p].state = "enabled"
RecheckShown(p) == tab[p].state = "needs-permission" \/ tab[p].confirm
DisableShown(p) == tab[p].state = "enabled" \/ tab[p].confirm

-----------------------------------------------------------------------------
SetupInit ==
  /\ clock = 0
  /\ tokens = <<>> /\ minted = 0
  /\ disk \in [Provider -> UNION {Machine[p] : p \in Provider}]
  /\ \A p \in Provider : disk[p] \in Machine[p]
  /\ present = {} /\ replicas \in {{}} \union {{p} : p \in Provider}
  /\ jobs = [p \in Provider |-> "none"]
  /\ pass = {} /\ deleting = None
  /\ tab = [p \in Provider |-> Card("none", None)]
  /\ unheard = {} /\ happened = 0

\* The whole page; a job that is running is not on it.
handleSetup ==
  /\ Mint(1)
  /\ tab' = [p \in Provider |-> Card(setupCardFor(p), Fresh(1))]
  /\ unheard' = {}
  /\ UNCHANGED <<clock, disk, present, replicas, jobs, pass, deleting, happened>>

\* The answer to a POST whose token is not live: 403, and the page stays as it is.
checkSetupPOST ==
  /\ \E p \in Provider : \E token \in {tab[p].token, tab[p].panel.token} \ {None} : ~valid(token)
  /\ tokens' = pruneExpired(tokens)
  /\ UNCHANGED <<clock, minted, disk, present, replicas, jobs, pass, deleting, tab, unheard, happened>>

\* Mutant: the card stays as it is when a job is done.
renderProgressNoCard(p, phase, before) ==
  /\ Mint(IF phase = "denied" THEN 2 ELSE 1)
  /\ IF phase = "denied"
     THEN tab' = [tab EXCEPT ![p] = Card("needs-permission", Fresh(2))] /\ unheard' = before \union {p}
     ELSE tab' = [tab EXCEPT ![p].panel = [phase |-> phase, token |-> Fresh(1)]] /\ unheard' = before

\* The progress of a job; with the end of one that is done or was denied comes the
\* card, the progress region in it being empty.
renderProgress(p, phase, before) ==
  /\ Mint(IF phase \in {"done", "denied"} THEN 2 ELSE 1)
  /\ CASE phase = "done" ->
            tab' = [tab EXCEPT ![p] = Card(setupCardFor(p), Fresh(2))] /\ unheard' = before \ {p}
       [] phase = "denied" ->
            tab' = [tab EXCEPT ![p] = Card("needs-permission", Fresh(2))] /\ unheard' = before \union {p}
       [] OTHER ->
            tab' = [tab EXCEPT ![p].panel = [phase |-> phase, token |-> Fresh(1)]] /\ unheard' = before

\* A source that a paired device sends is refused: the text takes the place of
\* what the control's answer would have replaced.
renderImporterConflict(p, card) ==
  /\ p \in replicas
  /\ Mint(1)
  /\ tab' = [tab EXCEPT ![p] = IF card THEN Card("none", None)
                               ELSE [@ EXCEPT !.panel = [phase |-> "failed", token |-> Fresh(1)]]]
  /\ unheard' = unheard \union {p}
  /\ UNCHANGED jobs

\* A click for a job: one that is running is joined.
Start(p) ==
  /\ deleting = None
  /\ tab[p].token # None /\ valid(tab[p].token)
  /\ \/ renderImporterConflict(p, FALSE)
     \/ /\ p \notin replicas
        /\ jobs' = IF Active(p) THEN jobs ELSE [jobs EXCEPT ![p] = "active"]
        /\ renderProgress(p, jobs'[p], Overtaken(p))
  /\ UNCHANGED <<clock, disk, present, replicas, pass, deleting, happened>>

handleSetupEnable(p) == EnableShown(p) /\ Start(p)
handleSetupRefresh(p) == RefreshShown(p) /\ Start(p)

\* A poll, once a second while the job that the page shows is active.
handleSetupStatus(p) ==
  /\ Polling(p)
  /\ renderProgress(p, jobs[p], unheard)
  /\ UNCHANGED <<clock, disk, present, replicas, jobs, pass, deleting, happened>>

handleSetupCancel(p) ==
  /\ Polling(p) /\ valid(tab[p].panel.token)
  /\ jobs' = IF Active(p) THEN [jobs EXCEPT ![p] = "cancelling"] ELSE jobs
  /\ renderProgress(p, jobs'[p], unheard)
  /\ UNCHANGED <<clock, disk, present, replicas, pass, deleting, happened>>

\* A card is answered by a card.
AnswerCard(p, confirm) ==
  /\ Mint(1)
  /\ tab' = [tab EXCEPT ![p] = [Card(setupCardFor(p), Fresh(1)) EXCEPT !.confirm = confirm]]
  /\ unheard' = unheard \ {p}

handleSetupRecheck(p) ==
  /\ RecheckShown(p) /\ valid(tab[p].token) /\ deleting = None
  /\ AnswerCard(p, FALSE)
  /\ UNCHANGED <<clock, disk, present, replicas, jobs, pass, deleting, happened>>

\* The first click asks back, the second deletes, unless a job is running.
handleSetupDisable(p) ==
  /\ DisableShown(p) /\ valid(tab[p].token) /\ deleting = None
  /\ \/ renderImporterConflict(p, TRUE) /\ UNCHANGED deleting
     \/ /\ p \notin replicas
        /\ Active(p) \/ ~tab[p].confirm
        /\ AnswerCard(p, ~Active(p))
        /\ UNCHANGED <<jobs, deleting>>
     \/ /\ p \notin replicas
        /\ ~Active(p) /\ tab[p].confirm
        /\ deleting' = p
        /\ UNCHANGED <<tokens, minted, jobs, tab, unheard>>
  /\ UNCHANGED <<clock, disk, present, replicas, pass, happened>>

\* Its rows go, and the card is made of what is there then.
DeleteSourceRows ==
  /\ deleting # None
  /\ present' = present \ {deleting}
  /\ deleting' = None
  /\ Mint(1)
  /\ LET p == deleting
         state == IF p \in replicas \union Rooted THEN setupCardFor(p)
                  ELSE IF ~detectSource(p) THEN "not-detected"
                  ELSE IF probeSource(p) = "needed" THEN "needs-permission" ELSE "ready"
     IN tab' = [tab EXCEPT ![p] = Card(state, Fresh(1))] /\ unheard' = unheard \ {p}
  /\ UNCHANGED <<clock, disk, replicas, jobs, pass, happened>>

-----------------------------------------------------------------------------
(* What happens outside of the page.                                       *)

Outside ==
  /\ happened < MaxEvents
  /\ happened' = happened + 1
  /\ UNCHANGED <<clock, tokens, minted, deleting, tab>>

\* refreshEnabledSources reads the store and the registry once.
StartAutoRefresh ==
  /\ pass = {}
  /\ pass' = (present \union Rooted) \ replicas
  /\ Outside
  /\ UNCHANGED <<disk, present, replicas, jobs, unheard>>

RefreshNext(p) ==
  /\ p \in pass
  /\ pass' = pass \ {p}
  /\ jobs' = IF Active(p) THEN jobs ELSE [jobs EXCEPT ![p] = "active"]
  /\ unheard' = Overtaken(p)
  /\ UNCHANGED <<clock, tokens, minted, disk, present, replicas, deleting, tab, happened>>

\* A job ends; whether it has brought conversations is only sure if it was denied.
EndJob(p) ==
  /\ Active(p)
  /\ \E phase \in {"done", "failed", "denied"} \union (IF jobs[p] = "cancelling" THEN {"cancelled"} ELSE {}) :
       /\ jobs' = [jobs EXCEPT ![p] = phase]
       /\ present' \in {present} \union (IF phase = "denied" THEN {} ELSE {present \union {p}})
       /\ unheard' = IF present' # present /\ ~(phase = "done" /\ Polling(p))
                     THEN unheard \union {p} ELSE unheard
  /\ UNCHANGED <<clock, tokens, minted, disk, replicas, pass, deleting, tab, happened>>

\* The user installs or removes an app, or grants or revokes a permission.
DiskChanges(p) ==
  /\ disk' \in {[disk EXCEPT ![p] = d] : d \in Machine[p] \ {disk[p]}}
  /\ unheard' = unheard \union {p}
  /\ Outside
  /\ UNCHANGED <<present, replicas, jobs, pass>>

\* A paired device begins, or ceases, to send a source; what it has sent is
\* imported.
PeerSends(p) ==
  /\ \/ replicas' = replicas \union {p} /\ present' \in {present, present \union {p}}
     \/ p \in replicas /\ replicas' = replicas \ {p} /\ UNCHANGED present
  /\ unheard' = unheard \union {p}
  /\ Outside
  /\ UNCHANGED <<disk, jobs, pass>>

TimePasses ==
  /\ clock < MaxTime
  /\ clock' = clock + 1
  /\ UNCHANGED <<tokens, minted, disk, present, replicas, jobs, pass, deleting, tab, unheard, happened>>

SetupNext ==
  \/ handleSetup
  \/ checkSetupPOST
  \/ \E p \in Provider : handleSetupEnable(p)
  \/ \E p \in Provider : handleSetupRefresh(p)
  \/ \E p \in Provider : handleSetupStatus(p)
  \/ \E p \in Provider : handleSetupCancel(p)
  \/ \E p \in Provider : handleSetupRecheck(p)
  \/ \E p \in Provider : handleSetupDisable(p)
  \/ DeleteSourceRows
  \/ StartAutoRefresh
  \/ \E p \in Provider : RefreshNext(p)
  \/ \E p \in Provider : EndJob(p)
  \/ \E p \in Provider : DiskChanges(p)
  \/ \E p \in Provider : PeerSends(p)
  \/ TimePasses

SetupSpec == SetupInit /\ [][SetupNext]_setupVars

-----------------------------------------------------------------------------
\* The set of live tokens is bounded.
SetupTypeOK ==
  /\ Cardinality(DOMAIN tokens) <= TokenCap
  /\ DOMAIN tokens \subseteq 1 .. minted /\ minted \in 0 .. MaxMints
  /\ \A p \in Provider : disk[p] \in Machine[p]
  /\ deleting \in Provider \union {None}

\* Every control that the page shows works for an hour from when its card was
\* rendered, and no longer, unless as many tokens as may be live were minted since:
\* neither the expiry of others nor their eviction takes it.
ControlsWork ==
  \A p \in Provider : \A token \in {tab[p].token, tab[p].panel.token} \ {None} :
    valid(token) <=> clock <= token.at + TokenTTL /\ minted - token.id < TokenCap

\* What a card says is so: when the page no longer waits for a job, its card is what
\* a new page would show, unless something happened since that no answer told it
\* of (on the disk, between the devices, a job it did not see the end of, or one that
\* had imported something before it failed).
CardsAreCurrent ==
  \A p \in Provider :
    tab[p].state # "none" /\ ~Polling(p) /\ p \notin unheard => tab[p].state = setupCardFor(p)

\* The Setup page is as good as new: its controls work and its cards are current.
\* (internal/web/setup.go, setup_security.go, enable.go, refresh.go, disable.go.)
SetupPageHolds == ControlsWork /\ CardsAreCurrent
=============================================================================
