------------------------------ MODULE Settings ------------------------------
(***************************************************************************)
(* What the LLM and Backups tabs change: two blocks of one configuration   *)
(* file, the live LLM client, and the snapshot manager.  A save reads the  *)
(* whole file, sets its own block, renames the result into place and only  *)
(* then changes what is live; nothing makes two saves wait for each other. *)
(* Create, Prune and Restore use the manager they find, one at a time.     *)
(* Requests have passed the gate of the privileged POSTs (Setup has it).   *)
(***************************************************************************)
EXTENDS Naturals, FiniteSets, Absent

CONSTANTS
  Req,       \* requests at the two tabs
  Url,       \* endpoints
  Listing,   \* the models each endpoint lists when it answers
  Form,      \* LLM forms: url, embed, chat (None: the select was disabled), key, clear
  Plan,      \* Backups forms: dir and keep, the tiers
  Default,   \* the built-in configuration
  Stored,    \* configuration files found at the first start
  EnvKeys,   \* what MSGBROWSE_LLM_API_KEY may be: a key, or None
  Shell,     \* "serve" or "desktop", which makes its own holder
  MaxAsks, MaxRestarts \* bounds: saves and probes, and restarts

Off   == "off"  \* an empty field
Field == {"embed", "chat"}

ASSUME SettingsAssumption ==
  /\ Shell \in {"serve", "desktop"}
  /\ \A u \in Url : None \notin Listing[u]
  /\ \A form \in Form : form.key \notin EnvKeys

VARIABLES
  envKey,     \* the environment's key
  file,       \* the llm and backups blocks, each None when absent
  live,       \* the holder's settings
  conf,       \* cfg.Backups in memory
  mgr,        \* Server.backupMgr: its number, and what it was built from
  busy,       \* managers with an operation in flight
  inFlight,   \* Server.backupInFlight
  req,        \* each request
  shown,       \* the endpoint and the models on the page it got, if that reports an LLM save
  asks, restarts, \* what the bounds count
  overlapped  \* history: two saves have been under way at once since the start

settingsVars == <<envKey, file, live, conf, mgr, busy, inFlight, req, shown, asks, restarts, overlapped>>
backupsLive  == <<conf, mgr, busy, inFlight>>

\* The environment overrides the file.  The desktop's holder does not say so.
Boot(f) ==
  LET block == IF f.llm = None THEN Default.llm ELSE f.llm
  IN  [url |-> block.url, embed |-> block.embed, chat |-> block.chat,
       key |-> IF envKey = None THEN block.key ELSE envKey,
       env |-> Shell = "serve" /\ envKey # None]

BootPlan(f) == IF f.backups = None THEN Default.backups ELSE f.backups

NoReq  == [at |-> "free", op |-> None, form |-> None, cur |-> None, want |-> None,
           models |-> None, doc |-> None]
NoPage == [url |-> None, models |-> None]

SettingsInit ==
  /\ envKey \in EnvKeys /\ file \in Stored
  /\ live = Boot(file) /\ conf = BootPlan(file)
  /\ mgr = [id |-> 1, plan |-> conf]
  /\ busy = {} /\ inFlight = FALSE
  /\ req = [r \in Req |-> NoReq] /\ shown = [r \in Req |-> NoPage]
  /\ asks = 0 /\ restarts = 0 /\ overlapped = FALSE

Stands(r, place) == req[r].at = place
Moves(r, place) == req' = [req EXCEPT ![r].at = place]
Answer(r, content) ==
  /\ req' = [req EXCEPT ![r] = NoReq]
  /\ shown' = [shown EXCEPT ![r] = content]
Arrives(r, request) ==
  /\ Stands(r, "free") /\ asks < MaxAsks
  /\ asks' = asks + 1
  /\ req' = [req EXCEPT ![r] = request]

Saves(q) == q.op \in {"llm", "backups"}
Meets(r) == overlapped' = (overlapped \/ \E q \in Req \ {r} : Saves(req[q]))

----------------------------------------------------------------------------
(* The LLM tab *)

ModelFromForm(form, cur, f) == IF form[f] = None THEN cur[f] ELSE form[f]

\* Mutant: without a listing every name is accepted.
ModelAllowedUnlisted(m, current, models) == m \in {Off, current} \/ models = None \/ m \in models

ModelAllowed(m, current, models) == m \in {Off, current} \/ (models # None /\ m \in models)

KeepsKey(form) == ~form.clear /\ form.key = Off

\* A blank key field keeps the key, and where it came from.
Wanted(form, cur) ==
  [url   |-> form.url,
   embed |-> ModelFromForm(form, cur, "embed"),
   chat  |-> ModelFromForm(form, cur, "chat"),
   key   |-> IF form.clear THEN Off ELSE IF KeepsKey(form) THEN cur.key ELSE form.key,
   env   |-> KeepsKey(form) /\ cur.env]

\* A disabled select, when the listing fails, is not supported or is empty.
Lists(client) == {None} \union ({Listing[client.url]} \ {{}})

\* handleSettingsLLMSave, up to the listing.
AskSave(r, form) ==
  /\ Arrives(r, [NoReq EXCEPT !.at = "list", !.op = "llm", !.form = form, !.cur = live,
                            !.want = Wanted(form, live)])
  /\ Meets(r)
  /\ UNCHANGED <<envKey, file, live, backupsLive, shown, restarts>>

\* Test tries the endpoint that was entered; nothing is saved and nothing swapped.
AskTest(r) ==
  /\ Arrives(r, [NoReq EXCEPT !.at = "test", !.op = "probe"])
  /\ UNCHANGED <<envKey, file, live, backupsLive, shown, restarts, overlapped>>

TestLLM(r) ==
  /\ Stands(r, "test")
  /\ Moves(r, "render")
  /\ UNCHANGED <<envKey, file, live, backupsLive, shown, asks, restarts, overlapped>>

\* Refresh lists the models of the endpoint that is live, whatever was entered.
AskModels(r) ==
  /\ Arrives(r, [NoReq EXCEPT !.at = "render", !.op = "probe"])
  /\ UNCHANGED <<envKey, file, live, backupsLive, shown, restarts, overlapped>>

Refuses(q, models) ==
  q.want.url = Off \/ \E f \in Field : ~ModelAllowed(q.want[f], q.cur[f], models)

\* The accept-list is what the endpoint that is live now lists.
Validate(r) ==
  /\ Stands(r, "list")
  /\ \E models \in Lists(live) :
       \/ Refuses(req[r], models) /\ Answer(r, NoPage)
       \/ /\ ~Refuses(req[r], models)
          /\ req' = [req EXCEPT ![r].at = "read", ![r].models = models]
          /\ UNCHANGED shown
  /\ UNCHANGED <<envKey, file, live, backupsLive, asks, restarts, overlapped>>

\* SaveLLM and SaveBackups: what either reads is the whole file.
ReadFile(r) ==
  /\ Stands(r, "read")
  /\ req' = [req EXCEPT ![r].at = "write", ![r].doc = file]
  /\ UNCHANGED <<envKey, file, live, backupsLive, shown, asks, restarts, overlapped>>

\* Mutant: the key that is in use is written.
KeptLive(want) == [url |-> want.url, embed |-> want.embed, chat |-> want.chat, key |-> want.key]

\* A key of the environment is written blank.
Kept(want) == [url |-> want.url, embed |-> want.embed, chat |-> want.chat,
               key |-> IF want.env THEN Off ELSE want.key]

Merged(q) == IF q.op = "llm" THEN [q.doc EXCEPT !.llm = Kept(q.want)]
                             ELSE [q.doc EXCEPT !.backups = q.want]

\* atomicWrite.
WriteFile(r) ==
  /\ Stands(r, "write")
  /\ file' = Merged(req[r])
  /\ Moves(r, IF req[r].op = "llm" THEN "swap" ELSE "dir")
  /\ UNCHANGED <<envKey, live, backupsLive, shown, asks, restarts, overlapped>>

\* Mutant: a save that could not be written takes effect all the same.
SaveFailsLive(r) ==
  /\ req[r].at \in {"read", "write"}
  /\ Moves(r, IF req[r].op = "llm" THEN "swap" ELSE "dir")
  /\ UNCHANGED <<envKey, file, live, backupsLive, shown, asks, restarts, overlapped>>

SaveFails(r) ==
  /\ req[r].at \in {"read", "write"}
  /\ Answer(r, NoPage)
  /\ UNCHANGED <<envKey, file, live, backupsLive, asks, restarts, overlapped>>

Swap(r) ==
  /\ Stands(r, "swap")
  /\ live' = req[r].want
  /\ Moves(r, "applied")
  /\ UNCHANGED <<envKey, file, backupsLive, shown, asks, restarts, overlapped>>

\* The listing is carried over when it is still of the endpoint now live.
StillDescribes(q, applied) == applied.url = q.cur.url /\ KeepsKey(q.form)

Applied(r) ==
  /\ Stands(r, "applied")
  /\ \/ /\ StillDescribes(req[r], live)
        /\ Answer(r, [url |-> live.url, models |-> req[r].models])
     \/ /\ ~StillDescribes(req[r], live)
        /\ req' = [req EXCEPT ![r].at = "render", ![r].want = live]
        /\ UNCHANGED shown
  /\ UNCHANGED <<envKey, file, live, backupsLive, asks, restarts, overlapped>>

\* renderLLMSettings, with a listing of the endpoint that is live.
Render(r) ==
  /\ Stands(r, "render")
  /\ \E models \in Lists(live) :
       Answer(r, IF req[r].op = "llm" THEN [url |-> req[r].want.url, models |-> models] ELSE NoPage)
  /\ UNCHANGED <<envKey, file, live, backupsLive, asks, restarts, overlapped>>

----------------------------------------------------------------------------
(* The Backups tab *)

\* handleBackupsConfigSave: the directory takes a file, or nothing is saved.
AskBackups(r, plan) ==
  /\ Arrives(r, [NoReq EXCEPT !.at = "read", !.op = "backups", !.want = plan])
  /\ Meets(r)
  /\ UNCHANGED <<envKey, file, live, backupsLive, shown, restarts>>

SetDir(r) ==
  /\ Stands(r, "dir")
  /\ conf' = [conf EXCEPT !.dir = req[r].want.dir]
  /\ Moves(r, "keep")
  /\ UNCHANGED <<envKey, file, live, mgr, busy, inFlight, shown, asks, restarts, overlapped>>

SetKeep(r) ==
  /\ Stands(r, "keep")
  /\ conf' = [conf EXCEPT !.keep = req[r].want.keep]
  /\ Moves(r, "mgr")
  /\ UNCHANGED <<envKey, file, live, mgr, busy, inFlight, shown, asks, restarts, overlapped>>

\* A new manager, which knows nothing of what the old one is doing.
SetManager(r) ==
  /\ Stands(r, "mgr")
  /\ mgr' = [id |-> mgr.id + 1, plan |-> conf]
  /\ Answer(r, NoPage)
  /\ UNCHANGED <<envKey, file, live, conf, busy, inFlight, asks, restarts, overlapped>>

\* Mutant: the manager's own guard is thought to be enough.
AskBackupUngated(r) ==
  /\ Stands(r, "free")
  /\ inFlight' = TRUE
  /\ req' = [req EXCEPT ![r].at = "call", ![r].op = "backup"]
  /\ UNCHANGED <<envKey, file, live, conf, mgr, busy, shown, asks, restarts, overlapped>>

\* Create, Prune, and Restore once it is confirmed.
AskBackup(r) ==
  /\ Stands(r, "free")
  /\ \/ /\ ~inFlight /\ inFlight' = TRUE
        /\ req' = [req EXCEPT ![r].at = "call", ![r].op = "backup"]
        /\ UNCHANGED shown
     \/ /\ inFlight
        /\ Answer(r, NoPage)
        /\ UNCHANGED inFlight
  /\ UNCHANGED <<envKey, file, live, conf, mgr, busy, asks, restarts, overlapped>>

\* The manager takes one operation at a time.
Call(r) ==
  /\ Stands(r, "call")
  /\ \/ /\ mgr.id \notin busy /\ busy' = busy \union {mgr.id}
        /\ req' = [req EXCEPT ![r].at = "working", ![r].want = mgr]
        /\ UNCHANGED <<inFlight, shown>>
     \/ /\ mgr.id \in busy /\ inFlight' = FALSE
        /\ Answer(r, NoPage)
        /\ UNCHANGED busy
  /\ UNCHANGED <<envKey, file, live, conf, mgr, asks, restarts, overlapped>>

Worked(r) ==
  /\ Stands(r, "working")
  /\ busy' = busy \ {req[r].want.id} /\ inFlight' = FALSE
  /\ Answer(r, NoPage)
  /\ UNCHANGED <<envKey, file, live, conf, mgr, asks, restarts, overlapped>>

----------------------------------------------------------------------------
\* The server ends, at any place, and is started again.
Relaunch ==
  /\ restarts < MaxRestarts /\ restarts' = restarts + 1
  /\ live' = Boot(file) /\ conf' = BootPlan(file)
  /\ mgr' = [id |-> 1, plan |-> BootPlan(file)]
  /\ busy' = {} /\ inFlight' = FALSE
  /\ req' = [r \in Req |-> NoReq] /\ shown' = [r \in Req |-> NoPage]
  /\ overlapped' = FALSE
  /\ UNCHANGED <<envKey, file, asks>>

SettingsNext ==
  \/ \E r \in Req :
       \/ \E form \in Form : AskSave(r, form)
       \/ AskTest(r) \/ TestLLM(r) \/ AskModels(r)
       \/ Validate(r) \/ ReadFile(r) \/ WriteFile(r) \/ SaveFails(r)
       \/ Swap(r) \/ Applied(r) \/ Render(r)
       \/ \E plan \in Plan : AskBackups(r, plan)
       \/ SetDir(r) \/ SetKeep(r) \/ SetManager(r)
       \/ AskBackup(r) \/ Call(r) \/ Worked(r)
  \/ Relaunch

SettingsSpec == SettingsInit /\ [][SettingsNext]_settingsVars

----------------------------------------------------------------------------
(* Properties *)

SettingsTypeOK ==
  /\ live.url \in Url /\ live.env \in BOOLEAN
  /\ busy \subseteq 1 .. mgr.id /\ inFlight \in BOOLEAN
  /\ \A r \in Req : req[r].at \in {"free", "list", "test", "render", "read", "write", "swap", "applied",
                                   "dir", "keep", "mgr", "call", "working"}

\* A restart would change nothing: between saves, whatever failed and wherever
\* the server died, the client, the configuration in memory and the manager are
\* those that the file would give, unless two saves were under way at once.  Of
\* the key only where the environment has none, which it would bring back.
SettingsAgree ==
  (\A r \in Req : ~Saves(req[r])) /\ ~overlapped =>
    LET again == Boot(file)
    IN  /\ live.url = again.url /\ \A f \in Field : live[f] = again[f]
        /\ envKey = None => live.key = again.key
        /\ conf = BootPlan(file) /\ mgr.plan = conf

\* The key of the environment is used and never written to the file.
EnvKeyStaysOut == envKey # None /\ file.llm # None => file.llm.key # envKey

\* A model that is in use was configured at the first start or listed by an
\* endpoint, also when a save could not list any; and the page that reports a
\* save offers the models of the endpoint now configured, unless saves met.
ModelsAreOffered ==
  /\ \A f \in Field : live[f] \in {Off} \union (UNION {Listing[u] : u \in Url})
                                  \union {Boot(s)[f] : s \in Stored}
  /\ \A r \in Req : shown[r].models # None /\ ~overlapped
       => shown[r].models = Listing[shown[r].url]

\* The server has one snapshot operation under way at a time, also across a save
\* that replaces the manager.
OneBackupAtATime == Cardinality({r \in Req : Stands(r, "working")}) <= 1
=============================================================================
