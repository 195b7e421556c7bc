---------------------------- MODULE ServerProofs   ---------------------------
(***************************************************************************)
(* Proofs about what the server keeps: the settings, for any number of     *)
(* requests, endpoints, models, forms and plans; the setup page, for any   *)
(* providers; and the schema, for any builds, processes and inherited      *)
(* databases; for every bound.                                             *)
(***************************************************************************)
EXTENDS Settings, Setup, Migrations, FiniteSetTheorems, TLAPS

Places == {"free", "list", "test", "render", "read", "write", "swap", "applied",
           "dir", "keep", "mgr", "call", "working"}

\* The requests are records, whatever they carry.
Shaped ==
  /\ DOMAIN req = Req
  /\ \A r \in Req : DOMAIN req[r] = {"at", "op", "form", "cur", "want", "models", "doc"}

\* An operation on snapshots, from its claim to its end, holds the guard.
Operates(r) == req[r].at \in {"call", "working"}

Guarded ==
  /\ inFlight \in BOOLEAN
  /\ \A r \in Req : Operates(r) => inFlight
  /\ \A r, q \in Req : Operates(r) /\ Operates(q) => r = q

\* A key that is the environment's is known to be.
Flagged(client) == envKey # None /\ client.key = envKey => client.env

\* A file, or what a save has read of it, does not have the key.
Clean(doc) ==
  /\ DOMAIN doc = {"llm", "backups"}
  /\ envKey # None /\ doc.llm # None => doc.llm.key # envKey

Unwritten ==
  /\ envKey \in EnvKeys
  /\ Clean(file) /\ Flagged(live)
  /\ \A r \in Req :
       /\ req[r].at \in {"list", "read", "write", "swap"} /\ req[r].op = "llm" => Flagged(req[r].want)
       /\ req[r].at = "swap" => req[r].op = "llm"
       /\ req[r].at = "write" => Clean(req[r].doc)

\* What may be found at the first start: a file that has not the key already.
\* An empty variable of the environment is none.
StartsClean ==
  /\ Off \notin EnvKeys
  /\ \A s \in Stored :
       /\ DOMAIN s = {"llm", "backups"}
       /\ s.llm # None => s.llm.key \notin EnvKeys

-----------------------------------------------------------------------------
(* The shape of requests, and the guard.                                   *)

LEMMA NoReqShaped ==
  DOMAIN NoReq = {"at", "op", "form", "cur", "want", "models", "doc"}
  BY DEF NoReq

LEMMA ShapedAtFirst == ASSUME SettingsInit PROVE Shaped /\ Guarded
<1>1. Shaped
  BY NoReqShaped DEF SettingsInit, Shaped
<1>2. Guarded
  BY DEF SettingsInit, Guarded, Operates, NoReq
<1> QED
  BY <1>1, <1>2

LEMMA OneStep ==
  ASSUME Shaped, Guarded, [SettingsNext]_settingsVars
  PROVE  Shaped' /\ Guarded'
<1> USE DEF Shaped, Guarded, Operates, NoReq, Stands, Moves, Answer, Arrives, backupsLive
<1>1. ASSUME NEW r \in Req, NEW form \in Form, AskSave(r, form) PROVE Shaped' /\ Guarded'
  BY <1>1 DEF AskSave
<1>2. ASSUME NEW r \in Req, AskTest(r) \/ TestLLM(r) \/ AskModels(r) PROVE Shaped' /\ Guarded'
  <2>1. CASE AskTest(r)
    BY <2>1 DEF AskTest
  <2>2. CASE TestLLM(r)
    BY <2>2 DEF TestLLM
  <2>3. CASE AskModels(r)
    BY <2>3 DEF AskModels
  <2> QED
    BY <1>2, <2>1, <2>2, <2>3
<1>3. ASSUME NEW r \in Req, Validate(r) PROVE Shaped' /\ Guarded'
  BY <1>3 DEF Validate
<1>4. ASSUME NEW r \in Req, ReadFile(r) \/ WriteFile(r) \/ SaveFails(r) PROVE Shaped' /\ Guarded'
  BY <1>4 DEF ReadFile, WriteFile, SaveFails
<1>5. ASSUME NEW r \in Req, Swap(r) \/ Applied(r) \/ Render(r) PROVE Shaped' /\ Guarded'
  BY <1>5 DEF Swap, Applied, Render
<1>6. ASSUME NEW r \in Req, NEW plan \in Plan, AskBackups(r, plan) PROVE Shaped' /\ Guarded'
  BY <1>6 DEF AskBackups
<1>7. ASSUME NEW r \in Req, SetDir(r) \/ SetKeep(r) \/ SetManager(r) PROVE Shaped' /\ Guarded'
  BY <1>7 DEF SetDir, SetKeep, SetManager
<1>8. ASSUME NEW r \in Req, AskBackup(r) PROVE Shaped' /\ Guarded'
  <2>1. Shaped'
    BY <1>8 DEF AskBackup
  <2>2. CASE inFlight
    BY <1>8, <2>1, <2>2 DEF AskBackup
  <2>3. CASE ~inFlight
    <3>1. \A q \in Req : ~Operates(q)
      BY <2>3
    <3>2. inFlight' /\ \A q \in Req : Operates(q)' => q = r
      BY <1>8, <2>3, <3>1 DEF AskBackup
    <3> QED
      BY <2>1, <3>2
  <2> QED
    BY <2>2, <2>3
<1>9. ASSUME NEW r \in Req, Call(r) PROVE Shaped' /\ Guarded'
  <2>1. Shaped'
    BY <1>9 DEF Call
  <2>2. \A q \in Req : Operates(q) => q = r
    BY <1>9 DEF Call
  <2>3. \A q \in Req \ {r} : req'[q] = req[q]
    BY <1>9 DEF Call
  <2>4. inFlight' \in BOOLEAN /\ (Operates(r)' => inFlight')
    <3>1. CASE mgr.id \in busy
      <4>1. inFlight' = FALSE /\ req' = [req EXCEPT ![r] = NoReq]
        BY <1>9, <3>1 DEF Call
      <4>2. req'[r].at = "free"
        BY <4>1
      <4> QED
        BY <4>1, <4>2
    <3>2. CASE mgr.id \notin busy
      BY <1>9, <3>2 DEF Call
    <3> QED
      BY <3>1, <3>2
  <2> QED
    BY <2>1, <2>2, <2>3, <2>4
<1>10. ASSUME NEW r \in Req, Worked(r) PROVE Shaped' /\ Guarded'
  BY <1>10 DEF Worked
<1>11. CASE Relaunch
  BY <1>11 DEF Relaunch
<1>12. CASE UNCHANGED settingsVars
  BY <1>12 DEF settingsVars
<1> QED
  BY <1>1, <1>2, <1>3, <1>4, <1>5, <1>6, <1>7, <1>8, <1>9, <1>10, <1>11, <1>12 DEF SettingsNext

LEMMA AtMostOne ==
  ASSUME NEW S, \A x, y \in S : x = y
  PROVE  Cardinality(S) <= 1
<1>1. CASE S = {}
  BY <1>1, FS_EmptySet
<1>2. CASE S # {}
  <2>1. PICK x \in S : TRUE
    BY <1>2
  <2>2. S = {x}
    BY <2>1
  <2> QED
    BY <2>2, FS_Singleton
<1> QED
  BY <1>1, <1>2

\* One snapshot operation at a time, although a save gives the server a manager
\* that knows nothing of the old one's.  (internal/web/backups.go, backupInFlight.)
THEOREM OneOperation == SettingsSpec => []OneBackupAtATime
<1>1. SettingsInit => Shaped /\ Guarded
  BY ShapedAtFirst
<1>2. (Shaped /\ Guarded) /\ [SettingsNext]_settingsVars => (Shaped /\ Guarded)'
  BY OneStep
<1>3. Guarded => OneBackupAtATime
  <2> SUFFICES ASSUME Guarded PROVE OneBackupAtATime
    OBVIOUS
  <2> DEFINE working == {r \in Req : Stands(r, "working")}
  <2>1. \A x, y \in working : x = y
    BY DEF Guarded, Operates, Stands
  <2> QED
    BY <2>1, AtMostOne DEF OneBackupAtATime
<1> QED
  BY <1>1, <1>2, <1>3, PTL DEF SettingsSpec

-----------------------------------------------------------------------------
(* The key of the environment, in serve.                                   *)

LEMMA BootFlagged ==
  ASSUME Shell = "serve", NEW f PROVE Flagged(Boot(f))
  BY DEF Flagged, Boot

LEMMA WantedFlagged ==
  ASSUME StartsClean, envKey \in EnvKeys, NEW form \in Form, Flagged(live)
  PROVE  Flagged(Wanted(form, live))
  BY SettingsAssumption DEF StartsClean, Flagged, Wanted, KeepsKey

LEMMA MergedClean ==
  ASSUME StartsClean, envKey \in EnvKeys, NEW q, Clean(q.doc), q.op = "llm" => Flagged(q.want)
  PROVE  Clean(Merged(q))
<1>1. CASE q.op = "llm"
  <2>1. envKey # None => Kept(q.want).key # envKey
    BY <1>1 DEF Kept, Flagged, StartsClean
  <2> QED
    BY <1>1, <2>1 DEF Clean, Merged
<1>2. CASE q.op # "llm"
  BY <1>2 DEF Clean, Merged
<1> QED
  BY <1>1, <1>2

LEMMA UnwrittenAtFirst ==
  ASSUME SettingsInit, StartsClean, Shell = "serve" PROVE Unwritten
<1>1. Clean(file) /\ envKey \in EnvKeys
  BY DEF SettingsInit, StartsClean, Clean
<1>2. Flagged(live)
  BY BootFlagged DEF SettingsInit
<1>3. \A r \in Req : req[r] = NoReq
  BY DEF SettingsInit
<1>4. NoReq.at = "free"
  BY DEF NoReq
<1> QED
  BY <1>1, <1>2, <1>3, <1>4 DEF Unwritten

LEMMA StaysUnwritten ==
  ASSUME Shaped, Unwritten, [SettingsNext]_settingsVars, StartsClean, Shell = "serve"
  PROVE  Unwritten'
<1> USE DEF Shaped, Unwritten, Clean, Flagged, NoReq, Stands, Moves, Answer, Arrives, backupsLive
<1>1. ASSUME NEW r \in Req, NEW form \in Form, AskSave(r, form) PROVE Unwritten'
  BY <1>1, WantedFlagged DEF AskSave
<1>2. ASSUME NEW r \in Req, AskTest(r) PROVE Unwritten'
  BY <1>2 DEF AskTest
<1>3. ASSUME NEW r \in Req, TestLLM(r) PROVE Unwritten'
  BY <1>3 DEF TestLLM
<1>4. ASSUME NEW r \in Req, AskModels(r) PROVE Unwritten'
  BY <1>4 DEF AskModels
<1>5. ASSUME NEW r \in Req, Validate(r) PROVE Unwritten'
  BY <1>5 DEF Validate
<1>6. ASSUME NEW r \in Req, ReadFile(r) PROVE Unwritten'
  BY <1>6 DEF ReadFile
<1>7. ASSUME NEW r \in Req, WriteFile(r) PROVE Unwritten'
  BY <1>7, MergedClean DEF WriteFile
<1>8. ASSUME NEW r \in Req, SaveFails(r) PROVE Unwritten'
  BY <1>8 DEF SaveFails
<1>9. ASSUME NEW r \in Req, Swap(r) PROVE Unwritten'
  BY <1>9 DEF Swap
<1>10. ASSUME NEW r \in Req, Applied(r) PROVE Unwritten'
  BY <1>10 DEF Applied
<1>11. ASSUME NEW r \in Req, Render(r) PROVE Unwritten'
  BY <1>11 DEF Render
<1>12. ASSUME NEW r \in Req, NEW plan \in Plan, AskBackups(r, plan) PROVE Unwritten'
  BY <1>12 DEF AskBackups
<1>13. ASSUME NEW r \in Req, SetDir(r) PROVE Unwritten'
  BY <1>13 DEF SetDir
<1>14. ASSUME NEW r \in Req, SetKeep(r) PROVE Unwritten'
  BY <1>14 DEF SetKeep
<1>15. ASSUME NEW r \in Req, SetManager(r) PROVE Unwritten'
  BY <1>15 DEF SetManager
<1>16. ASSUME NEW r \in Req, AskBackup(r) PROVE Unwritten'
  BY <1>16 DEF AskBackup
<1>17. ASSUME NEW r \in Req, Call(r) PROVE Unwritten'
  BY <1>17 DEF Call
<1>18. ASSUME NEW r \in Req, Worked(r) PROVE Unwritten'
  BY <1>18 DEF Worked
<1>19. CASE Relaunch
  BY <1>19, BootFlagged DEF Relaunch
<1>20. CASE UNCHANGED settingsVars
  BY <1>20 DEF settingsVars
<1> QED
  BY <1>1, <1>2, <1>3, <1>4, <1>5, <1>6, <1>7, <1>8, <1>9, <1>10, <1>11, <1>12, <1>13, <1>14, <1>15, <1>16, <1>17, <1>18, <1>19, <1>20 DEF SettingsNext

\* What the environment says is never in the file, in `msgbrowse serve`, if it was
\* not there to begin with.  The desktop app's holder forgets where the key came
\* from, and the key is then written.  (llmsettings.go, APIKeyFromEnv.)
THEOREM EnvKeyUnwritten ==
  ASSUME Shell = "serve", StartsClean PROVE SettingsSpec => []EnvKeyStaysOut
<1>1. SettingsInit => Shaped /\ Guarded /\ Unwritten
  BY ShapedAtFirst, UnwrittenAtFirst
<1>2. (Shaped /\ Guarded /\ Unwritten) /\ [SettingsNext]_settingsVars => (Shaped /\ Guarded /\ Unwritten)'
  BY OneStep, StaysUnwritten
<1>3. Shaped /\ Guarded /\ Unwritten => EnvKeyStaysOut
  BY DEF Unwritten, Clean, EnvKeyStaysOut
<1> QED
  BY <1>1, <1>2, <1>3, PTL DEF SettingsSpec

-----------------------------------------------------------------------------
(* What a restart would give.                                              *)

\* None is no block, and no kind of save; plans have two fields, files two blocks.
Blocks(s) ==
  /\ DOMAIN s = {"llm", "backups"}
  /\ s.backups # None => DOMAIN s.backups = {"dir", "keep"}

StartsWhole ==
  /\ None \notin {"llm", "backups"}
  /\ \A u, e, c, k : [url |-> u, embed |-> e, chat |-> c, key |-> k] # None
  /\ \A plan \in Plan : plan # None /\ plan = [dir |-> plan.dir, keep |-> plan.keep]
  /\ DOMAIN Default.backups = {"dir", "keep"}
  /\ \A s \in Stored : Blocks(s)

\* What requests carry, whether or not saves have met.
Carries(q) ==
  /\ q.at \in {"list", "read", "write", "swap"} /\ q.op = "llm" => (q.want.env => envKey # None)
  /\ q.at \in {"read", "write"} => Saves(q)
  /\ q.at \in {"list", "swap"} => q.op = "llm"
  /\ q.at \in {"dir", "keep", "mgr"} => q.op = "backups"
  /\ q.at \in {"read", "write", "dir", "keep", "mgr"} /\ q.op = "backups" => q.want \in Plan
  /\ q.at = "write" => Blocks(q.doc)

Carried ==
  /\ Blocks(file) /\ DOMAIN conf = {"dir", "keep"}
  /\ live.env => envKey # None
  /\ \A r \in Req : Carries(req[r])

\* The client is what the file would give.
ClientAgrees ==
  LET again == Boot(file)
  IN  /\ live.url = again.url /\ \A f \in Field : live[f] = again[f]
      /\ envKey = None => live.key = again.key

Replaces(r) == req[r].at \in {"dir", "keep", "mgr"}

\* One save at a time: how far it has come, from the file to the server.
Staged ==
  ~overlapped =>
    /\ \A r, q \in Req : Saves(req[r]) /\ Saves(req[q]) => r = q
    /\ \A r \in Req : Stands(r, "write") => req[r].doc = file
    /\ (\A r \in Req : ~Stands(r, "swap")) => ClientAgrees
    /\ \A r \in Req : Stands(r, "swap") => file.llm = Kept(req[r].want)
    /\ (\A r \in Req : ~Replaces(r)) => conf = BootPlan(file) /\ mgr.plan = conf
    /\ \A r \in Req : Replaces(r) => file.backups = req[r].want
    /\ \A r \in Req : Stands(r, "keep") => conf.dir = req[r].want.dir
    /\ \A r \in Req : Stands(r, "mgr") => conf = req[r].want

LEMMA CarriedAtFirst ==
  ASSUME SettingsInit, StartsWhole PROVE Carried /\ Staged
<1>1. /\ file \in Stored /\ live = Boot(file) /\ conf = BootPlan(file) /\ mgr.plan = conf
      /\ \A r \in Req : req[r] = NoReq
  BY DEF SettingsInit
<1>2. NoReq.at = "free" /\ NoReq.op = None /\ ~Saves(NoReq)
  BY DEF NoReq, Saves, StartsWhole
<1>3. Carried
  BY <1>1, <1>2 DEF Carried, Carries, Blocks, StartsWhole, Boot, BootPlan
<1>4. Staged
  BY <1>1, <1>2 DEF Staged, ClientAgrees, Stands, Replaces
<1> QED
  BY <1>3, <1>4

LEMMA StaysCarried ==
  ASSUME Shaped, Carried, [SettingsNext]_settingsVars, StartsWhole
  PROVE  Carried'
<1> USE DEF Shaped, Carried, Carries, Saves, NoReq, Stands, Moves, Answer, Arrives, backupsLive
<1>1. ASSUME NEW r \in Req, NEW form \in Form, AskSave(r, form) PROVE Carried'
  <2>1. Wanted(form, live).env => envKey # None
    BY DEF Wanted
  <2> QED
    BY <1>1, <2>1 DEF AskSave
<1>2. ASSUME NEW r \in Req, AskTest(r) PROVE Carried'
  BY <1>2 DEF AskTest, StartsWhole
<1>3. ASSUME NEW r \in Req, TestLLM(r) PROVE Carried'
  BY <1>3 DEF TestLLM
<1>4. ASSUME NEW r \in Req, AskModels(r) PROVE Carried'
  BY <1>4 DEF AskModels, StartsWhole
<1>5. ASSUME NEW r \in Req, Validate(r) PROVE Carried'
  BY <1>5 DEF Validate
<1>6. ASSUME NEW r \in Req, ReadFile(r) PROVE Carried'
  BY <1>6 DEF ReadFile
<1>7. ASSUME NEW r \in Req, WriteFile(r) PROVE Carried'
  BY <1>7 DEF WriteFile, Merged, Blocks, StartsWhole
<1>8. ASSUME NEW r \in Req, SaveFails(r) PROVE Carried'
  BY <1>8 DEF SaveFails
<1>9. ASSUME NEW r \in Req, Swap(r) PROVE Carried'
  BY <1>9 DEF Swap
<1>10. ASSUME NEW r \in Req, Applied(r) PROVE Carried'
  BY <1>10 DEF Applied
<1>11. ASSUME NEW r \in Req, Render(r) PROVE Carried'
  BY <1>11 DEF Render
<1>12. ASSUME NEW r \in Req, NEW plan \in Plan, AskBackups(r, plan) PROVE Carried'
  BY <1>12 DEF AskBackups
<1>13. ASSUME NEW r \in Req, SetDir(r) \/ SetKeep(r) PROVE Carried'
  BY <1>13 DEF SetDir, SetKeep
<1>14. ASSUME NEW r \in Req, SetManager(r) PROVE Carried'
  BY <1>14 DEF SetManager
<1>15. ASSUME NEW r \in Req, AskBackup(r) PROVE Carried'
  BY <1>15 DEF AskBackup
<1>16. ASSUME NEW r \in Req, Call(r) PROVE Carried'
  BY <1>16 DEF Call
<1>17. ASSUME NEW r \in Req, Worked(r) PROVE Carried'
  BY <1>17 DEF Worked
<1>18. CASE Relaunch
  BY <1>18 DEF Relaunch, Boot, BootPlan, Blocks, StartsWhole
<1>19. CASE UNCHANGED settingsVars
  BY <1>19 DEF settingsVars
<1> QED
  BY <1>1, <1>2, <1>3, <1>4, <1>5, <1>6, <1>7, <1>8, <1>9, <1>10, <1>11, <1>12, <1>13, <1>14, <1>15, <1>16,
     <1>17, <1>18, <1>19 DEF SettingsNext

\* A step of one request that changes neither the file nor what is live, and
\* neither begins nor reaches a place at which they differ.
LEMMA QuietStaged ==
  ASSUME Shaped, Staged, NEW r \in Req, UNCHANGED <<file, live, conf, mgr, envKey>>,
         \A q \in Req \ {r} : req'[q] = req[q],
         overlapped => overlapped',
         ~overlapped' /\ Saves(req'[r]) => Saves(req[r]) \/ \A q \in Req \ {r} : ~Saves(req[q]),
         ~overlapped' /\ Stands(r, "write")' => req'[r].doc = file,
         Stands(r, "swap")' <=> Stands(r, "swap"), Replaces(r)' <=> Replaces(r),
         Stands(r, "swap") \/ Replaces(r) => req'[r] = req[r]
  PROVE  Staged'
<1> SUFFICES ASSUME ~overlapped'
             PROVE  /\ \A q, t \in Req : Saves(req'[q]) /\ Saves(req'[t]) => q = t
                    /\ \A q \in Req : Stands(q, "write")' => req'[q].doc = file'
                    /\ (\A q \in Req : ~Stands(q, "swap")') => ClientAgrees'
                    /\ \A q \in Req : Stands(q, "swap")' => file'.llm = Kept(req'[q].want)
                    /\ (\A q \in Req : ~Replaces(q)') => conf' = BootPlan(file)' /\ mgr'.plan = conf'
                    /\ \A q \in Req : Replaces(q)' => file'.backups = req'[q].want
                    /\ \A q \in Req : Stands(q, "keep")' => conf'.dir = req'[q].want.dir
                    /\ \A q \in Req : Stands(q, "mgr")' => conf' = req'[q].want
  BY DEF Staged, Saves, Kept
<1> USE DEF Staged, Stands, Replaces
<1>1. ASSUME NEW q \in Req, NEW t \in Req, Saves(req'[q]), Saves(req'[t])
      PROVE  q = t
  BY <1>1
<1>2. (\A q \in Req : ~Stands(q, "swap")') => ClientAgrees'
  BY DEF ClientAgrees, Boot
<1>3. \A q \in Req : Stands(q, "swap")' => file'.llm = Kept(req'[q].want)
  BY DEF Kept
<1>4. \A q \in Req : Stands(q, "write")' => req'[q].doc = file'
  OBVIOUS
<1>5. (\A q \in Req : ~Replaces(q)') => conf' = BootPlan(file)' /\ mgr'.plan = conf'
  BY DEF BootPlan
<1>6. \A q \in Req : Replaces(q)' => file'.backups = req'[q].want
  OBVIOUS
<1>7. /\ \A q \in Req : Stands(q, "keep")' => conf'.dir = req'[q].want.dir
      /\ \A q \in Req : Stands(q, "mgr")' => conf' = req'[q].want
  OBVIOUS
<1> QED
  BY <1>1, <1>2, <1>3, <1>4, <1>5, <1>6, <1>7

\* The steps of a save that change something.
LEMMA WriteStaged ==
  ASSUME Shaped, Carried, Staged, StartsWhole, NEW r \in Req, WriteFile(r), ~overlapped
  PROVE  Staged'
<1> USE DEF Shaped, Stands, Replaces
<1>1. /\ req[r].at = "write" /\ Saves(req[r]) /\ req[r].doc = file
      /\ \A q \in Req \ {r} : ~Saves(req[q]) /\ req'[q] = req[q]
      /\ UNCHANGED <<live, conf, mgr, envKey, overlapped>> /\ DOMAIN file = {"llm", "backups"}
      /\ req'[r] = [req[r] EXCEPT !.at = IF req[r].op = "llm" THEN "swap" ELSE "dir"]
  BY DEF WriteFile, Staged, Carried, Carries, Blocks, Moves, backupsLive
<1>2. \A q \in Req \ {r} : req[q].at \notin {"write", "swap", "dir", "keep", "mgr"}
  BY <1>1 DEF Carried, Carries, Saves
<1>3. /\ ClientAgrees /\ conf = BootPlan(file) /\ mgr.plan = conf
  BY <1>1, <1>2 DEF Staged
<1>4. req'[r].op = req[r].op /\ req'[r].want = req[r].want
  BY <1>1
<1>5. CASE req[r].op = "llm"
  <2>1. file'.llm = Kept(req[r].want) /\ file'.backups = file.backups /\ req'[r].at = "swap"
    BY <1>1, <1>5 DEF WriteFile, Merged
  <2>2. conf' = BootPlan(file)' /\ mgr'.plan = conf'
    BY <1>1, <1>3, <2>1 DEF BootPlan
  <2>3. file'.llm = Kept(req'[r].want)
    BY <1>4, <2>1
  <2> QED
    BY <1>1, <1>2, <1>4, <2>1, <2>2, <2>3 DEF Staged, Saves, Kept
<1>6. CASE req[r].op # "llm"
  <2>1. file'.backups = req[r].want /\ file'.llm = file.llm /\ req'[r].at = "dir"
    BY <1>1, <1>6 DEF WriteFile, Merged
  <2>2. ClientAgrees'
    BY <1>1, <1>3, <2>1 DEF ClientAgrees, Boot
  <2> QED
    BY <1>1, <1>2, <1>4, <2>1, <2>2 DEF Staged, Saves
<1> QED
  BY <1>5, <1>6

LEMMA SwapStaged ==
  ASSUME Shaped, Carried, Staged, StartsWhole, NEW r \in Req, Swap(r), ~overlapped
  PROVE  Staged'
<1> USE DEF Shaped, Stands, Replaces
<1>1. /\ req[r].at = "swap" /\ req[r].op = "llm" /\ file.llm = Kept(req[r].want)
      /\ \A q \in Req \ {r} : ~Saves(req[q]) /\ req'[q] = req[q]
      /\ UNCHANGED <<file, conf, mgr, envKey, overlapped>> /\ live' = req[r].want
      /\ req'[r].at = "applied"
  BY DEF Swap, Staged, Carried, Carries, Saves, Moves, backupsLive
<1>2. \A q \in Req \ {r} : req[q].at \notin {"write", "swap", "dir", "keep", "mgr"}
  BY <1>1 DEF Carried, Carries, Saves
<1>3. conf = BootPlan(file) /\ mgr.plan = conf
  BY <1>1, <1>2 DEF Staged
<1>4. envKey = None => ~req[r].want.env
  BY <1>1 DEF Carried, Carries
<1>5. ClientAgrees'
  <2>1. file.llm # None
    BY <1>1 DEF Kept, StartsWhole
  <2>2. /\ Boot(file).url = req[r].want.url /\ \A f \in Field : Boot(file)[f] = req[r].want[f]
        /\ envKey = None => Boot(file).key = req[r].want.key
    BY <1>1, <1>4, <2>1 DEF Boot, Kept, Field
  <2>3. Boot(file)' = Boot(file)
    BY <1>1 DEF Boot
  <2> QED
    BY <1>1, <2>2, <2>3 DEF ClientAgrees
<1>6. conf' = BootPlan(file)' /\ mgr'.plan = conf'
  BY <1>1, <1>3 DEF BootPlan
<1> QED
  BY <1>1, <1>2, <1>5, <1>6 DEF Staged

LEMMA PlanStaged ==
  ASSUME Shaped, Carried, Staged, StartsWhole, NEW r \in Req, SetDir(r) \/ SetKeep(r) \/ SetManager(r),
         ~overlapped
  PROVE  Staged'
<1> USE DEF Shaped, Stands, Replaces
<1>1. /\ Replaces(r) /\ Saves(req[r]) /\ file.backups = req[r].want /\ req[r].want \in Plan
      /\ \A q \in Req \ {r} : ~Saves(req[q]) /\ req'[q] = req[q]
      /\ UNCHANGED <<file, live, envKey, overlapped>>
  BY DEF SetDir, SetKeep, SetManager, Staged, Carried, Carries, Saves, Moves, Answer
<1>2. \A q \in Req \ {r} : req[q].at \notin {"write", "swap", "dir", "keep", "mgr"}
  BY <1>1 DEF Carried, Carries, Saves
<1>3. ClientAgrees'
  <2>1. ClientAgrees
    BY <1>1, <1>2 DEF Staged
  <2> QED
    BY <1>1, <2>1 DEF ClientAgrees, Boot
<1>4. req[r].want # None /\ req[r].want = [dir |-> req[r].want.dir, keep |-> req[r].want.keep]
  BY <1>1 DEF StartsWhole
<1>5. CASE SetDir(r)
  <2>1. /\ conf'.dir = req[r].want.dir /\ req'[r] = [req[r] EXCEPT !.at = "keep"]
    BY <1>5 DEF SetDir, Moves, Carried
  <2>2. req'[r].at = "keep" /\ req'[r].want = req[r].want /\ req'[r].op = req[r].op
    BY <2>1
  <2> QED
    BY <1>1, <1>2, <1>3, <2>1, <2>2 DEF Staged, Saves
<1>6. CASE SetKeep(r)
  <2>1. conf' = [conf EXCEPT !.keep = req[r].want.keep] /\ conf.dir = req[r].want.dir
    BY <1>6 DEF SetKeep, Staged
  <2>2. conf' = [dir |-> req[r].want.dir, keep |-> req[r].want.keep]
    BY <2>1 DEF Carried
  <2>3. conf' = req[r].want /\ req'[r] = [req[r] EXCEPT !.at = "mgr"]
    BY <1>4, <1>6, <2>2 DEF SetKeep, Moves
  <2>4. req'[r].at = "mgr" /\ req'[r].want = req[r].want /\ req'[r].op = req[r].op
    BY <2>3
  <2> QED
    BY <1>1, <1>2, <1>3, <2>3, <2>4 DEF Staged, Saves
<1>7. CASE SetManager(r)
  <2>1. conf = req[r].want /\ UNCHANGED conf /\ mgr'.plan = conf
    BY <1>7 DEF SetManager, Staged
  <2>2. req'[r].at = "free" /\ ~Saves(req'[r])
    BY <1>7 DEF SetManager, Answer, NoReq, Saves, StartsWhole
  <2>3. conf' = BootPlan(file)'
    BY <1>1, <1>4, <2>1 DEF BootPlan
  <2> QED
    BY <1>1, <1>2, <1>3, <2>1, <2>2, <2>3 DEF Staged
<1> QED
  BY <1>5, <1>6, <1>7

LEMMA StaysStaged ==
  ASSUME Shaped, Carried, Staged, [SettingsNext]_settingsVars, StartsWhole
  PROVE  Staged'
<1> USE DEF Shaped, Saves, NoReq, Stands, Replaces, Moves, Answer, Arrives, backupsLive
<1>1. ASSUME NEW r \in Req, NEW form \in Form, AskSave(r, form) PROVE Staged'
  BY <1>1, QuietStaged DEF AskSave, Meets
<1>2. ASSUME NEW r \in Req, AskTest(r) PROVE Staged'
  BY <1>2, QuietStaged DEF AskTest
<1>3. ASSUME NEW r \in Req, TestLLM(r) PROVE Staged'
  BY <1>3, QuietStaged DEF TestLLM
<1>4. ASSUME NEW r \in Req, AskModels(r) PROVE Staged'
  BY <1>4, QuietStaged DEF AskModels
<1>5. ASSUME NEW r \in Req, Validate(r) PROVE Staged'
  <2>1. /\ UNCHANGED <<file, live, conf, mgr, envKey, overlapped>> /\ req[r].at = "list"
        /\ \A q \in Req \ {r} : req'[q] = req[q]
        /\ req'[r].at \in {"free", "read"} /\ req'[r].op \in {req[r].op, None}
    BY <1>5 DEF Validate
  <2> QED
    BY <2>1, QuietStaged DEF StartsWhole
<1>6. ASSUME NEW r \in Req, ReadFile(r) PROVE Staged'
  BY <1>6, QuietStaged DEF ReadFile
<1>7. ASSUME NEW r \in Req, SaveFails(r) PROVE Staged'
  BY <1>7, QuietStaged DEF SaveFails, StartsWhole
<1>8. ASSUME NEW r \in Req, Applied(r) PROVE Staged'
  <2>1. /\ UNCHANGED <<file, live, conf, mgr, envKey, overlapped>> /\ req[r].at = "applied"
        /\ \A q \in Req \ {r} : req'[q] = req[q]
        /\ req'[r].at \in {"free", "render"} /\ req'[r].op \in {req[r].op, None}
    BY <1>8 DEF Applied
  <2> QED
    BY <2>1, QuietStaged DEF StartsWhole
<1>9. ASSUME NEW r \in Req, Render(r) PROVE Staged'
  BY <1>9, QuietStaged DEF Render, StartsWhole
<1>10. ASSUME NEW r \in Req, NEW plan \in Plan, AskBackups(r, plan) PROVE Staged'
  BY <1>10, QuietStaged DEF AskBackups, Meets
<1>11. ASSUME NEW r \in Req, AskBackup(r) PROVE Staged'
  <2>1. /\ UNCHANGED <<file, live, conf, mgr, envKey, overlapped>> /\ req[r].at = "free"
        /\ \A q \in Req \ {r} : req'[q] = req[q]
        /\ req'[r].at \in {"free", "call"} /\ req'[r].op \in {"backup", None}
    BY <1>11 DEF AskBackup
  <2> QED
    BY <2>1, QuietStaged DEF StartsWhole
<1>12. ASSUME NEW r \in Req, Call(r) PROVE Staged'
  <2>1. /\ UNCHANGED <<file, live, conf, mgr, envKey, overlapped>> /\ req[r].at = "call"
        /\ \A q \in Req \ {r} : req'[q] = req[q]
        /\ req'[r].at \in {"free", "working"} /\ req'[r].op \in {req[r].op, None}
    BY <1>12 DEF Call
  <2> QED
    BY <2>1, QuietStaged DEF StartsWhole
<1>13. ASSUME NEW r \in Req, Worked(r) PROVE Staged'
  BY <1>13, QuietStaged DEF Worked, StartsWhole
<1>14. ASSUME NEW r \in Req,
              WriteFile(r) \/ Swap(r) \/ SetDir(r) \/ SetKeep(r) \/ SetManager(r)
       PROVE  Staged'
  <2>1. UNCHANGED overlapped
    BY <1>14 DEF WriteFile, Swap, SetDir, SetKeep, SetManager
  <2>2. CASE overlapped
    BY <2>1, <2>2 DEF Staged
  <2> QED
    BY <1>14, <2>2, WriteStaged, SwapStaged, PlanStaged
<1>15. CASE Relaunch
  <2>1. /\ \A r \in Req : req'[r] = NoReq
        /\ live' = Boot(file) /\ conf' = BootPlan(file) /\ mgr'.plan = conf' /\ UNCHANGED <<file, envKey>>
    BY <1>15 DEF Relaunch
  <2>2. ClientAgrees' /\ conf' = BootPlan(file)'
    BY <2>1 DEF ClientAgrees, Boot, BootPlan
  <2> QED
    BY <2>1, <2>2 DEF Staged, StartsWhole
<1>16. CASE UNCHANGED settingsVars
  BY <1>16 DEF settingsVars, Staged, ClientAgrees, Boot, BootPlan, Kept
<1> QED
  BY <1>1, <1>2, <1>3, <1>4, <1>5, <1>6, <1>7, <1>8, <1>9, <1>10, <1>11, <1>12, <1>13, <1>14, <1>15, <1>16
     DEF SettingsNext

\* A restart would change nothing: between saves, whatever failed and wherever the
\* server died, the client, the configuration in memory and the manager are those
\* that the file would give, unless saves were under way at once.
\* (llmsettings.go handleSettingsLLMSave, backups.go handleBackupsConfigSave.)
THEOREM RestartChangesNothing ==
  ASSUME StartsWhole PROVE SettingsSpec => []SettingsAgree
<1> DEFINE AInv == Shaped /\ Guarded /\ Carried /\ Staged
<1>1. SettingsInit => AInv
  BY ShapedAtFirst, CarriedAtFirst
<1>2. AInv /\ [SettingsNext]_settingsVars => AInv'
  BY OneStep, StaysCarried, StaysStaged
<1>3. AInv => SettingsAgree
  BY DEF Carried, Carries, Staged, SettingsAgree, ClientAgrees, Saves, Stands, Replaces
<1> QED
  BY <1>1, <1>2, <1>3, PTL DEF SettingsSpec

-----------------------------------------------------------------------------
(* The models that are offered.                                            *)

\* What a file configures.
ClientOf(doc) == IF doc.llm = None THEN Default.llm ELSE doc.llm

\* What the forms and the files name are endpoints.
EndpointsKnown ==
  /\ \A form \in Form : form.url \in Url \union {Off}
  /\ \A s \in Stored : ClientOf(s).url \in Url

Filed(f) == {ClientOf(s)[f] : s \in Stored}
Known(f) == {Off} \union (UNION {Listing[u] : u \in Url}) \union Filed(f)

\* A client, or what a file would give one, has models that were offered.
Decent(client) == client.url \in Url /\ \A f \in Field : client[f] \in Known(f)
Given(doc) == Decent(ClientOf(doc))

\* What a request will save has been checked, or is to be.
Checked(q) ==
  /\ q.at = "list" => q.want.url \in Url \union {Off} /\ \A f \in Field : q.cur[f] \in Known(f)
  /\ q.at \in {"read", "write", "swap"} /\ q.op = "llm" => Decent(q.want)
  /\ q.at = "write" => Given(q.doc)
  /\ q.at = "applied" => q.op = "llm"
  /\ q.at = "test" => q.op # "llm"

Chosen == Decent(live) /\ Given(file) /\ \A r \in Req : Checked(req[r])

\* Until saves meet, a listing that a save has, or a page shows, is of its endpoint.
Lasts(q) ==
  /\ q.at = "list" => live.url = q.cur.url
  /\ q.at \in {"read", "write", "swap", "applied"} /\ q.op = "llm" /\ q.models # None
       => q.models = Listing[q.cur.url]
  /\ q.at = "render" /\ q.op = "llm" => q.want.url = live.url

Described ==
  ~overlapped =>
    /\ \A r \in Req : Lasts(req[r])
    /\ \A r \in Req : shown[r].models # None => shown[r].models = Listing[shown[r].url]

LEMMA ChosenAtFirst ==
  ASSUME SettingsInit, StartsWhole, EndpointsKnown PROVE Chosen /\ Described /\ DOMAIN shown = Req
<1>1. /\ file \in Stored /\ live = Boot(file) /\ \A r \in Req : req[r] = NoReq /\ shown[r] = NoPage
      /\ DOMAIN shown = Req
  BY DEF SettingsInit
<1>2. Given(file)
  <2>1. ASSUME NEW f \in Field
        PROVE  ClientOf(file)[f] \in Known(f)
    <3>1. ClientOf(file)[f] \in Filed(f)
      BY <1>1 DEF Filed
    <3> QED
      BY <3>1 DEF Known
  <2> QED
    BY <1>1, <2>1 DEF Given, Decent, EndpointsKnown
<1>3. Decent(live)
  BY <1>1, <1>2 DEF Given, Decent, Boot, ClientOf, Field
<1> QED
  BY <1>1, <1>2, <1>3 DEF Chosen, Checked, Described, Lasts, NoReq, NoPage

\* A restart takes from the file what was offered.
LEMMA BootDecent == ASSUME NEW f, Given(f) PROVE Decent(Boot(f))
  BY DEF Given, Decent, Boot, ClientOf, Field

LEMMA StaysChosen ==
  ASSUME Shaped, Carried, Chosen, [SettingsNext]_settingsVars, StartsWhole, EndpointsKnown
  PROVE  Chosen'
<1> USE DEF Shaped, Chosen, Checked, NoReq, Stands, Moves, Answer, Arrives, backupsLive
<1>1. ASSUME NEW r \in Req, NEW form \in Form, AskSave(r, form) PROVE Chosen'
  <2>1. Wanted(form, live).url \in Url \union {Off}
    BY DEF Wanted, EndpointsKnown
  <2>2. \A f \in Field : live[f] \in Known(f)
    BY DEF Decent
  <2> QED
    BY <1>1, <2>1, <2>2 DEF AskSave
<1>2. ASSUME NEW r \in Req, AskTest(r) PROVE Chosen'
  BY <1>2 DEF AskTest
<1>3. ASSUME NEW r \in Req, TestLLM(r) PROVE Chosen'
  BY <1>3 DEF TestLLM
<1>4. ASSUME NEW r \in Req, AskModels(r) PROVE Chosen'
  BY <1>4 DEF AskModels
<1>5. ASSUME NEW r \in Req, Validate(r) PROVE Chosen'
  <2>1. PICK models \in Lists(live) :
          \/ Refuses(req[r], models) /\ Answer(r, NoPage)
          \/ ~Refuses(req[r], models) /\ req' = [req EXCEPT ![r].at = "read", ![r].models = models]
    BY <1>5 DEF Validate
  <2>2. CASE ~Refuses(req[r], models) /\ req' = [req EXCEPT ![r].at = "read", ![r].models = models]
    <3>1. req[r].want.url \in Url /\ \A f \in Field : req[r].cur[f] \in Known(f)
      BY <1>5, <2>2 DEF Validate, Refuses
    <3>2. ASSUME NEW f \in Field PROVE req[r].want[f] \in Known(f)
      <4>1. ModelAllowed(req[r].want[f], req[r].cur[f], models)
        BY <2>2 DEF Refuses
      <4>2. models # None => models = Listing[live.url]
        BY <2>1 DEF Lists
      <4> QED
        BY <3>1, <4>1, <4>2 DEF ModelAllowed, Known, Decent
    <3>3. Decent(req[r].want)
      BY <3>1, <3>2 DEF Decent
    <3> QED
      BY <1>5, <2>2, <3>3 DEF Validate
  <2>3. CASE Answer(r, NoPage)
    BY <1>5, <2>3 DEF Validate
  <2> QED
    BY <2>1, <2>2, <2>3
<1>6. ASSUME NEW r \in Req, ReadFile(r) PROVE Chosen'
  BY <1>6 DEF ReadFile
<1>7. ASSUME NEW r \in Req, WriteFile(r) PROVE Chosen'
  <2>1. Given(Merged(req[r]))
    <3>1. CASE req[r].op = "llm"
      <4>1. Merged(req[r]).llm = Kept(req[r].want)
        BY <1>7, <3>1 DEF WriteFile, Merged, Carried, Carries, Blocks
      <4>2. Kept(req[r].want) # None /\ Decent(req[r].want)
        BY <1>7, <3>1 DEF WriteFile, Kept, StartsWhole
      <4>3. Decent(Kept(req[r].want))
        BY <4>2 DEF Kept, Decent, Field
      <4> QED
        BY <4>1, <4>2, <4>3 DEF Given, ClientOf
    <3>2. CASE req[r].op # "llm"
      <4>1. Merged(req[r]).llm = req[r].doc.llm
        BY <1>7, <3>2 DEF WriteFile, Merged, Carried, Carries, Blocks
      <4> QED
        BY <1>7, <4>1 DEF WriteFile, Given, ClientOf
    <3> QED
      BY <3>1, <3>2
  <2> QED
    BY <1>7, <2>1 DEF WriteFile
<1>8. ASSUME NEW r \in Req, SaveFails(r) PROVE Chosen'
  BY <1>8 DEF SaveFails
<1>9. ASSUME NEW r \in Req, Swap(r) PROVE Chosen'
  BY <1>9 DEF Swap, Carried, Carries
<1>10. ASSUME NEW r \in Req, Applied(r) PROVE Chosen'
  BY <1>10 DEF Applied
<1>11. ASSUME NEW r \in Req, Render(r) PROVE Chosen'
  BY <1>11 DEF Render
<1>12. ASSUME NEW r \in Req, NEW plan \in Plan, AskBackups(r, plan) PROVE Chosen'
  BY <1>12 DEF AskBackups
<1>13. ASSUME NEW r \in Req, SetDir(r) \/ SetKeep(r) PROVE Chosen'
  BY <1>13 DEF SetDir, SetKeep
<1>14. ASSUME NEW r \in Req, SetManager(r) PROVE Chosen'
  BY <1>14 DEF SetManager
<1>15. ASSUME NEW r \in Req, AskBackup(r) PROVE Chosen'
  BY <1>15 DEF AskBackup
<1>16. ASSUME NEW r \in Req, Call(r) PROVE Chosen'
  BY <1>16 DEF Call
<1>17. ASSUME NEW r \in Req, Worked(r) PROVE Chosen'
  BY <1>17 DEF Worked
<1>18. CASE Relaunch
  BY <1>18, BootDecent DEF Relaunch
<1>19. CASE UNCHANGED settingsVars
  BY <1>19 DEF settingsVars
<1> QED
  BY <1>1, <1>2, <1>3, <1>4, <1>5, <1>6, <1>7, <1>8, <1>9, <1>10, <1>11, <1>12, <1>13, <1>14, <1>15, <1>16,
     <1>17, <1>18, <1>19 DEF SettingsNext

\* A step of one request, with what it answers.
LEMMA QuietDescribed ==
  ASSUME Described, NEW r \in Req, UNCHANGED live, overlapped => overlapped',
         \A q \in Req \ {r} : req'[q] = req[q] /\ shown'[q] = shown[q],
         ~overlapped' => Lasts(req'[r]),
         ~overlapped' /\ shown'[r].models # None => shown'[r].models = Listing[shown'[r].url]
  PROVE  Described'
<1> SUFFICES ASSUME ~overlapped'
             PROVE  /\ \A q \in Req : Lasts(req'[q])
                    /\ \A q \in Req : shown'[q].models # None => shown'[q].models = Listing[shown'[q].url]
  BY DEF Described, Lasts
<1>1. ASSUME NEW q \in Req PROVE Lasts(req'[q])
  BY DEF Described
<1>2. ASSUME NEW q \in Req, shown'[q].models # None PROVE shown'[q].models = Listing[shown'[q].url]
  BY <1>2 DEF Described
<1> QED
  BY <1>1, <1>2

\* No save is under way but this one.
LEMMA OnlyOne ==
  ASSUME Shaped, Carried, Staged, ~overlapped, NEW r \in Req, Saves(req[r]), NEW q \in Req \ {r}
  PROVE  /\ req[q].at \notin {"list", "read", "write", "swap"}
         /\ req[q].op # "llm"
  BY DEF Staged, Carried, Carries, Saves

LEMMA StaysDescribed ==
  ASSUME Shaped, Carried, Staged, Chosen, Described, DOMAIN shown = Req,
         [SettingsNext]_settingsVars, StartsWhole
  PROVE  Described' /\ DOMAIN shown' = Req
<1> USE DEF Shaped, NoReq, NoPage, Stands, Moves, Answer, Arrives, backupsLive
<1>a. ASSUME NEW r \in Req, ~overlapped
      PROVE  Lasts(req[r]) /\ (shown[r].models # None => shown[r].models = Listing[shown[r].url])
  BY <1>a DEF Described
<1>1. ASSUME NEW r \in Req, NEW form \in Form, AskSave(r, form) PROVE Described' /\ DOMAIN shown' = Req
  BY <1>1, <1>a, QuietDescribed DEF AskSave, Meets, Lasts
<1>2. ASSUME NEW r \in Req, AskTest(r) PROVE Described' /\ DOMAIN shown' = Req
  BY <1>2, <1>a, QuietDescribed DEF AskTest, Lasts
<1>3. ASSUME NEW r \in Req, TestLLM(r) PROVE Described' /\ DOMAIN shown' = Req
  BY <1>3, <1>a, QuietDescribed DEF TestLLM, Lasts, Chosen, Checked
<1>4. ASSUME NEW r \in Req, AskModels(r) PROVE Described' /\ DOMAIN shown' = Req
  BY <1>4, <1>a, QuietDescribed DEF AskModels, Lasts
<1>5. ASSUME NEW r \in Req, Validate(r) PROVE Described' /\ DOMAIN shown' = Req
  <2>1. PICK models \in Lists(live) :
          \/ Refuses(req[r], models) /\ Answer(r, NoPage)
          \/ /\ req' = [req EXCEPT ![r].at = "read", ![r].models = models]
             /\ UNCHANGED shown
    BY <1>5 DEF Validate
  <2>2. UNCHANGED <<live, overlapped>> /\ req[r].at = "list"
    BY <1>5 DEF Validate
  <2>3. CASE Answer(r, NoPage)
    BY <2>2, <2>3, <1>a, QuietDescribed DEF Lasts
  <2>4. CASE req' = [req EXCEPT ![r].at = "read", ![r].models = models] /\ UNCHANGED shown
    <3>1. ~overlapped => live.url = req[r].cur.url
      BY <1>a, <2>2 DEF Lasts
    <3>2. /\ req'[r].at = "read" /\ req'[r].models = models /\ req'[r].cur = req[r].cur
          /\ \A q \in Req \ {r} : req'[q] = req[q]
      BY <2>4
    <3>3. models # None => models = Listing[live.url]
      BY DEF Lists
    <3>4. ~overlapped' => Lasts(req'[r])
      BY <2>2, <3>1, <3>2, <3>3 DEF Lasts
    <3> QED
      BY <1>a, <2>2, <2>4, <3>2, <3>4, QuietDescribed
  <2> QED
    BY <2>1, <2>3, <2>4
<1>6. ASSUME NEW r \in Req, ReadFile(r) \/ WriteFile(r) PROVE Described' /\ DOMAIN shown' = Req
  <2>1. /\ UNCHANGED <<live, overlapped, shown>> /\ req[r].at \in {"read", "write"}
        /\ req'[r].at \in {"write", "swap", "dir"} /\ req'[r].op = req[r].op
        /\ req'[r].cur = req[r].cur /\ req'[r].models = req[r].models
        /\ \A q \in Req \ {r} : req'[q] = req[q]
    BY <1>6 DEF ReadFile, WriteFile
  <2> QED
    BY <2>1, <1>a, QuietDescribed DEF Lasts
<1>7. ASSUME NEW r \in Req, SaveFails(r) PROVE Described' /\ DOMAIN shown' = Req
  BY <1>7, <1>a, QuietDescribed DEF SaveFails, Lasts
<1>8. ASSUME NEW r \in Req, Swap(r) PROVE Described' /\ DOMAIN shown' = Req
  <2>1. /\ UNCHANGED <<overlapped, shown>> /\ req[r].at = "swap" /\ req[r].op = "llm" /\ Saves(req[r])
        /\ req'[r] = [req[r] EXCEPT !.at = "applied"]
        /\ \A q \in Req \ {r} : req'[q] = req[q]
    BY <1>8 DEF Swap, Carried, Carries, Saves
  <2> SUFFICES ASSUME ~overlapped, NEW q \in Req PROVE Lasts(req[q])'
    BY <2>1, <1>a DEF Described
  <2>2. CASE q = r
    BY <2>1, <2>2, <1>a DEF Lasts
  <2>3. CASE q # r
    <3>1. req[q].at \notin {"list", "read", "write", "swap"} /\ req[q].op # "llm"
      BY <2>1, <2>3, OnlyOne
    <3> QED
      BY <2>1, <2>3, <3>1 DEF Lasts
  <2> QED
    BY <2>2, <2>3
<1>9. ASSUME NEW r \in Req, Applied(r) PROVE Described' /\ DOMAIN shown' = Req
  <2>1. UNCHANGED <<live, overlapped>> /\ req[r].at = "applied" /\ req[r].op = "llm"
    BY <1>9 DEF Applied, Chosen, Checked
  <2>2. CASE /\ StillDescribes(req[r], live)
             /\ Answer(r, [url |-> live.url, models |-> req[r].models])
    <3>1. ~overlapped /\ req[r].models # None => req[r].models = Listing[live.url]
      BY <1>a, <2>1, <2>2 DEF StillDescribes, Lasts
    <3>2. shown'[r] = [url |-> live.url, models |-> req[r].models] /\ DOMAIN shown' = Req
      BY <2>2
    <3>3. ~overlapped' /\ shown'[r].models # None => shown'[r].models = Listing[shown'[r].url]
      BY <2>1, <3>1, <3>2
    <3>4. Lasts(req'[r])
      BY <2>2 DEF Lasts
    <3>5. \A q \in Req \ {r} : req'[q] = req[q] /\ shown'[q] = shown[q]
      BY <2>2
    <3> QED
      BY <2>1, <3>2, <3>3, <3>4, <3>5, QuietDescribed
  <2>3. CASE req' = [req EXCEPT ![r].at = "render", ![r].want = live] /\ UNCHANGED shown
    BY <1>a, <2>1, <2>3, QuietDescribed DEF Lasts
  <2> QED
    BY <1>9, <2>2, <2>3 DEF Applied
<1>10. ASSUME NEW r \in Req, Render(r) PROVE Described' /\ DOMAIN shown' = Req
  <2>1. PICK models \in Lists(live) :
          Answer(r, IF req[r].op = "llm" THEN [url |-> req[r].want.url, models |-> models] ELSE NoPage)
    BY <1>10 DEF Render
  <2>2. UNCHANGED <<live, overlapped>> /\ req[r].at = "render"
    BY <1>10 DEF Render
  <2>3. /\ Lasts(req'[r]) /\ DOMAIN shown' = Req
        /\ \A q \in Req \ {r} : req'[q] = req[q] /\ shown'[q] = shown[q]
    BY <2>1 DEF Lasts
  <2>4. models # None => models = Listing[live.url]
    BY DEF Lists
  <2>5. ~overlapped' /\ shown'[r].models # None => shown'[r].models = Listing[shown'[r].url]
    <3>1. CASE req[r].op = "llm"
      <4>1. ~overlapped => req[r].want.url = live.url
        BY <1>a, <2>2, <3>1 DEF Lasts
      <4>2. shown'[r] = [url |-> req[r].want.url, models |-> models]
        BY <2>1, <3>1
      <4> QED
        BY <2>2, <2>4, <4>1, <4>2
    <3>2. CASE req[r].op # "llm"
      BY <2>1, <3>2
    <3> QED
      BY <3>1, <3>2
  <2> QED
    BY <2>2, <2>3, <2>5, QuietDescribed
<1>11. ASSUME NEW r \in Req, NEW plan \in Plan, AskBackups(r, plan) PROVE Described' /\ DOMAIN shown' = Req
  BY <1>11, <1>a, QuietDescribed DEF AskBackups, Meets, Lasts
<1>12. ASSUME NEW r \in Req, SetDir(r) \/ SetKeep(r) PROVE Described' /\ DOMAIN shown' = Req
  BY <1>12, <1>a, QuietDescribed DEF SetDir, SetKeep, Lasts
<1>13. ASSUME NEW r \in Req, SetManager(r) PROVE Described' /\ DOMAIN shown' = Req
  BY <1>13, <1>a, QuietDescribed DEF SetManager, Lasts
<1>14. ASSUME NEW r \in Req, AskBackup(r) PROVE Described' /\ DOMAIN shown' = Req
  BY <1>14, <1>a, QuietDescribed DEF AskBackup, Lasts
<1>15. ASSUME NEW r \in Req, Call(r) PROVE Described' /\ DOMAIN shown' = Req
  BY <1>15, <1>a, QuietDescribed DEF Call, Lasts
<1>16. ASSUME NEW r \in Req, Worked(r) PROVE Described' /\ DOMAIN shown' = Req
  BY <1>16, <1>a, QuietDescribed DEF Worked, Lasts
<1>17. CASE Relaunch
  BY <1>17 DEF Relaunch, Described, Lasts
<1>18. CASE UNCHANGED settingsVars
  BY <1>18 DEF settingsVars, Described, Lasts
<1> QED
  BY <1>1, <1>2, <1>3, <1>4, <1>5, <1>6, <1>7, <1>8, <1>9, <1>10, <1>11, <1>12, <1>13, <1>14, <1>15, <1>16,
     <1>17, <1>18 DEF SettingsNext

\* A model that is in use was configured at the first start or listed by an endpoint,
\* whatever fails, and however saves, restarts and listings meet; and a page that
\* reports a save offers the models of the endpoint that is configured, unless saves
\* met.  (internal/web/llmsettings.go, modelAllowed, llmStillDescribes.)
THEOREM OnlyOffered ==
  ASSUME StartsWhole, EndpointsKnown PROVE SettingsSpec => []ModelsAreOffered
<1> DEFINE MInv == Shaped /\ Guarded /\ Carried /\ Staged /\ Chosen /\ Described /\ DOMAIN shown = Req
<1>1. SettingsInit => MInv
  BY ShapedAtFirst, CarriedAtFirst, ChosenAtFirst
<1>2. MInv /\ [SettingsNext]_settingsVars => MInv'
  BY OneStep, StaysCarried, StaysStaged, StaysChosen, StaysDescribed
<1>3. MInv => ModelsAreOffered
  <2> SUFFICES ASSUME MInv PROVE ModelsAreOffered
    OBVIOUS
  <2>1. ASSUME NEW f \in Field
        PROVE  live[f] \in {Off} \union (UNION {Listing[u] : u \in Url}) \union {Boot(s)[f] : s \in Stored}
    <3>1. live[f] \in Known(f)
      BY DEF Chosen, Decent
    <3>2. \A s \in Stored : Boot(s)[f] = ClientOf(s)[f]
      BY DEF Boot, ClientOf, Field
    <3>3. Filed(f) = {Boot(s)[f] : s \in Stored}
      BY <3>2 DEF Filed
    <3> QED
      BY <3>1, <3>3 DEF Known
  <2>2. \A r \in Req : shown[r].models # None /\ ~overlapped => shown[r].models = Listing[shown[r].url]
    BY DEF Described
  <2> QED
    BY <2>1, <2>2 DEF ModelsAreOffered
<1> QED
  BY <1>1, <1>2, <1>3, PTL DEF SettingsSpec

-----------------------------------------------------------------------------
(* The setup page.                                                         *)

Token == [id : Nat, at : Nat]
OrNone(T) == T \union {None}

Phase == {"none", "active", "cancelling", "done", "failed", "denied", "cancelled"}
CardState == {"none", "synced", "enabled", "not-detected", "needs-permission", "ready"}
Panel == [phase : Phase, token : OrNone(Token)]
NewCard == [state : CardState, confirm : BOOLEAN, token : OrNone(Token), panel : {NoPanel}]
CardOf == [state : CardState, confirm : BOOLEAN, token : OrNone(Token), panel : Panel]

PageTyped ==
  /\ clock \in Nat /\ minted \in Nat
  /\ tab \in [Provider -> CardOf]
  /\ jobs \in [Provider -> Phase]
  /\ DOMAIN disk = Provider
  /\ deleting \in OrNone(Provider)

\* The tokens ts are the last that were minted of n, no more than may be live, and
\* those minted later expire later.
Recent(ts, n) ==
  /\ DOMAIN ts \subseteq 1 .. n
  /\ \A i \in DOMAIN ts : \A j \in i .. n : j \in DOMAIN ts /\ ts[i] <= ts[j]
  /\ \A i \in DOMAIN ts : n - i < TokenCap /\ ts[i] \in Nat /\ ts[i] <= clock + TokenTTL

\* A token that was given out is live, or it has expired, or so many came after it.
Accounted(ts, n, t) ==
  /\ t.id \in 1 .. n /\ t.at <= clock
  /\ t.id \in DOMAIN ts => ts[t.id] = t.at + TokenTTL
  /\ t.id \notin DOMAIN ts => clock > t.at + TokenTTL \/ n - t.id >= TokenCap

Shown(p) == {tab[p].token, tab[p].panel.token} \ {None}

Armed == Recent(tokens, minted) /\ \A p \in Provider : \A t \in Shown(p) : Accounted(tokens, minted, t)

\* A card whose page still waits for a job may only be out of date if that job is done.
Awaited ==
  \A p \in Provider :
    tab[p].state # "none" /\ p \notin unheard /\ tab[p].state # setupCardFor(p) => Polling(p) /\ jobs[p] = "done"

PageInv == PageTyped /\ Armed /\ Awaited

-----------------------------------------------------------------------------
\* Some of the tokens that were minted has the least number.
LEMMA Least ==
  ASSUME NEW D, D \subseteq Nat, D # {}
  PROVE  \E m \in D : \A i \in D : m <= i
<1>1. PICK m \in D : \A i \in D : ~(<<i, m>> \in OpToRel(<, Nat))
  BY NatLessThanWellFounded, WFMin
<1>2. \A i \in D : ~(i < m)
  BY <1>1 DEF OpToRel
<1> QED
  BY <1>2

LEMMA Finite ==
  ASSUME NEW n \in Nat, NEW D, D \subseteq 1 .. n
  PROVE  IsFiniteSet(D) /\ Cardinality(D) \in Nat
<1>1. IsFiniteSet(1 .. n)
  BY FS_Interval
<1>2. IsFiniteSet(D)
  BY <1>1, FS_Subset
<1> QED
  BY <1>2, FS_CardinalityType

\* The greatest and the least of numbers.
LEMMA MaxIs ==
  ASSUME NEW S, S \subseteq Nat, NEW m \in S, \A i \in S : i <= m
  PROVE  Max(S) = m
<1> DEFINE x == Max(S)
<1>1. x \in S /\ \A i \in S : x >= i
  BY DEF Max
<1> HIDE DEF x
<1>2. x \in Nat /\ m \in Nat /\ x >= m /\ x <= m
  BY <1>1
<1> QED
  BY <1>2 DEF x

LEMMA MinIs ==
  ASSUME NEW S, S \subseteq Nat, NEW m \in S, \A i \in S : m <= i
  PROVE  Min(S) = m
<1> DEFINE x == Min(S)
<1>1. x \in S /\ \A i \in S : x =< i
  BY DEF Min
<1> HIDE DEF x
<1>2. x \in Nat /\ m \in Nat /\ x <= m /\ m <= x
  BY <1>1
<1> QED
  BY <1>2 DEF x

\* Expired tokens are the first.
LEMMA PruneKeeps ==
  ASSUME NEW ts, NEW n \in Nat, clock \in Nat, Recent(ts, n)
  PROVE  /\ Recent(pruneExpired(ts), n)
         /\ DOMAIN pruneExpired(ts) = {i \in DOMAIN ts : clock <= ts[i]}
         /\ \A i \in DOMAIN pruneExpired(ts) : pruneExpired(ts)[i] = ts[i]
<1> DEFINE unspent == pruneExpired(ts)
<1>1. /\ DOMAIN unspent = {i \in DOMAIN ts : clock <= ts[i]}
      /\ \A i \in DOMAIN unspent : unspent[i] = ts[i]
  BY DEF pruneExpired
<1>2. ASSUME NEW i \in DOMAIN unspent, NEW j \in i .. n
      PROVE  j \in DOMAIN unspent /\ unspent[i] <= unspent[j]
  <2>1. i \in DOMAIN ts /\ j \in DOMAIN ts /\ ts[i] <= ts[j] /\ clock <= ts[i]
    BY <1>1, <1>2 DEF Recent
  <2>2. ts[i] \in Nat /\ ts[j] \in Nat
    BY <2>1 DEF Recent
  <2>3. clock <= ts[j]
    BY <2>1, <2>2
  <2> QED
    BY <1>1, <2>1, <2>3
<1>3. DOMAIN unspent \subseteq 1 .. n
  BY <1>1 DEF Recent
<1>4. \A i \in DOMAIN unspent : n - i < TokenCap /\ unspent[i] \in Nat /\ unspent[i] <= clock + TokenTTL
  BY <1>1 DEF Recent
<1> QED
  BY <1>1, <1>2, <1>3, <1>4 DEF Recent

\* When there are as many as may be, the first goes, and it had its turn; when there
\* are fewer, there is room for one more.
LEMMA Evicts ==
  ASSUME NEW ts, NEW n \in Nat, clock \in Nat, Recent(ts, n)
  PROVE  /\ Cardinality(DOMAIN ts) >= TokenCap =>
              /\ evictOldest(ts) \in DOMAIN ts
              /\ \A i \in DOMAIN ts : evictOldest(ts) <= i
              /\ n + 1 - evictOldest(ts) >= TokenCap
         /\ Cardinality(DOMAIN ts) < TokenCap => \A i \in DOMAIN ts : n + 1 - i < TokenCap
<1> DEFINE D == DOMAIN ts
<1>1. D \subseteq 1 .. n /\ D \subseteq Nat
  BY DEF Recent
<1>2. IsFiniteSet(D) /\ Cardinality(D) \in Nat
  BY <1>1, Finite
<1>3. ASSUME Cardinality(D) >= TokenCap
      PROVE  /\ evictOldest(ts) \in D
             /\ \A i \in D : evictOldest(ts) <= i
             /\ n + 1 - evictOldest(ts) >= TokenCap
  <2>1. D # {}
    BY <1>3, FS_EmptySet, SetupAssumption
  <2>2. PICK m \in D : \A i \in D : m <= i
    BY <1>1, <2>1, Least
  <2>3. \A i \in D : i \in m .. n
    BY <1>1, <2>2
  <2>4. \A i \in D : ts[m] <= ts[i]
    BY <2>3 DEF Recent
  <2> DEFINE S == {t \in D : \A u \in D : ts[t] <= ts[u]}
  <2>5. m \in S /\ S \subseteq Nat /\ \A i \in S : m <= i
    BY <2>2, <2>4, <1>1
  <2>6. evictOldest(ts) = m
    <3>1. Min(S) = m
      <4> HIDE DEF S
      <4> QED
        BY <2>5, MinIs
    <3> QED
      BY <3>1 DEF evictOldest
  <2>7. m \in Int /\ n \in Int /\ m <= n /\ m \in Nat
    BY <1>1, <2>2
  <2>8. IsFiniteSet(m .. n) /\ Cardinality(m .. n) = n - m + 1
    BY <2>7, FS_Interval
  <2>9. Cardinality(D) <= Cardinality(m .. n)
    BY <2>3, <2>8, FS_Subset
  <2>10. n + 1 - m >= TokenCap
    BY <2>7, <2>8, <2>9, <1>2, <1>3, SetupAssumption
  <2> QED
    BY <2>2, <2>6, <2>10
<1>4. ASSUME Cardinality(D) < TokenCap, NEW i \in D
      PROVE  n + 1 - i < TokenCap
  <2>1. i \in Nat /\ i <= n /\ i .. n \subseteq D
    BY <1>1 DEF Recent
  <2>2. Cardinality(i .. n) = n - i + 1
    BY <2>1, FS_Interval
  <2>3. Cardinality(i .. n) <= Cardinality(D)
    BY <1>2, <2>1, FS_Subset
  <2> QED
    BY <1>2, <1>4, <2>1, <2>2, <2>3, SetupAssumption
<1> QED
  BY <1>3, <1>4

\* A new token is live and the newest, and those given out stay accounted for.
LEMMA MintedKeeps ==
  ASSUME NEW ts, NEW n \in Nat, clock \in Nat, minted \in Nat, Recent(ts, n),
         minted <= n, n \in DOMAIN ts \union {minted}
  PROVE  /\ Recent(Minted(ts), n + 1)
         /\ n + 1 \in DOMAIN Minted(ts)
         /\ \A t \in Token : Accounted(ts, n, t) => Accounted(Minted(ts), n + 1, t)
         /\ Accounted(Minted(ts), n + 1, [id |-> n + 1, at |-> clock])
<1> DEFINE unspent == pruneExpired(ts)
           full == Cardinality(DOMAIN unspent) >= TokenCap
           kept == IF full THEN DOMAIN unspent \ {evictOldest(unspent)} ELSE DOMAIN unspent
           all  == Minted(ts)
<1>1. /\ Recent(unspent, n)
      /\ DOMAIN unspent = {i \in DOMAIN ts : clock <= ts[i]}
      /\ \A i \in DOMAIN unspent : unspent[i] = ts[i]
  BY PruneKeeps
<1>a. DOMAIN unspent \subseteq 1 .. n /\ DOMAIN ts \subseteq 1 .. n
  BY <1>1 DEF Recent
<1>2. Max(DOMAIN ts \union {minted}) = n
  <2>1. DOMAIN ts \union {minted} \subseteq Nat /\ \A i \in DOMAIN ts \union {minted} : i <= n
    BY <1>a
  <2> QED
    BY <2>1, MaxIs
<1>3. /\ DOMAIN all = kept \union {n + 1} /\ all[n + 1] = clock + TokenTTL
      /\ \A i \in kept : all[i] = unspent[i]
  <2>1. n + 1 \notin kept
    BY <1>a
  <2>2. all = [t \in kept \union {n + 1} |-> IF t = n + 1 THEN clock + TokenTTL ELSE unspent[t]]
    BY <1>2 DEF Minted
  <2> HIDE DEF kept, all
  <2> QED
    BY <2>1, <2>2
<1>4. kept \subseteq DOMAIN unspent
  OBVIOUS
<1>5. full => /\ evictOldest(unspent) \in DOMAIN unspent
              /\ \A i \in DOMAIN unspent : evictOldest(unspent) <= i
              /\ n + 1 - evictOldest(unspent) >= TokenCap
  BY <1>1, Evicts
<1>6. Cardinality(DOMAIN unspent) \in Nat
  BY <1>a, Finite
<1>7. ASSUME NEW i \in kept
      PROVE  n + 1 - i < TokenCap
  <2>1. CASE full
    <3>1. i \in DOMAIN unspent /\ i # evictOldest(unspent) /\ evictOldest(unspent) <= i
      BY <2>1, <1>5
    <3>2. n - evictOldest(unspent) < TokenCap /\ evictOldest(unspent) \in Nat /\ i \in Nat
      BY <1>1, <2>1, <1>5, <3>1, <1>a DEF Recent
    <3> QED
      BY <3>1, <3>2, SetupAssumption
  <2>2. CASE ~full
    <3>1. Cardinality(DOMAIN unspent) < TokenCap
      BY <2>2, <1>6, SetupAssumption
    <3>2. i \in DOMAIN unspent
      BY <1>4
    <3> QED
      BY <3>1, <3>2, <1>1, Evicts
  <2> QED
    BY <2>1, <2>2
<1>8. ASSUME NEW i \in kept, NEW j \in i .. n
      PROVE  j \in kept /\ unspent[i] <= unspent[j]
  <2>1. i \in DOMAIN unspent /\ i \in Nat
    BY <1>4, <1>a
  <2>2. j \in DOMAIN unspent /\ unspent[i] <= unspent[j]
    BY <2>1, <1>1 DEF Recent
  <2>3. CASE full
    <3>1. evictOldest(unspent) <= i /\ i # evictOldest(unspent) /\ evictOldest(unspent) \in Nat
      BY <2>1, <2>3, <1>5, <1>a
    <3> QED
      BY <2>1, <2>2, <2>3, <3>1
  <2> QED
    BY <2>2, <2>3
<1> HIDE DEF kept, all, unspent, full
<1>9. Recent(all, n + 1)
  <2>1. DOMAIN all \subseteq 1 .. n + 1
    BY <1>3, <1>4, <1>a
  <2>2. ASSUME NEW i \in DOMAIN all
        PROVE  n + 1 - i < TokenCap /\ all[i] \in Nat /\ all[i] <= clock + TokenTTL
    <3>1. CASE i = n + 1
      BY <3>1, <1>3, SetupAssumption
    <3>2. CASE i \in kept
      BY <3>2, <1>1, <1>3, <1>4, <1>7 DEF Recent
    <3> QED
      BY <3>1, <3>2, <1>3
  <2>3. ASSUME NEW i \in DOMAIN all, NEW j \in i .. n + 1
        PROVE  j \in DOMAIN all /\ all[i] <= all[j]
    <3>1. CASE j = n + 1
      BY <3>1, <2>2, <1>3, SetupAssumption
    <3>2. CASE j # n + 1
      <4>1. i \in Nat /\ i \in kept /\ j \in i .. n
        BY <3>2, <2>1, <1>3
      <4> QED
        BY <4>1, <1>3, <1>8
    <3> QED
      BY <3>1, <3>2
  <2> QED
    BY <2>1, <2>2, <2>3 DEF Recent
<1>10. ASSUME NEW t \in Token, Accounted(ts, n, t)
       PROVE  Accounted(all, n + 1, t)
  <2>1. t.id \in 1 .. n /\ t.at <= clock /\ t.at \in Nat /\ t.id \in Nat
    BY <1>10 DEF Accounted, Token
  <2>2. CASE t.id \in kept
    BY <2>1, <2>2, <1>1, <1>3, <1>4, <1>10 DEF Accounted
  <2>3. CASE t.id \notin kept
    <3>1. t.id \notin DOMAIN all
      BY <2>1, <2>3, <1>3
    <3>2. CASE t.id \notin DOMAIN ts
      BY <2>1, <3>1, <3>2, <1>10, SetupAssumption DEF Accounted
    <3>3. CASE t.id \in DOMAIN ts /\ t.id \notin DOMAIN unspent
      <4>1. ts[t.id] = t.at + TokenTTL /\ ~(clock <= ts[t.id])
        BY <3>3, <1>1, <1>10 DEF Accounted
      <4> QED
        BY <2>1, <3>1, <4>1, SetupAssumption DEF Accounted
    <3>4. CASE t.id \in DOMAIN unspent
      <4>1. full /\ t.id = evictOldest(unspent)
        BY <2>3, <3>4 DEF kept
      <4> QED
        BY <2>1, <3>1, <4>1, <1>5 DEF Accounted
    <3> QED
      BY <3>2, <3>3, <3>4
  <2> QED
    BY <2>2, <2>3
<1>11. Accounted(all, n + 1, [id |-> n + 1, at |-> clock])
  BY <1>3 DEF Accounted
<1> QED
  BY <1>3, <1>9, <1>10, <1>11 DEF all

-----------------------------------------------------------------------------
LEMMA ShownTokens ==
  ASSUME PageTyped, NEW p \in Provider
  PROVE  Shown(p) \subseteq Token
<1>1. tab[p] \in CardOf
  BY DEF PageTyped
<1>2. tab[p].token \in OrNone(Token) /\ tab[p].panel \in Panel
  BY <1>1 DEF CardOf
<1>3. tab[p].panel.token \in OrNone(Token)
  BY <1>2 DEF Panel
<1> QED
  BY <1>2, <1>3 DEF Shown, OrNone

LEMMA CardTyped == ASSUME NEW p \in Provider PROVE setupCardFor(p) \in CardState
  BY DEF setupCardFor, CardState

LEMMA CardKept ==
  ASSUME NEW p \in Provider, disk'[p] = disk[p], p \in replicas' <=> p \in replicas, p \in present' <=> p \in present
  PROVE  setupCardFor(p)' = setupCardFor(p)
  BY DEF setupCardFor, detectSource, probeSource

\* A token that is minted is good, and the others stay so.
LEMMA MintKeeps ==
  ASSUME PageTyped, Armed, NEW n \in {1, 2}, Mint(n)
  PROVE  /\ Recent(tokens', minted') /\ minted' \in Nat
         /\ \A t \in Token : Accounted(tokens, minted, t) => Accounted(tokens', minted', t)
         /\ Fresh(n) \in Token /\ Accounted(tokens', minted', Fresh(n))
<1>1. clock \in Nat /\ minted \in Nat /\ Recent(tokens, minted)
  BY DEF PageTyped, Armed
<1>2. /\ Recent(Minted(tokens), minted + 1)
      /\ minted + 1 \in DOMAIN Minted(tokens)
      /\ \A t \in Token : Accounted(tokens, minted, t) => Accounted(Minted(tokens), minted + 1, t)
      /\ Accounted(Minted(tokens), minted + 1, [id |-> minted + 1, at |-> clock])
  BY <1>1, MintedKeeps
<1>3. Fresh(n) \in Token
  BY <1>1 DEF Fresh, Token
<1>4. CASE n = 1
  BY <1>1, <1>2, <1>3, <1>4 DEF Mint, Fresh
<1>5. CASE n = 2
  <2>1. /\ Recent(Minted(Minted(tokens)), (minted + 1) + 1)
        /\ \A t \in Token : Accounted(Minted(tokens), minted + 1, t)
                            => Accounted(Minted(Minted(tokens)), (minted + 1) + 1, t)
        /\ Accounted(Minted(Minted(tokens)), (minted + 1) + 1, [id |-> (minted + 1) + 1, at |-> clock])
    BY <1>1, <1>2, MintedKeeps
  <2>2. (minted + 1) + 1 = minted + 2
    BY <1>1
  <2>3. tokens' = Minted(Minted(tokens)) /\ minted' = minted + 2
    BY <1>5 DEF Mint
  <2> QED
    BY <1>1, <1>2, <1>3, <1>5, <2>1, <2>2, <2>3 DEF Fresh
<1> QED
  BY <1>4, <1>5

\* An answer that mints leaves the page with good tokens, old or the newest.
LEMMA ArmedKept ==
  ASSUME PageTyped, Armed, NEW n \in {1, 2}, Mint(n), clock' = clock,
         \A p \in Provider : Shown(p)' \subseteq Shown(p) \union {Fresh(n)}
  PROVE  Armed'
<1>1. /\ Recent(tokens', minted')
      /\ \A t \in Token : Accounted(tokens, minted, t) => Accounted(tokens', minted', t)
      /\ Accounted(tokens', minted', Fresh(n))
  BY MintKeeps
<1>2. ASSUME NEW p \in Provider, NEW t \in Shown(p)'
      PROVE  Accounted(tokens', minted', t)
  <2>1. CASE t = Fresh(n)
    BY <1>1, <2>1
  <2>2. CASE t \in Shown(p)
    <3>1. t \in Token
      BY <2>2, ShownTokens
    <3> QED
      BY <3>1, <2>2, <1>1 DEF Armed
  <2> QED
    BY <2>1, <2>2
<1>3. Recent(tokens, minted)'
  BY <1>1 DEF Recent
<1>4. ASSUME NEW p \in Provider, NEW t \in Shown(p)'
      PROVE  Accounted(tokens, minted, t)'
  BY <1>2, <1>4 DEF Accounted
<1> QED
  BY <1>3, <1>4 DEF Armed

\* Nothing was minted.
LEMMA ArmedStays ==
  ASSUME PageTyped, Armed, UNCHANGED <<tokens, minted, clock>>,
         \A p \in Provider : Shown(p)' \subseteq Shown(p)
  PROVE  Armed'
<1>1. Recent(tokens, minted)'
  BY DEF Armed, Recent
<1>2. ASSUME NEW p \in Provider, NEW t \in Shown(p)'
      PROVE  Accounted(tokens, minted, t)'
  BY <1>2 DEF Armed, Accounted
<1> QED
  BY <1>1, <1>2 DEF Armed

\* An answer that is a card of p, with the newest token.
LEMMA CardAnswered ==
  ASSUME PageInv, NEW p \in Provider, NEW n \in {1, 2}, Mint(n), NEW c \in NewCard,
         c.token = None \/ c.token = Fresh(n),
         tab' = [tab EXCEPT ![p] = c], clock' = clock,
         \A q \in Provider \ {p} :
           /\ q \in unheard => q \in unheard'
           /\ jobs'[q] = jobs[q]
           /\ setupCardFor(q)' = setupCardFor(q),
         p \in unheard' \/ c.state \in {"none", setupCardFor(p)'}
  PROVE  Armed' /\ Awaited' /\ tab' \in [Provider -> CardOf] /\ minted' \in Nat
<1>1. PageTyped /\ Armed
  BY DEF PageInv
<1>2. tab \in [Provider -> CardOf] /\ c \in CardOf
  BY <1>1 DEF PageTyped, NewCard, CardOf, Panel, NoPanel, OrNone, Phase
<1>3. /\ tab' \in [Provider -> CardOf] /\ tab'[p] = c
      /\ \A q \in Provider \ {p} : tab'[q] = tab[q]
  BY <1>2
<1>4. ASSUME NEW q \in Provider
      PROVE  Shown(q)' \subseteq Shown(q) \union {Fresh(n)}
  <2>1. CASE q = p
    BY <2>1, <1>3 DEF Shown, NewCard, NoPanel
  <2>2. CASE q # p
    BY <2>2, <1>3 DEF Shown
  <2> QED
    BY <2>1, <2>2
<1>5. Armed' /\ minted' \in Nat
  BY <1>1, <1>4, ArmedKept, MintKeeps
<1>6. Awaited'
  <2> SUFFICES ASSUME NEW q \in Provider, tab'[q].state # "none", q \notin unheard',
                      tab'[q].state # setupCardFor(q)'
               PROVE  Polling(q)' /\ jobs'[q] = "done"
    BY DEF Awaited
  <2>1. q # p
    BY <1>3
  <2>2. Polling(q) /\ jobs[q] = "done"
    BY <1>3, <2>1 DEF PageInv, Awaited
  <2> QED
    BY <1>3, <2>1, <2>2 DEF Polling
<1> QED
  BY <1>3, <1>5, <1>6

LEMMA InitPage == SetupInit => PageInv
<1> SUFFICES ASSUME SetupInit PROVE PageInv
  OBVIOUS
<1>1. PageTyped
  BY DEF SetupInit, PageTyped, CardOf, Card, Panel, NoPanel, OrNone, Phase, CardState
<1>2. \A p \in Provider : Shown(p) = {}
  BY DEF SetupInit, Shown, Card, NoPanel
<1>3. Recent(tokens, minted)
  BY DEF SetupInit, Recent
<1>4. Awaited
  BY DEF SetupInit, Awaited, Card
<1> QED
  BY <1>1, <1>2, <1>3, <1>4 DEF PageInv, Armed

\* The progress of a job whose phase is known, where the page may be out of date
\* only if it hears of it now or has missed it.
LEMMA ProgressAnswered ==
  ASSUME PageInv, NEW p \in Provider, NEW phase \in Phase, NEW before,
         renderProgress(p, phase, before), UNCHANGED <<clock, disk, present, replicas>>,
         \A q \in Provider \ {p} : (q \in unheard => q \in before) /\ jobs'[q] = jobs[q],
         phase = "done" \/ p \in before \/ tab[p].state \in {"none", setupCardFor(p)}
  PROVE  Armed' /\ Awaited' /\ tab' \in [Provider -> CardOf] /\ minted' \in Nat
<1>1. PageTyped /\ Armed
  BY DEF PageInv
<1>2. tab \in [Provider -> CardOf] /\ tab[p] \in CardOf
  BY <1>1 DEF PageTyped
<1>3. \A q \in Provider : setupCardFor(q)' = setupCardFor(q)
  BY CardKept
<1>4. ASSUME NEW n \in {1, 2}, Mint(n) PROVE Fresh(n) \in Token
  BY <1>1, <1>4, MintKeeps
<1>5. CASE phase = "done"
  <2>c. PICK c : c = Card(setupCardFor(p), Fresh(2))
    OBVIOUS
  <2>1. Mint(2) /\ tab' = [tab EXCEPT ![p] = c] /\ unheard' = before \ {p}
    BY <1>5, <2>c DEF renderProgress
  <2>2. /\ c.token = Fresh(2) /\ c.panel = NoPanel /\ c.state = setupCardFor(p)
        /\ c \in NewCard
    BY <2>c, <2>1, <1>4, CardTyped DEF NewCard, Card, OrNone
  <2>3. p \in unheard' \/ c.state \in {"none", setupCardFor(p)'}
    BY <1>3, <2>2
  <2>4. \A q \in Provider \ {p} :
          /\ q \in unheard => q \in unheard'
          /\ jobs'[q] = jobs[q]
          /\ setupCardFor(q)' = setupCardFor(q)
    BY <1>3, <2>1
  <2> QED
    BY <2>1, <2>2, <2>3, <2>4, CardAnswered
<1>6. CASE phase = "denied"
  <2>c. PICK c : c = Card("needs-permission", Fresh(2))
    OBVIOUS
  <2>1. Mint(2) /\ tab' = [tab EXCEPT ![p] = c] /\ unheard' = before \union {p}
    BY <1>6, <2>c DEF renderProgress
  <2>2. /\ c.token = Fresh(2) /\ c.panel = NoPanel
        /\ c \in NewCard
    BY <2>c, <2>1, <1>4 DEF NewCard, Card, OrNone, CardState
  <2>3. p \in unheard' \/ c.state \in {"none", setupCardFor(p)'}
    BY <2>1
  <2>4. \A q \in Provider \ {p} :
          /\ q \in unheard => q \in unheard'
          /\ jobs'[q] = jobs[q]
          /\ setupCardFor(q)' = setupCardFor(q)
    BY <1>3, <2>1
  <2> QED
    BY <2>1, <2>2, <2>3, <2>4, CardAnswered
<1>7. CASE phase \notin {"done", "denied"}
  <2> DEFINE r == [phase |-> phase, token |-> Fresh(1)]
  <2>1. Mint(1) /\ tab' = [tab EXCEPT ![p].panel = r] /\ unheard' = before
    BY <1>7 DEF renderProgress
  <2>2. r \in Panel
    BY <2>1, <1>4 DEF Panel, OrNone
  <2>3. /\ tab' \in [Provider -> CardOf]
        /\ tab'[p].panel = r /\ tab'[p].token = tab[p].token /\ tab'[p].state = tab[p].state
        /\ \A q \in Provider \ {p} : tab'[q] = tab[q]
    BY <1>2, <2>1, <2>2 DEF CardOf
  <2>4. ASSUME NEW q \in Provider
        PROVE  Shown(q)' \subseteq Shown(q) \union {Fresh(1)}
    <3>1. CASE q = p
      BY <3>1, <2>3 DEF Shown
    <3>2. CASE q # p
      BY <3>2, <2>3 DEF Shown
    <3> QED
      BY <3>1, <3>2
  <2>5. Armed' /\ minted' \in Nat
    BY <1>1, <2>1, <2>4, ArmedKept, MintKeeps
  <2>6. Awaited'
    <3> SUFFICES ASSUME NEW q \in Provider, tab'[q].state # "none", q \notin unheard',
                        tab'[q].state # setupCardFor(q)'
                 PROVE  Polling(q)' /\ jobs'[q] = "done"
      BY DEF Awaited
    <3>1. q # p
      BY <1>3, <1>7, <2>1, <2>3
    <3>2. Polling(q) /\ jobs[q] = "done"
      BY <1>3, <2>1, <2>3, <3>1 DEF PageInv, Awaited
    <3> QED
      BY <2>3, <3>1, <3>2 DEF Polling
  <2> QED
    BY <2>3, <2>5, <2>6
<1> QED
  BY <1>5, <1>6, <1>7

\* A source that a device sends.
LEMMA ConflictAnswered ==
  ASSUME PageInv, NEW p \in Provider, NEW card \in BOOLEAN, renderImporterConflict(p, card),
         UNCHANGED <<clock, disk, present, replicas>>
  PROVE  Armed' /\ Awaited' /\ tab' \in [Provider -> CardOf] /\ minted' \in Nat
<1>1. PageTyped /\ Armed
  BY DEF PageInv
<1>2. tab \in [Provider -> CardOf] /\ tab[p] \in CardOf
  BY <1>1 DEF PageTyped
<1>3. \A q \in Provider : setupCardFor(q)' = setupCardFor(q)
  BY CardKept
<1>4. Mint(1) /\ unheard' = unheard \union {p} /\ jobs' = jobs /\ Fresh(1) \in Token
  BY <1>1, MintKeeps DEF renderImporterConflict
<1>5. CASE card
  <2>c. PICK c : c = Card("none", None)
    OBVIOUS
  <2>1. tab' = [tab EXCEPT ![p] = c]
    BY <1>5, <2>c DEF renderImporterConflict
  <2>2. /\ c.token = None /\ c.panel = NoPanel
        /\ c \in NewCard
    BY <2>c DEF NewCard, Card, OrNone, CardState
  <2>3. \A q \in Provider \ {p} :
          /\ q \in unheard => q \in unheard'
          /\ jobs'[q] = jobs[q]
          /\ setupCardFor(q)' = setupCardFor(q)
    BY <1>3, <1>4
  <2>4. p \in unheard'
    BY <1>4
  <2> QED
    BY <1>4, <2>1, <2>2, <2>3, <2>4, CardAnswered
<1>6. CASE ~card
  <2> DEFINE r == [phase |-> "failed", token |-> Fresh(1)]
  <2>1. tab' = [tab EXCEPT ![p] = [@ EXCEPT !.panel = r]]
    BY <1>6 DEF renderImporterConflict
  <2>2. r \in Panel
    BY <1>4 DEF Panel, OrNone, Phase
  <2>3. /\ tab' \in [Provider -> CardOf]
        /\ tab'[p].panel = r /\ tab'[p].token = tab[p].token
        /\ \A q \in Provider \ {p} : tab'[q] = tab[q]
    BY <1>2, <2>1, <2>2 DEF CardOf
  <2>4. ASSUME NEW q \in Provider
        PROVE  Shown(q)' \subseteq Shown(q) \union {Fresh(1)}
    <3>1. CASE q = p
      BY <3>1, <2>3 DEF Shown
    <3>2. CASE q # p
      BY <3>2, <2>3 DEF Shown
    <3> QED
      BY <3>1, <3>2
  <2>5. Armed' /\ minted' \in Nat
    BY <1>1, <1>4, <2>4, ArmedKept, MintKeeps
  <2>6. Awaited'
    <3> SUFFICES ASSUME NEW q \in Provider, tab'[q].state # "none", q \notin unheard',
                        tab'[q].state # setupCardFor(q)'
                 PROVE  Polling(q)' /\ jobs'[q] = "done"
      BY DEF Awaited
    <3>1. q # p
      BY <1>4
    <3>2. Polling(q) /\ jobs[q] = "done"
      BY <1>3, <1>4, <2>3, <3>1 DEF PageInv, Awaited
    <3> QED
      BY <1>4, <2>3, <3>1, <3>2 DEF Polling
  <2> QED
    BY <2>3, <2>5, <2>6
<1> QED
  BY <1>5, <1>6

-----------------------------------------------------------------------------
LEMMA StartKeeps == ASSUME PageInv, NEW p \in Provider, Start(p) PROVE PageInv'
<1>1. PageTyped /\ Awaited /\ UNCHANGED <<clock, disk, present, replicas, deleting>>
  BY DEF PageInv, Start
<1>2. CASE renderImporterConflict(p, FALSE)
  <2>1. Armed' /\ Awaited' /\ tab' \in [Provider -> CardOf] /\ minted' \in Nat
    BY <1>1, <1>2, ConflictAnswered
  <2> QED
    BY <1>1, <1>2, <2>1 DEF PageInv, PageTyped, renderImporterConflict
<1>3. CASE /\ jobs' = IF Active(p) THEN jobs ELSE [jobs EXCEPT ![p] = "active"]
           /\ renderProgress(p, jobs'[p], Overtaken(p))
  <2>1. jobs' \in [Provider -> Phase] /\ \A q \in Provider \ {p} : jobs'[q] = jobs[q]
    BY <1>1, <1>3 DEF PageTyped, Phase
  <2>2. \A q \in unheard : q \in Overtaken(p)
    BY DEF Overtaken
  <2>3. p \in Overtaken(p) \/ tab[p].state \in {"none", setupCardFor(p)}
    BY <1>1 DEF Awaited, Overtaken, Active
  <2>4. jobs'[p] \in Phase
    BY <2>1
  <2>5. Armed' /\ Awaited' /\ tab' \in [Provider -> CardOf] /\ minted' \in Nat
    BY <1>1, <1>3, <2>1, <2>2, <2>3, <2>4, ProgressAnswered
  <2> QED
    BY <1>1, <2>1, <2>5 DEF PageInv, PageTyped
<1> QED
  BY <1>2, <1>3 DEF Start

LEMMA StatusKeeps == ASSUME PageInv, NEW p \in Provider, handleSetupStatus(p) PROVE PageInv'
<1>1. PageTyped /\ Awaited /\ UNCHANGED <<clock, disk, present, replicas, deleting, jobs>>
  BY DEF PageInv, handleSetupStatus
<1>2. jobs[p] \in Phase /\ renderProgress(p, jobs[p], unheard)
  BY <1>1 DEF PageTyped, handleSetupStatus
<1>3. jobs[p] = "done" \/ p \in unheard \/ tab[p].state \in {"none", setupCardFor(p)}
  BY <1>1 DEF Awaited
<1>4. Armed' /\ Awaited' /\ tab' \in [Provider -> CardOf] /\ minted' \in Nat
  BY <1>1, <1>2, <1>3, ProgressAnswered
<1> QED
  BY <1>1, <1>4 DEF PageInv, PageTyped

LEMMA CancelKeeps == ASSUME PageInv, NEW p \in Provider, handleSetupCancel(p) PROVE PageInv'
<1>1. PageTyped /\ Awaited /\ UNCHANGED <<clock, disk, present, replicas, deleting>>
  BY DEF PageInv, handleSetupCancel
<1>2. /\ jobs' = IF Active(p) THEN [jobs EXCEPT ![p] = "cancelling"] ELSE jobs
      /\ renderProgress(p, jobs'[p], unheard)
  BY DEF handleSetupCancel
<1>3. jobs' \in [Provider -> Phase] /\ \A q \in Provider \ {p} : jobs'[q] = jobs[q]
  BY <1>1, <1>2 DEF PageTyped, Phase
<1>4. jobs'[p] \in Phase
  BY <1>3
<1>5. jobs'[p] = "done" \/ p \in unheard \/ tab[p].state \in {"none", setupCardFor(p)}
  BY <1>1, <1>2 DEF Awaited, Active
<1>6. Armed' /\ Awaited' /\ tab' \in [Provider -> CardOf] /\ minted' \in Nat
  BY <1>1, <1>2, <1>3, <1>4, <1>5, ProgressAnswered
<1> QED
  BY <1>1, <1>3, <1>6 DEF PageInv, PageTyped

\* A card that is made of what is there now.
LEMMA AnswerKeeps ==
  ASSUME PageInv, NEW p \in Provider, NEW confirm \in BOOLEAN, AnswerCard(p, confirm),
         UNCHANGED <<clock, disk, present, replicas, jobs, deleting>>
  PROVE  PageInv'
<1>1. PageTyped /\ Armed
  BY DEF PageInv
<1>c. PICK c : c = [Card(setupCardFor(p), Fresh(1)) EXCEPT !.confirm = confirm]
  OBVIOUS
<1>2. Mint(1) /\ tab' = [tab EXCEPT ![p] = c] /\ unheard' = unheard \ {p} /\ Fresh(1) \in Token
  BY <1>c, <1>1, MintKeeps DEF AnswerCard
<1>3. /\ c.token = Fresh(1) /\ c.panel = NoPanel /\ c.state = setupCardFor(p)
      /\ c \in NewCard
  BY <1>c, <1>2, CardTyped DEF NewCard, Card, OrNone
<1>4. /\ setupCardFor(p)' = setupCardFor(p)
      /\ \A q \in Provider \ {p} :
           /\ q \in unheard => q \in unheard'
           /\ jobs'[q] = jobs[q]
           /\ setupCardFor(q)' = setupCardFor(q)
  BY <1>2, CardKept
<1>5. Armed' /\ Awaited' /\ tab' \in [Provider -> CardOf] /\ minted' \in Nat
  BY <1>2, <1>3, <1>4, CardAnswered
<1> QED
  BY <1>1, <1>5 DEF PageInv, PageTyped

LEMMA DisableKeeps == ASSUME PageInv, NEW p \in Provider, handleSetupDisable(p) PROVE PageInv'
<1>1. PageTyped /\ UNCHANGED <<clock, disk, present, replicas>>
  BY DEF PageInv, handleSetupDisable
<1>2. CASE renderImporterConflict(p, TRUE) /\ UNCHANGED deleting
  <2>1. Armed' /\ Awaited' /\ tab' \in [Provider -> CardOf] /\ minted' \in Nat
    BY <1>1, <1>2, ConflictAnswered
  <2> QED
    BY <1>1, <1>2, <2>1 DEF PageInv, PageTyped, renderImporterConflict
<1>3. CASE AnswerCard(p, ~Active(p)) /\ UNCHANGED <<jobs, deleting>>
  <2>1. PICK confirm \in BOOLEAN : confirm = ~Active(p)
    BY DEF Active
  <2> QED
    BY <1>1, <1>3, <2>1, AnswerKeeps
<1>4. CASE deleting' = p /\ UNCHANGED <<tokens, minted, jobs, tab, unheard>>
  <2>1. Armed'
    BY <1>1, <1>4, ArmedStays DEF PageInv, Shown
  <2>2. Awaited'
    BY <1>1, <1>4, CardKept DEF PageInv, Awaited, Polling
  <2> QED
    BY <1>1, <1>4, <2>1, <2>2 DEF PageInv, PageTyped, OrNone
<1> QED
  BY <1>2, <1>3, <1>4 DEF handleSetupDisable

LEMMA DeleteKeeps == ASSUME PageInv, DeleteSourceRows PROVE PageInv'
<1>1. PageTyped /\ Armed /\ UNCHANGED <<clock, disk, replicas, jobs>> /\ deleting' = None
  BY DEF PageInv, DeleteSourceRows
<1>2. PICK p \in Provider : p = deleting
  BY <1>1 DEF DeleteSourceRows, PageTyped, OrNone
<1> DEFINE state == IF p \in replicas \union Rooted THEN setupCardFor(p)
                    ELSE IF ~detectSource(p) THEN "not-detected"
                    ELSE IF probeSource(p) = "needed" THEN "needs-permission" ELSE "ready"
<1>c. PICK c : c = Card(state, Fresh(1))
  OBVIOUS
<1>3. /\ Mint(1) /\ tab' = [tab EXCEPT ![p] = c] /\ unheard' = unheard \ {p} /\ Fresh(1) \in Token
      /\ present' = present \ {p}
  BY <1>1, <1>2, <1>c, MintKeeps DEF DeleteSourceRows
<1>4. state = setupCardFor(p)'
  <2>1. detectSource(p)' = detectSource(p) /\ probeSource(p)' = probeSource(p)
    BY <1>1 DEF detectSource, probeSource
  <2>2. p \notin present'
    BY <1>3
  <2>3. CASE p \in replicas \union Rooted
    BY <1>1, <1>3, <2>3 DEF setupCardFor
  <2>4. CASE p \notin replicas \union Rooted
    BY <1>1, <2>1, <2>2, <2>4 DEF setupCardFor
  <2> QED
    BY <2>3, <2>4
<1>5. /\ c.token = Fresh(1) /\ c.panel = NoPanel /\ c.state = state
      /\ c \in NewCard
  BY <1>c, <1>3, CardTyped DEF NewCard, Card, OrNone, CardState
<1>6. \A q \in Provider \ {p} :
        /\ q \in unheard => q \in unheard'
        /\ jobs'[q] = jobs[q]
        /\ setupCardFor(q)' = setupCardFor(q)
  BY <1>1, <1>3, CardKept
<1> HIDE DEF state
<1>7. Armed' /\ Awaited' /\ tab' \in [Provider -> CardOf] /\ minted' \in Nat
  BY <1>1, <1>3, <1>4, <1>5, <1>6, CardAnswered
<1> QED
  BY <1>1, <1>7 DEF PageInv, PageTyped, OrNone

\* A whole page.
LEMMA PageKeeps == ASSUME PageInv, handleSetup PROVE PageInv'
<1>1. /\ PageTyped /\ Armed /\ Mint(1) /\ Fresh(1) \in Token
      /\ UNCHANGED <<clock, disk, present, replicas, jobs, deleting>>
  BY MintKeeps DEF PageInv, handleSetup
<1>2. tab' = [p \in Provider |-> Card(setupCardFor(p), Fresh(1))]
  BY DEF handleSetup
<1>3. \A p \in Provider : setupCardFor(p) \in CardState /\ setupCardFor(p)' = setupCardFor(p)
  BY <1>1, CardTyped, CardKept
<1>4. \A p \in Provider : Card(setupCardFor(p), Fresh(1)) \in CardOf
  BY <1>1, <1>3 DEF Card, CardOf, OrNone, NoPanel, Panel, Phase
<1>5. \A p \in Provider : Shown(p)' \subseteq Shown(p) \union {Fresh(1)}
  BY <1>2 DEF Shown, Card, NoPanel
<1>6. Armed' /\ minted' \in Nat
  BY <1>1, <1>5, ArmedKept, MintKeeps
<1>7. Awaited'
  BY <1>2, <1>3 DEF Awaited, Card
<1>8. tab' \in [Provider -> CardOf]
  BY <1>2, <1>4
<1> QED
  BY <1>1, <1>6, <1>7, <1>8 DEF PageInv, PageTyped

\* A token that is refused leaves the page, and takes the expired ones.
LEMMA RefusalKeeps == ASSUME PageInv, checkSetupPOST PROVE PageInv'
<1>1. /\ PageTyped /\ Armed /\ Awaited /\ tokens' = pruneExpired(tokens)
      /\ UNCHANGED <<clock, minted, disk, present, replicas, jobs, deleting, tab, unheard>>
  BY DEF PageInv, checkSetupPOST
<1>2. /\ Recent(tokens', minted)
      /\ DOMAIN tokens' = {i \in DOMAIN tokens : clock <= tokens[i]}
      /\ \A i \in DOMAIN tokens' : tokens'[i] = tokens[i]
  BY <1>1, PruneKeeps DEF PageTyped, Armed
<1>3. ASSUME NEW p \in Provider, NEW t \in Shown(p)
      PROVE  Accounted(tokens', minted, t)
  <2>1. Accounted(tokens, minted, t) /\ t \in Token
    BY <1>1, <1>3, ShownTokens DEF Armed
  <2>2. CASE t.id \in DOMAIN tokens'
    BY <1>2, <2>1, <2>2 DEF Accounted
  <2>3. CASE t.id \in DOMAIN tokens /\ t.id \notin DOMAIN tokens'
    <3>1. tokens[t.id] = t.at + TokenTTL /\ ~(clock <= tokens[t.id]) /\ t.at \in Nat
      BY <1>2, <2>1, <2>3 DEF Accounted, Token
    <3>2. clock > t.at + TokenTTL
      BY <1>1, <3>1, SetupAssumption DEF PageTyped
    <3> QED
      BY <2>1, <2>3, <3>2 DEF Accounted
  <2>4. CASE t.id \notin DOMAIN tokens
    BY <1>2, <2>1, <2>4 DEF Accounted
  <2> QED
    BY <2>2, <2>3, <2>4
<1>4. Recent(tokens, minted)'
  BY <1>1, <1>2 DEF Recent
<1>5. ASSUME NEW p \in Provider, NEW t \in Shown(p)'
      PROVE  Accounted(tokens, minted, t)'
  <2>1. t \in Shown(p)
    BY <1>1, <1>5 DEF Shown
  <2>2. Accounted(tokens', minted, t)
    BY <2>1, <1>3
  <2> QED
    BY <1>1, <2>2 DEF Accounted
<1>6. Awaited'
  BY <1>1, CardKept DEF Awaited, Polling
<1> QED
  BY <1>1, <1>4, <1>5, <1>6 DEF PageInv, PageTyped, Armed

\* Time passes: what expires is still accounted for.
LEMMA TimeKeeps == ASSUME PageInv, TimePasses PROVE PageInv'
<1>1. /\ PageTyped /\ Armed /\ Awaited /\ clock' = clock + 1 /\ clock \in Nat
      /\ UNCHANGED <<tokens, minted, disk, present, replicas, jobs, deleting, tab, unheard>>
  BY DEF PageInv, PageTyped, TimePasses
<1>2. Recent(tokens, minted)'
  BY <1>1, SetupAssumption DEF Armed, Recent
<1>3. ASSUME NEW p \in Provider, NEW t \in Shown(p)'
      PROVE  Accounted(tokens, minted, t)'
  <2>1. Accounted(tokens, minted, t) /\ t \in Token
    BY <1>1, <1>3, ShownTokens DEF Armed, Shown
  <2> QED
    BY <1>1, <2>1, SetupAssumption DEF Accounted, Token
<1>4. Awaited'
  BY <1>1, CardKept DEF Awaited, Polling
<1> QED
  BY <1>1, <1>2, <1>3, <1>4 DEF PageInv, PageTyped, Armed

\* What happens outside of the page, about one provider.
LEMMA OutsideKeeps ==
  ASSUME PageInv, NEW p \in Provider, UNCHANGED <<clock, tokens, minted, deleting, tab>>,
         DOMAIN disk' = Provider, jobs' \in [Provider -> Phase],
         \A q \in Provider \ {p} :
           /\ disk'[q] = disk[q] /\ jobs'[q] = jobs[q]
           /\ (q \in replicas' <=> q \in replicas) /\ (q \in present' <=> q \in present)
           /\ q \in unheard => q \in unheard',
         \/ p \in unheard'
         \/ /\ disk'[p] = disk[p] /\ (p \in unheard => p \in unheard')
            /\ p \in replicas' <=> p \in replicas
            /\ \/ (p \in present' <=> p \in present) /\ (Polling(p) /\ jobs[p] = "done" => jobs'[p] = "done")
               \/ Polling(p) /\ jobs'[p] = "done"
  PROVE  PageInv'
<1>1. PageTyped /\ Armed /\ Awaited
  BY DEF PageInv
<1>2. Armed'
  BY <1>1, ArmedStays DEF Shown
<1>3. ASSUME NEW q \in Provider, tab'[q].state # "none", q \notin unheard',
             tab'[q].state # setupCardFor(q)'
      PROVE  Polling(q)' /\ jobs'[q] = "done"
  <2>1. CASE q # p
    <3>1. setupCardFor(q)' = setupCardFor(q)
      BY <2>1, CardKept
    <3> QED
      BY <1>1, <1>3, <2>1, <3>1 DEF Awaited, Polling
  <2>2. CASE q = p
    <3>1. CASE Polling(p) /\ jobs'[p] = "done"
      BY <2>2, <3>1 DEF Polling
    <3>2. CASE /\ p \in present' <=> p \in present
               /\ Polling(p) /\ jobs[p] = "done" => jobs'[p] = "done"
               /\ disk'[p] = disk[p] /\ (p \in unheard => p \in unheard')
               /\ p \in replicas' <=> p \in replicas
      <4>1. setupCardFor(p)' = setupCardFor(p)
        BY <3>2, <1>3, <2>2, CardKept
      <4> QED
        BY <1>1, <1>3, <2>2, <3>2, <4>1 DEF Awaited, Polling
    <3> QED
      BY <1>3, <2>2, <3>1, <3>2
  <2> QED
    BY <2>1, <2>2
<1>4. Awaited'
  BY <1>3 DEF Awaited
<1> QED
  BY <1>1, <1>2, <1>4 DEF PageInv, PageTyped

LEMMA RefreshKeeps == ASSUME PageInv, NEW p \in Provider, RefreshNext(p) PROVE PageInv'
<1>1. PageTyped
  BY DEF PageInv
<1>2. /\ UNCHANGED <<clock, tokens, minted, disk, present, replicas, deleting, tab>>
      /\ jobs' = IF Active(p) THEN jobs ELSE [jobs EXCEPT ![p] = "active"]
      /\ unheard' = Overtaken(p)
  BY DEF RefreshNext
<1>3. jobs' \in [Provider -> Phase] /\ \A q \in Provider \ {p} : jobs'[q] = jobs[q]
  BY <1>1, <1>2 DEF PageTyped, Phase
<1>4. \A q \in unheard : q \in unheard'
  BY <1>2 DEF Overtaken
<1>5. p \in unheard' \/ (Polling(p) /\ jobs[p] = "done" => jobs'[p] = "done")
  BY <1>2 DEF Overtaken, Active
<1>6. DOMAIN disk' = Provider
  BY <1>1, <1>2 DEF PageTyped
<1> QED
  BY <1>2, <1>3, <1>4, <1>5, <1>6, OutsideKeeps

LEMMA EndKeeps == ASSUME PageInv, NEW p \in Provider, EndJob(p) PROVE PageInv'
<1>1. PageTyped
  BY DEF PageInv
<1>2. UNCHANGED <<clock, tokens, minted, disk, replicas, deleting, tab>>
  BY DEF EndJob
<1>3. PICK phase \in Phase :
        /\ jobs' = [jobs EXCEPT ![p] = phase]
        /\ present' \in {present, present \union {p}}
        /\ unheard' = IF present' # present /\ ~(phase = "done" /\ Polling(p))
                      THEN unheard \union {p} ELSE unheard
        /\ Active(p)
  BY DEF EndJob, Phase
<1>4. /\ jobs' \in [Provider -> Phase] /\ jobs'[p] = phase
      /\ \A q \in Provider \ {p} : jobs'[q] = jobs[q]
  BY <1>1, <1>3 DEF PageTyped
<1>5. \A q \in unheard : q \in unheard'
  BY <1>3
<1>6. \A q \in Provider \ {p} : q \in present' <=> q \in present
  BY <1>3
<1>7. jobs[p] # "done"
  BY <1>3 DEF Active
<1>8. \/ p \in unheard' \/ (p \in present' <=> p \in present)
      \/ Polling(p) /\ jobs'[p] = "done"
  BY <1>3, <1>4
<1>9. DOMAIN disk' = Provider
  BY <1>1, <1>2 DEF PageTyped
<1> QED
  BY <1>2, <1>4, <1>5, <1>6, <1>7, <1>8, <1>9, OutsideKeeps

LEMMA WorldKeeps ==
  ASSUME PageInv, NEW p \in Provider, DiskChanges(p) \/ PeerSends(p) PROVE PageInv'
<1>1. PageTyped
  BY DEF PageInv
<1>2. /\ UNCHANGED <<clock, tokens, minted, jobs, deleting, tab>> /\ unheard' = unheard \union {p}
  BY DEF DiskChanges, PeerSends, Outside
<1>3. DOMAIN disk' = Provider /\ \A q \in Provider \ {p} : disk'[q] = disk[q]
  BY <1>1 DEF PageTyped, DiskChanges, PeerSends
<1>4. \A q \in Provider \ {p} : (q \in replicas' <=> q \in replicas) /\ (q \in present' <=> q \in present)
  BY DEF DiskChanges, PeerSends
<1>5. jobs' \in [Provider -> Phase]
  BY <1>1, <1>2 DEF PageTyped
<1> QED
  BY <1>2, <1>3, <1>4, <1>5, OutsideKeeps

\* What touches no card, token or job.
LEMMA StillKeeps ==
  ASSUME PageInv, UNCHANGED <<clock, tokens, minted, disk, present, replicas, jobs, deleting, tab, unheard>>
  PROVE  PageInv'
<1>1. Armed'
  BY ArmedStays DEF PageInv, Shown
<1>2. Awaited'
  BY CardKept DEF PageInv, Awaited, Polling
<1> QED
  BY <1>1, <1>2 DEF PageInv, PageTyped

LEMMA NextPage == PageInv /\ [SetupNext]_setupVars => PageInv'
<1> SUFFICES ASSUME PageInv, [SetupNext]_setupVars PROVE PageInv'
  OBVIOUS
<1>1. CASE handleSetup \/ checkSetupPOST \/ TimePasses \/ DeleteSourceRows
  BY <1>1, PageKeeps, RefusalKeeps, TimeKeeps, DeleteKeeps
<1>2. ASSUME NEW p \in Provider, handleSetupEnable(p) \/ handleSetupRefresh(p)
      PROVE  PageInv'
  BY <1>2, StartKeeps DEF handleSetupEnable, handleSetupRefresh
<1>3. ASSUME NEW p \in Provider, handleSetupStatus(p) \/ handleSetupCancel(p) \/ handleSetupDisable(p)
      PROVE  PageInv'
  BY <1>3, StatusKeeps, CancelKeeps, DisableKeeps
<1>4. ASSUME NEW p \in Provider, handleSetupRecheck(p) PROVE PageInv'
  BY <1>4, AnswerKeeps DEF handleSetupRecheck
<1>5. ASSUME NEW p \in Provider, RefreshNext(p) \/ EndJob(p) \/ DiskChanges(p) \/ PeerSends(p)
      PROVE  PageInv'
  BY <1>5, RefreshKeeps, EndKeeps, WorldKeeps
<1>6. CASE StartAutoRefresh
  BY <1>6, StillKeeps DEF StartAutoRefresh, Outside
<1>7. CASE UNCHANGED setupVars
  BY <1>7, StillKeeps DEF setupVars
<1> QED
  BY <1>1, <1>2, <1>3, <1>4, <1>5, <1>6, <1>7 DEF SetupNext

\* Every control of the page works for its hour, or until as many tokens as may be
\* live were minted since, and every card says what a new page would, unless the page
\* waits for a job or something it was not told of has happened: for any providers,
\* clicks, jobs, passes, devices and changes on the disk.  (internal/web/setup.go,
\* setup_security.go, enable.go, refresh.go, disable.go.)
THEOREM PageAsNew == SetupSpec => []SetupPageHolds
<1>1. SetupInit => PageInv
  BY InitPage
<1>2. PageInv /\ [SetupNext]_setupVars => PageInv'
  BY NextPage
<1>3. PageInv => SetupPageHolds
  <2> SUFFICES ASSUME PageInv PROVE SetupPageHolds
    OBVIOUS
  <2>1. ASSUME NEW p \in Provider, NEW t \in Shown(p)
        PROVE  valid(t) <=> clock <= t.at + TokenTTL /\ minted - t.id < TokenCap
    <3>1. Accounted(tokens, minted, t) /\ Recent(tokens, minted) /\ t \in Token
      BY <2>1, ShownTokens DEF PageInv, Armed
    <3>2. t.id \in Nat /\ t.at \in Nat /\ clock \in Nat /\ minted \in Nat
      BY <3>1 DEF Token, PageInv, PageTyped
    <3>3. CASE t.id \in DOMAIN tokens
      BY <3>1, <3>2, <3>3 DEF valid, Accounted, Recent
    <3>4. CASE t.id \notin DOMAIN tokens
      BY <3>1, <3>2, <3>4, SetupAssumption DEF valid, Accounted
    <3> QED
      BY <3>3, <3>4
  <2>2. ControlsWork
    BY <2>1 DEF ControlsWork, Shown
  <2>3. CardsAreCurrent
    BY DEF CardsAreCurrent, PageInv, Awaited
  <2> QED
    BY <2>2, <2>3 DEF SetupPageHolds
<1> QED
  BY <1>1, <1>2, <1>3, PTL DEF SetupSpec

-----------------------------------------------------------------------------
(* The schema.                                                             *)

Step == {"closed", "ledger", "backfill", "verify", "apply", "open"}

\* The database, whose versions up to d's are those it was inherited with.
Inherits(d) ==
  /\ store = [version |-> store.version, schema |-> store.schema, ledger |-> store.ledger]
  /\ store.version \in Nat /\ d.version <= store.version
  /\ d.schema \subseteq store.schema /\ DOMAIN d.ledger \subseteq DOMAIN store.ledger
  /\ \A v \in DOMAIN store.ledger : store.ledger[v] # None => Objects(store.ledger[v]) \subseteq store.schema
  /\ DOMAIN store.ledger # {} =>
       \A v \in 1 .. d.version :
         /\ v \in DOMAIN store.ledger
         /\ store.ledger[v] = IF v \in DOMAIN d.ledger THEN d.ledger[v] ELSE None
  /\ DOMAIN store.ledger = {} => store.version = d.version

\* What a process has read is on record, and what it has verified or run is there.
Place == [at : Step, texts : Build \union {<<>>}, v : Nat]
Sound(o, d) ==
  /\ o.at # "closed" =>
       /\ o.texts \in Build /\ d.version <= o.v /\ o.v <= Len(o.texts)
       /\ \A v \in d.version + 1 .. o.v : v \in DOMAIN store.ledger /\ store.ledger[v] # None
  /\ o.at = "backfill" => o.v > 0
  /\ o.at \in {"verify", "apply", "open"} => DOMAIN store.ledger # {} \/ o.v = 0
  /\ o.at \in {"apply", "open"} =>
       /\ verifyLedger(d, o.texts, d.version)
       /\ \A v \in d.version + 1 .. o.v : Objects(o.texts[v]) \subseteq store.schema
  /\ o.at = "open" => o.v = Len(o.texts)

Follows(d) == opener \in [Opener -> Place] /\ \A p \in Opener : Sound(opener[p], d)

\* While processes have not met, each is where the database is or behind.
Alone ==
  ~met => /\ DOMAIN store.ledger \in {{}, 1 .. store.version}
          /\ \A p \in Opener : opener[p].at # "closed" => opener[p].v <= store.version
          /\ Opens(store)

\* Every version that the database has since it was inherited is on record.
Recorded(d) == \A v \in d.version + 1 .. store.version : v \in DOMAIN store.ledger /\ store.ledger[v] # None

MigrationInv(d) == Inherits(d) /\ Follows(d) /\ Recorded(d) /\ Alone

-----------------------------------------------------------------------------
LEMMA InheritedTyped ==
  ASSUME NEW d \in Inherited
  PROVE  /\ d.version \in Nat /\ DOMAIN d.ledger \in {{}, 1 .. d.version}
         /\ \A v \in DOMAIN d.ledger : d.ledger[v] # None => Objects(d.ledger[v]) \subseteq d.schema
         /\ d = [version |-> d.version, schema |-> d.schema, ledger |-> d.ledger]
         /\ Opens(d)
  BY InheritedAssumption

LEMMA BuildTyped ==
  ASSUME NEW texts \in Build
  PROVE  Len(texts) \in Nat /\ \A v \in 1 .. Len(texts) : texts[v] # None
<1>1. texts \in Seq({texts[v] : v \in DOMAIN texts}) /\ \A v \in DOMAIN texts : texts[v] # None
  BY BuildAssumption
<1>2. DOMAIN texts = 1 .. Len(texts) /\ Len(texts) \in Nat
  BY <1>1
<1> QED
  BY <1>1, <1>2

\* A database that is at the next version can still be opened, or is refused: its
\* text was the newest build's, or the ledger tells that it was not.
LEMMA MigratedOpens ==
  ASSUME NEW d, d.version \in Nat, NEW texts \in Build, Opens(d),
         d.version + 1 <= Len(texts), DOMAIN d.ledger \subseteq Nat
  PROVE  Opens(Migrated(d, texts, d.version + 1))
<1> DEFINE w == d.version + 1
           e == Migrated(d, texts, w)
           n == Len(Shipped)
<1>1. /\ e.version = w /\ e.schema = d.schema \union Objects(texts[w])
      /\ DOMAIN e.ledger = DOMAIN d.ledger \union {w} /\ e.ledger[w] = texts[w]
      /\ \A u \in DOMAIN d.ledger : u # w => e.ledger[u] = d.ledger[u]
  BY DEF Migrated
<1>2. n \in Nat /\ w \in 1 .. Len(texts) /\ texts[w] # None /\ w \in Nat
  BY BuildTyped, MigrationsAssumption
<1> HIDE DEF e
<1>3. CASE d.version > n
  <2>1. e.version > n
    BY <1>1, <1>2, <1>3
  <2> QED
    BY <2>1 DEF Opens, e
<1>4. CASE ~verifyLedger(d, Shipped, d.version)
  <2>1. PICK u \in DOMAIN d.ledger :
          u <= d.version /\ d.ledger[u] # None /\ ~(u <= Len(Shipped) /\ d.ledger[u] = Shipped[u])
    BY <1>4 DEF verifyLedger
  <2>2. u \in DOMAIN e.ledger /\ u <= e.version /\ e.ledger[u] = d.ledger[u]
    BY <1>1, <1>2, <2>1
  <2>3. ~verifyLedger(e, Shipped, e.version)
    BY <2>1, <2>2 DEF verifyLedger
  <2> QED
    BY <2>3 DEF Opens, e
<1>5. CASE w > n \/ texts[w] # Shipped[w]
  <2>1. ~(w <= Len(Shipped) /\ e.ledger[w] = Shipped[w])
    BY <1>1, <1>2, <1>5
  <2>2. w \in DOMAIN e.ledger /\ w <= e.version /\ e.ledger[w] # None
    BY <1>1, <1>2
  <2>3. ~verifyLedger(e, Shipped, e.version)
    BY <2>1, <2>2 DEF verifyLedger
  <2> QED
    BY <2>3 DEF Opens, e
<1>6. CASE /\ \A v \in d.version + 1 .. n : ~MayFail(Shipped[v], d.schema \union Due(d.version, v - 1))
           /\ w <= n /\ texts[w] = Shipped[w]
  <2>1. ASSUME NEW v \in w + 1 .. n
        PROVE  ~MayFail(Shipped[v], e.schema \union Due(w, v - 1))
    <3>1. v \in d.version + 1 .. n /\ w \in d.version + 1 .. v - 1
      BY <1>2
    <3>2. \A u : u \in d.version + 1 .. v - 1 <=> u = w \/ u \in w + 1 .. v - 1
      BY <1>2, <3>1
    <3>3. Due(d.version, v - 1) = Objects(Shipped[w]) \union Due(w, v - 1)
      BY <3>2 DEF Due
    <3>4. e.schema \union Due(w, v - 1) = d.schema \union Due(d.version, v - 1)
      BY <1>1, <1>6, <3>3
    <3> QED
      BY <1>6, <3>1, <3>4
  <2>2. \A v \in e.version + 1 .. Len(Shipped) : ~MayFail(Shipped[v], e.schema \union Due(e.version, v - 1))
    BY <1>1, <2>1
  <2> QED
    BY <2>2 DEF Opens, e
<1>7. CASE ~(w > n \/ texts[w] # Shipped[w])
  <2>1. w <= n /\ texts[w] = Shipped[w]
    BY <1>2, <1>7
  <2>2. \/ d.version > n
        \/ ~verifyLedger(d, Shipped, d.version)
        \/ \A v \in d.version + 1 .. n : ~MayFail(Shipped[v], d.schema \union Due(d.version, v - 1))
    BY DEF Opens
  <2> QED
    BY <1>3, <1>4, <1>6, <2>1, <2>2 DEF e
<1> QED
  BY <1>5, <1>7 DEF e

LEMMA InitMigrations == ASSUME MigrationsInit PROVE \E d \in Inherited : MigrationInv(d)
<1>1. store \in Inherited
  BY DEF MigrationsInit
<1>2. PICK d \in Inherited : d = store
  BY <1>1
<1>3. /\ d.version \in Nat /\ DOMAIN d.ledger \in {{}, 1 .. d.version} /\ Opens(d)
      /\ \A v \in DOMAIN d.ledger : d.ledger[v] # None => Objects(d.ledger[v]) \subseteq d.schema
      /\ d = [version |-> d.version, schema |-> d.schema, ledger |-> d.ledger]
  BY InheritedTyped
<1>4. Inherits(d)
  BY <1>2, <1>3 DEF Inherits
<1>5. Follows(d)
  BY DEF MigrationsInit, NotOpen, Follows, Place, Sound, Step
<1>6. Recorded(d)
  BY <1>2, <1>3 DEF Recorded
<1>7. Alone
  BY <1>2, <1>3 DEF Alone, MigrationsInit, NotOpen
<1> QED
  BY <1>4, <1>5, <1>6, <1>7 DEF MigrationInv

\* A process goes on to o, or leaves, and the database stays as it is.
LEMMA MoveKeeps ==
  ASSUME NEW d \in Inherited, MigrationInv(d), NEW p \in Opener, NEW o \in Place,
         UNCHANGED <<store, met>>, opener' = [opener EXCEPT ![p] = o], Sound(o, d),
         o.at # "closed" /\ ~met => o.v <= store.version
  PROVE  MigrationInv(d)'
<1>1. Inherits(d)' /\ Recorded(d)'
  BY DEF MigrationInv, Inherits, Recorded
<1>2. opener' \in [Opener -> Place] /\ \A q \in Opener : opener'[q] = IF q = p THEN o ELSE opener[q]
  BY DEF MigrationInv, Follows
<1>3. Follows(d)'
  <2>1. \A q \in Opener : Sound(opener'[q], d)
    BY <1>2 DEF MigrationInv, Follows
  <2>2. \A q \in Opener : Sound(opener[q], d)'
    BY <2>1 DEF Sound
  <2> QED
    BY <1>2, <2>2 DEF Follows
<1>4. Alone'
  <2>1. Opens(store)' <=> Opens(store)
    BY DEF Opens
  <2> QED
    BY <1>2, <2>1 DEF MigrationInv, Alone
<1> QED
  BY <1>1, <1>3, <1>4 DEF MigrationInv

LEMMA MovesKeep ==
  ASSUME NEW d \in Inherited, MigrationInv(d), NEW p \in Opener,
         \/ \E texts \in Build : OpenStore(p, texts)
         \/ ensureLedger(p) \/ Verify(p) \/ Opened(p) \/ CloseStore(p) \/ Dies(p)
  PROVE  MigrationInv(d)'
<1>1. /\ Inherits(d) /\ Follows(d) /\ Recorded(d) /\ Alone /\ d.version \in Nat
      /\ DOMAIN d.ledger \in {{}, 1 .. d.version}
  BY InheritedTyped DEF MigrationInv
<1>2. opener \in [Opener -> Place] /\ opener[p] \in Place /\ Sound(opener[p], d)
  BY <1>1 DEF Follows
<1>3. NotOpen \in Place /\ Sound(NotOpen, d) /\ NotOpen.at = "closed"
  BY DEF NotOpen, Place, Step, Sound
<1>4. ASSUME UNCHANGED <<store, met>>, OpenFails(p) PROVE MigrationInv(d)'
  BY <1>3, <1>4, MoveKeeps DEF OpenFails
<1>5. ASSUME NEW place \in Step \ {"closed"}, UNCHANGED <<store, met>>, GoesTo(p, place),
             opener[p].at # "closed", Sound([opener[p] EXCEPT !.at = place], d)
      PROVE  MigrationInv(d)'
  <2>1. PICK o \in Place : o = [opener[p] EXCEPT !.at = place]
    BY <1>2 DEF Place
  <2>2. opener' = [opener EXCEPT ![p] = o]
    BY <1>2, <1>5, <2>1 DEF GoesTo
  <2>3. ~met => o.v <= store.version
    BY <1>1, <1>2, <1>5, <2>1 DEF Alone, Place
  <2> QED
    BY <1>5, <2>1, <2>2, <2>3, MoveKeeps
<1>6. ASSUME NEW texts \in Build, OpenStore(p, texts) PROVE MigrationInv(d)'
  <2>1. PICK o \in Place : o = [at |-> "ledger", texts |-> texts, v |-> store.version]
    BY <1>1 DEF Place, Step, Inherits
  <2>2. Sound(o, d)
    BY <1>1, <1>6, <2>1 DEF OpenStore, Sound, Inherits, Recorded
  <2>3. o.v <= store.version
    BY <1>1, <2>1 DEF Inherits
  <2> QED
    BY <1>6, <2>1, <2>2, <2>3, MoveKeeps DEF OpenStore
<1>7. CASE ensureLedger(p)
  <2>1. CASE opener[p].v = 0 \/ DOMAIN store.ledger # {}
    <3>1. Sound([opener[p] EXCEPT !.at = "verify"], d)
      BY <1>2, <1>7, <2>1 DEF Sound, Place, ensureLedger, OpenerAt
    <3> QED
      BY <1>5, <1>7, <2>1, <3>1 DEF ensureLedger, OpenerAt, Step
  <2>2. CASE ~(opener[p].v = 0 \/ DOMAIN store.ledger # {})
    <3>1. Sound([opener[p] EXCEPT !.at = "backfill"], d)
      BY <1>2, <1>7, <2>2 DEF Sound, Place, ensureLedger, OpenerAt
    <3> QED
      BY <1>5, <1>7, <2>2, <3>1 DEF ensureLedger, OpenerAt, Step
  <2> QED
    BY <2>1, <2>2
<1>8. CASE Verify(p)
  <2> DEFINE o == opener[p]
  <2>a. o.at = "verify" /\ UNCHANGED <<store, met>>
    BY <1>8 DEF Verify, OpenerAt
  <2>1. CASE ~verifyLedger(store, o.texts, o.v)
    BY <1>4, <1>8, <2>1 DEF Verify
  <2>2. CASE verifyLedger(store, o.texts, o.v)
    <3>1. /\ o.texts \in Build /\ d.version <= o.v /\ o.v <= Len(o.texts) /\ o.v \in Nat
          /\ \A v \in d.version + 1 .. o.v : v \in DOMAIN store.ledger /\ store.ledger[v] # None
          /\ DOMAIN store.ledger # {} \/ o.v = 0
      BY <1>2, <2>a DEF Sound, Place
    <3>2. verifyLedger(d, o.texts, d.version)
      <4> SUFFICES ASSUME NEW v \in DOMAIN d.ledger, v <= d.version, d.ledger[v] # None
                   PROVE  v <= Len(o.texts) /\ d.ledger[v] = o.texts[v]
        BY DEF verifyLedger
      <4>1. v \in 1 .. d.version
        BY <1>1
      <4>2. v \in DOMAIN store.ledger /\ store.ledger[v] = d.ledger[v]
        BY <1>1, <3>1, <4>1 DEF Inherits
      <4> QED
        BY <1>1, <2>2, <3>1, <4>1, <4>2 DEF verifyLedger
    <3>3. ASSUME NEW v \in d.version + 1 .. o.v PROVE Objects(o.texts[v]) \subseteq store.schema
      <4>1. v \in DOMAIN store.ledger /\ store.ledger[v] # None /\ v <= o.v
        BY <1>1, <3>1
      <4>2. store.ledger[v] = o.texts[v]
        BY <2>2, <4>1 DEF verifyLedger
      <4> QED
        BY <1>1, <4>1, <4>2 DEF Inherits
    <3>4. Sound([opener[p] EXCEPT !.at = "apply"], d)
      BY <1>2, <3>1, <3>2, <3>3 DEF Sound, Place
    <3> QED
      BY <1>5, <1>8, <2>a, <2>2, <3>4 DEF Verify, Step
  <2> QED
    BY <2>1, <2>2
<1>9. CASE Opened(p)
  <2>1. /\ opener[p].at = "apply" /\ opener[p].v >= Len(opener[p].texts)
        /\ opener[p].v <= Len(opener[p].texts) /\ opener[p].texts \in Build /\ opener[p].v \in Nat
    BY <1>2, <1>9 DEF Opened, OpenerAt, Sound, Place
  <2>2. opener[p].v = Len(opener[p].texts)
    BY <2>1, BuildTyped
  <2>3. Sound([opener[p] EXCEPT !.at = "open"], d)
    BY <1>2, <2>1, <2>2 DEF Sound, Place
  <2> QED
    BY <1>5, <1>9, <2>1, <2>3 DEF Opened, Step
<1>10. CASE CloseStore(p) \/ Dies(p)
  BY <1>4, <1>10 DEF CloseStore, Dies
<1> QED
  BY <1>6, <1>7, <1>8, <1>9, <1>10

\* Nothing that a process has read or verified is taken back.
LEMMA SoundStays ==
  ASSUME NEW d, \A p \in Opener : Sound(opener[p], d), DOMAIN store.ledger \subseteq DOMAIN store'.ledger,
         \A v \in DOMAIN store.ledger : store.ledger[v] # None => store'.ledger[v] # None,
         store.schema \subseteq store'.schema, NEW p \in Opener, opener'[p] = opener[p]
  PROVE  Sound(opener[p], d)'
  BY DEF Sound

LEMMA BackfillKeeps ==
  ASSUME NEW d \in Inherited, MigrationInv(d), NEW p \in Opener, Backfill(p)
  PROVE  MigrationInv(d)'
<1>1. /\ Inherits(d) /\ Follows(d) /\ Recorded(d) /\ Alone /\ d.version \in Nat
      /\ DOMAIN d.ledger \in {{}, 1 .. d.version}
  BY InheritedTyped DEF MigrationInv
<1> DEFINE o == opener[p]
<1>2. /\ opener \in [Opener -> Place] /\ o \in Place /\ Sound(o, d) /\ o.at = "backfill" /\ o.v \in Nat
      /\ d.version <= o.v /\ o.v > 0
  BY <1>1 DEF Follows, Backfill, OpenerAt, Sound, Place
<1>3. /\ store'.version = store.version /\ store'.schema = store.schema /\ met' = met
      /\ store' = [version |-> store'.version, schema |-> store'.schema, ledger |-> store'.ledger]
      /\ DOMAIN store'.ledger = DOMAIN store.ledger \union 1 .. o.v
      /\ \A v \in DOMAIN store.ledger : store'.ledger[v] = store.ledger[v]
      /\ \A v \in 1 .. o.v : v \notin DOMAIN store.ledger => store'.ledger[v] = None
  BY <1>1 DEF Backfill, Inherits
<1>4. opener' = [opener EXCEPT ![p].at = "verify"]
  BY DEF Backfill, GoesTo
<1>5. 1 \in DOMAIN store'.ledger
  BY <1>2, <1>3
<1>a. DOMAIN store.ledger = {} => o.v = d.version /\ store.version = d.version /\ DOMAIN d.ledger = {}
  BY <1>1, <1>2 DEF Inherits, Sound
<1>b. DOMAIN store.ledger # {} => DOMAIN store'.ledger = DOMAIN store.ledger
  <2> SUFFICES ASSUME DOMAIN store.ledger # {}, NEW v \in 1 .. o.v PROVE v \in DOMAIN store.ledger
    BY <1>3
  <2>1. v \in 1 .. d.version \/ v \in d.version + 1 .. o.v
    BY <1>1, <1>2
  <2> QED
    BY <1>1, <1>2, <2>1 DEF Inherits, Sound
<1>6. Inherits(d)'
  <2>1. ASSUME NEW v \in 1 .. d.version
        PROVE  /\ v \in DOMAIN store'.ledger
               /\ store'.ledger[v] = IF v \in DOMAIN d.ledger THEN d.ledger[v] ELSE None
    <3>1. CASE DOMAIN store.ledger # {}
      BY <1>1, <1>3, <2>1, <3>1 DEF Inherits
    <3>2. CASE DOMAIN store.ledger = {}
      BY <1>1, <1>3, <1>a, <2>1, <3>2
    <3> QED
      BY <3>1, <3>2
  <2>2. ASSUME NEW v \in DOMAIN store'.ledger, store'.ledger[v] # None
        PROVE  Objects(store'.ledger[v]) \subseteq store'.schema
    BY <1>1, <1>3, <2>2 DEF Inherits
  <2> QED
    BY <1>1, <1>3, <1>5, <2>1, <2>2 DEF Inherits
<1>7. Follows(d)'
  <2>1. /\ opener' \in [Opener -> Place]
        /\ \A q \in Opener : opener'[q] = IF q = p THEN [o EXCEPT !.at = "verify"] ELSE opener[q]
    BY <1>2, <1>4 DEF Place, Step
  <2>2. Sound(opener[p], d)'
    <3>1. /\ o.texts \in Build /\ o.v <= Len(o.texts)
          /\ \A v \in d.version + 1 .. o.v : v \in DOMAIN store.ledger /\ store.ledger[v] # None
      BY <1>2 DEF Sound
    <3>2. /\ opener'[p].at = "verify" /\ opener'[p].texts = o.texts /\ opener'[p].v = o.v
      BY <1>2, <2>1 DEF Place
    <3> QED
      BY <1>2, <1>3, <1>5, <3>1, <3>2 DEF Sound
  <2>3. ASSUME NEW q \in Opener PROVE Sound(opener[q], d)'
    <3>1. CASE q # p
      BY <1>1, <1>3, <2>1, <3>1, SoundStays DEF Follows
    <3>2. CASE q = p
      BY <2>2, <3>2
    <3> QED
      BY <3>1, <3>2
  <2> QED
    BY <2>1, <2>3 DEF Follows
<1>8. Recorded(d)'
  BY <1>1, <1>3 DEF Recorded
<1>9. Alone'
  <2>1. ASSUME ~met PROVE DOMAIN store'.ledger \in {{}, 1 .. store'.version}
    BY <1>1, <1>3, <1>a, <1>b, <2>1 DEF Alone
  <2>2. ASSUME ~met, NEW q \in Opener, opener'[q].at # "closed" PROVE opener'[q].v <= store'.version
    BY <1>1, <1>2, <1>3, <1>4, <2>2 DEF Alone, Place
  <2>3. Opens(store) => Opens(store')
    BY <1>3 DEF Opens, verifyLedger
  <2> QED
    BY <1>1, <1>3, <2>1, <2>2, <2>3 DEF Alone
<1> QED
  BY <1>6, <1>7, <1>8, <1>9 DEF MigrationInv

LEMMA ApplyKeeps ==
  ASSUME NEW d \in Inherited, MigrationInv(d), NEW p \in Opener, applyMigration(p)
  PROVE  MigrationInv(d)'
<1>1. /\ Inherits(d) /\ Follows(d) /\ Recorded(d) /\ Alone /\ d.version \in Nat
      /\ DOMAIN d.ledger \in {{}, 1 .. d.version} /\ store.version \in Nat
  BY InheritedTyped DEF MigrationInv, Inherits
<1> DEFINE o == opener[p]
           w == o.v + 1
<1>2. /\ opener \in [Opener -> Place] /\ o \in Place /\ Sound(o, d) /\ o.at = "apply" /\ o.v \in Nat
      /\ d.version <= o.v /\ o.texts \in Build /\ o.v <= Len(o.texts)
      /\ \A v \in d.version + 1 .. o.v : v \in DOMAIN store.ledger /\ store.ledger[v] # None
      /\ DOMAIN store.ledger # {} \/ o.v = 0
      /\ verifyLedger(d, o.texts, d.version)
      /\ \A v \in d.version + 1 .. o.v : Objects(o.texts[v]) \subseteq store.schema
  BY <1>1 DEF Follows, applyMigration, OpenerAt, Sound, Place
<1>3. w <= Len(o.texts)
  BY DEF applyMigration
<1>b. ~met' => ~met /\ store.version = w - 1
  <2>1. met' = (met \/ store.version # w - 1)
    BY DEF applyMigration
  <2> HIDE DEF w
  <2> QED
    BY <2>1, Zenon
<1>4. o.texts[w] # None /\ w \in Nat
  BY <1>2, <1>3, BuildTyped
<1>5. CASE OpenFails(p) /\ UNCHANGED store
  <2>1. Inherits(d)' /\ Recorded(d)'
    BY <1>1, <1>5 DEF Inherits, Recorded
  <2>2. /\ opener' \in [Opener -> Place] /\ opener'[p] = NotOpen
        /\ \A q \in Opener \ {p} : opener'[q] = opener[q]
    BY <1>2, <1>5 DEF OpenFails, NotOpen, Place, Step
  <2>3. ASSUME NEW q \in Opener PROVE Sound(opener[q], d)'
    <3>1. CASE q # p
      BY <1>1, <1>5, <2>2, <3>1, SoundStays DEF Follows
    <3>2. CASE q = p
      BY <2>2, <3>2 DEF Sound, NotOpen
    <3> QED
      BY <3>1, <3>2
  <2>4. Alone'
    <3>1. Opens(store)' <=> Opens(store)
      BY <1>5 DEF Opens
    <3> QED
      BY <1>1, <1>b, <1>5, <2>2, <3>1 DEF Alone, NotOpen
  <2> QED
    BY <2>1, <2>2, <2>3, <2>4 DEF MigrationInv, Follows
<1>6. CASE store' = Migrated(store, o.texts, w) /\ opener' = [opener EXCEPT ![p].v = w]
  <2>1. /\ store'.version = w /\ store'.schema = store.schema \union Objects(o.texts[w])
        /\ store' = [version |-> store'.version, schema |-> store'.schema, ledger |-> store'.ledger]
        /\ DOMAIN store'.ledger = DOMAIN store.ledger \union {w} /\ store'.ledger[w] = o.texts[w]
        /\ \A v \in DOMAIN store.ledger : v # w => store'.ledger[v] = store.ledger[v]
    BY <1>6 DEF Migrated
  <2>2. Inherits(d)'
    <3>1. ASSUME NEW v \in 1 .. d.version
          PROVE  /\ v \in DOMAIN store'.ledger
                 /\ store'.ledger[v] = IF v \in DOMAIN d.ledger THEN d.ledger[v] ELSE None
      <4>1. v # w /\ o.v # 0
        BY <1>1, <1>2
      <4> QED
        BY <1>1, <1>2, <2>1, <4>1 DEF Inherits
    <3>2. ASSUME NEW v \in DOMAIN store'.ledger, store'.ledger[v] # None
          PROVE  Objects(store'.ledger[v]) \subseteq store'.schema
      <4>1. CASE v = w
        BY <2>1, <4>1
      <4>2. CASE v # w
        <5>1. v \in DOMAIN store.ledger /\ store'.ledger[v] = store.ledger[v]
          BY <2>1, <4>2
        <5> QED
          BY <1>1, <2>1, <3>2, <5>1 DEF Inherits
      <4> QED
        BY <4>1, <4>2
    <3>3. store'.version \in Nat /\ d.version <= store'.version /\ DOMAIN store'.ledger # {}
      BY <1>1, <1>2, <1>4, <2>1
    <3>4. d.schema \subseteq store'.schema /\ DOMAIN d.ledger \subseteq DOMAIN store'.ledger
      BY <1>1, <2>1 DEF Inherits
    <3> QED
      BY <2>1, <3>1, <3>2, <3>3, <3>4 DEF Inherits
  <2>3. /\ opener' \in [Opener -> Place] /\ opener'[p].at = o.at /\ opener'[p].texts = o.texts /\ opener'[p].v = w
        /\ \A q \in Opener \ {p} : opener'[q] = opener[q]
    BY <1>2, <1>4, <1>6 DEF Place
  <2>4. \A v \in DOMAIN store.ledger : store.ledger[v] # None => store'.ledger[v] # None
    BY <1>4, <2>1
  <2>5. ASSUME NEW v \in d.version + 1 .. w
        PROVE  v \in DOMAIN store'.ledger /\ store'.ledger[v] # None /\ Objects(o.texts[v]) \subseteq store'.schema
    <3>1. CASE v = w
      BY <1>4, <2>1, <3>1
    <3>2. CASE v # w
      <4>1. v \in d.version + 1 .. o.v
        BY <1>1, <1>2, <3>2
      <4> QED
        BY <1>2, <2>1, <2>4, <4>1
    <3> QED
      BY <3>1, <3>2
  <2>6. Recorded(d)'
    BY <2>1, <2>5 DEF Recorded
  <2>7. ASSUME NEW q \in Opener PROVE Sound(opener[q], d)'
    <3>1. CASE q # p
      BY <1>1, <2>1, <2>3, <2>4, <3>1, SoundStays DEF Follows
    <3>2. CASE q = p
      <4>1. d.version <= w /\ DOMAIN store'.ledger # {}
        BY <1>1, <1>2, <2>1
      <4>2. Sound(opener[p], d)'
        BY <1>2, <1>3, <2>3, <2>5, <4>1 DEF Sound
      <4> QED
        BY <3>2, <4>2
    <3> QED
      BY <3>1, <3>2
  <2>8. ASSUME ~met'
        PROVE  /\ DOMAIN store'.ledger \in {{}, 1 .. store'.version}
               /\ \A q \in Opener : opener'[q].at # "closed" => opener'[q].v <= store'.version
               /\ Opens(store')
    <3>1. ~met /\ store.version = o.v
      BY <1>2, <1>b, <2>8
    <3>2. /\ DOMAIN store.ledger \in {{}, 1 .. store.version} /\ Opens(store)
          /\ \A q \in Opener : opener[q].at # "closed" => opener[q].v <= store.version
      BY <1>1, <3>1 DEF Alone
    <3>3. DOMAIN store'.ledger = 1 .. w
      <4>1. DOMAIN store.ledger = 1 .. o.v
        BY <1>2, <3>1, <3>2
      <4> QED
        BY <1>2, <2>1, <4>1
    <3>4. ASSUME NEW q \in Opener, opener'[q].at # "closed" PROVE opener'[q].v <= store'.version
      <4>1. CASE q = p
        BY <1>4, <2>1, <2>3, <4>1
      <4>2. CASE q # p
        <5>1. opener'[q] = opener[q] /\ opener[q].v <= o.v /\ opener[q] \in Place
          BY <1>2, <2>3, <3>1, <3>2, <3>4, <4>2
        <5> QED
          BY <1>2, <2>1, <5>1 DEF Place
      <4> QED
        BY <4>1, <4>2
    <3>5. DOMAIN store.ledger \subseteq Nat
      BY <1>1, <3>2
    <3>6. Opens(Migrated(store, o.texts, store.version + 1))
      BY <1>1, <1>2, <1>3, <3>1, <3>2, <3>5, MigratedOpens
    <3> QED
      BY <1>6, <2>1, <3>1, <3>3, <3>4, <3>6
  <2>9. Alone'
    BY <2>8 DEF Alone
  <2> QED
    BY <2>2, <2>3, <2>6, <2>7, <2>9 DEF MigrationInv, Follows
<1> QED
  BY <1>5, <1>6 DEF applyMigration

LEMMA NextMigrations ==
  ASSUME NEW d \in Inherited, MigrationInv(d), [MigrationsNext]_migrationVars
  PROVE  MigrationInv(d)'
<1>1. ASSUME NEW p \in Opener,
             \/ \E texts \in Build : OpenStore(p, texts)
             \/ ensureLedger(p) \/ Verify(p) \/ Opened(p) \/ CloseStore(p) \/ Dies(p)
      PROVE  MigrationInv(d)'
  BY <1>1, MovesKeep
<1>2. ASSUME NEW p \in Opener, Backfill(p) \/ applyMigration(p) PROVE MigrationInv(d)'
  BY <1>2, BackfillKeeps, ApplyKeeps
<1>3. CASE UNCHANGED migrationVars
  BY <1>3 DEF migrationVars, MigrationInv, Inherits, Follows, Sound, Recorded, Alone, Opens
<1> QED
  BY <1>1, <1>2, <1>3 DEF MigrationsNext

LEMMA SchemaFollows == ASSUME NEW d \in Inherited, MigrationInv(d) PROVE SchemaHolds
<1>1. /\ Inherits(d) /\ Follows(d) /\ Alone /\ d.version \in Nat /\ DOMAIN d.ledger \in {{}, 1 .. d.version}
      /\ \A v \in DOMAIN d.ledger : d.ledger[v] # None => Objects(d.ledger[v]) \subseteq d.schema
  BY InheritedTyped DEF MigrationInv
<1>2. ASSUME NEW p \in Opener, OpenerAt(p, "open"), NEW v \in 1 .. Len(opener[p].texts),
             opener[p].texts = Shipped \/ store.ledger[v] # None
      PROVE  Objects(opener[p].texts[v]) \subseteq store.schema
  <2> DEFINE o == opener[p]
             n == Len(o.texts)
  <2>1. /\ o.v = n /\ n \in Nat /\ d.version <= n /\ verifyLedger(d, o.texts, d.version)
        /\ \A u \in d.version + 1 .. n : Objects(o.texts[u]) \subseteq store.schema
        /\ DOMAIN store.ledger # {} \/ n = 0
    BY <1>1, <1>2 DEF Follows, Sound, OpenerAt, Place
  <2>2. CASE v > d.version
    BY <1>1, <2>1, <2>2
  <2>3. CASE v \in 1 .. d.version /\ o.texts = Shipped
    <3>1. Objects(Shipped[v]) \subseteq d.schema \union Due(d.version, Len(Shipped))
      BY <2>1, <2>3, InheritedAssumption
    <3>2. Due(d.version, Len(Shipped)) \subseteq store.schema
      BY <2>1, <2>3 DEF Due
    <3> QED
      BY <1>1, <2>3, <3>1, <3>2 DEF Inherits
  <2>4. CASE v \in 1 .. d.version /\ store.ledger[v] # None
    <3>1. v \in DOMAIN store.ledger /\ store.ledger[v] = IF v \in DOMAIN d.ledger THEN d.ledger[v] ELSE None
      BY <1>1, <2>1, <2>4 DEF Inherits
    <3>2. v \in DOMAIN d.ledger /\ d.ledger[v] # None /\ v <= d.version
      BY <2>4, <3>1
    <3>3. d.ledger[v] = o.texts[v]
      BY <2>1, <3>2 DEF verifyLedger
    <3> QED
      BY <1>1, <3>2, <3>3 DEF Inherits
  <2> QED
    BY <1>1, <1>2, <2>1, <2>2, <2>3, <2>4
<1>3. SchemaIsWhole
  BY <1>1, <1>2 DEF SchemaIsWhole, Inherits, Alone
<1>4. StaysOpenable
  BY <1>1 DEF StaysOpenable, Alone
<1> QED
  BY <1>3, <1>4 DEF SchemaHolds

\* Whoever has the database open finds the whole schema of its build in it, the
\* ledger names what ran, and unless two processes migrated at once the newest build
\* can go on: for any builds, inherited databases, processes and deaths.
\* (internal/store/migrations.go.)
THEOREM SchemaKept == MigrationsSpec => []SchemaHolds
<1>1. MigrationsInit => \E d \in Inherited : MigrationInv(d)
  BY InitMigrations
<1>2. (\E d \in Inherited : MigrationInv(d)) /\ [MigrationsNext]_migrationVars => (\E d \in Inherited : MigrationInv(d))'
  <2> SUFFICES ASSUME NEW d \in Inherited, MigrationInv(d), [MigrationsNext]_migrationVars
               PROVE  \E e \in Inherited : MigrationInv(e)'
    OBVIOUS
  <2> QED
    BY NextMigrations
<1>3. (\E d \in Inherited : MigrationInv(d)) => SchemaHolds
  BY SchemaFollows
<1> QED
  BY <1>1, <1>2, <1>3, PTL DEF MigrationsSpec
=============================================================================
