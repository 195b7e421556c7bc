------------------------------ MODULE MCServer -------------------------------
(***************************************************************************)
(* What the server itself keeps: the devices its archives are shared with, *)
(* the Setup page, the settings, and the schema of the database it opens.  *)
(* A behaviour is about one of them, its part; the variables of the others *)
(* keep one initial value.                                                 *)
(***************************************************************************)
EXTENDS MCPairing, MCMigrations, Setup, MCSettings

CONSTANT Part  \* the parts an instance has

ASSUME PartAssumption == Part \subseteq {"pairing", "setup", "migrations", "settings"}

\* Setup: a source that is not there, or behind a sealed key, and one that is ready.
Disk(exists, key, open) == [there |-> exists, key |-> key, opens |-> open]
MCMachine == "signal" :> {Disk(FALSE, "absent", FALSE), Disk(TRUE, "sealed", FALSE), Disk(TRUE, "sealed", TRUE)}
             @@ "imessage" :> {Disk(TRUE, "plain", TRUE)}

VARIABLE part

serverVars == <<part, vars, setupVars, migrationVars, settingsVars>>

ServerInit ==
  /\ part \in Part
  /\ Init /\ SetupInit /\ MigrationsInit /\ SettingsInit
  /\ part # "pairing" => roots = {}
  /\ part # "setup" => disk["signal"].opens
  /\ replicas = {}
  /\ part # "migrations" => store.version = 0
  /\ part # "settings" => envKey = None /\ file.llm = None

pairingOnly    == UNCHANGED <<setupVars, migrationVars, settingsVars>>
setupOnly      == UNCHANGED <<vars, migrationVars, settingsVars>>
migrationsOnly == UNCHANGED <<vars, setupVars, settingsVars>>
settingsOnly   == UNCHANGED <<vars, setupVars, migrationVars>>

ServerNext ==
  /\ part' = part
  /\ \/ part = "pairing" /\ Next /\ pairingOnly
     \/ part = "setup" /\ SetupNext /\ setupOnly
     \/ part = "migrations" /\ MigrationsNext /\ migrationsOnly
     \/ part = "settings" /\ SettingsNext /\ settingsOnly

ServerSpec == ServerInit /\ [][ServerNext]_serverVars

\* The variables of the part that moves have their types.
ServerTypeOK ==
  /\ part = "pairing" => TypeOK
  /\ part = "setup" => SetupTypeOK
  /\ part = "settings" => SettingsTypeOK
=============================================================================
