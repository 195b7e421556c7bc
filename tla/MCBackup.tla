------------------------------ MODULE MCBackup ------------------------------
(* Instances of Backup for TLC.                                            *)
EXTENDS Backup, TLC

CONSTANTS serve, cli

ServeOnly   == {serve}
ServeAndCli == {serve, cli}

\* Every tier keeps one; a tier is a second long.
KeepOne  == [t \in Tier |-> 1]
Horizons == ("daily" :> 0) @@ ("monthly" :> 1) @@ ("quarterly" :> 2)
=============================================================================
