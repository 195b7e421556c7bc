----------------------------- MODULE MCSettings ------------------------------
(* Instances of Settings for TLC.                                          *)
EXTENDS Settings, TLC

CONSTANTS near, far, m1, m2, odd, typed, env, here, there

Filled(url, embed, chat, key, clear) ==
  [url |-> url, embed |-> embed, chat |-> chat, key |-> key, clear |-> clear]

\* A file that names a model nobody lists, and no file.
Block == [url |-> near, embed |-> odd, chat |-> m1, key |-> Off]
MCDefault == [llm |-> [url |-> near, embed |-> m1, chat |-> m1, key |-> Off],
              backups |-> [dir |-> here, keep |-> 1]]
MCStored  == {[llm |-> Block, backups |-> None], [llm |-> None, backups |-> None]}
MCListing == near :> {m1} @@ far :> {m1, m2}
\* Both selects disabled; a model of the other endpoint; one nobody lists, with a
\* key; no endpoint; a key to be cleared.
MCForm == {Filled(far, None, None, Off, FALSE), Filled(far, m1, m2, Off, FALSE),
           Filled(near, Off, odd, Off, FALSE), Filled(Off, None, None, Off, FALSE),
           Filled(near, m1, None, typed, FALSE), Filled(near, None, m1, typed, TRUE)}
MCPlan == {[dir |-> here, keep |-> 2], [dir |-> there, keep |-> 1]}
=============================================================================
