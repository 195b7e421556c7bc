-------------------------------- MODULE Embed --------------------------------
(***************************************************************************)
(* The semantic index (internal/embed, internal/store/vector.go) and the   *)
(* client it calls (internal/llm/holder.go).  A run works under the name   *)
(* of the embedding model that was configured when it began; the client is *)
(* the one configured when it is called.                                   *)
(***************************************************************************)
EXTENDS Archive, TLC

CONSTANTS
  Indexer,    \* processes that index
  Server,     \* the one whose client Settings replaces while it runs
  EmbedModel, \* embedding models
  Unnamed,    \* no embedding model configured
  BatchSize,  \* messages per request
  Store0,     \* the archives an instance begins with
  MaxIndexings,  \* bound: runs
  MaxChanges     \* bound: imports, faults and changes of the settings together

ASSUME EmbedAssumption ==
  /\ Server \in Indexer
  /\ Unnamed \notin EmbedModel
  /\ BatchSize \in Nat \ {0}
  /\ Store0 \subseteq SUBSET Msg

VARIABLES
  settings0,  \* the configuration file's embedding model
  holder,     \* the model of each process's client
  vectors,    \* embeddings: the message, the model recorded, the model that made it
  erun,       \* each process's run
  changes     \* what the bounds count

embedVars == <<messages, settings0, holder, vectors, erun, changes>>

Rest == [pc |-> "idle", model |-> Unnamed, batches |-> 0, batch |-> {}, by |-> Unnamed]

\* MessagesNeedingEmbedding, newest first; CountMissingEmbeddings.
Missing(model) ==
  {m \in Real(messages) : ~\E v \in vectors : v.msg = m /\ v.model = model}
Batch(S) == {m \in S : Cardinality({n \in S : n > m}) < BatchSize}

EmbedStart ==
  /\ settings0 \in EmbedModel
  /\ holder = [p \in Indexer |-> settings0]
  /\ vectors = {}
  /\ erun = [p \in Indexer |-> Rest]
  /\ changes = [runs |-> 0, changes |-> 0]

EmbedInit == messages \in Store0 /\ EmbedStart

Moves(p, e) == erun' = [erun EXCEPT ![p] = e @@ @]
Spends(what, max) ==
  /\ changes[what] < max
  /\ changes' = [changes EXCEPT ![what] = @ + 1]

\* A build, with a reset or not; none without a model.  The CLI takes its
\* client and its model from the file.
StartEmbed(p) ==
  /\ erun[p].pc = "idle"
  /\ Spends("runs", MaxIndexings)
  /\ holder' = IF p = Server THEN holder ELSE [holder EXCEPT ![p] = settings0]
  /\ holder'[p] # Unnamed
  /\ \E pc \in {"reset", "prune"} : Moves(p, [pc |-> pc, model |-> holder'[p]])
  /\ UNCHANGED <<messages, settings0, vectors>>

\* ResetEmbeddings: all vectors, of every model, and the run log.
ResetEmbeddings(p) ==
  /\ erun[p].pc = "reset"
  /\ vectors' = {}
  /\ Moves(p, [pc |-> "prune"])
  /\ UNCHANGED <<messages, settings0, holder, changes>>

PruneOrphans(p) ==
  /\ erun[p].pc = "prune"
  /\ vectors' = {v \in vectors : v.msg \in messages}
  /\ Moves(p, [pc |-> "count"])
  /\ UNCHANGED <<messages, settings0, holder, changes>>

\* The number of batches is limited by what is missing now.
CountMissing(p) ==
  /\ erun[p].pc = "count"
  /\ LET total == Cardinality(Missing(erun[p].model))
     IN IF total = 0 THEN erun' = [erun EXCEPT ![p] = Rest]
        ELSE Moves(p, [pc |-> "next", batches |-> total \div BatchSize + 2])
  /\ UNCHANGED <<messages, settings0, holder, vectors, changes>>

\* Out of batches, the run ends with an error; out of messages, without.
NextBatch(p) ==
  /\ erun[p].pc = "next"
  /\ LET targets == Batch(Missing(erun[p].model))
     IN IF erun[p].batches = 0 \/ targets = {}
        THEN erun' = [erun EXCEPT ![p] = Rest]
        ELSE Moves(p, [pc |-> "embed", batch |-> targets])
  /\ UNCHANGED <<messages, settings0, holder, vectors, changes>>

\* client.Embed: the holder's client of this moment, with its own model.
CallEmbed(p) ==
  /\ erun[p].pc = "embed"
  /\ IF holder[p] = Unnamed
     THEN erun' = [erun EXCEPT ![p] = Rest]
     ELSE Moves(p, [pc |-> "store", by |-> holder[p]])
  /\ UNCHANGED <<messages, settings0, holder, vectors, changes>>

\* PutEmbedding, one message after the other, under the model of the run.
PutEmbedding(p) ==
  /\ erun[p].pc = "store"
  /\ LET m == Greatest(erun[p].batch)
         r == erun[p]
     IN /\ vectors' = {v \in vectors : v.msg # m \/ v.model # r.model}
                      \union {[msg |-> m, model |-> r.model, by |-> r.by]}
        /\ IF r.batch = {m}
           THEN Moves(p, [pc |-> "next", batch |-> {}, by |-> Unnamed,
                          batches |-> r.batches - 1])
           ELSE Moves(p, [batch |-> r.batch \ {m}])
  /\ UNCHANGED <<messages, settings0, holder, changes>>

\* A refused request, a cancellation, a kill or an error of the store.
EmbedFails(p) ==
  /\ erun[p].pc # "idle"
  /\ Spends("changes", MaxChanges)
  /\ erun' = [erun EXCEPT ![p] = Rest]
  /\ UNCHANGED <<messages, settings0, holder, vectors>>

\* ApplyLLM: the file, and then the server's client.
ApplyLLM ==
  /\ Spends("changes", MaxChanges)
  /\ settings0' \in (EmbedModel \union {Unnamed}) \ {settings0}
  /\ holder' = [holder EXCEPT ![Server] = settings0']
  /\ UNCHANGED <<messages, vectors, erun>>

ImportConv ==
  /\ Spends("changes", MaxChanges)
  /\ \E c \in Conv : \E S \in SUBSET {m \in Msg : ConvOf[m] = c} :
       S # Within(c) /\ Replace(c, S)
  /\ UNCHANGED <<settings0, holder, vectors, erun>>

EmbedStep(p) ==
  \/ ResetEmbeddings(p) \/ PruneOrphans(p) \/ CountMissing(p) \/ NextBatch(p)
  \/ CallEmbed(p) \/ PutEmbedding(p)

EmbedNext ==
  \/ \E p \in Indexer : StartEmbed(p) \/ EmbedStep(p) \/ EmbedFails(p)
  \/ ApplyLLM \/ ImportConv

EmbedFairness == \A p \in Indexer : WF_embedVars(EmbedStep(p))

EmbedSpec == EmbedInit /\ [][EmbedNext]_embedVars /\ EmbedFairness

----------------------------------------------------------------------------
(* Properties *)

EmbedTypeOK ==
  /\ vectors \subseteq [msg : Msg, model : EmbedModel, by : EmbedModel]
  /\ \A p \in Indexer : erun[p].batch \subseteq Msg

EmbedRunsEnd == \A p \in Indexer : []<>(erun[p].pc = "idle")
=============================================================================
